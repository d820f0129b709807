-------------------------- MODULE MCOspfAdjacency --------------------------
(* Instances of OspfAdjacency for TLC. *)
EXTENDS OspfAdjacency

CONSTANTS l1, l2

TwoParts == << {l1}, {l2} >>
SecondEmpty == << {l1, l2}, {} >>
LastOne == {l2}
=============================================================================
