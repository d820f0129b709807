--------------------------- MODULE MCBGPSpeakers ---------------------------
(***************************************************************************)
(* Values for the constants of BGPSpeakers: one speaker, or two of which   *)
(* the second has peer p2.                                                 *)
(***************************************************************************)
EXTENDS BGPSpeakers

CONSTANTS p1, p2, s1, s2

MCOne == << s1 >>
MCTwo == << s1, s2 >>
MCOfOne == [p \in Peers |-> s1]
MCOfTwo == [p \in Peers |-> IF p = p2 THEN s2 ELSE s1]
Bound(m, n) == [p \in Peers |-> IF p = p1 THEN m ELSE n]
Bound00 == Bound(0, 0)
Bound11 == Bound(1, 1)
Bound10 == Bound(1, 0)
Bound20 == Bound(2, 0)
Bound22 == Bound(2, 2)
=============================================================================
