--------------------------- MODULE MCOspfFlooding ---------------------------
(***************************************************************************)
(* Values for the constants of OspfFlooding.                               *)
(***************************************************************************)
EXTENDS OspfFlooding

CONSTANTS l1, l2

MCPackets == [lsa : Lsas, inst : 1 .. MaxInstances, flush : BOOLEAN]
=============================================================================
