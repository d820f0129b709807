-------------------------- MODULE MCSegmentRouting --------------------------
(***************************************************************************)
(* The values of the constants for the runs of SegmentRouting: p1 is a     *)
(* peer with PAR, h1 a head end, e1 and e2 are exits.                      *)
(***************************************************************************)
EXTENDS SegmentRouting

CONSTANTS h1, p1, e1, e2, m1, m2

MCOneModule == <<m1>>
MCTwoModules == <<m1, m2>>
MCHeadend == <<h1>>
MCNoHeadend == <<>>
=============================================================================
