-------------------------- MODULE MCRouteExchange --------------------------
(***************************************************************************)
(* Values for the constants of RouteExchange.  The AS of a peer is the     *)
(* peer itself; attribute a1 is preferred to the others.                   *)
(***************************************************************************)
EXTENDS RouteExchange

CONSTANTS p1, p2, p3, x1, x2, a1, a2, a3

MCAsns == {p1, p2, p3}
MCAsn == [p \in Peers |-> p]
\* a2 went through the AS of p2.
MCPathOf == [a \in Attrs |-> IF a = a2 THEN {p2} ELSE {}]
MCNoPath == [a \in Attrs |-> {}]
MCPrefOf == [a \in Attrs |-> IF a = a1 THEN 200 ELSE 100]
MCContains == {<<x, x>> : x \in Prefixes}
\* x1 is a supernet of x2.
MCNested == MCContains \cup {<<x1, x2>>}
MCAll == [p \in Peers |-> Attrs]
\* p2 does not export a2.
MCExportOk == [p \in Peers |-> IF p = p2 THEN Attrs \ {a2} ELSE Attrs]
\* p3 does not export a3.
MCThirdExportOk == [p \in Peers |-> IF p = p3 THEN Attrs \ {a3} ELSE Attrs]
\* p1 refuses a2.
MCImportOk == [p \in Peers |-> IF p = p1 THEN Attrs \ {a2} ELSE Attrs]
\* Bounds per neighbour: who changes its routes how often, who ends and opens
\* a session how often.
Bound(f1, f2, f3) == [p \in Peers |-> IF p = p1 THEN f1 ELSE IF p = p2 THEN f2 ELSE f3]
Bound000 == Bound(0, 0, 0)
Bound100 == Bound(1, 0, 0)
Bound110 == Bound(1, 1, 0)
Bound200 == Bound(2, 0, 0)
Bound300 == Bound(3, 0, 0)
=============================================================================
