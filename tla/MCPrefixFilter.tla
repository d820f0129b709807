---------------------------- MODULE MCPrefixFilter ----------------------------
(***************************************************************************)
(* Values for the constants of PrefixFilter: the four kinds of patterns    *)
(* that _parse_prefix knows.                                               *)
(***************************************************************************)
EXTENDS PrefixFilter

CONSTANTS v4, v6

MCRange(p, l, h) == [prefix |-> p, low |-> l, high |-> h]
MCExact(p) == MCRange(p, p.len, p.len)
MCSubnets(p) == MCRange(p, p.len, Width)
MCSupernets(p) == MCRange(p, 0, p.len)

MCAddresses == { p \in Nodes : p.family = v4 /\ (p.len > 0 => p.ip[1] = 0) }
MCDefault == [family |-> v6, ip |-> [i \in 1 .. Width |-> 0], len |-> 0]

MCPatterns ==
  { MCExact(p) : p \in MCAddresses } \cup { MCSubnets(p) : p \in MCAddresses }
  \cup { MCSupernets(p) : p \in MCAddresses }
  \cup { MCRange(p, l, h) : p \in { a \in MCAddresses : a.len = 2 }, l \in {1, 2}, h \in {2, 3} }
  \cup { MCSubnets(MCDefault) }
=============================================================================
