---------------------------- MODULE MCConnCache ----------------------------
(* ConnCache on a small instance: two user mappings of one server, so that
   an ALTER SERVER reaches both entries. *)
EXTENDS ConnCache, TLC

CONSTANTS m1, m2, s1, c1, c2, c3, h1, h2, h3

MCMappings == {m1, m2}
MCServers == {s1}
MCServerOf == [m \in MCMappings |-> s1]

Symmetry == Permutations(MCMappings) \cup Permutations(Conns)
                \cup Permutations(Holders)
=============================================================================
