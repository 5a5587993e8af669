-------------------------- MODULE MCScanLifecycle --------------------------
(* ScanLifecycle with one user mapping; the cfg says which holders are of
   which kind. *)
EXTENDS ScanLifecycle

CONSTANTS m1, s1, c1, c2, c3, h1, h2, h3

MCServerOf == (m1 :> s1)

Symmetry == Permutations(Conns)
=============================================================================
