----------------------------- MODULE MCConsole -----------------------------
(* Console, with two of everything that can interfere. *)
EXTENDS Console, TLC

CONSTANTS
  t1, t2,           \* tenants
  a1, a2,           \* ids
  g1, g2,           \* goroutines
  x1, x2, x3, x4    \* what is drawn

Symmetry == Permutations(Tenants) \cup Permutations({a1, a2}) \cup Permutations({g1, g2})
====
