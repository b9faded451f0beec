---------------------------- MODULE MCConnectors ----------------------------
(* Instances of Connectors for TLC. *)
EXTENDS Connectors, TLC

CONSTANTS t1, t2, n1, i1, i2, r1, r2, k1, w1, w2

Symmetry == Permutations(Tenants) \cup Permutations(Ids) \cup Permutations(Requests) \cup Permutations(Workers)
====
