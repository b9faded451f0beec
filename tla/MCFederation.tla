---------------------------- MODULE MCFederation ----------------------------
(* Instances of Federation for TLC. *)
EXTENDS Federation, TLC

CONSTANTS t1, t2, u1, u2, g1, l1, l2, w1, n1, p1, idp, x1, s1, s2

Symmetry == Permutations(UserIds) \cup Permutations(Patchers) \cup Permutations(Tenants)
            \cup Permutations(Logins) \cup Permutations(Socials)
====
