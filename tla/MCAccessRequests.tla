-------------------------- MODULE MCAccessRequests --------------------------
(* Instances of AccessRequests for TLC. *)
EXTENDS AccessRequests, TLC

CONSTANTS t1, t2, u1, u2, g1, g2, l1, w1, n1, n2, p1, q1, q2, app1, a1, a2

Symmetry == Permutations(UserIds) \cup Permutations(Approvals) \cup Permutations(RequestIds)
====
