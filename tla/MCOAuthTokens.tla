--------------------------- MODULE MCOAuthTokens ---------------------------
(* Instances of OAuthTokens for TLC. *)
EXTENDS OAuthTokens, TLC

CONSTANTS t1, t2, c1, c2, u1, u2, s1, s2, v1, v2, k1, k2, a1, a2, f1, f2, f3, f4, r1, r2, sec1

MCS256 == [v \in Verifiers |-> IF v = v1 THEN k1 ELSE k2]

Public(redirects, scopes) ==
  [type |-> "public", redirects |-> redirects, scopes |-> scopes, secret |-> sec1]

OnePublic == {Public({u1}, {s1})}

NoUpdates == {}

\* An administrator makes a client confidential and replaces its scopes.
Secure == {[type |-> "confidential", redirects |-> None, scopes |-> {s2}, secret |-> sec1]}

\* Requests, codes and tokens are interchangeable.
Symmetry == Permutations(Requests) \cup Permutations(CodeIds) \cup Permutations(TokenIds)
====
