------------------------------ MODULE MCLogin ------------------------------
(* Instances of Login for TLC. *)
EXTENDS Login, TLC

\* Accounts, requests, devices and secrets are interchangeable.
Symmetry ==
  Permutations(Accounts) \cup Permutations(Requests) \cup Permutations(DeviceIds)
    \cup Permutations(Identifiers) \cup Permutations(TotpSecrets)
====
