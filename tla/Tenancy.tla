------------------------------ MODULE Tenancy ------------------------------
(* What the parts of WardSeal that are checked side by side have in common. *)

CONSTANTS
  Tenants,   \* tenant_id: every request names one, every row belongs to one
  None       \* an absent row, field or answer

\* One of the ids, secrets or objects not in use: they are drawn at random or
\* allocated, and which of the unused ones it is makes no difference.
Draw(S) == IF S = {} THEN {} ELSE {CHOOSE x \in S : TRUE}
====
