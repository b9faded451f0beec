----------------------------- MODULE MCWebhooks -----------------------------
(* Two subscriptions and two events of two tenants. *)
EXTENDS Webhooks

CONSTANTS t1, t2, h1, h2, e1, e2, created, deleted
====
