---------------------------- MODULE GrantLedger ----------------------------
(***************************************************************************)
(* What an authorization server promises of its codes and refresh tokens,  *)
(* with no requests, stores or clock: a code is exchanged at most once,    *)
(* for one refresh token, and a refresh token at most once, for its        *)
(* successor.  A lineage therefore never has two live members.             *)
(***************************************************************************)
CONSTANTS CodeIds, TokenIds

VARIABLES
  open,   \* codes that can still be redeemed
  live,   \* refresh tokens that can still be exchanged
  used    \* every code and token ever issued

vars == <<open, live, used>>

Init == open = {} /\ live = {} /\ used = {}

IssueCode(c) ==
  /\ c \notin used
  /\ open' = open \cup {c} /\ used' = used \cup {c}
  /\ UNCHANGED live

Redeem(c, t) ==
  /\ c \in open /\ t \notin used
  /\ open' = open \ {c} /\ live' = live \cup {t} /\ used' = used \cup {t}

Rotate(t, u) ==
  /\ t \in live /\ u \notin used
  /\ live' = (live \ {t}) \cup {u} /\ used' = used \cup {u}
  /\ UNCHANGED open

\* Revoked, failed half-way, or lost with the process
Drop(C, T) ==
  /\ open' = open \ C /\ live' = live \ T
  /\ UNCHANGED used

Next ==
  \/ \E c \in CodeIds : IssueCode(c)
  \/ \E c \in CodeIds, t \in TokenIds : Redeem(c, t)
  \/ \E t, u \in TokenIds : Rotate(t, u)
  \/ \E C \in SUBSET open, T \in SUBSET live : Drop(C, T)

Spec == Init /\ [][Next]_vars
====
