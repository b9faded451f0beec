----------------------------- MODULE Campaigns -----------------------------
(***************************************************************************)
(* Certification campaigns of govsvc (internal/governance/campaign_*.go):  *)
(* campaigns with their review items.  Starting and completing read the    *)
(* status and then write it in a second statement; cancelling, deleting    *)
(* and deciding are one statement each.                                    *)
(***************************************************************************)
EXTENDS Tenancy

CONSTANTS
  Reviewers,
  CampaignIds, ItemIds,  \* random UUIDs
  Workers                \* goroutines that may start or complete at the same time

VARIABLES
  campaigns,   \* certification_campaigns: id -> row or None
  items,       \* certification_items: id -> row or None
  workers,     \* per goroutine: the status it is about to write, and where
  givenIds,    \* history: ids ever given out
  started      \* history: campaigns that were ever activated

campaignVars == <<campaigns, items, workers, givenIds, started>>

CampaignStatuses == {"draft", "active", "completed", "cancelled"}

Decisions == {"approve", "revoke"}

CampaignRows == [tenant : Tenants, reviewer : Reviewers, status : CampaignStatuses]

ASSUME CampaignAssumption == None \notin CampaignRows

WorkerIdle == [status |-> None, id |-> None]

CampaignTypeOK ==
  /\ campaigns \in [CampaignIds -> CampaignRows \cup {None}]
  /\ items \in [ItemIds -> [campaign : CampaignIds, tenant : Tenants,
                            decision : Decisions \cup {None}] \cup {None}]
  /\ workers \in [Workers -> [status : {"active", "completed"}, id : CampaignIds] \cup {WorkerIdle}]
  /\ givenIds \subseteq CampaignIds \cup ItemIds
  /\ started \subseteq CampaignIds

CampaignInit ==
  /\ campaigns = [c \in CampaignIds |-> None]
  /\ items = [i \in ItemIds |-> None]
  /\ workers = [w \in Workers |-> WorkerIdle]
  /\ givenIds = {} /\ started = {}

-----------------------------------------------------------------------------
(* Campaigns *)

CreateCampaign(t, r) ==
  /\ \E c \in CampaignIds \ givenIds :
       /\ campaigns' = [campaigns EXCEPT ![c] = [tenant |-> t, reviewer |-> r, status |-> "draft"]]
       /\ givenIds' = givenIds \cup {c}
  /\ UNCHANGED <<items, workers, started>>

\* GetCampaign by id and tenant
GetCampaign(t, c) == IF campaigns[c] # None /\ campaigns[c].tenant = t THEN {campaigns[c]} ELSE {}

\* StartCampaign and CompleteCampaign up to their check of the status
Checked(w, t, c, required, next) ==
  /\ workers[w] = WorkerIdle
  /\ \E row \in GetCampaign(t, c) : row.status = required
  /\ workers' = [workers EXCEPT ![w] = [status |-> next, id |-> c]]
  /\ UNCHANGED <<campaigns, items, givenIds, started>>

StartCampaign(w, t, c) == Checked(w, t, c, "draft", "active")

\* Mutant: the status is not looked at.
CompleteAny(w, t, c) == \E s \in CampaignStatuses : Checked(w, t, c, s, "completed")

CompleteCampaign(w, t, c) == Checked(w, t, c, "active", "completed")

\* UpdateCampaignStatus: by id only, on whatever the row holds by now
SetStatus(c, s) ==
  campaigns' = IF campaigns[c] # None THEN [campaigns EXCEPT ![c].status = s] ELSE campaigns

UpdateCampaignStatus(w) ==
  LET c == workers[w].id IN
  /\ workers[w] # WorkerIdle
  /\ SetStatus(c, workers[w].status)
  /\ started' = IF campaigns[c] # None /\ workers[w].status = "active" THEN started \cup {c} ELSE started
  /\ workers' = [workers EXCEPT ![w] = WorkerIdle]
  /\ UNCHANGED <<items, givenIds>>

\* Mutant: a status the table does not know.
CancelAsCanceled(c) ==
  /\ SetStatus(c, "canceled")
  /\ UNCHANGED <<items, workers, givenIds, started>>

CancelCampaign(c) ==
  /\ SetStatus(c, "cancelled")
  /\ UNCHANGED <<items, workers, givenIds, started>>

\* Mutant: the items stay behind.
DeleteCampaignOnly(t, c) ==
  /\ GetCampaign(t, c) # {}
  /\ campaigns' = [campaigns EXCEPT ![c] = None]
  /\ UNCHANGED <<items, workers, givenIds, started>>

\* ON DELETE CASCADE takes the items along.
DeleteCampaign(t, c) ==
  /\ GetCampaign(t, c) # {}
  /\ campaigns' = [campaigns EXCEPT ![c] = None]
  /\ items' = [i \in ItemIds |-> IF items[i] # None /\ items[i].campaign = c THEN None ELSE items[i]]
  /\ UNCHANGED <<workers, givenIds, started>>

-----------------------------------------------------------------------------
(* Review items *)

\* The campaign must exist (a foreign key); its status and tenant do not matter.
AddReviewItem(t, c) ==
  /\ campaigns[c] # None
  /\ \E i \in ItemIds \ givenIds :
       /\ items' = [items EXCEPT ![i] = [campaign |-> c, tenant |-> t, decision |-> None]]
       /\ givenIds' = givenIds \cup {i}
  /\ UNCHANGED <<campaigns, workers, started>>

\* UpdateItemDecision: a later decision replaces an earlier one.
Decide(i, decision) ==
  /\ items[i] # None
  /\ items' = [items EXCEPT ![i].decision = decision]
  /\ UNCHANGED <<campaigns, workers, givenIds, started>>

ApproveItem(i) == Decide(i, "approve")

\* The directory is not told.
RevokeItem(i) == Decide(i, "revoke")

-----------------------------------------------------------------------------
CampaignNext ==
  \/ \E t \in Tenants :
       \/ \E r \in Reviewers : CreateCampaign(t, r)
       \/ \E c \in CampaignIds :
            \/ DeleteCampaign(t, c)
            \/ AddReviewItem(t, c)
            \/ \E w \in Workers : StartCampaign(w, t, c) \/ CompleteCampaign(w, t, c)
  \/ \E c \in CampaignIds : CancelCampaign(c)
  \/ \E w \in Workers : UpdateCampaignStatus(w)
  \/ \E i \in ItemIds : ApproveItem(i) \/ RevokeItem(i)

CampaignSpec == CampaignInit /\ [][CampaignNext]_campaignVars

-----------------------------------------------------------------------------
(* Properties *)

\* A completed campaign was started before: nothing but an activation of that
\* campaign lets CompleteCampaign through, however starts, completions and
\* cancellations interleave.
CompletionFollowsStart ==
  \A c \in CampaignIds :
    campaigns[c] # None /\ campaigns[c].status = "completed" => c \in started

\* Review items belong to a campaign that exists, also when it is deleted
\* while a reviewer decides (DeleteCampaign, AddReviewItem).
ItemsHaveCampaign == \A i \in ItemIds : items[i] # None => campaigns[items[i].campaign] # None
====
