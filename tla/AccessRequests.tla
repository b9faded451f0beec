--------------------------- MODULE AccessRequests ---------------------------
(***************************************************************************)
(* Access requests of govsvc (internal/governance) over the directory:     *)
(* ApproveAccessRequest reads the request, asks the policy engine, calls   *)
(* dirsvc over HTTP to add the member, and updates the status.  The steps  *)
(* hold no lock and no transaction; the HTTP call can fail before or after *)
(* it took effect; govsvc can stop between two steps.                      *)
(***************************************************************************)
EXTENDS Directory

CONSTANTS
  RequestIds,   \* access requests (random UUIDs)
  Placeholder,  \* the requester id CreateAccessRequest stores
  Approver,     \* the approver id the handlers pass
  AppIds,       \* resource ids of requests for an app
  Approvals,    \* goroutines that may serve an approval at the same time
  Failures      \* whether calls can fail and govsvc can stop

ASSUME PlaceholderAssumption == Placeholder \notin UserIds /\ Approver \notin UserIds

VARIABLES
  requests,     \* access_requests: id -> row or None
  approvals,    \* per approval goroutine: where it is and the request it read
  refused,      \* history: the last create call was refused
  provisioned   \* history: requests for which dirsvc acknowledged the membership

vars == <<dirVars, requests, approvals, refused, provisioned>>

Rows == [tenant : Tenants, requester : UserIds, type : {"group", "app"},
         resource : GroupIds \cup AppIds, status : {"pending", "approved", "rejected"}]

ASSUME RequestsAssumption == None \notin Rows \cup RequestIds

ApprovalStates == [pc : {"idle", "provision", "update"}, id : RequestIds \cup {None},
                   resp : {"none", "approved", "error"}]

Idle == [pc |-> "idle", id |-> None, resp |-> "none"]

TypeOK ==
  /\ DirTypeOK
  /\ requests \in [RequestIds -> Rows \cup {None}]
  /\ approvals \in [Approvals -> ApprovalStates]
  /\ refused \in BOOLEAN /\ provisioned \subseteq RequestIds

Init ==
  /\ DirInit
  /\ requests = [q \in RequestIds |-> None]
  /\ approvals = [a \in Approvals |-> Idle]
  /\ refused = FALSE /\ provisioned = {}

-----------------------------------------------------------------------------
InsertRequest(q, t, who, type, res) ==
  requests' = [requests EXCEPT ![q] = [tenant |-> t, requester |-> who, type |-> type,
                                       resource |-> res, status |-> "pending"]]

\* POST /access-requests.  requester_id is a UUID that references identities.
CreateAccessRequest(t, type, res) ==
  /\ \E q \in {x \in RequestIds : requests[x] = None} :
       IF Placeholder \in UserIds /\ users[Placeholder] # None
       THEN InsertRequest(q, t, Placeholder, type, res) /\ refused' = FALSE
       ELSE refused' = TRUE /\ UNCHANGED requests
  /\ UNCHANGED <<dirVars, approvals, provisioned>>

\* A row that another tool writes into the table.
ImportRequest(t, who, type, res) ==
  /\ users[who] # None
  /\ \E q \in {x \in RequestIds : requests[x] = None} : InsertRequest(q, t, who, type, res)
  /\ UNCHANGED <<dirVars, approvals, refused, provisioned>>

\* simpleEngine.Evaluate: nobody approves their own request
Allowed(subject, requester) == subject # requester

\* ApproveAccessRequest: GetRequest by id and tenant, then the policy.  The
\* status of the request is not looked at.
ApproveRead(a, t, q) ==
  /\ approvals[a].pc = "idle"
  /\ approvals' = [approvals EXCEPT ![a] =
       IF /\ requests[q] # None /\ requests[q].tenant = t
          /\ Allowed(Approver, requests[q].requester)
       THEN [Idle EXCEPT !.pc = IF requests[q].type = "group" THEN "provision" ELSE "update", !.id = q]
       ELSE [Idle EXCEPT !.resp = "error"]]
  /\ UNCHANGED <<dirVars, requests, refused, provisioned>>

Finish(a, resp) == approvals' = [approvals EXCEPT ![a] = [Idle EXCEPT !.resp = resp]]

\* Mutant: an error of dirsvc is taken for success.
ApproveProvisionIgnoring(a) ==
  LET req == requests[approvals[a].id] IN
  /\ approvals[a].pc = "provision"
  /\ IF Conflicts(req.tenant, req.requester, req.resource) THEN UNCHANGED members
     ELSE InsertMember(req.tenant, req.requester, req.resource) \/ UNCHANGED members
  /\ approvals' = [approvals EXCEPT ![a].pc = "update"]
  /\ UNCHANGED <<users, groups, patches, known, requests, refused, provisioned>>

\* dirClient.AddUserToGroup: no retry; a conflict is an error, a membership that
\* could not be inserted is none; the answer may be lost.
ApproveProvision(a) ==
  LET req == requests[approvals[a].id]
      conflict == Conflicts(req.tenant, req.requester, req.resource) IN
  /\ approvals[a].pc = "provision"
  /\ \/ /\ conflict \/ Failures
        /\ Finish(a, "error") /\ UNCHANGED <<members, provisioned>>
     \/ /\ ~conflict
        /\ InsertMember(req.tenant, req.requester, req.resource)
        /\ \/ /\ approvals' = [approvals EXCEPT ![a].pc = "update"]
              /\ provisioned' = provisioned \cup {approvals[a].id}
           \/ Failures /\ Finish(a, "error") /\ UNCHANGED provisioned
  /\ UNCHANGED <<users, groups, patches, known, requests, refused>>

\* UpdateRequestStatus(approved): by id, whatever the status is by now.
ApproveUpdate(a) ==
  LET q == approvals[a].id IN
  /\ approvals[a].pc = "update"
  /\ \/ requests' = [requests EXCEPT ![q].status = "approved"] /\ Finish(a, "approved")
     \/ Failures /\ Finish(a, "error") /\ UNCHANGED requests
  /\ UNCHANGED <<dirVars, refused, provisioned>>

\* Mutant: a status the table does not know.
RejectAsDenied(q) ==
  /\ requests[q] # None
  /\ requests' = [requests EXCEPT ![q].status = "denied"]
  /\ UNCHANGED <<dirVars, approvals, refused, provisioned>>

\* RejectAccessRequest: one UPDATE by id, for any status.
RejectAccessRequest(q) ==
  /\ requests[q] # None
  /\ requests' = [requests EXCEPT ![q].status = "rejected"]
  /\ UNCHANGED <<dirVars, approvals, refused, provisioned>>

\* govsvc stops and starts again.
Restart ==
  /\ Failures
  /\ approvals' = [a \in Approvals |-> Idle]
  /\ UNCHANGED <<dirVars, requests, refused, provisioned>>

\* A step of the directory.  Users that requests refer to cannot be deleted.
DirectoryStep ==
  /\ \/ DirStep
     \/ \E t \in Tenants, u \in UserIds :
          /\ \A q \in RequestIds : requests[q] # None => requests[q].requester # u
          /\ DeleteUser(t, u)
  /\ UNCHANGED <<requests, approvals, refused, provisioned>>

ApproveStep(a) == ApproveProvision(a) \/ ApproveUpdate(a)

Next ==
  \/ DirectoryStep
  \/ \E t \in Tenants :
       \/ \E g \in GroupIds :
            \/ CreateAccessRequest(t, "group", g)
            \/ \E who \in UserIds : ImportRequest(t, who, "group", g)
       \/ \E p \in AppIds :
            \/ CreateAccessRequest(t, "app", p)
            \/ \E who \in UserIds : ImportRequest(t, who, "app", p)
       \/ \E a \in Approvals, q \in RequestIds : ApproveRead(a, t, q)
  \/ \E a \in Approvals : ApproveStep(a)
  \/ \E q \in RequestIds : RejectAccessRequest(q)
  \/ Restart

Spec == Init /\ [][Next]_vars

-----------------------------------------------------------------------------
(* Properties *)

\* A request for a group is approved only after dirsvc acknowledged the
\* membership, with approvals in parallel, lost answers and restarts
\* (ApproveAccessRequest's order of provisioning and update).
ApprovedWasProvisioned ==
  \A q \in RequestIds :
    requests[q] # None /\ requests[q].status = "approved" /\ requests[q].type = "group"
      => q \in provisioned

-----------------------------------------------------------------------------
\* The steps of an approval are taken, and an approver tries again for ever.
FairSpec ==
  /\ Spec
  /\ \A a \in Approvals : WF_vars(ApproveStep(a))
  /\ \A q \in RequestIds :
       SF_vars(\E a \in Approvals, t \in Tenants :
                 ApproveRead(a, t, q) /\ requests[q] # None /\ requests[q].tenant = t)

\* admin-console: approvers can approve pending requests.  A request whose
\* approver keeps trying is decided, also when the requester is a member
\* already, from an approval that failed half-way or by hand, and stays one.
ApprovalSucceeds ==
  \A q \in RequestIds :
    LET pending == requests[q] # None /\ requests[q].status = "pending"
        in == IsMember(requests[q].requester, requests[q].resource) IN
    (pending /\ in) ~> ~(pending /\ in)
====
