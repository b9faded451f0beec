----------------------------- MODULE Connectors -----------------------------
(***************************************************************************)
(* Connectors to external identity systems (internal/connector): the table *)
(* of configurations, the in-memory registry of connector instances that   *)
(* the same handlers keep in step with it, and the provisioning tasks that *)
(* workers carry out through the registry.  A handler changes the table    *)
(* and then the registry, with no lock over both; the registry is empty    *)
(* after a start.  Workers are external: nothing in the repository calls   *)
(* ProcessTask yet, so they are modelled as its signature invites, listing *)
(* the pending tasks and processing one.                                   *)
(***************************************************************************)
EXTENDS Tenancy, Integers, FiniteSets

CONSTANTS
  Names,        \* connector names
  Ids,          \* ids of connector rows (random UUIDs)
  Unsaved,      \* the empty id of a configuration that was never saved
  Types,        \* the types callers ask for
  Requests,     \* goroutines that may serve connector calls at the same time
  Tasks,        \* ids of provisioning tasks
  Ops,          \* the operations of the tasks
  Workers,      \* goroutines that process tasks
  MaxRetries    \* max_retries of a task

ASSUME IdsAssumption == Unsaved \notin Ids /\ None \notin Types
ASSUME RetriesAssumption == MaxRetries \in Nat /\ IsFiniteSet(Workers) /\ Workers # {}

VARIABLES
  rows,         \* connectors: id -> row or None
  registry,     \* registry.connectors: id -> type of the instance or None
  known,        \* ids that createConnector answered with
  reqs,         \* per goroutine: its next step and the configuration it serves
  unsettled,    \* history: ids whose row a call changed that was told it failed, not removed since
  tasks,        \* provisioning_tasks: id -> row or None
  workers,      \* per worker: its next step and what it read
  applied       \* history: tasks whose operation the target carried out

adminVars == <<rows, known, reqs, unsettled>>
taskVars == <<tasks, workers, applied>>
vars == <<adminVars, registry, taskVars>>

Factories == {"scim", "ldap", "azure-ad", "google"}

Rows == [tenant : Tenants, name : Names, type : Types, enabled : BOOLEAN]

TaskRows == [connector : Ids, op : Ops, retry : Nat, due : BOOLEAN,
             status : {"pending", "processing", "completed", "failed"}]

ASSUME RowsAssumption == None \notin Rows \cup TaskRows \cup Tasks

RequestStates == [pc : {"idle", "register", "remove", "check"}, id : Ids \cup {Unsaved},
                  type : Types \cup {None}]

WorkerStates == [pc : {"idle", "listed", "read", "connector", "execute", "write", "fail"},
                 task : Tasks \cup {None}, retry : Nat, conn : Types \cup {None},
                 result : {"ok", "error", None}]

Free == [pc |-> "idle", id |-> Unsaved, type |-> None]
Resting == [pc |-> "idle", task |-> None, retry |-> 0, conn |-> None, result |-> None]

TypeOK ==
  /\ rows \in [Ids -> Rows \cup {None}]
  /\ registry \in [Ids \cup {Unsaved} -> (Types \cap Factories) \cup {None}]
  /\ known \subseteq Ids
  /\ reqs \in [Requests -> RequestStates] /\ unsettled \subseteq Ids
  /\ tasks \in [Tasks -> TaskRows \cup {None}]
  /\ workers \in [Workers -> WorkerStates]
  /\ applied \subseteq Tasks

Init ==
  /\ rows = [i \in Ids |-> None]
  /\ registry = [i \in Ids \cup {Unsaved} |-> None]
  /\ known = {}
  /\ reqs = [r \in Requests |-> Free] /\ unsettled = {}
  /\ tasks = [k \in Tasks |-> None]
  /\ workers = [w \in Workers |-> Resting]
  /\ applied = {}

-----------------------------------------------------------------------------
(* The registry *)

\* Mutant: the factory is not looked up.
RegistryCreateAny(id, type) == registry' = [registry EXCEPT ![id] = type]

\* registry.Create: an unknown type is an error; the factories themselves
\* never fail.
RegistryCreate(id, type) ==
  registry' = IF type \in Factories THEN [registry EXCEPT ![id] = type] ELSE registry

\* registry.Remove: whichever instance is under the id is closed and dropped.
\* No adapter's Close fails.
RegistryRemove(id) ==
  /\ registry' = [registry EXCEPT ![id] = None]
  /\ unsettled' = unsettled \ {id}

-----------------------------------------------------------------------------
(* The handlers *)

Goto(r, pc, id, type) == reqs' = [reqs EXCEPT ![r] = [pc |-> pc, id |-> id, type |-> type]]

Done(r) == reqs' = [reqs EXCEPT ![r] = Free]

\* UNIQUE (tenant_id, name)
NameFree(t, n) == \A i \in Ids : rows[i] # None => <<rows[i].tenant, rows[i].name>> # <<t, n>>

Fresh == {i \in Ids : rows[i] = None /\ i \notin known}

\* POST /connectors: the row, always enabled.
CreateConnector(r, t, n, type) ==
  /\ reqs[r].pc = "idle"
  /\ NameFree(t, n)
  /\ \E i \in Fresh :
       /\ rows' = [rows EXCEPT ![i] = [tenant |-> t, name |-> n, type |-> type, enabled |-> TRUE]]
       /\ Goto(r, "register", i, type)
  /\ UNCHANGED <<registry, known, unsettled, taskVars>>

\* The instance; an error is ignored, and only now the caller learns the id.
CreateRegister(r) ==
  /\ reqs[r].pc = "register"
  /\ RegistryCreate(reqs[r].id, reqs[r].type)
  /\ known' = known \cup {reqs[r].id}
  /\ Done(r)
  /\ UNCHANGED <<rows, unsettled, taskVars>>

RowIn(t, i) == rows[i] # None /\ rows[i].tenant = t

\* The statement succeeds and the instance is removed next; or it is carried out
\* and its answer lost, and the call ends with an error before the removal.  (One
\* that is not carried out changes nothing.)
ThenRemove(r, t, i) ==
  \/ Goto(r, "remove", i, None) /\ UNCHANGED unsettled
  \/ RowIn(t, i) /\ unsettled' = unsettled \cup {i} /\ UNCHANGED reqs

\* DELETE /connectors/:id: the row of this tenant; no row is no error.
DeleteConnector(r, t, i) ==
  /\ reqs[r].pc = "idle"
  /\ rows' = IF RowIn(t, i) THEN [rows EXCEPT ![i] = None] ELSE rows
  /\ ThenRemove(r, t, i)
  /\ UNCHANGED <<registry, known, taskVars>>

SetEnabled(t, i, enabled) ==
  rows' = IF RowIn(t, i) THEN [rows EXCEPT ![i].enabled = enabled] ELSE rows

\* Mutant: the instance stays in the registry.
DisableRowOnly(r, t, i) ==
  /\ reqs[r].pc = "idle"
  /\ SetEnabled(t, i, FALSE)
  /\ UNCHANGED <<registry, known, reqs, unsettled, taskVars>>

\* POST /connectors/:id/toggle with enabled false
DisableConnector(r, t, i) ==
  /\ reqs[r].pc = "idle"
  /\ SetEnabled(t, i, FALSE)
  /\ ThenRemove(r, t, i)
  /\ UNCHANGED <<registry, known, taskVars>>

\* ... and with enabled true.  store.Get scans SELECT * into a Config without
\* db tags: it fails for an existing row as for a missing one, and nothing is
\* registered.  (updateConnector starts with the same Get and always answers
\* 400; getConnector and listConnectors only read.)
EnableConnector(t, i) ==
  /\ SetEnabled(t, i, TRUE)
  /\ UNCHANGED <<registry, known, reqs, unsettled, taskVars>>

\* POST /connectors/test: the configuration of the body, with the id it names,
\* is registered for the time of the check.
TestConnection(r, i, type) ==
  /\ reqs[r].pc = "idle"
  /\ RegistryCreate(i, type)
  /\ IF type \in Factories THEN Goto(r, "check", i, None) ELSE UNCHANGED reqs
  /\ UNCHANGED <<rows, known, unsettled, taskVars>>

\* HealthCheck answers, fails or panics; the deferred Remove runs in each case.
TestRemove(r) ==
  /\ reqs[r].pc = "check"
  /\ RegistryRemove(reqs[r].id)
  /\ Done(r)
  /\ UNCHANGED <<rows, known, taskVars>>

\* The second half of DeleteConnector and of a disabling ToggleConnector.
RemoveInstance(r) ==
  /\ reqs[r].pc = "remove"
  /\ RegistryRemove(reqs[r].id)
  /\ Done(r)
  /\ UNCHANGED <<rows, known, taskVars>>

AdminStep ==
  \E r \in Requests :
    \/ \E t \in Tenants, n \in Names, type \in Types : CreateConnector(r, t, n, type)
    \/ CreateRegister(r)
    \/ \E t \in Tenants, i \in known : DeleteConnector(r, t, i) \/ DisableConnector(r, t, i)
    \/ RemoveInstance(r)
    \/ \E i \in known \cup {Unsaved}, type \in Types : TestConnection(r, i, type)
    \/ TestRemove(r)

-----------------------------------------------------------------------------
(* What the adapters return for an answer of the target: "done", "refused" *)
(* (an error status), or "lost" (no answer: done or not).                  *)

Answers == {"done", "refused", "lost"}

\* scim: every answer to a user operation is looked at; a created user whose
\* body cannot be decoded is an error too.
ScimUser(op, a) ==
  IF a = "done" THEN {"ok"} \cup (IF op = "create_user" THEN {"error"} ELSE {}) ELSE {"error"}

\* ... but not the status of a membership change.
ScimMember(a) == IF a = "lost" THEN {"error"} ELSE {"ok"}

\* Mutant: no status is looked at.
AzureUserUnchecked(op, a) == IF a = "lost" THEN {"panic"} ELSE {"ok"}

\* azure-ad: without an answer the deferred Body.Close of a nil response
\* panics; the status of a deletion is not looked at.
AzureUser(op, a) ==
  CASE a = "done" -> {"ok"}
    [] a = "refused" -> IF op = "delete_user" THEN {"ok"} ELSE {"error"}
    [] a = "lost" -> {"panic"}

AzureMember(a) == IF a = "lost" THEN {"panic"} ELSE {"ok"}

\* ensureAuthenticated before each of them: an expired token is renewed, which
\* can be refused or get no answer.
AzureUnauthenticated == {"error", "panic"}

\* ldap: the connection is nil but in the instance that a running test has
\* connected, and Close can set it to nil at any time.
LdapReturns(a) == {"panic"} \cup (IF a = "done" THEN {"ok"} ELSE {"error"})

\* google: Initialize is never called, so httpClient is nil.
GoogleReturns == {"panic"}

UserOps == {"create_user", "update_user", "delete_user"}
MemberOps == {"add_to_group", "remove_from_group"}

\* executeOperation: what the adapter may return for an answer of the target; an
\* operation that is not known is passed to no adapter.
Outcomes(type, op, a) ==
  CASE op \notin UserOps \cup MemberOps -> {}
    [] type = "scim" -> IF op \in UserOps THEN ScimUser(op, a) ELSE ScimMember(a)
    [] type = "azure-ad" -> IF op \in UserOps THEN AzureUser(op, a) ELSE AzureMember(a)
    [] type = "ldap" -> LdapReturns(a)
    [] type = "google" -> GoogleReturns

\* Nothing reaches the target: the operation is not known, its payload does not
\* decode (delete_user has none), or the adapter fails before it calls.
Unreached(type, op) ==
  (IF op = "delete_user" THEN {} ELSE {"error"}) \cup
  (CASE op \notin UserOps \cup MemberOps -> {}
     [] type = "azure-ad" -> AzureUnauthenticated
     [] type \in {"ldap", "google"} -> {"panic"}
     [] OTHER -> {"error"})

-----------------------------------------------------------------------------
(* Provisioning tasks *)

EnqueueTask(k, i, op) ==
  /\ tasks[k] = None
  /\ tasks' = [tasks EXCEPT ![k] = [connector |-> i, op |-> op, retry |-> 0, due |-> TRUE,
                                    status |-> "pending"]]
  /\ UNCHANGED <<adminVars, registry, workers, applied>>

\* scheduled_at of a retried task passes.
ComesDue(k) ==
  /\ tasks[k] # None /\ ~tasks[k].due
  /\ tasks' = [tasks EXCEPT ![k].due = TRUE]
  /\ UNCHANGED <<adminVars, registry, workers, applied>>

At(w, pc) == workers[w].pc = pc

\* ListPendingTasks, and the worker takes one of them.
ListPending(w, k) ==
  /\ At(w, "idle")
  /\ tasks[k] # None /\ tasks[k].status = "pending" /\ tasks[k].due
  /\ workers' = [workers EXCEPT ![w].pc = "listed", ![w].task = k]
  /\ UNCHANGED <<adminVars, registry, tasks, applied>>

SetStatus(k, status) == tasks' = [tasks EXCEPT ![k].status = status]

\* The call returns, the error of its last query included.
Return(w) == workers' = [workers EXCEPT ![w] = Resting]

\* ProcessTask marks the task by its id, whatever became of it since; a failing
\* statement, carried out or not, ends the call.
MarkProcessing(w) ==
  /\ At(w, "listed")
  /\ \/ /\ SetStatus(workers[w].task, "processing")
        /\ workers' = [workers EXCEPT ![w].pc = "read"] \/ Return(w)
     \/ UNCHANGED tasks /\ Return(w)
  /\ UNCHANGED <<adminVars, registry, applied>>

\* A failing read leaves the task in processing.
ReadTask(w) ==
  /\ At(w, "read")
  /\ \/ workers' = [workers EXCEPT ![w].pc = "connector", ![w].retry = tasks[workers[w].task].retry]
     \/ Return(w)
  /\ UNCHANGED <<adminVars, registry, tasks, applied>>

GetConnector(w) ==
  LET conn == registry[tasks[workers[w].task].connector] IN
  /\ At(w, "connector")
  /\ workers' = [workers EXCEPT ![w].pc = IF conn = None THEN "fail" ELSE "execute", ![w].conn = conn]
  /\ UNCHANGED <<adminVars, registry, tasks, applied>>

\* A result is kept for the write; a panic ends the worker with the task
\* still processing.
Returned(w, result) ==
  workers' = [workers EXCEPT ![w] =
    IF result = "panic" THEN Resting ELSE [@ EXCEPT !.pc = "write", !.conn = None, !.result = result]]

ExecuteOperation(w) ==
  LET k == workers[w].task
      type == workers[w].conn
  IN
  /\ At(w, "execute")
  /\ \/ \E result \in Unreached(type, tasks[k].op) : Returned(w, result) /\ UNCHANGED applied
     \/ \E a \in Answers :
          /\ \E result \in Outcomes(type, tasks[k].op, a) : Returned(w, result)
          /\ applied' \in (CASE a = "done" -> {applied \cup {k}}
                             [] a = "refused" -> {applied}
                             [] a = "lost" -> {applied, applied \cup {k}})
  /\ UNCHANGED <<adminVars, registry, tasks>>

\* Mutant: one retry too many.
RetriesInclusive(retry) == retry <= MaxRetries

Retries(retry) == retry < MaxRetries

\* Completed, back to pending with one retry more, or failed, by the
\* retry_count read before the operation; the query itself can fail.
WriteResult(w) ==
  LET k == workers[w].task IN
  /\ At(w, "write")
  /\ \/ /\ workers[w].result = "ok"
        /\ SetStatus(k, "completed")
     \/ /\ workers[w].result = "error" /\ Retries(workers[w].retry)
        /\ tasks' = [tasks EXCEPT ![k].status = "pending", ![k].retry = @ + 1, ![k].due = FALSE]
     \/ /\ workers[w].result = "error" /\ ~Retries(workers[w].retry)
        /\ SetStatus(k, "failed")
     \/ UNCHANGED tasks
  /\ Return(w)
  /\ UNCHANGED <<adminVars, registry, applied>>

\* failTask; its query can fail too.
FailTask(w) ==
  /\ At(w, "fail")
  /\ SetStatus(workers[w].task, "failed") \/ UNCHANGED tasks
  /\ Return(w)
  /\ UNCHANGED <<adminVars, registry, applied>>

WorkerStep ==
  \E w \in Workers :
    \/ \E k \in Tasks : ListPending(w, k)
    \/ MarkProcessing(w) \/ ReadTask(w) \/ GetConnector(w)
    \/ ExecuteOperation(w) \/ WriteResult(w) \/ FailTask(w)

-----------------------------------------------------------------------------
\* govsvc stops and starts: the registry is empty, calls and workers are gone.
Restart ==
  /\ registry' = [i \in Ids \cup {Unsaved} |-> None]
  /\ reqs' = [r \in Requests |-> Free]
  /\ workers' = [w \in Workers |-> Resting]
  /\ unsettled' = {}
  /\ UNCHANGED <<rows, known, tasks, applied>>

Next ==
  \/ AdminStep
  \/ \E t \in Tenants, i \in known : EnableConnector(t, i)
  \/ \E k \in Tasks, i \in known, op \in Ops : EnqueueTask(k, i, op)
  \/ \E k \in Tasks : ComesDue(k)
  \/ WorkerStep
  \/ Restart

Spec == Init /\ [][Next]_vars

-----------------------------------------------------------------------------
(* Properties *)

\* An instance in the registry belongs to an enabled row, unless a request is
\* about to take it out or a call deleted or disabled the row and was told that
\* it failed: deleting, disabling and testing a connector, in any interleaving
\* and across restarts, leave no other instance behind (service.go
\* CreateConnector, DeleteConnector, ToggleConnector and TestConnection).
RegistryBacked ==
  \A i \in Ids \cup {Unsaved} : registry[i] # None =>
    \/ i \in Ids /\ rows[i] # None /\ rows[i].enabled
    \/ \E r \in Requests : reqs[r].pc \in {"remove", "check"} /\ reqs[r].id = i
    \/ i \in unsettled

\* A create_user or update_user task is completed only when the target carried
\* it out, whichever workers raced, retried or died and whatever was registered
\* under the connector's id meanwhile (provisioning.go ProcessTask and the
\* status checks of the adapters).
CompletedWasApplied ==
  \A k \in Tasks :
    tasks[k] # None /\ tasks[k].status = "completed" /\ tasks[k].op \in {"create_user", "update_user"}
      => k \in applied

\* The retry_count of a task passes max_retries only by the workers that read
\* it before the others raised it: at most one each (provisioning.go
\* ProcessTask, which tests the count it read before the operation).
RetriesBounded ==
  \A k \in Tasks : tasks[k] # None => tasks[k].retry <= MaxRetries + Cardinality(Workers) - 1
====
