-------------------------- MODULE ConnectorProofs ---------------------------
(***************************************************************************)
(* What WardSeal sends to other systems, for any number of tenants, ids,   *)
(* calls, tasks, workers, subscriptions and events.                        *)
(*   - Connectors and provisioning tasks: the registry holds no instance   *)
(*     without an enabled row, a completed user task was carried out, and  *)
(*     a retry count passes its maximum only by what the other workers had *)
(*     read before.                                                        *)
(*   - Webhooks: an event reaches only who asked for it, and at most once. *)
(*     A delivery is decided by the lookup of processEvent, which happens  *)
(*     once per event and after which nothing changes the tenant or the    *)
(*     types of a subscription.                                            *)
(***************************************************************************)
EXTENDS Connectors, Webhooks, FiniteSetTheorems, TLAPS

\* A call that is about to register the instance of a new row is the only one,
\* and nobody else knows the id yet: the row is there and enabled.
RegistersOwnRow ==
  \A r \in Requests : reqs[r].pc = "register" =>
    /\ reqs[r].id \in Ids \ known
    /\ rows[reqs[r].id] # None /\ rows[reqs[r].id].enabled
    /\ reqs[r].type \in Types
    /\ \A s \in Requests : reqs[s].pc = "register" /\ reqs[s].id = reqs[r].id => s = r

\* A worker that is under way has a task that exists, and an instance from one
\* of the factories where it calls one; with a success to write down for a user
\* task, the target has carried the operation out.
WorkerHolds(w) ==
  /\ workers[w].pc # "idle" => workers[w].task \in Tasks /\ tasks[workers[w].task] # None
  /\ workers[w].pc = "execute" => workers[w].conn \in Types \cap Factories
  /\ /\ workers[w].pc = "write" /\ workers[w].result = "ok"
     /\ tasks[workers[w].task].op \in {"create_user", "update_user"}
     => workers[w].task \in applied

\* Workers that may still raise the retry count of a task: they read it when it
\* was below the maximum, and have not written their result.
Raisers(k) ==
  {w \in Workers : /\ workers[w].task = k /\ workers[w].retry < MaxRetries
                   /\ workers[w].pc \in {"connector", "execute", "write"}}

\* Once the count has reached the maximum no worker joins the raisers, and each
\* of them raises it once at most.
RetryBudget(k) ==
  tasks[k] # None /\ tasks[k].retry >= MaxRetries =>
    tasks[k].retry + Cardinality(Raisers(k)) <= MaxRetries + Cardinality(Workers) - 1

RegistryInv == TypeOK /\ RegistersOwnRow /\ RegistryBacked

TaskInv ==
  /\ \A w \in Workers : WorkerHolds(w)
  /\ CompletedWasApplied
  /\ \A k \in Tasks : RetryBudget(k)

ConnectorInv == RegistryInv /\ TaskInv
-----------------------------------------------------------------------------
(* The registry *)

\* Nothing is registered at the start.
LEMMA RegistryInvInit == Init => RegistryInv
  BY IdsAssumption DEF Init, RegistryInv, TypeOK, RegistersOwnRow, RegistryBacked, RequestStates, WorkerStates,
     Free, Resting

\* registry.Create and Remove keep the registry's shape and touch one id.
LEMMA RegistryChange ==
  ASSUME TypeOK, NEW id \in Ids \cup {Unsaved}, NEW type \in Types,
         RegistryCreate(id, type) \/ RegistryRemove(id)
  PROVE  /\ registry' \in [Ids \cup {Unsaved} -> (Types \cap Factories) \cup {None}]
         /\ \A i \in Ids \cup {Unsaved} : i # id => registry'[i] = registry[i]
         /\ RegistryRemove(id) => registry'[id] = None
  BY Zenon DEF TypeOK, RegistryCreate, RegistryRemove

\* What a call does to its own state, and that it is well formed.
LEMMA RequestChange ==
  ASSUME TypeOK, NEW r \in Requests, NEW q, reqs' = [reqs EXCEPT ![r] = q]
  PROVE  /\ reqs'[r] = q
         /\ \A s \in Requests : s # r => reqs'[s] = reqs[s]
         /\ q \in RequestStates => reqs' \in [Requests -> RequestStates]
  BY Zenon DEF TypeOK

\* Every call of the administrators keeps the registry in step with the rows.
LEMMA AdminKeepsRegistry ==
  ASSUME RegistryInv, AdminStep PROVE RegistryInv'
<1> USE IdsAssumption, RowsAssumption
<1> PICK r \in Requests :
    \/ \E t \in Tenants, n \in Names, type \in Types : CreateConnector(r, t, n, type)
    \/ CreateRegister(r)
    \/ \E t \in Tenants, i \in known : DeleteConnector(r, t, i) \/ DisableConnector(r, t, i)
    \/ RemoveInstance(r)
    \/ \E i \in known \cup {Unsaved}, type \in Types : TestConnection(r, i, type)
    \/ TestRemove(r)
  BY Zenon DEF AdminStep
<1>1. ASSUME NEW t \in Tenants, NEW n \in Names, NEW type \in Types, CreateConnector(r, t, n, type)
      PROVE  RegistryInv'
  <2>1. PICK i \in Fresh :
          /\ rows' = [rows EXCEPT ![i] = [tenant |-> t, name |-> n, type |-> type, enabled |-> TRUE]]
          /\ reqs' = [reqs EXCEPT ![r] = [pc |-> "register", id |-> i, type |-> type]]
    BY <1>1, Zenon DEF CreateConnector, Goto
  <2>2. i \in Ids /\ rows[i] = None /\ i \notin known /\ UNCHANGED <<registry, known, unsettled, taskVars>>
    BY <1>1, Zenon DEF CreateConnector, Fresh
  <2>3. /\ [tenant |-> t, name |-> n, type |-> type, enabled |-> TRUE] \in Rows
        /\ [pc |-> "register", id |-> i, type |-> type] \in RequestStates
    BY <2>2, Zenon DEF Rows, RequestStates
  <2>4. /\ rows'[i] # None /\ rows'[i].enabled
        /\ \A j \in Ids : j # i => rows'[j] = rows[j]
    BY <2>1, <2>2, <2>3, Zenon DEF RegistryInv, TypeOK
  <2>5. /\ reqs'[r] = [pc |-> "register", id |-> i, type |-> type]
        /\ \A s \in Requests : s # r => reqs'[s] = reqs[s]
        /\ reqs' \in [Requests -> RequestStates]
    BY <2>1, <2>3, RequestChange, Zenon DEF RegistryInv
  <2>6. TypeOK'
    BY <2>1, <2>2, <2>3, <2>5, Zenon DEF RegistryInv, TypeOK, taskVars
  <2>7. RegistersOwnRow'
    BY <2>2, <2>4, <2>5 DEF RegistryInv, RegistersOwnRow
  <2>8. RegistryBacked'
    BY <1>1, <2>2, <2>4, <2>5 DEF RegistryInv, RegistryBacked, CreateConnector
  <2>. QED BY <2>6, <2>7, <2>8, Zenon DEF RegistryInv
<1>2. CASE CreateRegister(r)
  <2>1. /\ reqs[r].pc = "register" /\ reqs' = [reqs EXCEPT ![r] = Free]
        /\ RegistryCreate(reqs[r].id, reqs[r].type)
        /\ known' = known \cup {reqs[r].id} /\ UNCHANGED <<rows, unsettled, taskVars>>
    BY <1>2, Zenon DEF CreateRegister, Done
  <2>2. /\ reqs[r].id \in Ids \ known /\ reqs[r].type \in Types
        /\ rows[reqs[r].id] # None /\ rows[reqs[r].id].enabled
    BY <2>1, Zenon DEF RegistryInv, RegistersOwnRow
  <2>3. Free \in RequestStates /\ Free.pc = "idle"
    BY Zenon DEF Free, RequestStates
  <2>4. /\ reqs'[r] = Free /\ reqs' \in [Requests -> RequestStates]
        /\ \A s \in Requests : s # r => reqs'[s] = reqs[s]
    BY <2>1, <2>3, RequestChange, Zenon DEF RegistryInv
  <2>5. /\ registry' \in [Ids \cup {Unsaved} -> (Types \cap Factories) \cup {None}]
        /\ \A i \in Ids \cup {Unsaved} : i # reqs[r].id => registry'[i] = registry[i]
    BY <2>1, <2>2, RegistryChange, Zenon DEF RegistryInv
  <2>6. TypeOK'
    BY <2>1, <2>2, <2>4, <2>5, Zenon DEF RegistryInv, TypeOK, taskVars
  <2>7. RegistersOwnRow'
    BY <2>1, <2>2, <2>3, <2>4 DEF RegistryInv, RegistersOwnRow
  <2>8. RegistryBacked'
    BY <2>1, <2>2, <2>4, <2>5 DEF RegistryInv, RegistryBacked
  <2>. QED BY <2>6, <2>7, <2>8, Zenon DEF RegistryInv
<1>3. ASSUME NEW t \in Tenants, NEW i \in known, DeleteConnector(r, t, i) \/ DisableConnector(r, t, i)
      PROVE  RegistryInv'
  <2> DEFINE q == [pc |-> "remove", id |-> i, type |-> None]
  <2>1. /\ reqs[r].pc = "idle" /\ UNCHANGED <<registry, known, taskVars>>
        /\ \/ reqs' = [reqs EXCEPT ![r] = q] /\ unsettled' = unsettled
           \/ reqs' = reqs /\ unsettled' = unsettled \cup {i}
    BY <1>3, Zenon DEF DeleteConnector, DisableConnector, ThenRemove, Goto
  <2>2. i \in Ids
    BY Zenon DEF RegistryInv, TypeOK
  <2>3. q \in RequestStates /\ q.pc = "remove" /\ q.id = i
    BY <2>2, Zenon DEF RequestStates
  <2> HIDE DEF q
  <2>4. /\ (reqs'[r] = q /\ unsettled' = unsettled) \/ (reqs'[r] = reqs[r] /\ unsettled' = unsettled \cup {i})
        /\ \A s \in Requests : s # r => reqs'[s] = reqs[s]
        /\ reqs' \in [Requests -> RequestStates] /\ unsettled' \subseteq Ids
    <3>1. CASE reqs' = [reqs EXCEPT ![r] = q] /\ unsettled' = unsettled
      BY <2>3, <3>1, RequestChange, Zenon DEF RegistryInv, TypeOK
    <3>2. CASE reqs' = reqs /\ unsettled' = unsettled \cup {i}
      BY <2>2, <3>2, Zenon DEF RegistryInv, TypeOK
    <3>. QED BY <2>1, <3>1, <3>2, Zenon
  <2>5. rows' \in [Ids -> Rows \cup {None}] /\ \A j \in Ids : j # i => rows'[j] = rows[j]
    <3>1. rows[i] # None => [rows[i] EXCEPT !.enabled = FALSE] \in Rows
      BY <2>2, ZenonT(30) DEF RegistryInv, TypeOK, Rows
    <3>2. CASE DeleteConnector(r, t, i)
      BY <2>2, <3>2, Zenon DEF DeleteConnector, RegistryInv, TypeOK
    <3>3. CASE DisableConnector(r, t, i)
      BY <2>2, <3>1, <3>3, Zenon DEF DisableConnector, SetEnabled, RowIn, RegistryInv, TypeOK
    <3>. QED BY <1>3, <3>2, <3>3, Zenon
  <2>6. TypeOK'
    BY <2>1, <2>4, <2>5, Zenon DEF RegistryInv, TypeOK, taskVars
  <2>7. RegistersOwnRow'
    BY <2>1, <2>3, <2>4, <2>5 DEF RegistryInv, RegistersOwnRow
  <2>8. RegistryBacked'
    <3> SUFFICES ASSUME NEW j \in Ids \cup {Unsaved}, registry[j] # None
                 PROVE  \/ j \in Ids /\ rows'[j] # None /\ rows'[j].enabled
                        \/ \E s \in Requests : reqs'[s].pc \in {"remove", "check"} /\ reqs'[s].id = j
                        \/ j \in unsettled'
      BY <2>1, Zenon DEF RegistryBacked
    <3>1. CASE j = i
      BY <2>3, <2>4, <3>1, Zenon
    <3>2. CASE j # i
      <4>1. \/ j \in Ids /\ rows[j] # None /\ rows[j].enabled
            \/ \E s \in Requests : reqs[s].pc \in {"remove", "check"} /\ reqs[s].id = j
            \/ j \in unsettled
        BY Zenon DEF RegistryInv, RegistryBacked
      <4>2. reqs[r].pc \notin {"remove", "check"}
        BY <2>1, Zenon
      <4>. QED BY <2>4, <2>5, <3>2, <4>1, <4>2, Zenon
    <3>. QED BY <3>1, <3>2, Zenon
  <2>. QED BY <2>6, <2>7, <2>8, Zenon DEF RegistryInv
<1>4. CASE RemoveInstance(r) \/ TestRemove(r)
  <2>1. /\ reqs[r].pc \in {"remove", "check"} /\ reqs' = [reqs EXCEPT ![r] = Free]
        /\ RegistryRemove(reqs[r].id) /\ UNCHANGED <<rows, known, taskVars>>
    BY <1>4, Zenon DEF RemoveInstance, TestRemove, Done
  <2>9. unsettled' = unsettled \ {reqs[r].id}
    BY <2>1, Zenon DEF RegistryRemove
  <2>2. reqs[r].id \in Ids \cup {Unsaved}
    BY Zenon DEF RegistryInv, TypeOK, RequestStates
  <2>3. Free \in RequestStates /\ Free.pc = "idle"
    BY Zenon DEF Free, RequestStates
  <2>4. /\ reqs'[r] = Free /\ reqs' \in [Requests -> RequestStates]
        /\ \A s \in Requests : s # r => reqs'[s] = reqs[s]
    BY <2>1, <2>3, RequestChange, Zenon DEF RegistryInv
  <2>5. /\ registry' \in [Ids \cup {Unsaved} -> (Types \cap Factories) \cup {None}]
        /\ registry'[reqs[r].id] = None
        /\ \A i \in Ids \cup {Unsaved} : i # reqs[r].id => registry'[i] = registry[i]
    BY <2>1, <2>2, Zenon DEF RegistryInv, TypeOK, RegistryRemove
  <2>6. TypeOK'
    BY <2>1, <2>4, <2>5, <2>9, Zenon DEF RegistryInv, TypeOK, taskVars
  <2>7. RegistersOwnRow'
    BY <2>1, <2>3, <2>4 DEF RegistryInv, RegistersOwnRow
  <2>8. RegistryBacked'
    BY <2>1, <2>4, <2>5, <2>9, Zenon DEF RegistryInv, RegistryBacked
  <2>. QED BY <2>6, <2>7, <2>8, Zenon DEF RegistryInv
<1>5. ASSUME NEW i \in known \cup {Unsaved}, NEW type \in Types, TestConnection(r, i, type)
      PROVE  RegistryInv'
  <2>1. /\ reqs[r].pc = "idle" /\ UNCHANGED <<rows, known, unsettled, taskVars>> /\ RegistryCreate(i, type)
        /\ type \in Factories => reqs' = [reqs EXCEPT ![r] = [pc |-> "check", id |-> i, type |-> None]]
        /\ type \notin Factories => UNCHANGED <<reqs, registry>>
    BY <1>5, Zenon DEF TestConnection, Goto, RegistryCreate
  <2>2. i \in Ids \cup {Unsaved}
    BY Zenon DEF RegistryInv, TypeOK
  <2>3. CASE type \notin Factories
    BY <2>1, <2>3 DEF RegistryInv, TypeOK, taskVars, RegistersOwnRow, RegistryBacked
  <2>4. CASE type \in Factories
    <3>1. [pc |-> "check", id |-> i, type |-> None] \in RequestStates
      BY <2>2, Zenon DEF RequestStates
    <3>2. /\ reqs'[r] = [pc |-> "check", id |-> i, type |-> None]
          /\ \A s \in Requests : s # r => reqs'[s] = reqs[s]
          /\ reqs' \in [Requests -> RequestStates]
      BY <2>1, <2>4, <3>1, RequestChange, Zenon DEF RegistryInv
    <3>3. /\ registry' \in [Ids \cup {Unsaved} -> (Types \cap Factories) \cup {None}]
          /\ \A j \in Ids \cup {Unsaved} : j # i => registry'[j] = registry[j]
      BY <2>1, <2>2, RegistryChange, Zenon DEF RegistryInv
    <3>4. TypeOK'
      BY <2>1, <3>2, <3>3, Zenon DEF RegistryInv, TypeOK, taskVars
    <3>5. RegistersOwnRow'
      BY <2>1, <3>2 DEF RegistryInv, RegistersOwnRow
    <3>6. RegistryBacked'
      BY <2>1, <3>2, <3>3 DEF RegistryInv, RegistryBacked
    <3>. QED BY <3>4, <3>5, <3>6, Zenon DEF RegistryInv
  <2>. QED BY <2>3, <2>4, Zenon
<1>. QED BY <1>1, <1>2, <1>3, <1>4, <1>5, Zenon

-----------------------------------------------------------------------------
(* The tasks *)

\* The raisers of a task are some of the workers.
LEMMA RaisersFinite ==
  \A k \in Tasks : IsFiniteSet(Raisers(k)) /\ Cardinality(Raisers(k)) \in Nat
                   /\ Cardinality(Raisers(k)) <= Cardinality(Workers)
<1> SUFFICES ASSUME NEW k \in Tasks
             PROVE  IsFiniteSet(Raisers(k)) /\ Cardinality(Raisers(k)) \in Nat
                    /\ Cardinality(Raisers(k)) <= Cardinality(Workers)
  BY Zenon
<1>1. Raisers(k) \in SUBSET Workers /\ IsFiniteSet(Workers)
  BY RetriesAssumption, Zenon DEF Raisers
<1>. QED BY <1>1, FS_Subset, FS_CardinalityType, Zenon

\* There is at least one worker.
LEMMA SomeWorker == Cardinality(Workers) \in Nat /\ Cardinality(Workers) >= 1
<1>1. IsFiniteSet(Workers) /\ Workers # {}
  BY RetriesAssumption, Zenon
<1>2. Cardinality(Workers) \in Nat /\ Cardinality(Workers) # 0
  BY <1>1, FS_CardinalityType, FS_EmptySet, Zenon
<1>. QED BY <1>2

\* While the count of a task stays as it is, losing raisers does no harm.
LEMMA BudgetKept ==
  ASSUME NEW k \in Tasks, RetryBudget(k), tasks[k] \in TaskRows \cup {None},
         tasks'[k] # None => tasks[k] # None /\ tasks'[k].retry = tasks[k].retry,
         Raisers(k)' \subseteq Raisers(k)
  PROVE  RetryBudget(k)'
<1>1. IsFiniteSet(Raisers(k)) /\ Cardinality(Raisers(k)) \in Nat
  BY RaisersFinite, Zenon
<1>2. Cardinality(Raisers(k)') \in Nat /\ Cardinality(Raisers(k)') <= Cardinality(Raisers(k))
  BY <1>1, FS_Subset, FS_CardinalityType, Zenon
<1>3. tasks[k] # None => tasks[k].retry \in Nat
  BY Zenon DEF TaskRows
<1>. QED BY <1>1, <1>2, <1>3, SomeWorker, RetriesAssumption DEF RetryBudget

\* What a worker does to its own state.
LEMMA WorkerChange ==
  ASSUME TypeOK, NEW w \in Workers, NEW v \in WorkerStates, workers' = [workers EXCEPT ![w] = v]
  PROVE  /\ workers'[w] = v /\ workers' \in [Workers -> WorkerStates]
         /\ \A x \in Workers : x # w => workers'[x] = workers[x]
  BY Zenon DEF TypeOK

\* What a step of one worker w has to show: that what w holds is right, that a
\* task it completes was carried out, and the budgets.
LEMMA WorkerStepKeeps ==
  ASSUME ConnectorInv, NEW w \in Workers,
         \A x \in Workers : x # w => workers'[x] = workers[x],
         \A k \in Tasks : tasks[k] # None => tasks'[k] # None /\ tasks'[k].op = tasks[k].op,
         applied \subseteq applied',
         WorkerHolds(w)',
         \A k \in Tasks : tasks'[k] # None /\ tasks'[k].status = "completed"
                            /\ tasks'[k].op \in {"create_user", "update_user"}
                          => k \in applied' \/ (tasks[k] # None /\ tasks[k].status = "completed"),
         \A k \in Tasks : RetryBudget(k)'
  PROVE  TaskInv'
<1>1. ASSUME NEW x \in Workers PROVE WorkerHolds(x)'
  BY <1>1 DEF ConnectorInv, TaskInv, WorkerHolds
<1>2. CompletedWasApplied'
  BY Zenon DEF ConnectorInv, TaskInv, CompletedWasApplied
<1>. QED BY <1>1, <1>2, Zenon DEF TaskInv

\* A step of a worker that writes no task, and leaves a raiser or stays what it was.
LEMMA QuietStep ==
  ASSUME ConnectorInv, NEW w \in Workers, NEW v \in WorkerStates,
         workers' = [workers EXCEPT ![w] = v],
         UNCHANGED tasks, applied \subseteq applied', applied' \subseteq Tasks,
         UNCHANGED <<adminVars, registry>>,
         WorkerHolds(w)',
         v.pc \in {"connector", "execute", "write"} /\ v.retry < MaxRetries =>
           \/ w \in Raisers(v.task)
           \/ v.task \in Tasks /\ tasks[v.task] # None /\ tasks[v.task].retry < MaxRetries
  PROVE  TypeOK' /\ TaskInv'
<1>1. /\ workers'[w] = v /\ workers' \in [Workers -> WorkerStates]
      /\ \A x \in Workers : x # w => workers'[x] = workers[x]
  BY WorkerChange, Zenon DEF ConnectorInv, RegistryInv
<1>2. TypeOK'
  BY <1>1, Zenon DEF ConnectorInv, RegistryInv, TypeOK, adminVars
<1>3. ASSUME NEW k \in Tasks PROVE RetryBudget(k)'
  <2>1. CASE Raisers(k)' \subseteq Raisers(k)
    BY <2>1, BudgetKept, Zenon DEF ConnectorInv, RegistryInv, TypeOK, TaskInv
  <2>2. CASE ~(Raisers(k)' \subseteq Raisers(k))
    <3>1. k = v.task /\ w \notin Raisers(k) /\ v.pc \in {"connector", "execute", "write"} /\ v.retry < MaxRetries
      BY <1>1, <2>2, Zenon DEF Raisers
    <3>2. tasks[k] # None /\ tasks[k].retry < MaxRetries
      BY <3>1, Zenon
    <3>3. tasks[k].retry \in Nat
      BY <3>2, Zenon DEF ConnectorInv, RegistryInv, TypeOK, TaskRows
    <3>. QED BY <3>2, <3>3, RetriesAssumption DEF RetryBudget
  <2>. QED BY <2>1, <2>2, Zenon
<1>4. TaskInv'
  BY <1>1, <1>3, WorkerStepKeeps, Zenon
<1>. QED BY <1>2, <1>4, Zenon

\* A step of a worker that writes its task, and is no raiser afterwards.  Raising
\* the count uses up the worker's own place among the raisers.
LEMMA WritingStep ==
  ASSUME ConnectorInv, NEW w \in Workers, NEW v \in WorkerStates, NEW k \in Tasks, NEW x \in TaskRows,
         tasks[k] \in TaskRows,
         workers' = [workers EXCEPT ![w] = v], tasks' = [tasks EXCEPT ![k] = x],
         UNCHANGED <<adminVars, registry, applied>>,
         v.pc \notin {"connector", "execute", "write"},
         WorkerHolds(w)',
         x.op = tasks[k].op,
         x.status = "completed" /\ x.op \in {"create_user", "update_user"} => k \in applied,
         x.retry = tasks[k].retry \/ (x.retry = tasks[k].retry + 1 /\ w \in Raisers(k))
  PROVE  TypeOK' /\ TaskInv'
<1>1. /\ workers'[w] = v /\ workers' \in [Workers -> WorkerStates]
      /\ \A y \in Workers : y # w => workers'[y] = workers[y]
  BY WorkerChange, Zenon DEF ConnectorInv, RegistryInv
<1>2. /\ tasks' \in [Tasks -> TaskRows \cup {None}] /\ tasks'[k] = x
      /\ \A j \in Tasks : j # k => tasks'[j] = tasks[j]
  BY Zenon DEF ConnectorInv, RegistryInv, TypeOK
<1>3. TypeOK'
  BY <1>1, <1>2, Zenon DEF ConnectorInv, RegistryInv, TypeOK, adminVars
<1>4. /\ \A j \in Tasks : Raisers(j)' \subseteq Raisers(j) /\ w \notin Raisers(j)'
  BY <1>1, Zenon DEF Raisers
<1>5. RetryBudget(k)'
  <2>1. CASE x.retry = tasks[k].retry
    BY <1>2, <1>4, <2>1, RowsAssumption, BudgetKept, Zenon DEF ConnectorInv, TaskInv
  <2>2. CASE x.retry = tasks[k].retry + 1 /\ w \in Raisers(k)
    <3> DEFINE old == Raisers(k)  new == Raisers(k)'
    <3>1. IsFiniteSet(old) /\ Cardinality(old) \in Nat /\ Cardinality(old) <= Cardinality(Workers)
      BY RaisersFinite, Zenon
    <3>2. new \in SUBSET (old \ {w})
      BY <1>4, Zenon
    <3>3. w \in old
      BY <2>2, Zenon
    <3> HIDE DEF old, new
    <3>4. IsFiniteSet(old \ {w}) /\ Cardinality(old \ {w}) = Cardinality(old) - 1
      BY <3>1, <3>3, FS_RemoveElement, Zenon
    <3>5. Cardinality(new) \in Nat /\ Cardinality(new) <= Cardinality(old) - 1
      BY <3>2, <3>4, FS_Subset, FS_CardinalityType
    <3>6. tasks[k].retry \in Nat /\ tasks[k] # None
      BY RowsAssumption, Zenon DEF TaskRows
    <3>7. tasks[k].retry >= MaxRetries =>
            tasks[k].retry + Cardinality(old) <= MaxRetries + Cardinality(Workers) - 1
      BY <3>6, Zenon DEF ConnectorInv, TaskInv, RetryBudget, old
    <3>8. x.retry >= MaxRetries => x.retry + Cardinality(new) <= MaxRetries + Cardinality(Workers) - 1
      BY <2>2, <3>1, <3>5, <3>6, <3>7, SomeWorker, RetriesAssumption
    <3>. QED BY <1>2, <3>8, Zenon DEF RetryBudget, new
  <2>. QED BY <2>1, <2>2, Zenon
<1>6. ASSUME NEW j \in Tasks PROVE RetryBudget(j)'
  <2>1. CASE j # k
    BY <1>2, <1>4, <2>1, BudgetKept, Zenon DEF ConnectorInv, RegistryInv, TypeOK, TaskInv
  <2>. QED BY <1>5, <2>1, Zenon
<1>7. TaskInv'
  BY <1>1, <1>2, <1>6, RowsAssumption, WorkerStepKeeps, Zenon
<1>. QED BY <1>3, <1>7, Zenon

\* What the adapters may return as a success for a user task, the target did
\* (executeOperation and the status checks of the adapters).
LEMMA SuccessIsDone ==
  ASSUME NEW type \in Factories, NEW op \in {"create_user", "update_user"}, NEW a \in Answers
  PROVE  /\ "ok" \in Outcomes(type, op, a) => a = "done"
         /\ "ok" \notin Unreached(type, op)
  BY Zenon DEF Factories, Answers, Outcomes, UserOps, MemberOps, ScimUser, AzureUser, LdapReturns, GoogleReturns,
         Unreached, AzureUnauthenticated

\* Every return value is a success, an error or a panic.
LEMMA ReturnsTyped ==
  ASSUME NEW type \in Factories, NEW op, NEW a \in Answers
  PROVE  Outcomes(type, op, a) \cup Unreached(type, op) \subseteq {"ok", "error", "panic"}
  BY Zenon DEF Factories, Answers, Outcomes, UserOps, MemberOps, ScimUser, ScimMember, AzureUser, AzureMember, LdapReturns,
         GoogleReturns, Unreached, AzureUnauthenticated

\* A worker whose call has returned holds nothing.
LEMMA RestingHolds ==
  ASSUME TypeOK, NEW w \in Workers, workers' = [workers EXCEPT ![w] = Resting]
  PROVE  WorkerHolds(w)'
<1>1. workers'[w].pc = "idle"
  BY Zenon DEF TypeOK, Resting
<1>. QED BY <1>1, Zenon DEF WorkerHolds

\* Every step of a worker keeps the invariant of the tasks.
LEMMA WorkerKeepsTasks == ASSUME ConnectorInv, WorkerStep PROVE TypeOK' /\ TaskInv'
<1> USE RowsAssumption, RetriesAssumption
<1>0. PICK w \in Workers :
    \/ \E k \in Tasks : ListPending(w, k)
    \/ MarkProcessing(w) \/ ReadTask(w) \/ GetConnector(w)
    \/ ExecuteOperation(w) \/ WriteResult(w) \/ FailTask(w)
  BY Zenon DEF WorkerStep
<1> DEFINE k == workers[w].task
<1>1. /\ workers[w] \in WorkerStates /\ WorkerHolds(w)
      /\ registry \in [Ids \cup {Unsaved} -> (Types \cap Factories) \cup {None}]
  BY Zenon DEF ConnectorInv, RegistryInv, TypeOK, TaskInv
<1>2. workers[w].pc # "idle" => k \in Tasks /\ tasks[k] \in TaskRows /\ tasks[k] # None
  BY <1>1, Zenon DEF WorkerHolds, ConnectorInv, RegistryInv, TypeOK
<1>3. Resting \in WorkerStates /\ Resting.pc = "idle"
  BY Zenon DEF Resting, WorkerStates
<1>4. ASSUME NEW j \in Tasks, ListPending(w, j) PROVE TypeOK' /\ TaskInv'
  <2> DEFINE v == [workers[w] EXCEPT !.pc = "listed", !.task = j]
  <2>1. /\ tasks[j] # None /\ workers' = [workers EXCEPT ![w] = v]
        /\ UNCHANGED <<adminVars, registry, tasks, applied>>
    BY <1>4, Zenon DEF ListPending
  <2>2. v \in WorkerStates /\ v.pc = "listed" /\ v.task = j
    BY <1>1, Zenon DEF WorkerStates
  <2>3. workers'[w] = v
    BY <2>1, Zenon DEF ConnectorInv, RegistryInv, TypeOK
  <2>4. WorkerHolds(w)'
    BY <2>1, <2>2, <2>3, Zenon DEF WorkerHolds
  <2> HIDE DEF v
  <2>. QED BY <2>1, <2>2, <2>4, QuietStep, Zenon DEF ConnectorInv, RegistryInv, TypeOK
<1>5. CASE MarkProcessing(w)
  <2> DEFINE v == [workers[w] EXCEPT !.pc = "read"]  x == [tasks[k] EXCEPT !.status = "processing"]
  <2>1. /\ workers[w].pc = "listed" /\ UNCHANGED <<adminVars, registry, applied>>
        /\ \/ tasks' = [tasks EXCEPT ![k] = x] /\ workers' = [workers EXCEPT ![w] = v]
           \/ tasks' = [tasks EXCEPT ![k] = x] /\ workers' = [workers EXCEPT ![w] = Resting]
           \/ UNCHANGED tasks /\ workers' = [workers EXCEPT ![w] = Resting]
    BY <1>5, Zenon DEF MarkProcessing, At, SetStatus, Return
  <2>2. v \in WorkerStates /\ v.pc = "read" /\ v.task = k
    BY <1>1, Zenon DEF WorkerStates
  <2>3. x \in TaskRows /\ x.status = "processing" /\ x.op = tasks[k].op /\ x.retry = tasks[k].retry
    BY <1>2, <2>1, Zenon DEF TaskRows
  <2>4. workers' = [workers EXCEPT ![w] = v] => workers'[w] = v
    BY Zenon DEF ConnectorInv, RegistryInv, TypeOK
  <2>5. tasks' = [tasks EXCEPT ![k] = x] => tasks'[k] = x /\ x # None
    BY <1>2, <2>1, <2>3, Zenon DEF ConnectorInv, RegistryInv, TypeOK
  <2> HIDE DEF v, x
  <2>6. CASE tasks' = [tasks EXCEPT ![k] = x] /\ workers' = [workers EXCEPT ![w] = v]
    <3>1. WorkerHolds(w)'
      BY <1>2, <2>1, <2>2, <2>4, <2>5, <2>6, Zenon DEF WorkerHolds
    <3>. QED BY <1>2, <2>1, <2>2, <2>3, <2>6, <3>1, WritingStep, Zenon
  <2>7. CASE tasks' = [tasks EXCEPT ![k] = x] /\ workers' = [workers EXCEPT ![w] = Resting]
    <3>1. WorkerHolds(w)'
      BY <1>3, <2>7, RestingHolds, Zenon DEF ConnectorInv, RegistryInv
    <3>. QED BY <1>2, <1>3, <2>1, <2>3, <2>7, <3>1, WritingStep, Zenon
  <2>8. CASE UNCHANGED tasks /\ workers' = [workers EXCEPT ![w] = Resting]
    <3>1. WorkerHolds(w)'
      BY <1>3, <2>8, RestingHolds, Zenon DEF ConnectorInv, RegistryInv
    <3>. QED BY <1>3, <2>1, <2>8, <3>1, QuietStep, Zenon DEF ConnectorInv, RegistryInv, TypeOK
  <2>. QED BY <2>1, <2>6, <2>7, <2>8, Zenon
<1>6. CASE ReadTask(w)
  <2> DEFINE v == [workers[w] EXCEPT !.pc = "connector", !.retry = tasks[k].retry]
  <2>1. /\ workers[w].pc = "read" /\ UNCHANGED <<adminVars, registry, tasks, applied>>
        /\ workers' = [workers EXCEPT ![w] = v] \/ workers' = [workers EXCEPT ![w] = Resting]
    BY <1>6, Zenon DEF ReadTask, At, Return
  <2>2. tasks[k].retry \in Nat
    BY <1>2, <2>1, Zenon DEF TaskRows
  <2>3. v \in WorkerStates /\ v.pc = "connector" /\ v.task = k /\ v.retry = tasks[k].retry
    BY <1>1, <2>2, Zenon DEF WorkerStates
  <2> HIDE DEF v
  <2>4. CASE workers' = [workers EXCEPT ![w] = v]
    <3>1. workers'[w] = v
      BY <2>4, Zenon DEF ConnectorInv, RegistryInv, TypeOK
    <3>2. WorkerHolds(w)'
      BY <1>2, <2>1, <2>3, <3>1, Zenon DEF WorkerHolds
    <3>. QED BY <1>2, <2>1, <2>3, <2>4, <3>2, QuietStep, Zenon DEF ConnectorInv, RegistryInv, TypeOK
  <2>5. CASE workers' = [workers EXCEPT ![w] = Resting]
    <3>1. WorkerHolds(w)'
      BY <2>5, RestingHolds, Zenon DEF ConnectorInv, RegistryInv
    <3>. QED BY <1>3, <2>1, <2>5, <3>1, QuietStep, Zenon DEF ConnectorInv, RegistryInv, TypeOK
  <2>. QED BY <2>1, <2>4, <2>5, Zenon
<1>7. CASE GetConnector(w)
  <2> DEFINE conn == registry[tasks[k].connector]
             v == [workers[w] EXCEPT !.pc = IF conn = None THEN "fail" ELSE "execute", !.conn = conn]
  <2>1. /\ workers[w].pc = "connector" /\ workers' = [workers EXCEPT ![w] = v]
        /\ UNCHANGED <<adminVars, registry, tasks, applied>>
    BY <1>7, Zenon DEF GetConnector, At
  <2>2. conn \in (Types \cap Factories) \cup {None}
    BY <1>1, <1>2, <2>1, Zenon DEF TaskRows
  <2>3. /\ v \in WorkerStates /\ v.task = k /\ v.retry = workers[w].retry
        /\ v.pc = "fail" \/ (v.pc = "execute" /\ v.conn \in Types \cap Factories)
    BY <1>1, <2>2, Zenon DEF WorkerStates
  <2>4. workers'[w] = v
    BY <2>1, Zenon DEF ConnectorInv, RegistryInv, TypeOK
  <2>5. WorkerHolds(w)'
    BY <1>2, <2>1, <2>3, <2>4, Zenon DEF WorkerHolds
  <2>6. v.pc = "execute" /\ v.retry < MaxRetries => w \in Raisers(k)
    BY <2>1, <2>3, Zenon DEF Raisers
  <2> HIDE DEF v, conn
  <2>. QED BY <1>2, <2>1, <2>3, <2>5, <2>6, QuietStep, Zenon DEF ConnectorInv, RegistryInv, TypeOK
<1>8. CASE ExecuteOperation(w)
  <2> DEFINE type == workers[w].conn
  <2>1. /\ workers[w].pc = "execute" /\ UNCHANGED <<adminVars, registry, tasks>>
        /\ k \in Tasks /\ tasks[k] \in TaskRows /\ type \in Types \cap Factories
    BY <1>1, <1>2, <1>8, Zenon DEF ExecuteOperation, At, WorkerHolds
  <2>2. PICK result \in {"ok", "error", "panic"} :
          /\ Returned(w, result)
          /\ applied \subseteq applied' /\ applied' \subseteq Tasks
          /\ result = "ok" /\ tasks[k].op \in {"create_user", "update_user"} => k \in applied'
    <3>1. CASE \E result \in Unreached(type, tasks[k].op) : Returned(w, result) /\ UNCHANGED applied
      <4>1. PICK result \in Unreached(type, tasks[k].op) : Returned(w, result) /\ UNCHANGED applied
        BY <3>1, Zenon
      <4>2. "lost" \in Answers
        BY Zenon DEF Answers
      <4>3. result \in {"ok", "error", "panic"}
        BY <2>1, <4>2, ReturnsTyped, Zenon
      <4>4. tasks[k].op \in {"create_user", "update_user"} => result # "ok"
        BY <2>1, <4>2, SuccessIsDone, Zenon
      <4>. QED BY <4>1, <4>3, <4>4, Zenon DEF ConnectorInv, RegistryInv, TypeOK
    <3>2. CASE \E a \in Answers :
                 /\ \E result \in Outcomes(type, tasks[k].op, a) : Returned(w, result)
                 /\ applied' \in (CASE a = "done" -> {applied \cup {k}}
                                    [] a = "refused" -> {applied}
                                    [] a = "lost" -> {applied, applied \cup {k}})
      <4>1. PICK a \in Answers :
                 /\ \E result \in Outcomes(type, tasks[k].op, a) : Returned(w, result)
                 /\ applied' \in (CASE a = "done" -> {applied \cup {k}}
                                    [] a = "refused" -> {applied}
                                    [] a = "lost" -> {applied, applied \cup {k}})
        BY <3>2, Zenon
      <4>2. PICK result \in Outcomes(type, tasks[k].op, a) : Returned(w, result)
        BY <4>1, Zenon
      <4>3. applied' \in {applied, applied \cup {k}} /\ (a = "done" => k \in applied')
        BY <4>1, Zenon DEF Answers
      <4>4. result \in {"ok", "error", "panic"}
        BY <2>1, ReturnsTyped, Zenon
      <4>5. result = "ok" /\ tasks[k].op \in {"create_user", "update_user"} => a = "done"
        BY <2>1, SuccessIsDone, Zenon
      <4>6. applied \subseteq applied' /\ applied' \subseteq Tasks
        BY <2>1, <4>3, Zenon DEF ConnectorInv, RegistryInv, TypeOK
      <4>. QED BY <4>2, <4>3, <4>4, <4>5, <4>6, Zenon
    <3>. QED BY <1>8, <3>1, <3>2, Zenon DEF ExecuteOperation
  <2> DEFINE v == IF result = "panic" THEN Resting
                  ELSE [workers[w] EXCEPT !.pc = "write", !.conn = None, !.result = result]
  <2>3. workers' = [workers EXCEPT ![w] = v]
    BY <2>2, Zenon DEF Returned
  <2>4. v \in WorkerStates /\ (v.pc = "idle" \/ (v.pc = "write" /\ v.task = k /\ v.retry = workers[w].retry
                                                 /\ v.result = result))
    BY <1>1, <1>3, <2>2, Zenon DEF WorkerStates
  <2>5. workers'[w] = v
    BY <2>3, Zenon DEF ConnectorInv, RegistryInv, TypeOK
  <2>6. WorkerHolds(w)'
    BY <1>2, <2>1, <2>2, <2>4, <2>5, Zenon DEF WorkerHolds
  <2>7. v.pc = "write" /\ v.retry < MaxRetries => w \in Raisers(k)
    BY <2>1, <2>4, Zenon DEF Raisers
  <2> HIDE DEF v
  <2>. QED BY <2>1, <2>2, <2>3, <2>4, <2>6, <2>7, QuietStep, Zenon
<1>9. CASE WriteResult(w) \/ FailTask(w)
  <2>1. /\ workers[w].pc \in {"write", "fail"} /\ workers' = [workers EXCEPT ![w] = Resting]
        /\ UNCHANGED <<adminVars, registry, applied>>
    BY <1>9, Zenon DEF WriteResult, FailTask, At, Return
  <2>2. WorkerHolds(w)'
    BY <2>1, RestingHolds, Zenon DEF ConnectorInv, RegistryInv
  <2>3. k \in Tasks /\ tasks[k] \in TaskRows /\ tasks[k].retry \in Nat
    BY <1>2, <2>1, Zenon DEF TaskRows
  <2>4. CASE UNCHANGED tasks
    BY <1>3, <2>1, <2>2, <2>4, QuietStep, Zenon DEF ConnectorInv, RegistryInv, TypeOK
  <2>5. ASSUME NEW status \in {"completed", "failed"}, SetStatus(k, status),
               status = "completed" => workers[w].pc = "write" /\ workers[w].result = "ok"
        PROVE  TypeOK' /\ TaskInv'
    <3> DEFINE x == [tasks[k] EXCEPT !.status = status]
    <3>1. /\ tasks' = [tasks EXCEPT ![k] = x] /\ x \in TaskRows /\ x.status = status
          /\ x.op = tasks[k].op /\ x.retry = tasks[k].retry
      BY <2>3, <2>5, Zenon DEF SetStatus, TaskRows
    <3>2. x.status = "completed" /\ x.op \in {"create_user", "update_user"} => k \in applied
      BY <1>1, <2>5, <3>1, Zenon DEF WorkerHolds
    <3> HIDE DEF x
    <3>. QED BY <1>3, <2>1, <2>2, <2>3, <3>1, <3>2, WritingStep, Zenon
  <2>6. ASSUME workers[w].pc = "write", Retries(workers[w].retry),
               tasks' = [tasks EXCEPT ![k].status = "pending", ![k].retry = @ + 1, ![k].due = FALSE]
        PROVE  TypeOK' /\ TaskInv'
    <3> DEFINE n == tasks[k].retry + 1
               x == [tasks[k] EXCEPT !.status = "pending", !.retry = n, !.due = FALSE]
    <3>1. tasks' = [tasks EXCEPT ![k] = x] /\ n \in Nat
      <4>1. tasks' = [tasks EXCEPT ![k] = [tasks[k] EXCEPT !.status = "pending", !.retry = tasks[k].retry + 1,
                                                           !.due = FALSE]]
        BY <2>6, Zenon
      <4>. QED BY <2>3, <4>1
    <3>2. x \in TaskRows /\ x.status = "pending" /\ x.op = tasks[k].op /\ x.retry = n
      <4> HIDE DEF n
      <4>. QED BY <2>3, <3>1, Zenon DEF TaskRows
    <3>3. w \in Raisers(k)
      BY <2>6, Zenon DEF Raisers, Retries
    <3> HIDE DEF x
    <3>. QED BY <1>3, <2>1, <2>2, <2>3, <3>1, <3>2, <3>3, WritingStep, Zenon DEF n
  <2>. QED BY <1>9, <2>1, <2>4, <2>5, <2>6, Zenon DEF WriteResult, FailTask, At
<1>. QED BY <1>0, <1>4, <1>5, <1>6, <1>7, <1>8, <1>9, Zenon
-----------------------------------------------------------------------------
(* All steps together *)

\* A step that leaves the tasks alone keeps their invariant, and one that leaves
\* rows, calls and registry alone keeps theirs.
LEMMA PartUntouched ==
  /\ TaskInv /\ UNCHANGED taskVars => TaskInv'
  /\ RegistryInv /\ UNCHANGED <<adminVars, registry>> /\ TypeOK' => RegistryInv'
<1>1. ASSUME TaskInv, UNCHANGED taskVars PROVE TaskInv'
  <2>1. \A k \in Tasks : Raisers(k)' = Raisers(k)
    BY <1>1, Zenon DEF Raisers, taskVars
  <2>. QED BY <1>1, <2>1, Zenon DEF TaskInv, taskVars, WorkerHolds, CompletedWasApplied, RetryBudget
<1>2. ASSUME RegistryInv, UNCHANGED <<adminVars, registry>>, TypeOK' PROVE RegistryInv'
  BY <1>2 DEF RegistryInv, RegistersOwnRow, RegistryBacked, adminVars
<1>. QED BY <1>1, <1>2, Zenon

\* No task and no worker at the start.
LEMMA ConnectorInvInit == Init => ConnectorInv
<1> SUFFICES ASSUME Init PROVE TaskInv
  BY RegistryInvInit, Zenon DEF ConnectorInv
<1>1. \A k \in Tasks : tasks[k] = None
  BY Zenon DEF Init
<1>2. \A w \in Workers : workers[w].pc = "idle"
  BY Zenon DEF Init, Resting
<1>. QED BY <1>1, <1>2, Zenon DEF TaskInv, WorkerHolds, CompletedWasApplied, RetryBudget

\* Every step of administrators, workers and the process keeps the invariant.
LEMMA ConnectorInvStep == ConnectorInv /\ [Next]_vars => ConnectorInv'
<1> SUFFICES ASSUME ConnectorInv, [Next]_vars PROVE ConnectorInv'
  BY Zenon
<1> USE IdsAssumption, RowsAssumption
<1>1. CASE AdminStep
  <2>1. UNCHANGED taskVars
    BY <1>1, Zenon DEF AdminStep, CreateConnector, CreateRegister, DeleteConnector, DisableConnector, RemoveInstance,
                TestConnection, TestRemove
  <2>. QED BY <1>1, <2>1, AdminKeepsRegistry, PartUntouched, Zenon DEF ConnectorInv
<1>2. ASSUME NEW t \in Tenants, NEW i \in known, EnableConnector(t, i) PROVE ConnectorInv'
  <2>1. UNCHANGED <<registry, known, reqs, unsettled, taskVars>> /\ SetEnabled(t, i, TRUE) /\ i \in Ids
    BY <1>2, Zenon DEF EnableConnector, ConnectorInv, RegistryInv, TypeOK
  <2>2. rows[i] # None => [rows[i] EXCEPT !.enabled = TRUE] \in Rows /\ [rows[i] EXCEPT !.enabled = TRUE].enabled
    BY <2>1, ZenonT(30) DEF ConnectorInv, RegistryInv, TypeOK, Rows
  <2>3. /\ rows' \in [Ids -> Rows \cup {None}]
        /\ \A j \in Ids : rows[j] # None => /\ rows'[j] # None
                                            /\ rows[j].enabled => rows'[j].enabled
    BY <2>1, <2>2, Zenon DEF SetEnabled, RowIn, ConnectorInv, RegistryInv, TypeOK
  <2>4. TypeOK'
    BY <2>1, <2>3, Zenon DEF ConnectorInv, RegistryInv, TypeOK, taskVars
  <2>5. RegistersOwnRow' /\ RegistryBacked'
    BY <2>1, <2>3 DEF ConnectorInv, RegistryInv, RegistersOwnRow, RegistryBacked
  <2>. QED BY <2>1, <2>4, <2>5, PartUntouched, Zenon DEF ConnectorInv, RegistryInv
<1>3. ASSUME NEW k \in Tasks, NEW i \in known, NEW op \in Ops, EnqueueTask(k, i, op) PROVE ConnectorInv'
  <2> DEFINE x == [connector |-> i, op |-> op, retry |-> 0, due |-> TRUE, status |-> "pending"]
  <2>1. /\ tasks[k] = None /\ tasks' = [tasks EXCEPT ![k] = x]
        /\ UNCHANGED <<adminVars, registry, workers, applied>>
    BY <1>3, Zenon DEF EnqueueTask
  <2>2. x \in TaskRows /\ x.retry = 0 /\ x.status = "pending"
    <3>1. i \in Ids
      BY Zenon DEF ConnectorInv, RegistryInv, TypeOK
    <3>. QED BY <3>1, Zenon DEF TaskRows
  <2>3. /\ tasks'[k] = x /\ tasks' \in [Tasks -> TaskRows \cup {None}]
        /\ \A j \in Tasks : j # k => tasks'[j] = tasks[j]
    BY <2>1, <2>2, Zenon DEF ConnectorInv, RegistryInv, TypeOK
  <2> HIDE DEF x
  <2>4. TypeOK'
    BY <2>1, <2>3, Zenon DEF ConnectorInv, RegistryInv, TypeOK, adminVars
  <2>5. ASSUME NEW w \in Workers PROVE WorkerHolds(w)'
    BY <2>1, <2>3, Zenon DEF WorkerHolds, ConnectorInv, TaskInv
  <2>6. CompletedWasApplied'
    BY <2>1, <2>2, <2>3, Zenon DEF ConnectorInv, TaskInv, CompletedWasApplied
  <2>7. ASSUME NEW j \in Tasks PROVE RetryBudget(j)'
    <3>1. Raisers(j)' = Raisers(j)
      BY <2>1, Zenon DEF Raisers
    <3>2. CASE j # k
      BY <2>3, <3>1, <3>2, Zenon DEF RetryBudget, ConnectorInv, TaskInv
    <3>3. CASE j = k
      <4>1. Raisers(k)' = {}
        BY <2>1, Zenon DEF Raisers, ConnectorInv, TaskInv, WorkerHolds
      <4>. QED BY <2>2, <2>3, <3>3, <4>1, FS_EmptySet, SomeWorker, RetriesAssumption DEF RetryBudget
    <3>. QED BY <3>2, <3>3, Zenon
  <2>. QED BY <2>1, <2>4, <2>5, <2>6, <2>7, PartUntouched, Zenon DEF ConnectorInv, TaskInv
<1>4. ASSUME NEW k \in Tasks, ComesDue(k) PROVE ConnectorInv'
  <2> DEFINE x == [tasks[k] EXCEPT !.due = TRUE]
  <2>1. /\ tasks[k] # None /\ tasks' = [tasks EXCEPT ![k] = x]
        /\ UNCHANGED <<adminVars, registry, workers, applied>>
    BY <1>4, Zenon DEF ComesDue
  <2>2. x \in TaskRows /\ x.retry = tasks[k].retry /\ x.status = tasks[k].status /\ x.op = tasks[k].op
    BY <2>1, Zenon DEF ConnectorInv, RegistryInv, TypeOK, TaskRows
  <2>3. /\ tasks'[k] = x /\ tasks' \in [Tasks -> TaskRows \cup {None}]
        /\ \A j \in Tasks : j # k => tasks'[j] = tasks[j]
    BY <2>1, <2>2, Zenon DEF ConnectorInv, RegistryInv, TypeOK
  <2> HIDE DEF x
  <2>4. TypeOK'
    BY <2>1, <2>3, Zenon DEF ConnectorInv, RegistryInv, TypeOK, adminVars
  <2>5. ASSUME NEW w \in Workers PROVE WorkerHolds(w)'
    BY <2>1, <2>2, <2>3 DEF WorkerHolds, ConnectorInv, TaskInv
  <2>6. CompletedWasApplied'
    BY <2>1, <2>2, <2>3, Zenon DEF ConnectorInv, TaskInv, CompletedWasApplied
  <2>7. ASSUME NEW j \in Tasks PROVE RetryBudget(j)'
    <3>1. Raisers(j)' = Raisers(j)
      BY <2>1, Zenon DEF Raisers
    <3>. QED BY <2>1, <2>2, <2>3, <3>1, Zenon DEF RetryBudget, ConnectorInv, TaskInv
  <2>. QED BY <2>1, <2>4, <2>5, <2>6, <2>7, PartUntouched, Zenon DEF ConnectorInv, TaskInv
<1>5. CASE WorkerStep
  <2>1. UNCHANGED <<adminVars, registry>>
    BY <1>5, Zenon DEF WorkerStep, ListPending, MarkProcessing, ReadTask, GetConnector, ExecuteOperation, WriteResult,
                FailTask
  <2>. QED BY <1>5, <2>1, WorkerKeepsTasks, PartUntouched, Zenon DEF ConnectorInv
<1>6. CASE Restart
  <2>1. /\ registry' = [i \in Ids \cup {Unsaved} |-> None] /\ reqs' = [r \in Requests |-> Free]
        /\ workers' = [w \in Workers |-> Resting] /\ unsettled' = {}
        /\ UNCHANGED <<rows, known, tasks, applied>>
    BY <1>6, Zenon DEF Restart
  <2>2. Free \in RequestStates /\ Free.pc = "idle" /\ Resting \in WorkerStates /\ Resting.pc = "idle"
    BY Zenon DEF Free, RequestStates, Resting, WorkerStates
  <2>3. TypeOK'
    BY <2>1, <2>2, Zenon DEF ConnectorInv, RegistryInv, TypeOK
  <2>4. RegistersOwnRow' /\ RegistryBacked'
    BY <2>1, <2>2, Zenon DEF RegistersOwnRow, RegistryBacked
  <2>5. ASSUME NEW w \in Workers PROVE WorkerHolds(w)'
    BY <2>1, <2>2, Zenon DEF WorkerHolds
  <2>6. CompletedWasApplied'
    BY <2>1, Zenon DEF ConnectorInv, TaskInv, CompletedWasApplied
  <2>7. ASSUME NEW k \in Tasks PROVE RetryBudget(k)'
    <3>1. Raisers(k)' \subseteq Raisers(k)
      BY <2>1, <2>2, Zenon DEF Raisers
    <3>. QED BY <2>1, <3>1, BudgetKept, Zenon DEF ConnectorInv, RegistryInv, TypeOK, TaskInv
  <2>. QED BY <2>3, <2>4, <2>5, <2>6, <2>7, Zenon DEF ConnectorInv, RegistryInv, TaskInv
<1>7. CASE UNCHANGED vars
  <2>1. UNCHANGED taskVars /\ UNCHANGED <<adminVars, registry>>
    BY <1>7, Zenon DEF vars
  <2>2. TypeOK'
    BY <2>1, Zenon DEF ConnectorInv, RegistryInv, TypeOK, taskVars, adminVars
  <2>. QED BY <2>1, <2>2, PartUntouched, Zenon DEF ConnectorInv
<1>. QED BY <1>1, <1>2, <1>3, <1>4, <1>5, <1>6, <1>7, Zenon DEF Next

\* The inductive invariant of connectors and tasks (connector/service.go,
\* provisioning.go) holds in every reachable state.
THEOREM ConnectorInvariance == Spec => []ConnectorInv
  BY ConnectorInvInit, ConnectorInvStep, PTL DEF Spec

\* Rows, registry, calls, tasks and workers keep their shape.
THEOREM ConnectorTypes == Spec => []TypeOK
<1>1. ConnectorInv => TypeOK
  BY Zenon DEF ConnectorInv, RegistryInv
<1>. QED BY <1>1, ConnectorInvariance, PTL

\* No instance stays in the registry without an enabled row, a call that is about
\* to take it out, or a deletion or disabling that was answered with an error
\* (DeleteConnector, ToggleConnector, TestConnection).
THEOREM NoOrphanInstance == Spec => []RegistryBacked
<1>1. ConnectorInv => RegistryBacked
  BY Zenon DEF ConnectorInv, RegistryInv
<1>. QED BY <1>1, ConnectorInvariance, PTL

\* A completed create_user or update_user task was carried out (ProcessTask).
THEOREM CompletedIsApplied == Spec => []CompletedWasApplied
<1>1. ConnectorInv => CompletedWasApplied
  BY Zenon DEF ConnectorInv, TaskInv
<1>. QED BY <1>1, ConnectorInvariance, PTL

\* The retry count passes max_retries by fewer than there are workers
\* (ProcessTask).
THEOREM RetriesStayBounded == Spec => []RetriesBounded
<1>1. ASSUME ConnectorInv PROVE RetriesBounded
  <2> SUFFICES ASSUME NEW k \in Tasks, tasks[k] # None
               PROVE  tasks[k].retry <= MaxRetries + Cardinality(Workers) - 1
    BY Zenon DEF RetriesBounded
  <2>1. tasks[k].retry \in Nat
    BY <1>1, Zenon DEF ConnectorInv, RegistryInv, TypeOK, TaskRows
  <2>2. tasks[k].retry >= MaxRetries =>
          tasks[k].retry + Cardinality(Raisers(k)) <= MaxRetries + Cardinality(Workers) - 1
    BY <1>1, Zenon DEF ConnectorInv, TaskInv, RetryBudget
  <2>. QED BY <2>1, <2>2, RaisersFinite, SomeWorker, RetriesAssumption
<1>. QED BY <1>1, ConnectorInvariance, PTL
-----------------------------------------------------------------------------
(* Webhooks *)

\* The subscription h asked for event e, and was there when it was published.
Asked(e, h) ==
  /\ event[e] # None /\ hook[h] # None
  /\ h \notin goneBefore[e]
  /\ hook[h].tenant = event[e].tenant
  /\ event[e].type \in hook[h].events

\* Before its lookup an event is sent to no one; what a running goroutine sends
\* and what was received was asked for; and a hook deleted before the event is
\* still deleted.
Deliveries ==
  /\ \A e \in Events, h \in Hooks :
       /\ event[e] = None \/ event[e].pc = "lookup" => <<e, h>> \notin sends \cup received
       /\ <<e, h>> \in sends \cup received => Asked(e, h)
       /\ h \in goneBefore[e] => hook[h] # None /\ hook[h].deleted

WebhookInv == WebhookTypeOK /\ Deliveries

\* Nothing exists at the start.
LEMMA WebhookInvInit == WebhookInit => WebhookInv
  BY SMTT(60) DEF WebhookInit, WebhookInv, WebhookTypeOK, Deliveries, Asked

\* Every step of subscriptions and dispatcher keeps the invariant.
LEMMA WebhookInvStep == WebhookInv /\ [WebhookNext]_webhookVars => WebhookInv'
<1> SUFFICES ASSUME WebhookInv, [WebhookNext]_webhookVars PROVE WebhookInv'
  BY Zenon
<1> USE WebhookAssumption DEF WebhookInv, WebhookTypeOK
<1>1. ASSUME NEW h \in Hooks, NEW t \in Tenants, NEW types \in Wishes, NEW usable \in BOOLEAN,
             CreateWebhook(h, t, types, usable)
      PROVE  WebhookInv'
  <2>1. /\ hook[h] = None /\ NewHook(t, types, usable) \in HookRows
        /\ hook' = [hook EXCEPT ![h] = NewHook(t, types, usable)]
        /\ UNCHANGED <<event, sends, tried, received, goneBefore>>
    <3>1. types \in (SUBSET EventTypes) \ {{}}
      BY <1>1, Zenon DEF CreateWebhook
    <3>2. NewHook(t, types, usable) \in HookRows
      BY <3>1, Zenon DEF NewHook, HookRows
    <3>. QED BY <1>1, <3>2, Zenon DEF CreateWebhook
  <2>2. WebhookTypeOK'
    BY <2>1, Zenon
  <2>3. Deliveries'
    BY <2>1, SMTT(60) DEF Deliveries, Asked
  <2>. QED BY <2>2, <2>3, Zenon
<1>2. ASSUME NEW h \in Hooks, NEW t \in Tenants, DeleteWebhook(h, t) PROVE WebhookInv'
  <2>1. /\ hook[h] \in HookRows
        /\ hook' = [hook EXCEPT ![h] = [hook[h] EXCEPT !.deleted = TRUE]]
        /\ UNCHANGED <<event, sends, tried, received, goneBefore>>
    BY <1>2, Zenon DEF DeleteWebhook, HookOf, IsRow
  <2>2. [hook[h] EXCEPT !.deleted = TRUE] \in HookRows
    BY <2>1, ZenonT(60) DEF HookRows
  <2>3. WebhookTypeOK'
    BY <2>1, <2>2, Zenon
  <2>4. \A g \in Hooks : hook[g] # None => /\ hook'[g] # None /\ hook'[g].tenant = hook[g].tenant
                                           /\ hook'[g].events = hook[g].events
                                           /\ hook[g].deleted => hook'[g].deleted
    BY <2>1, <2>2, ZenonT(60) DEF HookRows
  <2>5. Deliveries'
    BY <2>1, <2>4, SMTT(60) DEF Deliveries, Asked
  <2>. QED BY <2>3, <2>5, Zenon
<1>3. ASSUME NEW e \in Events, NEW t \in Tenants, NEW type \in EventTypes, Publish(e, t, type)
      PROVE WebhookInv'
  <2> DEFINE row == [tenant |-> t, type |-> type, pc |-> "lookup"]
  <2>1. /\ event[e] = None /\ event' = [event EXCEPT ![e] = row]
        /\ goneBefore' = [goneBefore EXCEPT ![e] = {h \in Hooks : Deleted(h)}]
        /\ UNCHANGED <<hook, sends, tried, received>>
    BY <1>3, Zenon DEF Publish
  <2>2. row \in EventStates /\ row.pc = "lookup"
    BY Zenon DEF EventStates
  <2>3. WebhookTypeOK'
    BY <2>1, <2>2, Zenon
  <2>4. Deliveries'
    BY <2>1, <2>2, SMTT(60) DEF Deliveries, Asked, Deleted
  <2>. QED BY <2>3, <2>4, Zenon
<1>4. ASSUME NEW e \in Events, ProcessEvent(e) PROVE WebhookInv'
  <2> DEFINE found == GetWebhooksForEvent(event[e].tenant, event[e].type)
  <2>1. /\ event[e] \in EventStates /\ event[e].pc = "lookup"
        /\ event' = [event EXCEPT ![e] = [event[e] EXCEPT !.pc = "sent"]]
        /\ UNCHANGED <<hook, tried, received, goneBefore>>
    BY <1>4, Zenon DEF ProcessEvent
  <2>2. sends' = sends \cup ({e} \X found) /\ found \subseteq Hooks
    BY <1>4, Zenon DEF ProcessEvent, GoroutinePerHook, GetWebhooksForEvent
  <2>3. \A h \in found : Asked(e, h)
    BY <2>1, ZenonT(60) DEF GetWebhooksForEvent, IsRow, Asked, Deliveries
  <2> HIDE DEF found
  <2>4. /\ [event[e] EXCEPT !.pc = "sent"] \in EventStates
        /\ event'[e].tenant = event[e].tenant /\ event'[e].type = event[e].type /\ event'[e].pc = "sent"
    BY <2>1, Zenon DEF EventStates
  <2>5. WebhookTypeOK'
    BY <2>1, <2>2, <2>4, Zenon
  <2>6. Deliveries'
    <3> SUFFICES ASSUME NEW f \in Events, NEW h \in Hooks
                 PROVE  /\ event'[f] = None \/ event'[f].pc = "lookup" => <<f, h>> \notin sends' \cup received'
                        /\ <<f, h>> \in sends' \cup received' => Asked(f, h)'
                        /\ h \in goneBefore'[f] => hook'[h] # None /\ hook'[h].deleted
      BY SMTT(60) DEF Deliveries
    <3>1. Asked(f, h) => Asked(f, h)'
      BY <2>1, <2>4, Zenon DEF Asked
    <3>2. <<f, h>> \in sends' => <<f, h>> \in sends \/ (f = e /\ h \in found)
      BY <2>2, Zenon
    <3>3. event'[f] = None \/ event'[f].pc = "lookup" => f # e /\ event'[f] = event[f]
      BY <2>1, <2>4, Zenon
    <3>. QED BY <2>1, <2>3, <3>1, <3>2, <3>3, SMTT(60) DEF Deliveries
  <2>. QED BY <2>5, <2>6, Zenon
<1>5. ASSUME NEW e \in Events, ProcessFails(e) PROVE WebhookInv'
  <2>1. /\ event[e] \in EventStates
        /\ event' = [event EXCEPT ![e] = [event[e] EXCEPT !.pc = "failed"]]
        /\ UNCHANGED <<hook, sends, tried, received, goneBefore>>
    BY <1>5, Zenon DEF ProcessFails
  <2>2. /\ [event[e] EXCEPT !.pc = "failed"] \in EventStates
        /\ event'[e].tenant = event[e].tenant /\ event'[e].type = event[e].type /\ event'[e].pc = "failed"
    BY <2>1, Zenon DEF EventStates
  <2>3. WebhookTypeOK'
    BY <2>1, <2>2, Zenon
  <2>4. Deliveries'
    BY <2>1, <2>2, SMTT(60) DEF Deliveries, Asked
  <2>. QED BY <2>3, <2>4, Zenon
<1>6. ASSUME NEW e \in Events, NEW h \in Hooks, SendWebhook(e, h) PROVE WebhookInv'
  <2>1. /\ <<e, h>> \in sends /\ sends' = sends \ {<<e, h>>}
        /\ UNCHANGED <<hook, event, goneBefore>>
        /\ \/ received' \subseteq received \cup {<<e, h>>} /\ tried' = tried \cup {<<e, h>>}
           \/ UNCHANGED <<received, tried>>
    BY <1>6, Zenon DEF SendWebhook, Do
  <2>2. WebhookTypeOK'
    BY <2>1, Zenon
  <2>3. Deliveries'
    BY <2>1, SMTT(60) DEF Deliveries, Asked
  <2>. QED BY <2>2, <2>3, Zenon
<1>7. CASE WebhookRestart
  <2>1. /\ sends' = {} /\ UNCHANGED <<hook, tried, received, goneBefore>>
        /\ event' = [e \in Events |->
             IF event[e] # None /\ (event[e].pc = "lookup" \/ \E h \in Hooks : <<e, h>> \in sends)
             THEN [event[e] EXCEPT !.pc = "lost"] ELSE event[e]]
    BY <1>7, Zenon DEF WebhookRestart
  <2>2. ASSUME NEW e \in Events, event[e] # None
        PROVE  /\ [event[e] EXCEPT !.pc = "lost"] \in EventStates
               /\ [event[e] EXCEPT !.pc = "lost"].tenant = event[e].tenant
               /\ [event[e] EXCEPT !.pc = "lost"].type = event[e].type
    BY <2>2 DEF EventStates
  <2>3. \A e \in Events :
          /\ event[e] = None => event'[e] = None
          /\ event[e] # None => /\ event'[e] \in EventStates /\ event'[e] # None
                                /\ event'[e].tenant = event[e].tenant /\ event'[e].type = event[e].type
    BY <2>1, <2>2, ZenonT(60)
  <2>4. ASSUME NEW e \in Events, event'[e] # None PROVE event'[e].pc # "lookup"
    <3>1. event[e] # None
      BY <2>3, <2>4, Zenon
    <3>2. [event[e] EXCEPT !.pc = "lost"].pc = "lost"
      BY <3>1, Zenon DEF EventStates
    <3>. QED BY <2>1, <3>1, <3>2, Zenon
  <2>5. WebhookTypeOK'
    BY <2>1, <2>3, ZenonT(60)
  <2>6. Deliveries'
    <3>1. \A e \in Events, h \in Hooks : Asked(e, h) => Asked(e, h)'
      BY <2>1, <2>3, ZenonT(60) DEF Asked
    <3>2. \A e \in Events : event'[e] = None \/ event'[e].pc = "lookup" => event[e] = None
      BY <2>3, <2>4, Zenon
    <3>. QED BY <2>1, <3>1, <3>2, ZenonT(60) DEF Deliveries
  <2>. QED BY <2>5, <2>6, Zenon
<1>8. CASE UNCHANGED webhookVars
  BY <1>8, SMTT(60) DEF webhookVars, Deliveries, Asked
<1> HIDE DEF WebhookInv, WebhookTypeOK
<1>. QED BY <1>1, <1>2, <1>3, <1>4, <1>5, <1>6, <1>7, <1>8, ZenonT(60) DEF WebhookNext

\* The inductive invariant of subscriptions and dispatcher (webhook/service.go,
\* event/dispatcher.go) holds in every reachable state.
THEOREM WebhookInvariance == WebhookSpec => []WebhookInv
  BY WebhookInvInit, WebhookInvStep, PTL DEF WebhookSpec

\* An endpoint receives only what its subscription asked for (processEvent).
THEOREM OnlyWhereAsked == WebhookSpec => []DeliveredWhereAsked
<1>1. WebhookInv => DeliveredWhereAsked
  BY SMTT(60) DEF WebhookInv, WebhookTypeOK, Deliveries, Asked, DeliveredWhereAsked
<1>. QED BY <1>1, WebhookInvariance, PTL

\* The rows of subscriptions and events and the histories keep their shape
\* (CreateWebhook, processEvent).
THEOREM WebhookTypes == WebhookSpec => []WebhookTypeOK
<1>1. WebhookInv => WebhookTypeOK
  BY Zenon DEF WebhookInv
<1>. QED BY <1>1, WebhookInvariance, PTL
=============================================================================
