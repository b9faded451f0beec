------------------------------ MODULE Webhooks ------------------------------
(***************************************************************************)
(* Webhook subscriptions (internal/webhook, internal/governance/           *)
(* webhook_api.go) and the event dispatcher (internal/event).  Publishing  *)
(* starts a goroutine that looks the subscriptions up later and starts one *)
(* goroutine per hook; nothing is queued or retried, and a restart forgets *)
(* what was under way.  No service constructs the dispatcher: its callers  *)
(* are whoever publishes.                                                  *)
(***************************************************************************)
EXTENDS Tenancy

CONSTANTS
  Hooks,        \* webhook ids, never drawn twice
  Events,
  EventTypes,
  Wishes        \* bound: the sets of types that callers ask for

VARIABLES
  hook,         \* webhooks: id -> row, marked once it is deleted; None before it is created
  event,        \* per event: tenant, type and how far processEvent is; or None
  sends,        \* running sendWebhook goroutines, as pairs <<event, hook>>
  tried,        \* history: pairs whose request was made
  received,     \* history: pairs the hook's endpoint got, once or more
  goneBefore    \* history: event -> the hooks deleted before it was published

webhookVars == <<hook, event, sends, tried, received, goneBefore>>

\* usable: a request can be made of the URL.
HookRows == [tenant : Tenants, events : (SUBSET EventTypes) \ {{}}, usable : BOOLEAN, deleted : BOOLEAN]

EventStates == [tenant : Tenants, type : EventTypes, pc : {"lookup", "sent", "failed", "lost"}]

ASSUME WebhookAssumption ==
  Wishes \subseteq SUBSET EventTypes /\ None \notin HookRows \cup EventStates

WebhookTypeOK ==
  /\ hook \in [Hooks -> HookRows \cup {None}]
  /\ event \in [Events -> EventStates \cup {None}]
  /\ sends \subseteq Events \X Hooks
  /\ tried \subseteq Events \X Hooks /\ received \subseteq tried
  /\ goneBefore \in [Events -> SUBSET Hooks]

WebhookInit ==
  /\ hook = [h \in Hooks |-> None]
  /\ event = [e \in Events |-> None]
  /\ sends = {} /\ tried = {} /\ received = {}
  /\ goneBefore = [e \in Events |-> {}]

Deleted(h) == hook[h] # None /\ hook[h].deleted

IsRow(h) == hook[h] # None /\ ~hook[h].deleted

-----------------------------------------------------------------------------
(* Subscriptions *)

\* CreateWebhook of the service: active, which nothing ever changes
NewHook(t, types, usable) == [tenant |-> t, events |-> types, usable |-> usable, deleted |-> FALSE]

\* Mutant: a subscription to nothing is stored.
CreateWebhookAny(h, t, types, usable) ==
  /\ hook[h] = None
  /\ hook' = [hook EXCEPT ![h] = NewHook(t, types, usable)]
  /\ UNCHANGED <<event, sends, tried, received, goneBefore>>

\* createWebhook: at least one event.  The URL parses, which does not make it one
\* that an HTTP client can call.
CreateWebhook(h, t, types, usable) ==
  /\ hook[h] = None
  /\ types # {}
  /\ hook' = [hook EXCEPT ![h] = NewHook(t, types, usable)]
  /\ UNCHANGED <<event, sends, tried, received, goneBefore>>

\* DELETE ... WHERE id = $1 AND tenant_id = $2
HookOf(t, h) == IsRow(h) /\ hook[h].tenant = t

\* deleteWebhook: an id of another tenant deletes nothing, and is no error.
DeleteWebhook(h, t) ==
  /\ HookOf(t, h)
  /\ hook' = [hook EXCEPT ![h].deleted = TRUE]
  /\ UNCHANGED <<event, sends, tried, received, goneBefore>>

-----------------------------------------------------------------------------
(* The dispatcher *)

\* Mutant: the subscriptions of every tenant are found.
HooksForType(t, type) == {h \in Hooks : IsRow(h) /\ type \in hook[h].events}

\* GetWebhooksForEvent
GetWebhooksForEvent(t, type) ==
  {h \in Hooks : IsRow(h) /\ hook[h].tenant = t /\ type \in hook[h].events}

Publish(e, t, type) ==
  /\ event[e] = None
  /\ event' = [event EXCEPT ![e] = [tenant |-> t, type |-> type, pc |-> "lookup"]]
  /\ goneBefore' = [goneBefore EXCEPT ![e] = {h \in Hooks : Deleted(h)}]
  /\ UNCHANGED <<hook, sends, tried, received>>

\* Mutant: the loop returns after its first hook.
FirstOf(e, hooks) == IF hooks = {} THEN {} ELSE {<<e, CHOOSE h \in hooks : TRUE>>}

\* The loop: one goroutine per hook
GoroutinePerHook(e, hooks) == {e} \X hooks

\* processEvent: the subscriptions as they are now
ProcessEvent(e) ==
  /\ event[e] # None /\ event[e].pc = "lookup"
  /\ sends' = sends \cup GoroutinePerHook(e, GetWebhooksForEvent(event[e].tenant, event[e].type))
  /\ event' = [event EXCEPT ![e].pc = "sent"]
  /\ UNCHANGED <<hook, tried, received, goneBefore>>

\* processEvent when the query fails or the payload has no JSON form: logged
ProcessFails(e) ==
  /\ event[e] # None /\ event[e].pc = "lookup"
  /\ event' = [event EXCEPT ![e].pc = "failed"]
  /\ UNCHANGED <<hook, sends, tried, received, goneBefore>>

\* httpClient.Do: the endpoint gets the request and answers, with any status; or
\* gets it and the answer is lost or late; or never gets it.  The client follows
\* redirects, so the endpoint may get it more than once.
Do(e, h) == received' \in {received, received \cup {<<e, h>>}}

\* sendWebhook: one call of Do, or none if there is no request to make; the
\* goroutine ends either way.
SendWebhook(e, h) ==
  /\ <<e, h>> \in sends
  /\ sends' = sends \ {<<e, h>>}
  /\ \/ hook[h].usable /\ Do(e, h) /\ tried' = tried \cup {<<e, h>>}
     \/ ~hook[h].usable /\ UNCHANGED <<received, tried>>
  /\ UNCHANGED <<hook, event, goneBefore>>

\* The service stops and starts again.
WebhookRestart ==
  /\ sends' = {}
  /\ event' = [e \in Events |->
       IF event[e] # None /\ (event[e].pc = "lookup" \/ \E h \in Hooks : <<e, h>> \in sends)
       THEN [event[e] EXCEPT !.pc = "lost"] ELSE event[e]]
  /\ UNCHANGED <<hook, tried, received, goneBefore>>

WebhookNext ==
  \/ \E h \in Hooks, t \in Tenants :
       \/ DeleteWebhook(h, t)
       \/ \E types \in Wishes, usable \in BOOLEAN : CreateWebhook(h, t, types, usable)
  \/ \E e \in Events :
       \/ \E t \in Tenants, type \in EventTypes : Publish(e, t, type)
       \/ ProcessEvent(e) \/ ProcessFails(e)
       \/ \E h \in Hooks : SendWebhook(e, h)
  \/ WebhookRestart

\* The runtime schedules every goroutine.  The query is a call to the database
\* that returns, with rows or an error; the HTTP client gives up after ten
\* seconds.
GoroutinesRun ==
  \A e \in Events : /\ WF_webhookVars(ProcessEvent(e) \/ ProcessFails(e))
                    /\ \A h \in Hooks : WF_webhookVars(SendWebhook(e, h))

WebhookSpec == WebhookInit /\ [][WebhookNext]_webhookVars /\ GoroutinesRun

-----------------------------------------------------------------------------
(* Properties *)

\* An endpoint receives an event only if its subscription is the tenant's, asks
\* for that type, and was not deleted before the event was published; deleting
\* it later stops no delivery (processEvent, GetWebhooksForEvent).
DeliveredWhereAsked ==
  \A e \in Events, h \in Hooks :
    <<e, h>> \in received =>
      /\ h \notin goneBefore[e]
      /\ hook[h].tenant = event[e].tenant
      /\ event[e].type \in hook[h].events

Owed(e, h) ==
  /\ event[e] # None /\ event[e].pc = "lookup"
  /\ h \in GetWebhooksForEvent(event[e].tenant, event[e].type) /\ hook[h].usable

Excused(e, h) == Deleted(h) \/ (event[e] # None /\ event[e].pc \in {"failed", "lost"})

\* A published event is eventually sent to every subscription it finds that a
\* request can be made for, unless the subscription is deleted, the lookup fails
\* or the service restarts (Publish, processEvent, sendWebhook).
OwedIsTried ==
  \A e \in Events, h \in Hooks :
    Owed(e, h) ~> (<<e, h>> \in tried \/ Excused(e, h))
====
