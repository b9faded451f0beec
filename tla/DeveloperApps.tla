--------------------------- MODULE DeveloperApps ---------------------------
(***************************************************************************)
(* The developer portal of authsvc (internal/auth/developer_api.go,        *)
(* developer_app_store.go): applications with a client secret that is      *)
(* shown once.  Deleting is a status, rotating a single UPDATE, and        *)
(* updateApp reads the row and writes part of it in a second statement, so *)
(* that deletions, rotations and other updates fall in between.            *)
(***************************************************************************)
EXTENDS Tenancy

CONSTANTS
  AppIds,       \* random UUIDs, each with its client_id
  AppSecrets,   \* random client secrets
  RedirectUris, \* values of redirect_uris
  PortalCalls   \* goroutines that may serve a creation, an update or a rotation at the same time

VARIABLES
  apps,         \* developer_apps: id -> row or None
  portal,       \* per goroutine: the next step, the app and what it goes on with
  drawn,        \* history: secrets generated so far
  dead,         \* history: (app, secret) that were accepted once and then no more
  shown,        \* history: app -> the secret answered last, to its tenant
  unsure        \* history: apps whose creation or last rotation overlapped another or got no answer

portalVars == <<apps, portal, drawn, dead, shown, unsure>>

AppRows == [tenant : Tenants, secret : AppSecrets, uris : RedirectUris, status : {"active", "deleted"}]

ASSUME PortalAssumption == None \notin AppRows \cup AppIds

PortalIdle == [pc |-> "idle", app |-> None, uris |-> None, secret |-> None]

PortalTypeOK ==
  /\ apps \in [AppIds -> AppRows \cup {None}]
  /\ portal \in [PortalCalls -> [pc : {"idle", "update", "answer"}, app : AppIds \cup {None},
                                 uris : RedirectUris \cup {None}, secret : AppSecrets \cup {None}]]
  /\ drawn \subseteq AppSecrets
  /\ dead \subseteq AppIds \X AppSecrets
  /\ shown \in [AppIds -> AppSecrets \cup {None}]
  /\ unsure \subseteq AppIds

PortalInit ==
  /\ apps = [a \in AppIds |-> None]
  /\ portal = [c \in PortalCalls |-> PortalIdle]
  /\ drawn = {} /\ dead = {} /\ unsure = {}
  /\ shown = [a \in AppIds |-> None]

-----------------------------------------------------------------------------
(* The table *)

\* WHERE tenant_id = $1 AND id = $2
AppOf(t, a) == apps[a] # None /\ apps[a].tenant = t

\* Get: a deleted app is not found.
GetApp(t, a) == IF AppOf(t, a) /\ apps[a].status # "deleted" THEN {apps[a]} ELSE {}

\* GetByClientID: active apps only
GetByClientID(table, a) == IF table[a] # None /\ table[a].status = "active" THEN {table[a]} ELSE {}

\* bcrypt compares the secret with the stored hash.
ValidateCredentials(table, a, s) == \E row \in GetByClientID(table, a) : row.secret = s

\* The table becomes `table`; what it no longer accepts is noted.
Store(table) ==
  /\ apps' = table
  /\ dead' = dead \cup {x \in AppIds \X AppSecrets : /\ ValidateCredentials(apps, x[1], x[2])
                                                      /\ ~ValidateCredentials(table, x[1], x[2])}

-----------------------------------------------------------------------------
(* /apps *)

\* Create: the client id and the defaults, active
NewApp(t, s, u) == [tenant |-> t, secret |-> s, uris |-> u, status |-> "active"]

\* createApp; the answer, with the secret, leaves in a step of its own.
CreateApp(c, t, u) ==
  /\ portal[c] = PortalIdle
  /\ \E a \in Draw({x \in AppIds : apps[x] = None}), s \in Draw(AppSecrets \ drawn) :
       /\ Store([apps EXCEPT ![a] = NewApp(t, s, u)])
       /\ drawn' = drawn \cup {s}
       /\ portal' = [portal EXCEPT ![c] = [PortalIdle EXCEPT !.pc = "answer", !.app = a, !.secret = s]]
  /\ UNCHANGED <<shown, unsure>>

\* updateApp up to the read of the app
UpdateAppRead(c, t, a) ==
  /\ portal[c] = PortalIdle
  /\ \E row \in GetApp(t, a) :
       portal' = [portal EXCEPT ![c] = [PortalIdle EXCEPT !.pc = "update", !.app = a,
                                                          !.uris = row.uris, !.secret = row.secret]]
  /\ UNCHANGED <<apps, drawn, dead, shown, unsure>>

\* Mutant: the whole row that was read is written back.
WriteBackAll(row, read, uris) == [row EXCEPT !.uris = uris, !.secret = read.secret]

\* Update sets the name, description and addresses, whatever the status is now.
WriteBack(row, read, uris) == [row EXCEPT !.uris = uris]

\* A request without redirect URIs keeps those that were read.
UpdateAppWrite(c, u) ==
  LET q == portal[c] IN
  /\ q.pc = "update"
  /\ Store([apps EXCEPT ![q.app] = WriteBack(@, q, IF u = None THEN q.uris ELSE u)])
  /\ portal' = [portal EXCEPT ![c] = PortalIdle]
  /\ UNCHANGED <<drawn, shown, unsure>>

\* The body does not parse, or the UPDATE fails: 400 or 500.
UpdateAppFails(c) ==
  /\ portal[c].pc = "update"
  /\ portal' = [portal EXCEPT ![c] = PortalIdle]
  /\ UNCHANGED <<apps, drawn, dead, shown, unsure>>

\* Mutant: the answer is made before the secret is stored, which then fails.
RotateUnsaved(t, a, s) == apps

\* UPDATE ... SET client_secret_hash by tenant and id: no row is no error.
Rotated(t, a, s) == IF AppOf(t, a) THEN [apps EXCEPT ![a].secret = s] ELSE apps

Unanswered(a) == \E c \in PortalCalls : portal[c].pc = "answer" /\ portal[c].app = a

\* RotateSecret, answered like createApp
RotateSecret(c, t, a) ==
  /\ portal[c] = PortalIdle
  /\ \E s \in Draw(AppSecrets \ drawn) :
       /\ Store(Rotated(t, a, s))
       /\ drawn' = drawn \cup {s}
       /\ portal' = [portal EXCEPT ![c] = [PortalIdle EXCEPT !.pc = "answer", !.secret = s,
                                                             !.app = IF AppOf(t, a) THEN a ELSE None]]
  /\ unsure' = IF ~AppOf(t, a) THEN unsure ELSE IF Unanswered(a) THEN unsure \cup {a} ELSE unsure \ {a}
  /\ UNCHANGED shown

\* 201, or "secret rotated successfully", also for an app that is not there
AnswerSecret(c) ==
  LET q == portal[c] IN
  /\ q.pc = "answer"
  /\ shown' = IF q.app = None THEN shown ELSE [shown EXCEPT ![q.app] = q.secret]
  /\ portal' = [portal EXCEPT ![c] = PortalIdle]
  /\ UNCHANGED <<apps, drawn, dead, unsure>>

\* The statement was carried out but reported as failed, or the answer is lost: no
\* secret is shown.
SecretLost(c) ==
  /\ portal[c].pc = "answer"
  /\ unsure' = unsure \cup ({portal[c].app} \cap AppIds)
  /\ portal' = [portal EXCEPT ![c] = PortalIdle]
  /\ UNCHANGED <<apps, drawn, dead, shown>>

DeleteApp(t, a) ==
  /\ Store(IF AppOf(t, a) THEN [apps EXCEPT ![a].status = "deleted"] ELSE apps)
  /\ UNCHANGED <<portal, drawn, shown, unsure>>

\* authsvc stops and starts: calls in flight end without an answer.
PortalRestart ==
  /\ portal' = [c \in PortalCalls |-> PortalIdle]
  /\ unsure' = unsure \cup {a \in AppIds : Unanswered(a)}
  /\ UNCHANGED <<apps, drawn, dead, shown>>

PortalNext ==
  \/ \E t \in Tenants :
       \/ \E c \in PortalCalls, u \in RedirectUris : CreateApp(c, t, u)
       \/ \E a \in AppIds :
            \/ DeleteApp(t, a)
            \/ \E c \in PortalCalls : UpdateAppRead(c, t, a) \/ RotateSecret(c, t, a)
  \/ \E c \in PortalCalls :
       \/ \E u \in RedirectUris \cup {None} : UpdateAppWrite(c, u)
       \/ UpdateAppFails(c) \/ AnswerSecret(c) \/ SecretLost(c)
  \/ PortalRestart

PortalSpec == PortalInit /\ [][PortalNext]_portalVars

-----------------------------------------------------------------------------
(* Properties *)

\* Credentials that a deletion or a rotation ended are never accepted again,
\* whatever updates and rotations were in flight: updateApp writes back what it
\* read, but neither the status nor the secret (Update, ValidateCredentials).
EndedCredentialsStayDead == \A x \in dead : ~ValidateCredentials(apps, x[1], x[2])

\* The secret a tenant was shown last is the one that is accepted while the app
\* is active and neither its creation nor a rotation is unanswered; only a
\* rotation that overlaps another or the creation, or a lost answer, leaves the
\* developer with no secret or one that was already replaced, and the next
\* rotation mends it (createApp, rotateSecret).
ShownSecretWorks ==
  \A a \in AppIds \ unsure :
    apps[a] # None /\ apps[a].status = "active" /\ ~Unanswered(a) =>
      ValidateCredentials(apps, a, shown[a])
====
