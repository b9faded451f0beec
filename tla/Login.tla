------------------------------- MODULE Login -------------------------------
(***************************************************************************)
(* Password login at authsvc for one tenant: the login handler             *)
(* (internal/auth/api.go) with the lockout store, authService.Login with   *)
(* the risk engine and the device registry, TOTP enrolment and the second  *)
(* factor.  All state is in Postgres; each query is atomic and a handler   *)
(* makes several without a transaction, so every query is a step and the   *)
(* steps of concurrent requests interleave.  dirsvc checks the password.   *)
(***************************************************************************)
EXTENDS Integers, Sequences, FiniteSets

CONSTANTS
  Accounts,          \* (tenant, username) pairs
  Requests,          \* goroutines that may serve a request at the same time
  Verdicts,          \* what dirsvc answers here: subset of {"ok", "bad", "down"}
  MaxFailedAttempts, \* 5
  Window,            \* 15 minutes, in clock ticks
  LockoutDuration,   \* 15 minutes, in clock ticks
  DeviceIds,         \* row ids of devices (random UUIDs)
  Identifiers,       \* device identifiers chosen by clients
  RiskScores,        \* risk scores posture reports carry
  TotpSecrets,       \* TOTP secrets (random)
  Faults,            \* whether queries may fail
  Calls,             \* operations used: subset of {"login", "mfa", "totp", "device", "signal"}
  MaxTime,           \* bound: last clock tick
  MaxAttempts,       \* bound: recorded failures per account
  None

ASSUME LockoutAssumption ==
  /\ MaxFailedAttempts \in Nat \ {0} /\ Window \in Nat /\ LockoutDuration \in Nat
  /\ Window <= LockoutDuration /\ IsFiniteSet(Requests)
  /\ Verdicts \subseteq {"ok", "bad", "down"} /\ Faults \in BOOLEAN /\ RiskScores \subseteq Int

VARIABLES
  failures,  \* login_attempts with success = FALSE: account -> times
  lock,      \* account_lockouts: account -> locked_until or None
  devices,   \* devices: identifier -> row or None
  totp,      \* totp_secrets: account -> row or None
  recent,    \* accounts with a security event in the last 24 hours
  now,
  reqs,      \* per goroutine: where it is and what it holds
  drawn,     \* history: device ids drawn
  posture,   \* history: device id -> last posture report or None
  issued,    \* history: TOTP secrets issued
  proven,    \* history: <<row, secret>> pairs a valid code was shown for
  held       \* history: per request, which of Safeguards held from its arrival on

store == <<failures, lock, devices, totp, recent>>
history == <<drawn, posture, issued, proven>>
vars == <<failures, lock, devices, totp, recent, now, reqs, drawn, posture, issued, proven, held>>

DeviceKeys == DeviceIds \cup Identifiers

Devices == [id : DeviceIds, compliant : BOOLEAN, risk : RiskScores \cup {0}]

\* A row of totp_secrets; its id is named by the secret it was created with.
TotpRows == [id : TotpSecrets, secret : TotpSecrets, verified : BOOLEAN]

\* What UpdatePosture writes.
Postures == [compliant : BOOLEAN, risk : RiskScores]

ASSUME RowsAssumption ==
  None \notin Nat /\ None \notin Devices \cup TotpRows \cup Postures \cup DeviceKeys \cup Accounts

Safeguards == {"mfa", "risk"}

Idle == [pc |-> "idle", acct |-> None, dev |-> None, score |-> 0, row |-> None, fault |-> FALSE,
         resp |-> "none", token |-> None]

PCs == {"idle", "lock.expired", "verify", "risk.device", "risk.signal", "device",
        "fail.record", "fail.count", "fail.lock", "unlock", "totp.check", "totp.mark"}

Responses == {"none", "error", "locked", "session", "mfa_required", "mfa_session", "verified"}

RequestStates == [pc : PCs, acct : Accounts \cup {None}, dev : DeviceKeys \cup {None}, score : Nat,
                  row : TotpSecrets \cup {None}, fault : BOOLEAN, resp : Responses,
                  token : Accounts \cup {None}]   \* whose access token the answer carries

TypeOK ==
  /\ failures \in [Accounts -> Seq(Nat)]
  /\ lock \in [Accounts -> Nat \cup {None}]
  /\ devices \in [DeviceKeys -> Devices \cup {None}]
  /\ totp \in [Accounts -> TotpRows \cup {None}]
  /\ recent \subseteq Accounts
  /\ now \in Nat
  /\ reqs \in [Requests -> RequestStates]
  /\ drawn \subseteq DeviceIds
  /\ posture \in [DeviceIds -> Postures \cup {None}]
  /\ issued \subseteq TotpSecrets /\ proven \subseteq TotpSecrets \X TotpSecrets
  /\ held \in [Requests -> SUBSET Safeguards]

-----------------------------------------------------------------------------
(* Queries *)

Goto(r, pc) == reqs' = [reqs EXCEPT ![r].pc = pc]

Answer(r, resp) == reqs' = [reqs EXCEPT ![r].pc = "idle", ![r].resp = resp]

\* A query that fails, where the handler goes on with the zero value it got
Failing(r, pc) == Faults /\ reqs' = [reqs EXCEPT ![r].pc = pc, ![r].fault = TRUE]

FailingAnswer(r, resp) ==
  Faults /\ reqs' = [reqs EXCEPT ![r].pc = "idle", ![r].fault = TRUE, ![r].resp = resp]

\* The rows of the attempt window
Recent(a) == {i \in DOMAIN failures[a] : failures[a][i] > now - Window}

RecentFailures(a) == Cardinality(Recent(a))

Locked(a) == lock[a] # None /\ now <= lock[a]

\* Mutant: the lock is set only when the count is exactly the threshold.
TooManyExactly(n) == n = MaxFailedAttempts

TooMany(n) == n >= MaxFailedAttempts

TotpOn(a) == totp[a] # None /\ totp[a].verified

\* DeviceStore.GetByID: the row with that id, whatever its identifier
RowsById(id) == {devices[k] : k \in {j \in DeviceKeys : devices[j] # None /\ devices[j].id = id}}

DeviceScore(row) == (IF row.compliant THEN 0 ELSE 50) + (IF row.risk > 0 THEN row.risk ELSE 0)

HighRisk(score) == score >= 80
-----------------------------------------------------------------------------
Init ==
  /\ failures = [a \in Accounts |-> <<>>]
  /\ lock = [a \in Accounts |-> None]
  /\ devices = [k \in DeviceKeys |-> None]
  /\ totp = [a \in Accounts |-> None]
  /\ recent = {} /\ now = 0
  /\ reqs = [r \in Requests |-> Idle]
  /\ drawn = {}
  /\ posture = [id \in DeviceIds |-> None]
  /\ issued = {} /\ proven = {}
  /\ held = [r \in Requests |-> {}]

-----------------------------------------------------------------------------
(* POST /login *)

\* IsLocked: the lockout row is read; an error counts as "not locked".
StartLogin(r, a, dev) ==
  LET Begin(pc, failed, resp) == reqs' = [reqs EXCEPT ![r] =
        [Idle EXCEPT !.pc = pc, !.acct = a, !.dev = dev, !.fault = failed, !.resp = resp]] IN
  /\ "login" \in Calls /\ reqs[r].pc = "idle"
  /\ Len(failures[a]) < MaxAttempts
  /\ \/ lock[a] = None /\ Begin("verify", FALSE, "none")
     \/ Faults /\ Begin("verify", TRUE, "none")
     \/ lock[a] # None /\ now > lock[a] /\ Begin("lock.expired", FALSE, "none")
     \/ Locked(a) /\ Begin("idle", FALSE, "locked")
  /\ UNCHANGED <<store, now, history>>

\* IsLocked found the lockout expired: a DELETE of whatever row is there now.
ClearExpiredLock(r) ==
  /\ reqs[r].pc = "lock.expired"
  /\ \/ lock' = [lock EXCEPT ![reqs[r].acct] = None] /\ Goto(r, "verify")
     \/ Failing(r, "verify") /\ UNCHANGED lock
  /\ UNCHANGED <<failures, devices, totp, recent, now, history>>

\* dirsvc verifies the credentials; any answer but 200 is an error of Login.
VerifyCredentials(r) ==
  /\ reqs[r].pc = "verify"
  /\ \/ "ok" \in Verdicts /\ Goto(r, "risk.device")
     \/ Verdicts \cap {"bad", "down"} # {} /\ Goto(r, "fail.record")
  /\ UNCHANGED <<store, now, history>>

\* Mutant: the device is looked up by identifier.
RiskDeviceByIdentifier(r) ==
  LET dev == reqs[r].dev
      To(score) == reqs' = [reqs EXCEPT ![r].pc = "risk.signal", ![r].score = score] IN
  /\ reqs[r].pc = "risk.device"
  /\ \/ dev = None /\ To(10)
     \/ dev # None /\ devices[dev] = None /\ To(20)
     \/ dev # None /\ devices[dev] # None /\ To(DeviceScore(devices[dev]))
  /\ UNCHANGED <<store, now, history>>

\* RiskEngine.Evaluate, the device: looked up by row id.  A failing query
\* scores like an unknown device.
RiskDevice(r) ==
  LET dev == reqs[r].dev
      To(score, failed) == reqs' = [reqs EXCEPT ![r].pc = "risk.signal", ![r].score = score,
                                                ![r].fault = @ \/ failed] IN
  /\ reqs[r].pc = "risk.device"
  /\ \/ dev = None /\ To(10, FALSE)
     \/ dev # None /\ RowsById(dev) = {} /\ To(20, FALSE)
     \/ dev # None /\ Faults /\ To(20, TRUE)
     \/ \E row \in RowsById(dev) : To(DeviceScore(row), FALSE)
  /\ UNCHANGED <<store, now, history>>

\* RiskEngine.Evaluate, the recent events; then the verdict on the score,
\* capped at 100.
RiskSignal(r) ==
  LET q == reqs[r]
      After(score) ==
        IF HighRisk(IF score > 100 THEN 100 ELSE score) THEN "fail.record"
        ELSE IF q.dev = None THEN "unlock" ELSE "device" IN
  /\ q.pc = "risk.signal"
  /\ \/ q.acct \in recent /\ Goto(r, After(q.score + 30))
     \/ q.acct \notin recent /\ Goto(r, After(q.score))
     \/ Failing(r, After(q.score))
  /\ UNCHANGED <<store, now, history>>

\* DeviceStore.Register: an identifier already there keeps its row's id and posture.
UpsertDevice(k, id) ==
  devices' = [devices EXCEPT ![k] = IF @ = None THEN [id |-> id, compliant |-> TRUE, risk |-> 0]
                                    ELSE @]

\* Login registers the header's value as an identifier; a failure is logged.
LoginDevice(r) ==
  /\ reqs[r].pc = "device"
  /\ \/ /\ \E id \in DeviceIds \ drawn : UpsertDevice(reqs[r].dev, id) /\ drawn' = drawn \cup {id}
        /\ Goto(r, "unlock")
     \/ Failing(r, "unlock") /\ UNCHANGED <<devices, drawn>>
  /\ UNCHANGED <<failures, lock, totp, recent, now, posture, issued, proven>>

\* RecordAttempt(success = false); an error is ignored.
RecordFailure(r) ==
  LET a == reqs[r].acct IN
  /\ reqs[r].pc = "fail.record"
  /\ \/ failures' = [failures EXCEPT ![a] = Append(@, now)] /\ Goto(r, "fail.count")
     \/ Failing(r, "fail.count") /\ UNCHANGED failures
  /\ UNCHANGED <<lock, devices, totp, recent, now, history>>

\* GetRecentFailures; an error counts as no failures.
CountFailures(r) ==
  /\ reqs[r].pc = "fail.count"
  /\ \/ TooMany(RecentFailures(reqs[r].acct)) /\ Goto(r, "fail.lock")
     \/ ~TooMany(RecentFailures(reqs[r].acct)) /\ Answer(r, "error")
     \/ FailingAnswer(r, "error")
  /\ UNCHANGED <<store, now, history>>

\* Mutant: the lockout is dated back instead of forward.
LockAccountPast(r) ==
  /\ reqs[r].pc = "fail.lock"
  /\ lock' = [lock EXCEPT ![reqs[r].acct] = now - LockoutDuration]
  /\ Answer(r, "error")
  /\ UNCHANGED <<failures, devices, totp, recent, now, history>>

\* LockAccount: upsert of the lockout row.
LockAccount(r) ==
  /\ reqs[r].pc = "fail.lock"
  /\ \/ lock' = [lock EXCEPT ![reqs[r].acct] = now + LockoutDuration] /\ Answer(r, "error")
     \/ FailingAnswer(r, "error") /\ UNCHANGED lock
  /\ UNCHANGED <<failures, devices, totp, recent, now, history>>

\* RecordAttempt(success = true), a row no query reads, then UnlockAccount.
UnlockAccount(r) ==
  /\ reqs[r].pc = "unlock"
  /\ \/ lock' = [lock EXCEPT ![reqs[r].acct] = None] /\ Goto(r, "totp.check")
     \/ Failing(r, "totp.check") /\ UNCHANGED lock
  /\ UNCHANGED <<failures, devices, totp, recent, now, history>>

\* Mutant: an enrolled but unverified secret is what asks for the second factor.
NeedsCodeInverted(a) == totp[a] # None /\ ~totp[a].verified

NeedsCode(a) == TotpOn(a)

\* The answer carries the access token Login signed: as the token and in session
\* cookies ("session"), or, without cookies, as pending_token ("mfa_required").
HandOut(r, resp, failed) ==
  reqs' = [reqs EXCEPT ![r].pc = "idle", ![r].resp = resp, ![r].token = reqs[r].acct, ![r].fault = failed]

\* GetByIdentity; an error counts as not enrolled.
CheckTotp(r) ==
  /\ reqs[r].pc = "totp.check"
  /\ \/ NeedsCode(reqs[r].acct) /\ HandOut(r, "mfa_required", reqs[r].fault)
     \/ ~NeedsCode(reqs[r].acct) /\ HandOut(r, "session", reqs[r].fault)
     \/ Faults /\ HandOut(r, "session", TRUE)
  /\ UNCHANGED <<store, now, history>>

-----------------------------------------------------------------------------
(* POST /login/mfa and /api/v1/mfa/totp.  The caller's code is valid for the *)
(* secret s it was computed from.                                            *)

\* A valid code for the row of user_id, verified or not: pending_token comes back
\* as the session's token, unread, whoever it was signed for (None: no token).
CompleteMFALogin(r, a, s, t) ==
  LET valid == totp[a] # None /\ totp[a].secret = s IN
  /\ "mfa" \in Calls /\ reqs[r].pc = "idle"
  /\ reqs' = [reqs EXCEPT ![r] = [Idle EXCEPT !.acct = a, !.resp = IF valid THEN "mfa_session" ELSE "error",
                                              !.token = IF valid THEN t ELSE None]]
  /\ UNCHANGED <<store, now, history>>

\* Create: insert, or replace the secret of the row and mark it unverified.
EnrollTOTP(a, s) ==
  /\ "totp" \in Calls
  /\ totp' = [totp EXCEPT ![a] = [id |-> IF @ = None THEN s ELSE @.id, secret |-> s, verified |-> FALSE]]
  /\ issued' = issued \cup {s}
  /\ UNCHANGED <<failures, lock, devices, recent, now, reqs, drawn, posture, proven>>

\* GetByIdentity and the check of the code.
VerifyTOTP(r, a, s) ==
  LET row == totp[a]
      Begin(pc, resp) == reqs' = [reqs EXCEPT ![r] =
        [Idle EXCEPT !.pc = pc, !.acct = a, !.row = row.id, !.resp = resp]] IN
  /\ "totp" \in Calls /\ reqs[r].pc = "idle" /\ row # None
  /\ IF row.secret = s
     THEN /\ IF row.verified THEN Begin("idle", "verified") ELSE Begin("totp.mark", "none")
          /\ proven' = proven \cup {<<row.id, s>>}
     ELSE Begin("idle", "error") /\ UNCHANGED proven
  /\ UNCHANGED <<store, now, drawn, posture, issued>>

\* Mutant: the user's row is marked, not the row that was read.
MarkVerifiedByUser(r) ==
  /\ reqs[r].pc = "totp.mark"
  /\ totp' = [totp EXCEPT ![reqs[r].acct] = IF @ = None THEN @ ELSE [@ EXCEPT !.verified = TRUE]]
  /\ Answer(r, "verified")
  /\ UNCHANGED <<failures, lock, devices, recent, now, history>>

\* MarkVerified: by row id, whatever its secret is by now.
MarkVerified(r) ==
  LET a == reqs[r].acct IN
  /\ reqs[r].pc = "totp.mark"
  /\ \/ /\ totp' = [totp EXCEPT ![a] = IF @ # None /\ @.id = reqs[r].row
                                       THEN [@ EXCEPT !.verified = TRUE] ELSE @]
        /\ Answer(r, "verified")
     \/ FailingAnswer(r, "error") /\ UNCHANGED totp
  /\ UNCHANGED <<failures, lock, devices, recent, now, history>>

DeleteTOTP(a) ==
  /\ "totp" \in Calls /\ totp[a] # None
  /\ totp' = [totp EXCEPT ![a] = None]
  /\ UNCHANGED <<failures, lock, devices, recent, now, reqs, history>>

-----------------------------------------------------------------------------
(* /api/v1/devices, security events, the clock *)

\* The response carries the id that was drawn, also when the row kept its own.
RegisterDevice(k) ==
  /\ "device" \in Calls
  /\ \E id \in DeviceIds \ drawn : UpsertDevice(k, id) /\ drawn' = drawn \cup {id}
  /\ UNCHANGED <<failures, lock, totp, recent, now, reqs, posture, issued, proven>>

UpdatePosture(id, compliant, risk) ==
  /\ "device" \in Calls /\ RowsById(id) # {}
  /\ devices' = [k \in DeviceKeys |->
       IF devices[k] # None /\ devices[k].id = id
       THEN [devices[k] EXCEPT !.compliant = compliant, !.risk = risk] ELSE devices[k]]
  /\ posture' = [posture EXCEPT ![id] = [compliant |-> compliant, risk |-> risk]]
  /\ UNCHANGED <<failures, lock, totp, recent, now, reqs, drawn, issued, proven>>

DeleteDevice(id) ==
  /\ "device" \in Calls /\ RowsById(id) # {}
  /\ devices' = [k \in DeviceKeys |->
       IF devices[k] # None /\ devices[k].id = id THEN None ELSE devices[k]]
  /\ posture' = [posture EXCEPT ![id] = None]
  /\ UNCHANGED <<failures, lock, totp, recent, now, reqs, drawn, issued, proven>>

IngestSignal(a) ==
  /\ "signal" \in Calls
  /\ recent' = recent \cup {a}
  /\ UNCHANGED <<failures, lock, devices, totp, now, reqs, history>>

\* 24 hours pass without another event.
SignalAges(a) ==
  /\ a \in recent
  /\ recent' = recent \ {a}
  /\ UNCHANGED <<failures, lock, devices, totp, now, reqs, history>>

Tick ==
  /\ now < MaxTime
  /\ now' = now + 1
  /\ UNCHANGED <<store, reqs, history>>

-----------------------------------------------------------------------------
Step(r) ==
  \/ ClearExpiredLock(r) \/ VerifyCredentials(r)
  \/ RiskDevice(r) \/ RiskSignal(r) \/ LoginDevice(r)
  \/ RecordFailure(r) \/ CountFailures(r) \/ LockAccount(r)
  \/ UnlockAccount(r) \/ CheckTotp(r)
  \/ MarkVerified(r)

Environment ==
  \/ \E r \in Requests, a \in Accounts :
       \/ \E dev \in DeviceKeys \cup {None} : StartLogin(r, a, dev)
       \/ \E s \in issued :
            \/ \E t \in {reqs[q].token : q \in Requests} : CompleteMFALogin(r, a, s, t)
            \/ VerifyTOTP(r, a, s)
  \/ \E a \in Accounts : DeleteTOTP(a) \/ IngestSignal(a) \/ SignalAges(a)
  \/ \E a \in Accounts, s \in TotpSecrets \ issued : EnrollTOTP(a, s)
  \/ \E k \in Identifiers : RegisterDevice(k)
  \/ \E id \in DeviceIds :
       \/ \E compliant \in BOOLEAN, risk \in RiskScores : UpdatePosture(id, compliant, risk)
       \/ DeleteDevice(id)
  \/ Tick

\* Whether a safeguard applies to a request: its account has verified TOTP, or
\* the last posture report on the device it names by id makes the risk high.
\* The code waives both when one of its queries fails.
Applies(g, q) ==
  /\ ~q.fault
  /\ IF g = "mfa" THEN q.acct # None /\ TotpOn(q.acct)
     ELSE q.dev \in DeviceIds /\ posture[q.dev] # None /\ HighRisk(DeviceScore(posture[q.dev]))

\* History: safeguards that applied when a request arrived and ever since.
KeepHeld ==
  held' = [r \in Requests |->
             {g \in Safeguards : /\ Applies(g, reqs[r])'
                                 /\ (reqs[r].pc = "idle" /\ reqs'[r].pc # "idle") \/ g \in held[r]}]

Next == (Environment \/ \E r \in Requests : Step(r)) /\ KeepHeld

Spec == Init /\ [][Next]_vars

-----------------------------------------------------------------------------
(* Properties *)

\* Guessing is bounded: when every attempt fails, the attempts recorded inside
\* one window exceed the threshold by at most what the requests in flight past
\* the lock check can add, once before the lock is set and once more each time
\* one that had found the previous lockout expired deletes the new one
\* (login, IsLocked, GetRecentFailures, LockAccount).
GuessesBounded ==
  \A a \in Accounts : RecentFailures(a) <= MaxFailedAttempts - 1 + Cardinality(Requests) * Cardinality(Requests)

\* A login during all of which the account had a verified secret, and no query
\* failed, is not answered with a session: no cookies are set and the answer asks
\* for a code (login, TOTPStore.GetByIdentity).  It does not say that the access
\* token is withheld: login sends it as pending_token before any code is checked.
CodeAskedFor == \A r \in Requests : reqs[r].resp = "session" => "mfa" \notin held[r]

\* A login that names, by id, a device last reported bad enough, from before the
\* login arrived, is handed no token, neither in a session nor as pending_token,
\* whatever registers again meanwhile (RiskEngine.Evaluate, DeviceStore.Register).
RiskyDeviceRefused ==
  \A r \in Requests : reqs[r].resp \in {"session", "mfa_required"} => "risk" \notin held[r]

\* A verified TOTP row is one for which a valid code was shown: deleting and
\* enrolling again while a verification is in flight does not carry it over to
\* the new row (verifyTOTP, MarkVerified).
VerifiedRowProven ==
  \A a \in Accounts : TotpOn(a) => \E s \in TotpSecrets : <<totp[a].id, s>> \in proven
====
