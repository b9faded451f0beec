---------------------------- MODULE LoginProofs ----------------------------
(***************************************************************************)
(* Password login, for any number of accounts, devices, secrets and        *)
(* concurrent requests, with failing queries: a login is not answered with *)
(* a session while a second factor is on, one on a device known to be bad  *)
(* is refused, and a TOTP row is verified only by a code shown for it.     *)
(***************************************************************************)
EXTENDS Login, TLAPS

\* Device rows carry the last posture reported for their id; an id with a
\* report has a row, and ids of rows were drawn.
DeviceInv ==
  /\ \A k \in DeviceKeys :
       devices[k] # None =>
         LET id == devices[k].id IN
         /\ id \in drawn
         /\ posture[id] # None => /\ devices[k].compliant = posture[id].compliant
                                  /\ devices[k].risk = posture[id].risk
  /\ \A id \in DeviceIds :
       posture[id] # None => id \in drawn /\ \E k \in DeviceKeys : devices[k] # None /\ devices[k].id = id

\* A request under way has an account and no answer yet; one about to mark a
\* TOTP row has seen a valid code for it; one whose device has been bad all
\* along has a high score and gets neither past the risk engine nor through; one
\* whose account has had TOTP all along gets no session.
RequestInv(r) ==
  LET q == reqs[r] IN
  /\ q.pc # "idle" => q.acct \in Accounts /\ q.resp = "none"
  /\ q.pc = "totp.mark" => \E s \in TotpSecrets : <<q.row, s>> \in proven
  /\ "risk" \in held[r] => /\ q.pc = "risk.signal" => HighRisk(q.score)
                           /\ q.pc \notin {"device", "unlock", "totp.check"}
                           /\ q.resp \notin {"session", "mfa_required"}
  /\ "mfa" \in held[r] => q.resp # "session"

LoginInv == TypeOK /\ DeviceInv /\ VerifiedRowProven /\ \A r \in Requests : RequestInv(r)
-----------------------------------------------------------------------------
(* The history of safeguards *)

\* A safeguard that is held applies, and is gained on arrival only.
LEMMA HeldApplies ==
  ASSUME KeepHeld, NEW r \in Requests
  PROVE  /\ held'[r] \in SUBSET Safeguards
         /\ \A g \in held'[r] : Applies(g, reqs[r])'
         /\ reqs[r].pc # "idle" \/ reqs'[r].pc = "idle" => held'[r] \subseteq held[r]
  BY Zenon DEF KeepHeld, Safeguards

\* held is a function into sets of safeguards.
LEMMA HeldTyped == ASSUME KeepHeld PROVE held' \in [Requests -> SUBSET Safeguards]
  BY Zenon DEF KeepHeld, Safeguards

\* A request that does not move keeps its invariant.
LEMMA OthersKept ==
  ASSUME KeepHeld, NEW r \in Requests, RequestInv(r), reqs'[r] = reqs[r], proven \subseteq proven'
  PROVE  RequestInv(r)'
<1>1. held'[r] \subseteq held[r]
  BY HeldApplies, Zenon
<1>. QED BY <1>1, Zenon DEF RequestInv

\* A request that moves.
LEMMA RequestMoves ==
  ASSUME LoginInv, KeepHeld, NEW r \in Requests, NEW x \in RequestStates, reqs' = [reqs EXCEPT ![r] = x],
         proven \subseteq proven',
         x.pc # "idle" => x.acct \in Accounts /\ x.resp = "none",
         x.pc = "totp.mark" => \E s \in TotpSecrets : <<x.row, s>> \in proven',
         "risk" \in held'[r] => /\ x.pc = "risk.signal" => HighRisk(x.score)
                                /\ x.pc \notin {"device", "unlock", "totp.check"}
                                /\ x.resp \notin {"session", "mfa_required"},
         "mfa" \in held'[r] => x.resp # "session"
  PROVE  /\ reqs' \in [Requests -> RequestStates]
         /\ \A s \in Requests : RequestInv(s)'
<1>1. reqs' \in [Requests -> RequestStates] /\ reqs'[r] = x /\ \A s \in Requests : s # r => reqs'[s] = reqs[s]
  BY Zenon DEF LoginInv, TypeOK
<1>2. RequestInv(r)'
  BY <1>1, Zenon DEF RequestInv
<1>3. ASSUME NEW s \in Requests, s # r PROVE RequestInv(s)'
  BY <1>1, <1>3, OthersKept, Zenon DEF LoginInv
<1>. QED BY <1>1, <1>2, <1>3, Zenon

\* What a query does to the request that makes it: next step, answer, fault.
Moved(r, pc, resp, fault) ==
  \E x \in RequestStates :
    /\ reqs' = [reqs EXCEPT ![r] = x]
    /\ x.pc = pc /\ x.resp = resp /\ x.fault = fault /\ x.acct = reqs[r].acct

LEMMA QueryMoves ==
  ASSUME TypeOK, NEW r \in Requests, NEW pc \in PCs, NEW resp \in Responses
  PROVE  /\ Goto(r, pc) => Moved(r, pc, reqs[r].resp, reqs[r].fault)
         /\ Answer(r, resp) => Moved(r, "idle", resp, reqs[r].fault)
         /\ Failing(r, pc) => Moved(r, pc, reqs[r].resp, TRUE)
         /\ FailingAnswer(r, resp) => Moved(r, "idle", resp, TRUE)
         /\ \A failed \in BOOLEAN :
              HandOut(r, resp, failed) => Moved(r, "idle", resp, failed)
<1>1. reqs[r] \in RequestStates
  BY Zenon DEF TypeOK
<1>2. ASSUME Goto(r, pc) PROVE Moved(r, pc, reqs[r].resp, reqs[r].fault)
  <2> DEFINE x == [reqs[r] EXCEPT !.pc = pc]
  <2>1. reqs' = [reqs EXCEPT ![r] = x]
    BY <1>2, Zenon DEF Goto
  <2>2. /\ x \in RequestStates /\ x.pc = pc /\ x.resp = reqs[r].resp /\ x.fault = reqs[r].fault
        /\ x.acct = reqs[r].acct
    BY <1>1, Zenon DEF RequestStates
  <2> HIDE DEF x
  <2>. QED BY <2>1, <2>2, Zenon DEF Moved
<1>3. ASSUME Answer(r, resp) PROVE Moved(r, "idle", resp, reqs[r].fault)
  <2> DEFINE x == [reqs[r] EXCEPT !.pc = "idle", !.resp = resp]
  <2>1. reqs' = [reqs EXCEPT ![r] = x]
    BY <1>1, <1>3, Zenon DEF Answer, TypeOK, RequestStates
  <2>2. /\ x \in RequestStates /\ x.pc = "idle" /\ x.resp = resp /\ x.fault = reqs[r].fault
        /\ x.acct = reqs[r].acct
    BY <1>1, Zenon DEF RequestStates, PCs
  <2> HIDE DEF x
  <2>. QED BY <2>1, <2>2, Zenon DEF Moved
<1>4. ASSUME Failing(r, pc) PROVE Moved(r, pc, reqs[r].resp, TRUE)
  <2> DEFINE x == [reqs[r] EXCEPT !.pc = pc, !.fault = TRUE]
  <2>1. reqs' = [reqs EXCEPT ![r] = x]
    BY <1>1, <1>4, Zenon DEF Failing, TypeOK, RequestStates
  <2>2. x \in RequestStates /\ x.pc = pc /\ x.resp = reqs[r].resp /\ x.fault = TRUE /\ x.acct = reqs[r].acct
    BY <1>1, Zenon DEF RequestStates
  <2> HIDE DEF x
  <2>. QED BY <2>1, <2>2, Zenon DEF Moved
<1>5. ASSUME FailingAnswer(r, resp) PROVE Moved(r, "idle", resp, TRUE)
  <2> DEFINE x == [reqs[r] EXCEPT !.pc = "idle", !.fault = TRUE, !.resp = resp]
  <2>1. reqs' = [reqs EXCEPT ![r] = x]
    BY <1>1, <1>5, Zenon DEF FailingAnswer, TypeOK, RequestStates
  <2>2. x \in RequestStates /\ x.pc = "idle" /\ x.resp = resp /\ x.fault = TRUE /\ x.acct = reqs[r].acct
    BY <1>1, Zenon DEF RequestStates, PCs
  <2> HIDE DEF x
  <2>. QED BY <2>1, <2>2, Zenon DEF Moved
<1>6. ASSUME NEW failed \in BOOLEAN, HandOut(r, resp, failed) PROVE Moved(r, "idle", resp, failed)
  <2> DEFINE x == [reqs[r] EXCEPT !.pc = "idle", !.resp = resp, !.token = reqs[r].acct, !.fault = failed]
  <2>1. reqs' = [reqs EXCEPT ![r] = x]
    BY <1>1, <1>6, Zenon DEF HandOut, TypeOK, RequestStates
  <2>2. x \in RequestStates /\ x.pc = "idle" /\ x.resp = resp /\ x.fault = failed /\ x.acct = reqs[r].acct
    BY <1>1, Zenon DEF RequestStates, PCs
  <2> HIDE DEF x
  <2>. QED BY <2>1, <2>2, Zenon DEF Moved
<1>. QED BY <1>2, <1>3, <1>4, <1>5, <1>6, Zenon

\* A request whose query failed holds no safeguard.
LEMMA FaultWaives ==
  ASSUME TypeOK, KeepHeld, NEW r \in Requests, NEW pc, NEW resp, Moved(r, pc, resp, TRUE)
  PROVE  held'[r] = {}
<1>1. reqs'[r].fault = TRUE
  BY Zenon DEF Moved, TypeOK
<1>. QED BY <1>1, HeldApplies, Zenon DEF Applies

\* A request in the middle of its work answers, or goes on to a step that the
\* score and the code shown do not matter for.
LEMMA Proceeds ==
  ASSUME LoginInv, KeepHeld, NEW r \in Requests, reqs[r].pc # "idle", NEW pc, NEW resp, NEW fault,
         Moved(r, pc, resp, fault), proven' = proven, pc \notin {"risk.signal", "totp.mark"},
         pc # "idle" => resp = "none",
         "risk" \in held'[r] => pc \notin {"device", "unlock", "totp.check"} /\ resp \notin {"session", "mfa_required"},
         "mfa" \in held'[r] => resp # "session"
  PROVE  /\ reqs' \in [Requests -> RequestStates]
         /\ \A s \in Requests : RequestInv(s)'
<1>1. PICK x \in RequestStates :
        /\ reqs' = [reqs EXCEPT ![r] = x]
        /\ x.pc = pc /\ x.resp = resp /\ x.acct = reqs[r].acct
  BY Zenon DEF Moved
<1>2. reqs[r].acct \in Accounts
  BY Zenon DEF LoginInv, RequestInv
<1>. QED BY <1>1, <1>2, RequestMoves, Zenon
-----------------------------------------------------------------------------
(* The steps of a request *)

\* A step that changes neither devices nor TOTP rows keeps what is known of both.
LEMMA StoresKept ==
  ASSUME LoginInv, UNCHANGED <<devices, totp, drawn, posture>>, proven \subseteq proven'
  PROVE  DeviceInv' /\ VerifiedRowProven'
  BY Zenon DEF LoginInv, DeviceInv, VerifiedRowProven, TotpOn

\* Steps that only look things up and go on, or answer: lockout, credentials,
\* failures, TOTP.
LEMMA LookupKeeps ==
  ASSUME LoginInv, KeepHeld, NEW r \in Requests,
         \/ ClearExpiredLock(r) \/ VerifyCredentials(r) \/ RecordFailure(r) \/ CountFailures(r)
         \/ LockAccount(r) \/ UnlockAccount(r) \/ CheckTotp(r)
  PROVE  LoginInv'
<1> USE LockoutAssumption
<1>0. TypeOK
  BY Zenon DEF LoginInv
<1>1. UNCHANGED <<devices, totp, recent, now, drawn, posture, issued, proven>> /\ reqs[r].pc # "idle"
  BY Zenon DEF ClearExpiredLock, VerifyCredentials, RecordFailure, CountFailures, LockAccount, UnlockAccount, CheckTotp,
         store, history
<1>2. reqs[r].resp = "none"
  BY <1>1, Zenon DEF LoginInv, RequestInv
<1>3. held'[r] \subseteq held[r]
  BY <1>1, HeldApplies, Zenon
<1>4. failures' \in [Accounts -> Seq(Nat)] /\ lock' \in [Accounts -> Nat \cup {None}]
  <2>1. \/ UNCHANGED <<failures, lock>>
        \/ UNCHANGED failures /\ lock' = [lock EXCEPT ![reqs[r].acct] = None]
        \/ UNCHANGED failures /\ lock' = [lock EXCEPT ![reqs[r].acct] = now + LockoutDuration]
        \/ UNCHANGED lock /\ failures' = [failures EXCEPT ![reqs[r].acct] = Append(@, now)]
    BY Zenon
    DEF ClearExpiredLock, VerifyCredentials, RecordFailure, CountFailures, LockAccount, UnlockAccount, CheckTotp,
           store
  <2>2. CASE UNCHANGED lock /\ failures' = [failures EXCEPT ![reqs[r].acct] = Append(@, now)]
    <3>1. \A f \in Seq(Nat) : Append(f, now) \in Seq(Nat)
      BY <1>0 DEF TypeOK
    <3>. QED BY <1>0, <2>2, <3>1, Zenon DEF TypeOK
  <2>3. ASSUME NEW v \in Nat \cup {None}, UNCHANGED failures, lock' = [lock EXCEPT ![reqs[r].acct] = v]
        PROVE  failures' \in [Accounts -> Seq(Nat)] /\ lock' \in [Accounts -> Nat \cup {None}]
    BY <1>0, <2>3, Zenon DEF TypeOK
  <2>4. now + LockoutDuration \in Nat
    BY <1>0 DEF TypeOK
  <2>5. CASE UNCHANGED <<failures, lock>>
    BY <1>0, <2>5, Zenon DEF TypeOK
  <2>. QED BY <2>1, <2>2, <2>3, <2>4, <2>5, Zenon
<1>5. reqs' \in [Requests -> RequestStates] /\ \A s \in Requests : RequestInv(s)'
  <2> USE DEF PCs, Responses
  <2>1. CASE ClearExpiredLock(r)
    <3>1. Moved(r, "verify", "none", reqs[r].fault) \/ Moved(r, "verify", "none", TRUE)
      BY <1>0, <1>2, <2>1, QueryMoves, Zenon DEF ClearExpiredLock
    <3>. QED BY <1>1, <3>1, Proceeds, Zenon
  <2>2. CASE VerifyCredentials(r)
    <3>1. reqs[r].pc = "verify" /\ (Goto(r, "risk.device") \/ Goto(r, "fail.record"))
      BY <2>2, Zenon DEF VerifyCredentials
    <3>2. Moved(r, "risk.device", "none", reqs[r].fault) \/ Moved(r, "fail.record", "none", reqs[r].fault)
      BY <1>0, <1>2, <3>1, QueryMoves, Zenon
    <3>. QED BY <1>1, <3>2, Proceeds
  <2>3. CASE RecordFailure(r)
    <3>1. Moved(r, "fail.count", "none", reqs[r].fault) \/ Moved(r, "fail.count", "none", TRUE)
      BY <1>0, <1>2, <2>3, QueryMoves, Zenon DEF RecordFailure
    <3>. QED BY <1>1, <3>1, Proceeds, Zenon
  <2>4. CASE CountFailures(r)
    <3>1. \/ Moved(r, "fail.lock", "none", reqs[r].fault) \/ Moved(r, "idle", "error", reqs[r].fault)
          \/ Moved(r, "idle", "error", TRUE)
      BY <1>0, <1>2, <2>4, QueryMoves, Zenon DEF CountFailures
    <3>2. CASE Moved(r, "fail.lock", "none", reqs[r].fault)
      BY <1>1, <3>2, Proceeds
    <3>3. ASSUME NEW f, Moved(r, "idle", "error", f)
          PROVE  reqs' \in [Requests -> RequestStates] /\ \A s \in Requests : RequestInv(s)'
      BY <1>1, <3>3, Proceeds, Zenon
    <3>. QED BY <3>1, <3>2, <3>3, Zenon
  <2>5. CASE LockAccount(r)
    <3>1. Moved(r, "idle", "error", reqs[r].fault) \/ Moved(r, "idle", "error", TRUE)
      BY <1>0, <2>5, QueryMoves, Zenon DEF LockAccount
    <3>. QED BY <1>1, <3>1, Proceeds, Zenon
  <2>6. CASE UnlockAccount(r)
    <3>1. Moved(r, "totp.check", "none", reqs[r].fault) \/ Moved(r, "totp.check", "none", TRUE)
      BY <1>0, <1>2, <2>6, QueryMoves, Zenon DEF UnlockAccount
    <3>2. "risk" \notin held[r]
      BY <2>6, Zenon DEF UnlockAccount, LoginInv, RequestInv
    <3>. QED BY <1>1, <1>3, <3>1, <3>2, Proceeds, Zenon
  <2>7. CASE CheckTotp(r)
    <3>1. "risk" \notin held[r]
      BY <2>7, Zenon DEF CheckTotp, LoginInv, RequestInv
    <3>2. \/ Moved(r, "idle", "mfa_required", reqs[r].fault) \/ Moved(r, "idle", "session", TRUE)
          \/ ~TotpOn(reqs[r].acct) /\ Moved(r, "idle", "session", reqs[r].fault)
      <4>1. \/ HandOut(r, "mfa_required", reqs[r].fault) \/ HandOut(r, "session", TRUE)
            \/ ~TotpOn(reqs[r].acct) /\ HandOut(r, "session", reqs[r].fault)
        BY <2>7, Zenon DEF CheckTotp, NeedsCode
      <4>2. reqs[r].fault \in BOOLEAN
        BY <1>0, Zenon DEF TypeOK, RequestStates
      <4>. QED BY <1>0, <4>1, <4>2, QueryMoves, Zenon
    <3>3. ASSUME ~TotpOn(reqs[r].acct), Moved(r, "idle", "session", reqs[r].fault) PROVE "mfa" \notin held'[r]
      <4>1. reqs'[r].acct = reqs[r].acct
        BY <1>0, <3>3, Zenon DEF Moved, TypeOK
      <4>2. ~TotpOn(reqs[r].acct)'
        BY <1>1, <3>3, <4>1, Zenon DEF TotpOn
      <4>. QED BY <4>2, HeldApplies, Zenon DEF Applies
    <3>4. CASE Moved(r, "idle", "mfa_required", reqs[r].fault)
      BY <1>1, <1>3, <3>1, <3>4, Proceeds
    <3>5. CASE Moved(r, "idle", "session", TRUE)
      <4>1. held'[r] = {}
        BY <1>0, <3>5, FaultWaives, Zenon
      <4>. QED BY <1>1, <3>5, <4>1, Proceeds, Zenon
    <3>6. CASE ~TotpOn(reqs[r].acct) /\ Moved(r, "idle", "session", reqs[r].fault)
      BY <1>1, <1>3, <3>1, <3>3, <3>6, Proceeds
    <3>. QED BY <3>2, <3>4, <3>5, <3>6, Zenon
  <2>. QED BY <2>1, <2>2, <2>3, <2>4, <2>5, <2>6, <2>7, Zenon
<1>6. TypeOK'
  BY <1>0, <1>1, <1>4, <1>5, HeldTyped, Zenon DEF TypeOK
<1>. QED BY <1>1, <1>5, <1>6, StoresKept, Zenon DEF LoginInv

\* The score of a device row that carries a posture report is that report's.
LEMMA ScoreOfReport ==
  ASSUME LoginInv, NEW k \in DeviceKeys, devices[k] # None, posture[devices[k].id] # None
  PROVE  DeviceScore(devices[k]) = DeviceScore(posture[devices[k].id])
  BY Zenon DEF LoginInv, DeviceInv, DeviceScore

\* Scores are natural numbers.
LEMMA ScoreTyped == \A row \in Devices : DeviceScore(row) \in Nat
<1> SUFFICES ASSUME NEW row \in Devices PROVE DeviceScore(row) \in Nat
  BY Zenon
<1>1. row.risk \in Int
  <2>1. row.risk \in RiskScores \cup {0}
    BY Zenon DEF Devices
  <2>2. \A z \in RiskScores : z \in Int
    BY LockoutAssumption, Zenon
  <2>. QED BY <2>1, <2>2
<1>. QED BY <1>1 DEF DeviceScore

\* RiskEngine.Evaluate, the device: a device with a bad report gets a high score.
LEMMA RiskDeviceKeeps ==
  ASSUME LoginInv, KeepHeld, NEW r \in Requests, RiskDevice(r)
  PROVE  LoginInv'
<1> USE RowsAssumption
<1> DEFINE dev == reqs[r].dev
<1>0. TypeOK /\ reqs[r] \in RequestStates
  BY Zenon DEF LoginInv, TypeOK
<1>1. /\ reqs[r].pc = "risk.device"
      /\ UNCHANGED <<failures, lock, devices, totp, recent, now, drawn, posture, issued, proven>>
  BY Zenon DEF RiskDevice, store, history
<1>2. \A row \in RowsById(dev) : DeviceScore(row) \in Nat
  <2>1. \A row \in RowsById(dev) : row \in Devices
    BY <1>0 DEF RowsById, TypeOK
  <2>. QED BY <2>1, ScoreTyped, Zenon
<1>3. PICK score \in Nat, failed \in BOOLEAN :
        /\ reqs' = [reqs EXCEPT ![r].pc = "risk.signal", ![r].score = score, ![r].fault = @ \/ failed]
        /\ \/ dev = None /\ score = 10
           \/ dev # None /\ RowsById(dev) = {} /\ score = 20
           \/ failed /\ score = 20
           \/ \E row \in RowsById(dev) : score = DeviceScore(row)
  <2> DEFINE To(score, failed) == reqs' = [reqs EXCEPT ![r].pc = "risk.signal", ![r].score = score,
                                                       ![r].fault = @ \/ failed]
  <2>1. \/ dev = None /\ To(10, FALSE)
        \/ dev # None /\ RowsById(dev) = {} /\ To(20, FALSE)
        \/ To(20, TRUE)
        \/ \E row \in RowsById(dev) : To(DeviceScore(row), FALSE)
    BY Zenon DEF RiskDevice
  <2> HIDE DEF To
  <2>2. \E score \in Nat, failed \in BOOLEAN :
          /\ To(score, failed)
          /\ \/ dev = None /\ score = 10
             \/ dev # None /\ RowsById(dev) = {} /\ score = 20
             \/ failed /\ score = 20
             \/ \E row \in RowsById(dev) : score = DeviceScore(row)
    BY <1>2, <2>1, Zenon
  <2>. QED BY <2>2, Zenon DEF To
<1> DEFINE x == [reqs[r] EXCEPT !.pc = "risk.signal", !.score = score, !.fault = reqs[r].fault \/ failed]
<1>4. reqs' = [reqs EXCEPT ![r] = x]
  BY <1>0, <1>3, Zenon DEF TypeOK, RequestStates
<1>5. /\ x \in RequestStates /\ x.pc = "risk.signal" /\ x.score = score /\ x.acct = reqs[r].acct
      /\ x.dev = dev /\ x.resp = reqs[r].resp /\ (failed => x.fault)
  <2>1. (reqs[r].fault \/ failed) \in BOOLEAN
    BY Zenon
  <2> DEFINE f == reqs[r].fault \/ failed
  <2>2. f \in BOOLEAN /\ (failed => f)
    BY <2>1, Zenon
  <2> HIDE DEF f
  <2>3. x = [reqs[r] EXCEPT !.pc = "risk.signal", !.score = score, !.fault = f]
    BY Zenon DEF f
  <2>. QED BY <1>0, <1>3, <2>2, <2>3, Zenon DEF RequestStates, PCs
<1>6. reqs[r].acct \in Accounts /\ reqs[r].resp = "none"
  BY <1>1, Zenon DEF LoginInv, RequestInv
<1> HIDE DEF x
<1>7. reqs'[r] = x
  BY <1>0, <1>4, Zenon DEF TypeOK
<1>8. ASSUME "risk" \in held'[r] PROVE HighRisk(score)
  <2>1. /\ ~x.fault /\ dev \in DeviceIds /\ posture[dev] # None /\ HighRisk(DeviceScore(posture[dev]))
    BY <1>1, <1>5, <1>7, <1>8, HeldApplies DEF Applies, DeviceScore, HighRisk
  <2>2. dev # None
    BY <2>1, Zenon DEF DeviceKeys
  <2>3. \E k \in DeviceKeys : devices[k] # None /\ devices[k].id = dev
    BY <2>1, Zenon DEF LoginInv, DeviceInv
  <2>4. PICK row \in RowsById(dev) : score = DeviceScore(row)
    BY <1>3, <1>5, <2>1, <2>2, <2>3, Zenon DEF RowsById
  <2>5. PICK k \in DeviceKeys : devices[k] # None /\ devices[k].id = dev /\ row = devices[k]
    BY Zenon DEF RowsById
  <2>. QED BY <2>1, <2>4, <2>5, ScoreOfReport, Zenon
<1>9. reqs' \in [Requests -> RequestStates] /\ \A s \in Requests : RequestInv(s)'
  <2>1. "mfa" \in held'[r] => x.resp # "session"
    BY <1>5, <1>6, Zenon
  <2>. QED BY <1>1, <1>4, <1>5, <1>6, <1>8, <2>1, RequestMoves, Zenon
<1>10. TypeOK'
  BY <1>0, <1>1, <1>9, HeldTyped, Zenon DEF TypeOK
<1>. QED BY <1>1, <1>9, <1>10, StoresKept, Zenon DEF LoginInv

\* RiskEngine.Evaluate, the verdict: a high score ends in a refusal.
LEMMA RiskSignalKeeps ==
  ASSUME LoginInv, KeepHeld, NEW r \in Requests, RiskSignal(r)
  PROVE  LoginInv'
<1>0. TypeOK /\ reqs[r].score \in Nat
  BY Zenon DEF LoginInv, TypeOK, RequestStates
<1>1. /\ reqs[r].pc = "risk.signal"
      /\ UNCHANGED <<failures, lock, devices, totp, recent, now, drawn, posture, issued, proven>>
  BY Zenon DEF RiskSignal, store, history
<1>2. PICK n \in {reqs[r].score, reqs[r].score + 30},
           pc \in {"fail.record", "unlock", "device"}, fault \in {reqs[r].fault, TRUE} :
        /\ HighRisk(IF n > 100 THEN 100 ELSE n) => pc = "fail.record"
        /\ Moved(r, pc, reqs[r].resp, fault)
  <2> DEFINE After(score) ==
        IF HighRisk(IF score > 100 THEN 100 ELSE score) THEN "fail.record"
        ELSE IF reqs[r].dev = None THEN "unlock" ELSE "device"
  <2>1. \A score : /\ After(score) \in {"fail.record", "unlock", "device"}
                   /\ HighRisk(IF score > 100 THEN 100 ELSE score) => After(score) = "fail.record"
    BY Zenon
  <2>2. \/ Goto(r, After(reqs[r].score + 30)) \/ Goto(r, After(reqs[r].score))
        \/ Failing(r, After(reqs[r].score))
    BY Zenon DEF RiskSignal
  <2> HIDE DEF After
  <2>3. \A score : After(score) \in PCs
    BY <2>1, Zenon DEF PCs
  <2>4. reqs[r].resp \in Responses
    BY <1>0, Zenon DEF TypeOK, RequestStates
  <2>. QED BY <1>0, <2>1, <2>2, <2>3, <2>4, QueryMoves, Zenon
<1>3. reqs[r].resp = "none" /\ held'[r] \subseteq held[r] /\ ("risk" \in held[r] => HighRisk(reqs[r].score))
  BY <1>1, HeldApplies, Zenon DEF LoginInv, RequestInv
<1>4. "risk" \in held'[r] => pc = "fail.record"
  BY <1>0, <1>2, <1>3 DEF HighRisk
<1>5. reqs' \in [Requests -> RequestStates] /\ \A s \in Requests : RequestInv(s)'
  BY <1>1, <1>2, <1>3, <1>4, Proceeds, Zenon
<1>6. TypeOK'
  BY <1>0, <1>1, <1>5, HeldTyped, Zenon DEF TypeOK
<1>. QED BY <1>1, <1>5, <1>6, StoresKept, Zenon DEF LoginInv

\* DeviceStore.Register: a new row has an id without a report.
LEMMA DeviceUpserted ==
  ASSUME LoginInv, NEW k, NEW id \in DeviceIds \ drawn, UpsertDevice(k, id), drawn' = drawn \cup {id},
         UNCHANGED posture
  PROVE  /\ devices' \in [DeviceKeys -> Devices \cup {None}] /\ drawn' \subseteq DeviceIds
         /\ DeviceInv'
<1> USE RowsAssumption
<1> DEFINE row == [id |-> id, compliant |-> TRUE, risk |-> 0]
<1>1. row \in Devices /\ row.id = id
  BY Zenon DEF Devices
<1>2. posture[id] = None
  BY Zenon DEF LoginInv, DeviceInv
<1>3. devices' = [devices EXCEPT ![k] = IF devices[k] = None THEN row ELSE devices[k]]
  BY Zenon DEF UpsertDevice
<1> HIDE DEF row
<1>4. \A j \in DeviceKeys : devices'[j] = devices[j] \/ (devices[j] = None /\ devices'[j] = row)
  BY <1>3, Zenon DEF LoginInv, TypeOK
<1>5. devices' \in [DeviceKeys -> Devices \cup {None}] /\ drawn' \subseteq DeviceIds
  BY <1>1, <1>3, <1>4, Zenon DEF LoginInv, TypeOK
<1>6. DeviceInv'
  <2>1. ASSUME NEW j \in DeviceKeys, devices'[j] # None
        PROVE  LET d == devices'[j].id IN
               /\ d \in drawn'
               /\ posture'[d] # None => /\ devices'[j].compliant = posture'[d].compliant
                                        /\ devices'[j].risk = posture'[d].risk
    BY <1>1, <1>2, <1>4, <2>1 DEF LoginInv, DeviceInv
  <2>2. ASSUME NEW d \in DeviceIds, posture'[d] # None
        PROVE  d \in drawn' /\ \E j \in DeviceKeys : devices'[j] # None /\ devices'[j].id = d
    BY <1>4, <2>2, Zenon DEF LoginInv, DeviceInv
  <2>. QED BY <2>1, <2>2, Zenon DEF DeviceInv
<1>. QED BY <1>5, <1>6, Zenon

\* Login registers the device, and goes on.
LEMMA LoginDeviceKeeps ==
  ASSUME LoginInv, KeepHeld, NEW r \in Requests, LoginDevice(r)
  PROVE  LoginInv'
<1>0. TypeOK
  BY Zenon DEF LoginInv
<1>1. /\ reqs[r].pc = "device" /\ UNCHANGED <<failures, lock, totp, recent, now, posture, issued, proven>>
  BY Zenon DEF LoginDevice
<1>2. reqs[r].resp = "none" /\ "risk" \notin held[r] /\ held'[r] \subseteq held[r]
  BY <1>1, HeldApplies, Zenon DEF LoginInv, RequestInv
<1>3. /\ devices' \in [DeviceKeys -> Devices \cup {None}] /\ drawn' \subseteq DeviceIds
      /\ DeviceInv'
  <2>1. CASE UNCHANGED <<devices, drawn>>
    BY <1>0, <1>1, <2>1, StoresKept, Zenon DEF TypeOK
  <2>2. CASE \E id \in DeviceIds \ drawn : UpsertDevice(reqs[r].dev, id) /\ drawn' = drawn \cup {id}
    BY <1>1, <2>2, DeviceUpserted, Zenon
  <2>. QED BY <2>1, <2>2, Zenon DEF LoginDevice
<1>4. \E f : Moved(r, "unlock", "none", f)
  <2>1. Goto(r, "unlock") \/ Failing(r, "unlock")
    BY Zenon DEF LoginDevice
  <2>. QED BY <1>0, <1>2, <2>1, QueryMoves, Zenon DEF PCs, Responses
<1>5. reqs' \in [Requests -> RequestStates] /\ \A s \in Requests : RequestInv(s)'
  BY <1>1, <1>2, <1>4, Proceeds, Zenon
<1>6. VerifiedRowProven'
  BY <1>1, Zenon DEF LoginInv, VerifiedRowProven, TotpOn
<1>7. TypeOK'
  BY <1>0, <1>1, <1>3, <1>5, HeldTyped, Zenon DEF TypeOK
<1>. QED BY <1>3, <1>5, <1>6, <1>7, Zenon DEF LoginInv

\* MarkVerified touches the row that was read, if it is still there.
LEMMA MarkKeeps ==
  ASSUME LoginInv, KeepHeld, NEW r \in Requests, MarkVerified(r)
  PROVE  LoginInv'
<1> USE RowsAssumption
<1>0. TypeOK
  BY Zenon DEF LoginInv
<1>1. /\ reqs[r].pc = "totp.mark" /\ UNCHANGED <<failures, lock, devices, recent, now, drawn, posture, issued, proven>>
  BY Zenon DEF MarkVerified, history
<1>2. /\ reqs[r].acct \in Accounts /\ held'[r] \subseteq held[r]
      /\ \E s \in TotpSecrets : <<reqs[r].row, s>> \in proven
  BY <1>1, HeldApplies, Zenon DEF LoginInv, RequestInv
<1> DEFINE a == reqs[r].acct
           row == [totp[a] EXCEPT !.verified = TRUE]
<1>3. \/ UNCHANGED totp
      \/ totp[a] # None /\ totp[a].id = reqs[r].row /\ totp' = [totp EXCEPT ![a] = row]
  BY <1>0, <1>2, Zenon DEF MarkVerified, TypeOK
<1>4. ASSUME totp[a] # None PROVE row \in TotpRows /\ row.id = totp[a].id
  <2>1. totp[a] \in TotpRows
    BY <1>0, <1>2, <1>4, Zenon DEF TypeOK
  <2>. QED BY <2>1, Zenon DEF TotpRows
<1> HIDE DEF row
<1>5. totp' \in [Accounts -> TotpRows \cup {None}]
  BY <1>0, <1>3, <1>4, Zenon DEF TypeOK
<1>6. VerifiedRowProven'
  <2>1. CASE UNCHANGED totp
    BY <1>1, <2>1, Zenon DEF LoginInv, VerifiedRowProven, TotpOn
  <2>2. CASE totp[a] # None /\ totp[a].id = reqs[r].row /\ totp' = [totp EXCEPT ![a] = row]
    <3>1. totp'[a] = row /\ \A b \in Accounts : b # a => totp'[b] = totp[b]
      BY <1>0, <1>2, <2>2, Zenon DEF TypeOK
    <3>. QED BY <1>1, <1>2, <1>4, <2>2, <3>1 DEF LoginInv, VerifiedRowProven, TotpOn
  <2>. QED BY <1>3, <2>1, <2>2, Zenon
<1>7. \E resp \in {"verified", "error"} : \E f : Moved(r, "idle", resp, f)
  <2>1. Answer(r, "verified") \/ FailingAnswer(r, "error")
    BY Zenon DEF MarkVerified
  <2>. QED BY <1>0, <2>1, QueryMoves, Zenon DEF PCs, Responses
<1>8. reqs' \in [Requests -> RequestStates] /\ \A s \in Requests : RequestInv(s)'
  BY <1>1, <1>7, Proceeds, Zenon
<1>9. DeviceInv'
  BY <1>1, Zenon DEF LoginInv, DeviceInv
<1>10. TypeOK'
  BY <1>0, <1>1, <1>5, <1>8, HeldTyped, Zenon DEF TypeOK
<1>. QED BY <1>6, <1>8, <1>9, <1>10, Zenon DEF LoginInv
-----------------------------------------------------------------------------
(* Requests that arrive *)

\* POST /login arrives, with or without a lockout.
LEMMA StartKeeps ==
  ASSUME LoginInv, KeepHeld, NEW r \in Requests, NEW a \in Accounts, NEW dev \in DeviceKeys \cup {None},
         StartLogin(r, a, dev)
  PROVE  LoginInv'
<1>0. TypeOK
  BY Zenon DEF LoginInv
<1>1. UNCHANGED <<failures, lock, devices, totp, recent, now, drawn, posture, issued, proven>>
  BY Zenon DEF StartLogin, store, history
<1>2. PICK pc \in {"verify", "lock.expired", "idle"}, failed \in BOOLEAN, resp \in {"none", "locked"} :
        /\ reqs' = [reqs EXCEPT ![r] = [Idle EXCEPT !.pc = pc, !.acct = a, !.dev = dev, !.fault = failed,
                                                    !.resp = resp]]
        /\ pc # "idle" => resp = "none"
  <2> DEFINE Begin(pc, failed, resp) == reqs' = [reqs EXCEPT ![r] =
               [Idle EXCEPT !.pc = pc, !.acct = a, !.dev = dev, !.fault = failed, !.resp = resp]]
  <2>1. \/ Begin("verify", FALSE, "none") \/ Begin("verify", TRUE, "none")
        \/ Begin("lock.expired", FALSE, "none") \/ Begin("idle", FALSE, "locked")
    BY Zenon DEF StartLogin
  <2> HIDE DEF Begin
  <2>2. \E pc \in {"verify", "lock.expired", "idle"}, failed \in BOOLEAN, resp \in {"none", "locked"} :
          Begin(pc, failed, resp) /\ (pc # "idle" => resp = "none")
    BY <2>1, Zenon
  <2>. QED BY <2>2, Zenon DEF Begin
<1> DEFINE x == [Idle EXCEPT !.pc = pc, !.acct = a, !.dev = dev, !.fault = failed, !.resp = resp]
<1>3. x \in RequestStates /\ x.pc = pc /\ x.acct = a /\ x.resp = resp
  BY Zenon DEF Idle, RequestStates, PCs, Responses
<1>4. reqs' = [reqs EXCEPT ![r] = x]
  BY <1>2, Zenon
<1> HIDE DEF x
<1>5. reqs' \in [Requests -> RequestStates] /\ \A s \in Requests : RequestInv(s)'
  BY <1>1, <1>2, <1>3, <1>4, RequestMoves, Zenon
<1>6. TypeOK'
  BY <1>0, <1>1, <1>5, HeldTyped, Zenon DEF TypeOK
<1>. QED BY <1>1, <1>5, <1>6, StoresKept, Zenon DEF LoginInv

\* POST /login/mfa: a code for the secret of the row, verified or not; whatever
\* pending_token is comes back.
LEMMA CompleteKeeps ==
  ASSUME LoginInv, KeepHeld, NEW r \in Requests, NEW a \in Accounts, NEW s \in issued,
         NEW t \in {reqs[q].token : q \in Requests}, CompleteMFALogin(r, a, s, t)
  PROVE  LoginInv'
<1>0. TypeOK /\ t \in Accounts \cup {None}
  BY Zenon DEF LoginInv, TypeOK, RequestStates
<1>1. UNCHANGED <<failures, lock, devices, totp, recent, now, drawn, posture, issued, proven>>
  BY Zenon DEF CompleteMFALogin, store, history
<1>2. PICK resp \in {"mfa_session", "error"}, y \in {t, None} :
        reqs' = [reqs EXCEPT ![r] = [Idle EXCEPT !.acct = a, !.resp = resp, !.token = y]]
  BY Zenon DEF CompleteMFALogin
<1> DEFINE x == [Idle EXCEPT !.acct = a, !.resp = resp, !.token = y]
<1>3. x \in RequestStates /\ x.pc = "idle" /\ x.resp = resp
  BY <1>0, Zenon DEF Idle, RequestStates, PCs, Responses
<1>4. reqs' = [reqs EXCEPT ![r] = x]
  BY <1>2, Zenon
<1> HIDE DEF x
<1>5. reqs' \in [Requests -> RequestStates] /\ \A q \in Requests : RequestInv(q)'
  BY <1>1, <1>2, <1>3, <1>4, RequestMoves, Zenon
<1>6. TypeOK'
  BY <1>0, <1>1, <1>5, HeldTyped, Zenon DEF TypeOK
<1>. QED BY <1>1, <1>5, <1>6, StoresKept, Zenon DEF LoginInv

\* POST /api/v1/mfa/totp/verify: the row is read and the code checked.
LEMMA VerifyKeeps ==
  ASSUME LoginInv, KeepHeld, NEW r \in Requests, NEW a \in Accounts, NEW s \in issued, VerifyTOTP(r, a, s)
  PROVE  LoginInv'
<1> USE RowsAssumption
<1>0. TypeOK /\ s \in TotpSecrets
  BY Zenon DEF LoginInv, TypeOK
<1>1. UNCHANGED <<failures, lock, devices, totp, recent, now, drawn, posture, issued>> /\ totp[a] # None
  BY Zenon DEF VerifyTOTP, store
<1>2. totp[a].id \in TotpSecrets
  BY <1>0, <1>1, Zenon DEF TypeOK, TotpRows
<1>3. PICK pc \in {"idle", "totp.mark"}, resp \in {"none", "verified", "error"} :
        /\ reqs' = [reqs EXCEPT ![r] = [Idle EXCEPT !.pc = pc, !.acct = a, !.row = totp[a].id, !.resp = resp]]
        /\ pc = "totp.mark" => resp = "none" /\ proven' = proven \cup {<<totp[a].id, s>>}
  <2> DEFINE Begin(pc, resp) == reqs' = [reqs EXCEPT ![r] =
               [Idle EXCEPT !.pc = pc, !.acct = a, !.row = totp[a].id, !.resp = resp]]
  <2>1. \/ Begin("idle", "verified") \/ Begin("idle", "error")
        \/ Begin("totp.mark", "none") /\ proven' = proven \cup {<<totp[a].id, s>>}
    BY Zenon DEF VerifyTOTP
  <2> HIDE DEF Begin
  <2>2. \E pc \in {"idle", "totp.mark"}, resp \in {"none", "verified", "error"} :
          /\ Begin(pc, resp)
          /\ pc = "totp.mark" => resp = "none" /\ proven' = proven \cup {<<totp[a].id, s>>}
    BY <2>1, Zenon
  <2>. QED BY <2>2, Zenon DEF Begin
<1>4. proven \subseteq proven' /\ proven' \subseteq TotpSecrets \X TotpSecrets
  BY <1>0, <1>2 DEF VerifyTOTP, TypeOK
<1> DEFINE x == [Idle EXCEPT !.pc = pc, !.acct = a, !.row = totp[a].id, !.resp = resp]
<1>5. x \in RequestStates /\ x.pc = pc /\ x.acct = a /\ x.row = totp[a].id /\ x.resp = resp
  BY <1>2, Zenon DEF Idle, RequestStates, PCs, Responses
<1>6. reqs' = [reqs EXCEPT ![r] = x]
  BY <1>3, Zenon
<1> HIDE DEF x
<1>7. x.pc = "totp.mark" => \E z \in TotpSecrets : <<x.row, z>> \in proven'
  BY <1>0, <1>3, <1>5, Zenon
<1>8. reqs' \in [Requests -> RequestStates] /\ \A q \in Requests : RequestInv(q)'
  BY <1>3, <1>4, <1>5, <1>6, <1>7, RequestMoves, Zenon
<1>9. TypeOK'
  BY <1>0, <1>1, <1>4, <1>8, HeldTyped, Zenon DEF TypeOK
<1>. QED BY <1>1, <1>4, <1>8, <1>9, StoresKept, Zenon DEF LoginInv
-----------------------------------------------------------------------------
(* Enrolments, devices, events and the clock *)

\* A step that touches no request.
LEMMA RequestsStay ==
  ASSUME LoginInv, KeepHeld, UNCHANGED <<reqs, proven>>
  PROVE  \A r \in Requests : RequestInv(r)'
  BY OthersKept, Zenon DEF LoginInv

\* Enrolment writes an unverified row; deletion leaves none.
LEMMA EnrolmentKeeps ==
  ASSUME LoginInv, KeepHeld, NEW a \in Accounts,
         DeleteTOTP(a) \/ \E s \in TotpSecrets \ issued : EnrollTOTP(a, s)
  PROVE  LoginInv'
<1> USE RowsAssumption
<1>0. TypeOK
  BY Zenon DEF LoginInv
<1>1. UNCHANGED <<failures, lock, devices, recent, now, reqs, drawn, posture, proven>>
  BY Zenon DEF DeleteTOTP, EnrollTOTP, history
<1>2. PICK row \in TotpRows \cup {None} :
        /\ totp' = [totp EXCEPT ![a] = row] /\ (row # None => ~row.verified)
        /\ issued' \subseteq TotpSecrets
  <2>1. CASE DeleteTOTP(a)
    BY <1>0, <2>1, Zenon DEF DeleteTOTP, history, TypeOK
  <2>2. ASSUME NEW s \in TotpSecrets \ issued, EnrollTOTP(a, s)
        PROVE  \E row \in TotpRows \cup {None} :
                 /\ totp' = [totp EXCEPT ![a] = row] /\ (row # None => ~row.verified)
                 /\ issued' \subseteq TotpSecrets
    <3> DEFINE i == IF totp[a] = None THEN s ELSE totp[a].id
               y == [id |-> i, secret |-> s, verified |-> FALSE]
    <3>1. i \in TotpSecrets
      BY <1>0, Zenon DEF TypeOK, TotpRows
    <3>2. totp' = [totp EXCEPT ![a] = y] /\ issued' \subseteq TotpSecrets
      BY <1>0, <2>2, Zenon DEF EnrollTOTP, TypeOK
    <3>3. y \in TotpRows /\ ~y.verified
      BY <3>1, Zenon DEF TotpRows
    <3>. QED BY <3>2, <3>3, Zenon
  <2>. QED BY <2>1, <2>2, Zenon
<1>3. totp' \in [Accounts -> TotpRows \cup {None}] /\ totp'[a] = row
      /\ \A b \in Accounts : b # a => totp'[b] = totp[b]
  BY <1>0, <1>2, Zenon DEF TypeOK
<1>4. VerifiedRowProven'
  BY <1>1, <1>2, <1>3, Zenon DEF LoginInv, VerifiedRowProven, TotpOn
<1>5. DeviceInv'
  BY <1>1, Zenon DEF LoginInv, DeviceInv
<1>6. TypeOK'
  BY <1>0, <1>1, <1>2, <1>3, HeldTyped, Zenon DEF TypeOK
<1>. QED BY <1>1, <1>4, <1>5, <1>6, RequestsStay, Zenon DEF LoginInv

\* Devices are registered, report their posture, and are deleted.
LEMMA DevicesKeep ==
  ASSUME LoginInv, KeepHeld,
         \/ \E k \in Identifiers : RegisterDevice(k)
         \/ \E id \in DeviceIds :
              DeleteDevice(id) \/ \E c \in BOOLEAN, risk \in RiskScores : UpdatePosture(id, c, risk)
  PROVE  LoginInv'
<1> USE RowsAssumption
<1>0. TypeOK
  BY Zenon DEF LoginInv
<1>1. UNCHANGED <<failures, lock, totp, recent, now, reqs, issued, proven>>
  BY Zenon DEF RegisterDevice, DeleteDevice, UpdatePosture
<1> DEFINE Kept == /\ devices' \in [DeviceKeys -> Devices \cup {None}] /\ drawn' \subseteq DeviceIds
                  /\ posture' \in [DeviceIds -> Postures \cup {None}] /\ DeviceInv'
<1>2. Kept
  <2>1. ASSUME NEW k \in Identifiers, RegisterDevice(k) PROVE Kept
    BY <1>0, <2>1, DeviceUpserted, Zenon DEF RegisterDevice, TypeOK
  <2>2. ASSUME NEW id \in DeviceIds, DeleteDevice(id) PROVE Kept
    <3>1. /\ devices' = [k \in DeviceKeys |-> IF devices[k] # None /\ devices[k].id = id THEN None ELSE devices[k]]
          /\ posture' = [posture EXCEPT ![id] = None] /\ UNCHANGED drawn
      BY <2>2, Zenon DEF DeleteDevice
    <3>2. /\ posture'[id] = None /\ \A d \in DeviceIds : d # id => posture'[d] = posture[d]
          /\ \A k \in DeviceKeys : \/ devices'[k] = None /\ (devices[k] = None \/ devices[k].id = id)
                                   \/ devices'[k] = devices[k] /\ devices[k] # None /\ devices[k].id # id
      BY <1>0, <3>1, Zenon DEF TypeOK
    <3>3. \A k \in DeviceKeys : devices[k] # None => devices[k].id \in DeviceIds
      BY <1>0, Zenon DEF TypeOK, Devices
    <3>4. DeviceInv'
      BY <3>1, <3>2, <3>3 DEF LoginInv, DeviceInv
    <3>. QED BY <1>0, <3>1, <3>4, Zenon DEF TypeOK
  <2>3. ASSUME NEW id \in DeviceIds, NEW c \in BOOLEAN, NEW risk \in RiskScores, UpdatePosture(id, c, risk)
        PROVE  Kept
    <3> DEFINE rep == [compliant |-> c, risk |-> risk]
               New(k) == [devices[k] EXCEPT !.compliant = c, !.risk = risk]
    <3>1. /\ devices' = [k \in DeviceKeys |-> IF devices[k] # None /\ devices[k].id = id THEN New(k) ELSE devices[k]]
          /\ posture' = [posture EXCEPT ![id] = rep] /\ UNCHANGED drawn /\ RowsById(id) # {}
      BY <2>3, Zenon DEF UpdatePosture
    <3>2. rep \in Postures /\ rep.compliant = c /\ rep.risk = risk
      BY Zenon DEF Postures
    <3>3. ASSUME NEW k \in DeviceKeys, devices[k] # None
          PROVE  /\ New(k) \in Devices /\ New(k).id = devices[k].id /\ New(k).compliant = c /\ New(k).risk = risk
                 /\ devices[k].id \in DeviceIds
      <4>1. devices[k] \in Devices
        BY <1>0, <3>3, Zenon DEF TypeOK
      <4>. QED BY <4>1, Zenon DEF Devices
    <3> HIDE DEF rep, New
    <3>4. /\ posture'[id] = rep /\ \A d \in DeviceIds : d # id => posture'[d] = posture[d]
          /\ posture' \in [DeviceIds -> Postures \cup {None}]
      BY <1>0, <3>1, <3>2, Zenon DEF TypeOK
    <3>5. devices' \in [DeviceKeys -> Devices \cup {None}]
      BY <1>0, <3>1, <3>3, Zenon DEF TypeOK
    <3>6. \A k \in DeviceKeys :
            \/ devices[k] = None /\ devices'[k] = None
            \/ devices[k] # None /\ devices[k].id = id /\ devices'[k] = New(k) /\ devices'[k] # None
            \/ devices[k] # None /\ devices[k].id # id /\ devices'[k] = devices[k]
      BY <3>1, <3>3, Zenon
    <3>7. \E k \in DeviceKeys : devices[k] # None /\ devices[k].id = id
      BY <3>1, Zenon DEF RowsById
    <3>8. DeviceInv'
      <4>1. ASSUME NEW j \in DeviceKeys, devices'[j] # None
            PROVE  LET d == devices'[j].id IN
                   /\ d \in drawn'
                   /\ posture'[d] # None => /\ devices'[j].compliant = posture'[d].compliant
                                            /\ devices'[j].risk = posture'[d].risk
        BY <3>1, <3>2, <3>3, <3>4, <3>6, <4>1 DEF LoginInv, DeviceInv
      <4>2. ASSUME NEW d \in DeviceIds, posture'[d] # None
            PROVE  d \in drawn' /\ \E j \in DeviceKeys : devices'[j] # None /\ devices'[j].id = d
        <5>1. PICK j \in DeviceKeys : devices[j] # None /\ devices[j].id = d /\ d \in drawn
          BY <3>4, <3>7, <4>2 DEF LoginInv, DeviceInv
        <5>. QED BY <3>1, <3>3, <3>6, <5>1, Zenon
      <4>. QED BY <4>1, <4>2, Zenon DEF DeviceInv
    <3>. QED BY <1>0, <3>1, <3>4, <3>5, <3>8, Zenon DEF TypeOK
  <2>. QED BY <2>1, <2>2, <2>3, Zenon
<1>3. VerifiedRowProven'
  BY <1>1, Zenon DEF LoginInv, VerifiedRowProven, TotpOn
<1>4. TypeOK'
  BY <1>0, <1>1, <1>2, HeldTyped, Zenon DEF TypeOK
<1>. QED BY <1>1, <1>2, <1>3, <1>4, RequestsStay, Zenon DEF LoginInv
-----------------------------------------------------------------------------
(* All steps together *)

\* Nothing is stored and nobody has arrived.
LEMMA LoginInvInit == Init => LoginInv
<1> SUFFICES ASSUME Init PROVE LoginInv
  BY Zenon
<1>1. Idle \in RequestStates /\ Idle.pc = "idle"
  BY Zenon DEF Idle, RequestStates, PCs, Responses
<1>2. TypeOK
  BY <1>1 DEF Init, TypeOK
<1>3. \A r \in Requests : RequestInv(r)
  BY <1>1, Zenon DEF Init, RequestInv
<1>. QED BY <1>2, <1>3, Zenon DEF Init, LoginInv, DeviceInv, VerifiedRowProven, TotpOn

\* Every query of every handler keeps the invariant, failing or not.
LEMMA LoginInvStep == LoginInv /\ [Next]_vars => LoginInv'
<1> SUFFICES ASSUME LoginInv, [Next]_vars PROVE LoginInv'
  BY Zenon
<1>1. CASE KeepHeld /\ \E r \in Requests : Step(r)
  BY <1>1, LookupKeeps, RiskDeviceKeeps, RiskSignalKeeps, LoginDeviceKeeps, MarkKeeps, Zenon DEF Step
<1>2. CASE KeepHeld /\ Environment
  <2>1. ASSUME UNCHANGED <<failures, lock, devices, totp, reqs, drawn, posture, issued, proven>>,
               recent' \subseteq Accounts, now' \in Nat
        PROVE  LoginInv'
    <3>1. TypeOK'
      BY <1>2, <2>1, HeldTyped, Zenon DEF LoginInv, TypeOK
    <3>. QED BY <1>2, <2>1, <3>1, StoresKept, RequestsStay, Zenon DEF LoginInv
  <2>2. ASSUME NEW a \in Accounts, IngestSignal(a) \/ SignalAges(a) PROVE LoginInv'
    BY <2>1, <2>2, Zenon DEF IngestSignal, SignalAges, history, LoginInv, TypeOK
  <2>3. CASE Tick
    BY <2>1, <2>3 DEF Tick, store, history, LoginInv, TypeOK
  <2>4. ASSUME NEW r \in Requests, NEW a \in Accounts, NEW dev \in DeviceKeys \cup {None}, StartLogin(r, a, dev)
        PROVE  LoginInv'
    BY <1>2, <2>4, StartKeeps, Zenon
  <2>5. ASSUME NEW r \in Requests, NEW a \in Accounts, NEW s \in issued,
               \/ \E t \in {reqs[q].token : q \in Requests} : CompleteMFALogin(r, a, s, t)
               \/ VerifyTOTP(r, a, s)
        PROVE  LoginInv'
    BY <1>2, <2>5, CompleteKeeps, VerifyKeeps, Zenon
  <2>6. ASSUME NEW a \in Accounts, DeleteTOTP(a) \/ \E s \in TotpSecrets \ issued : EnrollTOTP(a, s) PROVE LoginInv'
    BY <1>2, <2>6, EnrolmentKeeps, Zenon
  <2>7. ASSUME \/ \E k \in Identifiers : RegisterDevice(k)
               \/ \E id \in DeviceIds :
                    DeleteDevice(id) \/ \E c \in BOOLEAN, risk \in RiskScores : UpdatePosture(id, c, risk)
        PROVE  LoginInv'
    BY <1>2, <2>7, DevicesKeep, Zenon
  <2>. QED BY <1>2, <2>2, <2>3, <2>4, <2>5, <2>6, <2>7, Zenon DEF Environment
<1>3. CASE UNCHANGED vars
  BY <1>3, Zenon DEF vars, LoginInv, TypeOK, DeviceInv, VerifiedRowProven, TotpOn, RequestInv
<1>. QED BY <1>1, <1>2, <1>3, Zenon DEF Next
-----------------------------------------------------------------------------
(* Theorems *)

\* The inductive invariant of login, devices and TOTP.
THEOREM LoginInvariance == Spec => []LoginInv
  BY LoginInvInit, LoginInvStep, PTL DEF Spec

\* Tables, requests and histories keep their shape.
THEOREM LoginTypes == Spec => []TypeOK
<1>1. LoginInv => TypeOK
  BY Zenon DEF LoginInv
<1>. QED BY <1>1, LoginInvariance, PTL

\* A login during all of which the account had a verified secret, and no query
\* failed, is not answered with a session (login, TOTPStore.GetByIdentity); the
\* access token goes out as pending_token all the same.
THEOREM CodeIsAskedFor == Spec => []CodeAskedFor
<1>1. LoginInv => CodeAskedFor
  BY Zenon DEF LoginInv, RequestInv, CodeAskedFor
<1>. QED BY <1>1, LoginInvariance, PTL

\* A login on a device reported bad from before it arrived is not let through
\* (RiskEngine.Evaluate, DeviceStore.Register).
THEOREM BadDeviceRefused == Spec => []RiskyDeviceRefused
<1>1. LoginInv => RiskyDeviceRefused
  BY Zenon DEF LoginInv, RequestInv, RiskyDeviceRefused
<1>. QED BY <1>1, LoginInvariance, PTL

\* A TOTP row is verified only if a valid code was shown for it (MarkVerified).
THEOREM VerifiedIsProven == Spec => []VerifiedRowProven
<1>1. LoginInv => VerifiedRowProven
  BY Zenon DEF LoginInv
<1>. QED BY <1>1, LoginInvariance, PTL
====
