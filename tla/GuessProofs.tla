---------------------------- MODULE GuessProofs -----------------------------
(***************************************************************************)
(* How far guessing gets before the lockout stops it, for any number of    *)
(* accounts, requests in flight and failures: the failures of an account   *)
(* inside one window pass the threshold by at most the square of the       *)
(* number of requests. The lockout is checked when a request arrives and   *)
(* set after its failure is counted, and a request that had found the      *)
(* previous lockout expired deletes the new one; so an account over the    *)
(* threshold still gets failures from the requests past the check, and a   *)
(* further round from each of those that will delete the lockout. Budget   *)
(* counts both: each request has a role for the account, the roles give    *)
(* the failures that can still come (Pot), and no step raises what was     *)
(* recorded and can still come together.                                   *)
(***************************************************************************)
EXTENDS LoginProofs, FiniteSetTheorems, TLAPS

-----------------------------------------------------------------------------
(* Guessing *)

\* The configuration the bound is about: dirsvc accepts no credentials and no
\* query fails.
EveryAttemptFails == ~Faults /\ "ok" \notin Verdicts

\* What a request may still do to an account: record a failure, delete its
\* lockout, set it, or nothing before it arrives again.
Role(x, a) ==
  IF x.acct # a THEN "other"
  ELSE IF x.pc \in {"verify", "fail.record"} THEN "adder"
  ELSE IF x.pc = "lock.expired" THEN "clearer"
  ELSE IF x.pc \in {"fail.count", "fail.lock"} THEN "locker"
  ELSE "other"

InRole(q, a, k) == {r \in Requests : Role(q[r], a) = k}

Count(a, k) == Cardinality(InRole(reqs, a, k))

LockState(a) == IF Locked(a) THEN "locked" ELSE IF lock[a] = None THEN "none" ELSE "expired"

\* The failures that can still be recorded while an account stays over the
\* threshold, with A adders, C clearers, O others and N requests.  Behind a
\* lockout it is one for each adder and a round of N for each clearer; with no
\* lockout everyone but the lockers may add one; after an expired one each of
\* the others may still become a clearer.
Pot(st, A, C, O, N) ==
  IF st = "locked" THEN A + C * N
  ELSE IF st = "none" THEN A + O + C * N
  ELSE A + (O + C) * N

Potential(a) == Pot(LockState(a), Count(a, "adder"), Count(a, "clearer"), Count(a, "other"), Cardinality(Requests))

\* Failures recorded after the lockout that is there was set
Since(a) == {i \in DOMAIN failures[a] : lock[a] # None /\ failures[a][i] > lock[a] - LockoutDuration}

\* Over the threshold, what was and can be recorded is within the bound; behind
\* a lockout, whoever recorded since was on the way when it was set; and if those
\* pass the threshold again, someone is about to set another.
Budget(a) ==
  /\ RecentFailures(a) >= MaxFailedAttempts =>
       RecentFailures(a) + Potential(a) <= MaxFailedAttempts - 1 + Cardinality(Requests) * Cardinality(Requests)
  /\ Locked(a) => Cardinality(Since(a)) + Count(a, "adder") + Count(a, "clearer") <= Cardinality(Requests) - 1
  /\ Cardinality(Since(a) \cap Recent(a)) >= MaxFailedAttempts => Count(a, "locker") > 0

GuessInv ==
  /\ \A r \in Requests : reqs[r].pc \notin {"risk.device", "risk.signal", "device", "unlock", "totp.check"}
  /\ \A a \in Accounts : \A i \in DOMAIN failures[a] : failures[a][i] <= now
  /\ \A a \in Accounts : Budget(a)

\* With someone about to lock, the potential is at most a round for everyone
\* else.
LEMMA PotEntry ==
  ASSUME NEW A \in Nat, NEW C \in Nat, NEW O \in Nat, NEW K \in Nat \ {0}, NEW N \in Nat, A + C + O + K = N,
         NEW st
  PROVE  Pot(st, A, C, O, N) \in Nat /\ Pot(st, A, C, O, N) <= N * N - N
<1> DEFINE D == K - 1
<1>1. D \in Nat /\ N = A + C + O + D + 1
  OBVIOUS
<1>2. \A m \in Nat : m * N \in Nat /\ m <= m * N
  <2>1. ASSUME NEW m \in Nat PROVE m * N \in Nat /\ m <= m * N
    <3>1. m * N = m + m * (A + C + O + D) /\ m * (A + C + O + D) \in Nat
      BY <1>1
    <3>. QED BY <3>1
  <2>. QED BY <2>1, Zenon
<1>3. N * N - N = A * N + C * N + O * N + D * N /\ (O + C) * N = O * N + C * N
  BY <1>1
<1>4. /\ A * N \in Nat /\ A <= A * N /\ C * N \in Nat /\ O * N \in Nat /\ O <= O * N
      /\ D * N \in Nat /\ N * N \in Nat
  BY <1>1, <1>2, Zenon
<1> HIDE DEF D
<1>. QED BY <1>3, <1>4 DEF Pot

\* A failure that is recorded is one that was expected.
LEMMA PotRecord ==
  ASSUME NEW A \in Nat \ {0}, NEW C \in Nat, NEW O \in Nat, NEW N \in Nat, NEW st
  PROVE  Pot(st, A - 1, C, O, N) = Pot(st, A, C, O, N) - 1
<1>1. C * N \in Nat /\ (O + C) * N \in Nat
  OBVIOUS
<1>. QED BY <1>1 DEF Pot

\* A lockout that is deleted uses up its round.
LEMMA PotClear ==
  ASSUME NEW A \in Nat, NEW C \in Nat \ {0}, NEW O \in Nat, NEW N \in Nat, A + C + O <= N, NEW st
  PROVE  Pot("none", A + 1, C - 1, O, N) <= Pot(st, A, C, O, N)
<1>1. (C - 1) * N = C * N - N /\ (O + C) * N = O * N + C * N
  OBVIOUS
<1>2. C * N \in Nat /\ O * N \in Nat
  OBVIOUS
<1>. QED BY <1>1, <1>2 DEF Pot

\* A lockout keeps the others out.
LEMMA PotLock ==
  ASSUME NEW A \in Nat, NEW C \in Nat, NEW O \in Nat, NEW M \in Nat, NEW N \in Nat, NEW st
  PROVE  Pot("locked", A, C, M, N) <= Pot(st, A, C, O, N)
<1>1. (O + C) * N = O * N + C * N /\ C * N \in Nat /\ O * N \in Nat
  OBVIOUS
<1>. QED BY <1>1 DEF Pot

\* Arriving was expected of the others.
LEMMA PotArrive ==
  ASSUME NEW A \in Nat, NEW C \in Nat, NEW O \in Nat \ {0}, NEW N \in Nat
  PROVE  /\ Pot("none", A + 1, C, O - 1, N) = Pot("none", A, C, O, N)
         /\ Pot("expired", A, C + 1, O - 1, N) = Pot("expired", A, C, O, N)
<1>1. C * N \in Nat /\ (O - 1) + (C + 1) = O + C
  OBVIOUS
<1>. QED BY <1>1 DEF Pot

\* When a lockout expires, what is over the threshold was on the way when it was
\* set.
LEMMA PotExpire ==
  ASSUME NEW A \in Nat, NEW C \in Nat, NEW O \in Nat, NEW K \in Nat \ {0}, NEW N \in Nat, A + C + O + K = N,
         NEW F \in Nat, F + A + C <= N - 1
  PROVE  F + Pot("expired", A, C, O, N) <= N * N - 1
<1> DEFINE D == A + K - 1
<1>1. D \in Nat /\ O + C = N - 1 - D
  OBVIOUS
<1>2. (O + C) * N = N * N - N - D * N /\ D * N \in Nat /\ N * N \in Nat
  BY <1>1
<1> HIDE DEF D
<1>. QED BY <1>2 DEF Pot

\* Cardinalities of disjoint sets add up.
LEMMA DisjointUnion ==
  ASSUME NEW S, NEW T, IsFiniteSet(S), IsFiniteSet(T), S \cap T = {}
  PROVE  /\ IsFiniteSet(S \cup T)
         /\ Cardinality(S \cup T) = Cardinality(S) + Cardinality(T)
<1>1. /\ IsFiniteSet(S \cup T)
      /\ Cardinality(S \cup T) = Cardinality(S) + Cardinality(T) - Cardinality(S \cap T)
  BY FS_Union, Zenon
<1>2. Cardinality(S \cap T) = 0
  BY FS_EmptySet, Zenon
<1>3. Cardinality(S) \in Nat /\ Cardinality(T) \in Nat
  BY FS_CardinalityType, Zenon
<1>. QED BY <1>1, <1>2, <1>3

\* The roles divide the requests among them.
LEMMA RolesDivide ==
  ASSUME NEW q, NEW a
  PROVE  /\ \A k : IsFiniteSet(InRole(q, a, k)) /\ Cardinality(InRole(q, a, k)) \in Nat
         /\ Cardinality(InRole(q, a, "adder")) + Cardinality(InRole(q, a, "clearer"))
              + Cardinality(InRole(q, a, "other")) + Cardinality(InRole(q, a, "locker")) = Cardinality(Requests)
<1> DEFINE W == InRole(q, a, "adder")
           X == InRole(q, a, "clearer")
           Y == InRole(q, a, "other")
           Z == InRole(q, a, "locker")
<1>1. \A k : IsFiniteSet(InRole(q, a, k)) /\ Cardinality(InRole(q, a, k)) \in Nat
  <2>1. \A k : InRole(q, a, k) \subseteq Requests
    BY Zenon DEF InRole
  <2>. QED BY <2>1, FS_Subset, FS_CardinalityType, LockoutAssumption, Zenon
<1>2. IsFiniteSet(W) /\ IsFiniteSet(X) /\ IsFiniteSet(Y) /\ IsFiniteSet(Z)
  BY <1>1, Zenon
<1>3. /\ W \cap X = {} /\ (W \cup X) \cap Y = {} /\ ((W \cup X) \cup Y) \cap Z = {}
      /\ ((W \cup X) \cup Y) \cup Z = Requests
  BY Zenon DEF InRole, Role
<1>4. /\ Cardinality(W) \in Nat /\ Cardinality(X) \in Nat /\ Cardinality(Y) \in Nat /\ Cardinality(Z) \in Nat
  BY <1>1, Zenon
<1> HIDE DEF W, X, Y, Z
<1>5. IsFiniteSet(W \cup X) /\ Cardinality(W \cup X) = Cardinality(W) + Cardinality(X)
  BY <1>2, <1>3, <1>4, DisjointUnion, Zenon
<1>6. /\ IsFiniteSet((W \cup X) \cup Y)
      /\ Cardinality((W \cup X) \cup Y) = Cardinality(W) + Cardinality(X) + Cardinality(Y)
  BY <1>2, <1>3, <1>4, <1>5, DisjointUnion, Zenon
<1>7. Cardinality(Requests) = Cardinality(W) + Cardinality(X) + Cardinality(Y) + Cardinality(Z)
  BY <1>2, <1>3, <1>4, <1>6, DisjointUnion, Zenon
<1>. QED BY <1>1, <1>7, Zenon DEF W, X, Y, Z

\* 1 for the role in question
One(role, k) == IF role = k THEN 1 ELSE 0

\* A request that moves leaves one role and takes another.
LEMMA RoleMoves ==
  ASSUME NEW r \in Requests, \A s \in Requests : s # r => reqs'[s] = reqs[s], NEW a, NEW k
  PROVE  Count(a, k)' = Count(a, k) + One(Role(reqs'[r], a), k) - One(Role(reqs[r], a), k)
<1> USE DEF One
<1> DEFINE S == InRole(reqs, a, k)
           P == InRole(reqs', a, k)
<1>2. P \ {r} = S \ {r} /\ (r \in P <=> Role(reqs'[r], a) = k) /\ (r \in S <=> Role(reqs[r], a) = k)
  BY Zenon DEF InRole
<1>3. IsFiniteSet(S) /\ IsFiniteSet(P) /\ Cardinality(S) \in Nat /\ Cardinality(P) \in Nat
  BY RolesDivide, Zenon
<1>4. Count(a, k)' = Cardinality(P) /\ Count(a, k) = Cardinality(S)
  BY Zenon DEF Count, InRole
<1> HIDE DEF S, P
<1>5. /\ Cardinality(S \ {r}) = IF r \in S THEN Cardinality(S) - 1 ELSE Cardinality(S)
      /\ Cardinality(P \ {r}) = IF r \in P THEN Cardinality(P) - 1 ELSE Cardinality(P)
  BY <1>3, FS_RemoveElement, Zenon
<1>6. Cardinality(P \ {r}) = Cardinality(S \ {r})
  BY <1>2, Zenon
<1>7. (r \in P <=> Role(reqs'[r], a) = k) /\ (r \in S <=> Role(reqs[r], a) = k)
  BY <1>2, Zenon
<1>. QED BY <1>3, <1>4, <1>5, <1>6, <1>7

\* Counts are numbers, also after a step.
LEMMA CountsDivide ==
  ASSUME NEW a
  PROVE  /\ \A k : Count(a, k) \in Nat /\ Count(a, k)' \in Nat
         /\ Count(a, "adder") + Count(a, "clearer") + Count(a, "other") + Count(a, "locker") = Cardinality(Requests)
         /\ (Count(a, "adder") + Count(a, "clearer") + Count(a, "other") + Count(a, "locker") = Cardinality(Requests))'
         /\ Cardinality(Requests) \in Nat
<1>1. Cardinality(Requests) \in Nat
  BY FS_CardinalityType, LockoutAssumption, Zenon
<1>2. \A k : Count(a, k) = Cardinality(InRole(reqs, a, k)) /\ Count(a, k)' = Cardinality(InRole(reqs', a, k))
  BY Zenon DEF Count, InRole
<1>. QED BY <1>1, <1>2, RolesDivide, Zenon

\* The attempts of an account are finitely many.
LEMMA AttemptsFinite ==
  ASSUME TypeOK, NEW a \in Accounts
  PROVE  /\ \A S \in SUBSET DOMAIN failures[a] : IsFiniteSet(S) /\ Cardinality(S) \in Nat
         /\ \A S, P \in SUBSET DOMAIN failures[a] : S \subseteq P => Cardinality(S) <= Cardinality(P)
<1>1. failures[a] \in Seq(Nat)
  BY Zenon DEF TypeOK
<1>2. DOMAIN failures[a] = 1..Len(failures[a]) /\ Len(failures[a]) \in Nat
  BY <1>1
<1>3. IsFiniteSet(DOMAIN failures[a])
  BY <1>2, FS_Interval
<1>4. \A S \in SUBSET DOMAIN failures[a] : IsFiniteSet(S)
  BY <1>3, FS_Subset, Zenon
<1>. QED BY <1>4, FS_Subset, FS_CardinalityType, Zenon

\* An account is within its budget as long as its attempts, its lockout and the
\* roles of the requests stay as they are.
LEMMA BudgetKept ==
  ASSUME NEW a \in Accounts, Budget(a), \A s \in Requests : Role(reqs'[s], a) = Role(reqs[s], a),
         failures'[a] = failures[a], lock'[a] = lock[a], now' = now
  PROVE  Budget(a)'
<1>1. ASSUME NEW k PROVE Count(a, k)' = Count(a, k)
  <2>1. InRole(reqs', a, k) = InRole(reqs, a, k)
    BY Zenon DEF InRole
  <2>. QED BY <2>1, Zenon DEF Count, InRole
<1>2. Recent(a)' = Recent(a) /\ Since(a)' = Since(a) /\ (Locked(a)' <=> Locked(a))
  BY Zenon DEF Recent, Since, Locked
<1>3. RecentFailures(a)' = RecentFailures(a) /\ LockState(a)' = LockState(a)
  BY <1>2, Zenon DEF RecentFailures, LockState
<1>4. Potential(a)' = Potential(a)
  BY <1>1, <1>3 DEF Potential
<1>. QED BY <1>1, <1>2, <1>3, <1>4 DEF Budget

\* The numbers of a budget
LEMMA BudgetNumbers ==
  ASSUME TypeOK, NEW a \in Accounts
  PROVE  /\ Recent(a) \subseteq DOMAIN failures[a] /\ Since(a) \subseteq DOMAIN failures[a]
         /\ RecentFailures(a) \in Nat /\ Cardinality(Since(a)) \in Nat /\ Cardinality(Since(a) \cap Recent(a)) \in Nat
         /\ Cardinality(Since(a) \cap Recent(a)) <= RecentFailures(a)
         /\ MaxFailedAttempts \in Nat \ {0} /\ Cardinality(Requests) \in Nat
         /\ Cardinality(Requests) * Cardinality(Requests) \in Nat
<1>1. Recent(a) \subseteq DOMAIN failures[a] /\ Since(a) \subseteq DOMAIN failures[a]
  BY Zenon DEF Recent, Since
<1>2. Since(a) \cap Recent(a) \subseteq DOMAIN failures[a] /\ Since(a) \cap Recent(a) \subseteq Recent(a)
  BY <1>1, Zenon
<1>3. /\ RecentFailures(a) \in Nat /\ Cardinality(Since(a)) \in Nat /\ Cardinality(Since(a) \cap Recent(a)) \in Nat
      /\ Cardinality(Since(a) \cap Recent(a)) <= RecentFailures(a)
  BY <1>1, <1>2, AttemptsFinite, Zenon DEF RecentFailures
<1>4. Cardinality(Requests) \in Nat
  BY FS_CardinalityType, LockoutAssumption, Zenon
<1>. QED BY <1>1, <1>3, <1>4, LockoutAssumption

\* One request moves from role k to role m of account a.
Moves(a, r, k, m) ==
  /\ \A s \in Requests : s # r => reqs'[s] = reqs[s]
  /\ Role(reqs[r], a) = k /\ Role(reqs'[r], a) = m

\* The counts after such a move.
LEMMA CountsMove ==
  ASSUME NEW a, NEW r \in Requests, NEW k, NEW m, Moves(a, r, k, m)
  PROVE  /\ \A j : Count(a, j)' = Count(a, j) + One(m, j) - One(k, j)
         /\ \A j : Count(a, j) \in Nat /\ Count(a, j)' \in Nat
<1>1. ASSUME NEW j PROVE Count(a, j)' = Count(a, j) + One(m, j) - One(k, j)
  BY RoleMoves, Zenon DEF Moves
<1>. QED BY <1>1, CountsDivide, Zenon

\* RecordAttempt: an adder becomes a locker, and its failure is recent at most
\* once more.
LEMMA RecordBudget ==
  ASSUME TypeOK, NEW a \in Accounts, Budget(a), NEW r \in Requests, Moves(a, r, "adder", "locker"),
         failures'[a] = Append(failures[a], now), lock'[a] = lock[a], now' = now
  PROVE  Budget(a)'
<1> DEFINE A == Count(a, "adder")
           C == Count(a, "clearer")
           O == Count(a, "other")
           K == Count(a, "locker")
           N == Cardinality(Requests)
           st == LockState(a)
<1>1. /\ A \in Nat /\ C \in Nat /\ O \in Nat /\ K \in Nat /\ N \in Nat /\ A + C + O + K = N
      /\ Count(a, "adder")' \in Nat
  BY CountsDivide, Zenon
<1>2. /\ Count(a, "adder")' = A - 1 /\ Count(a, "clearer")' = C /\ Count(a, "other")' = O
      /\ Count(a, "locker")' = K + 1
  <2>1. \A j : Count(a, j)' = Count(a, j) + One("locker", j) - One("adder", j)
    BY CountsMove
  <2>2. /\ One("locker", "adder") = 0 /\ One("adder", "adder") = 1 /\ One("locker", "clearer") = 0
        /\ One("adder", "clearer") = 0 /\ One("locker", "other") = 0 /\ One("adder", "other") = 0
        /\ One("locker", "locker") = 1 /\ One("adder", "locker") = 0
    BY Zenon DEF One
  <2> HIDE DEF One
  <2>. QED BY <1>1, <2>1, <2>2
<1>3. LockState(a)' = st /\ (Locked(a)' <=> Locked(a))
  BY Zenon DEF LockState, Locked
<1>4. /\ \E n : Recent(a)' \subseteq Recent(a) \cup {n} /\ Since(a)' \subseteq Since(a) \cup {n}
  <2> DEFINE n == Len(failures[a]) + 1
  <2>1. failures[a] \in Seq(Nat) /\ now \in Nat
    BY Zenon DEF TypeOK
  <2>2. /\ DOMAIN failures'[a] = DOMAIN failures[a] \cup {n}
        /\ \A i \in DOMAIN failures[a] : failures'[a][i] = failures[a][i]
    BY <2>1
  <2> HIDE DEF n
  <2>3. Recent(a)' \subseteq Recent(a) \cup {n} /\ Since(a)' \subseteq Since(a) \cup {n}
    BY <2>2, Zenon DEF Recent, Since
  <2>. QED BY <2>3, Zenon
<1>5. ASSUME NEW S \in SUBSET DOMAIN failures[a], NEW P, NEW n, P \subseteq S \cup {n}
      PROVE  Cardinality(P) \in Nat /\ Cardinality(P) <= Cardinality(S) + 1
  <2>1. IsFiniteSet(S) /\ Cardinality(S) \in Nat
    BY AttemptsFinite, Zenon
  <2>2. IsFiniteSet(S \cup {n}) /\ Cardinality(S \cup {n}) <= Cardinality(S) + 1 /\ Cardinality(S \cup {n}) \in Nat
    <3>1. /\ IsFiniteSet(S \cup {n})
          /\ Cardinality(S \cup {n}) = IF n \in S THEN Cardinality(S) ELSE Cardinality(S) + 1
      BY <2>1, FS_AddElement, Zenon
    <3>. QED BY <2>1, <3>1
  <2>3. Cardinality(P) <= Cardinality(S \cup {n}) /\ Cardinality(P) \in Nat
    BY <1>5, <2>2, FS_Subset, FS_CardinalityType, Zenon
  <2>. QED BY <2>1, <2>2, <2>3
<1>6. /\ RecentFailures(a)' \in Nat /\ RecentFailures(a)' <= RecentFailures(a) + 1
      /\ Cardinality(Since(a))' \in Nat /\ Cardinality(Since(a))' <= Cardinality(Since(a)) + 1
  <2>1. Recent(a) \subseteq DOMAIN failures[a] /\ Since(a) \subseteq DOMAIN failures[a]
    BY Zenon DEF Recent, Since
  <2>. QED BY <1>4, <1>5, <2>1, Zenon DEF RecentFailures
<1>7. RecentFailures(a) \in Nat /\ Cardinality(Since(a)) \in Nat /\ N * N \in Nat
  BY BudgetNumbers, Zenon
<1>8. Potential(a)' = Pot(st, A - 1, C, O, N) /\ Potential(a) = Pot(st, A, C, O, N)
  BY <1>2, <1>3, Zenon DEF Potential
<1>9. A \in Nat \ {0}
  BY <1>1, <1>2
<1> HIDE DEF A, C, O, K, N, st
<1>10. Pot(st, A - 1, C, O, N) = Pot(st, A, C, O, N) - 1
  BY <1>1, <1>9, PotRecord
<1>11. Pot(st, A - 1, C, O, N) \in Nat /\ Pot(st, A - 1, C, O, N) <= N * N - N /\ 1 <= N /\ N * N \in Nat
  <2>1. A - 1 \in Nat /\ K + 1 \in Nat \ {0} /\ (A - 1) + C + O + (K + 1) = N
    BY <1>1, <1>9
  <2>2. 1 <= N
    BY <1>1, <1>9
  <2>3. Pot(st, A - 1, C, O, N) \in Nat /\ Pot(st, A - 1, C, O, N) <= N * N - N
    BY <1>1, <2>1, PotEntry, Zenon
  <2>. QED BY <1>7, <2>2, <2>3, Zenon
<1>12. MaxFailedAttempts \in Nat
  BY LockoutAssumption, Zenon
<1>13. Pot(st, A, C, O, N) \in Int
  BY <1>1 DEF Pot
<1>14. ASSUME RecentFailures(a)' >= MaxFailedAttempts
       PROVE  RecentFailures(a)' + Potential(a)' <= MaxFailedAttempts - 1 + N * N
  <2>1. CASE RecentFailures(a) >= MaxFailedAttempts
    <3> DEFINE P == Pot(st, A, C, O, N)
               B == N * N
    <3>1. RecentFailures(a) + P <= MaxFailedAttempts - 1 + B
      BY <1>8, <2>1, Zenon DEF Budget, N
    <3>2. Potential(a)' = P - 1 /\ P \in Int /\ B \in Nat
      BY <1>7, <1>8, <1>10, <1>13, Zenon
    <3> HIDE DEF P, B
    <3>3. RecentFailures(a)' + Potential(a)' <= MaxFailedAttempts - 1 + B
      BY <1>6, <1>7, <1>12, <3>1, <3>2
    <3>. QED BY <3>3, Zenon DEF B
  <2>2. CASE ~(RecentFailures(a) >= MaxFailedAttempts)
    <3>1. RecentFailures(a)' = MaxFailedAttempts
      BY <1>6, <1>7, <1>12, <1>14, <2>2
    <3> DEFINE P == Pot(st, A - 1, C, O, N)
               B == N * N
    <3>2. Potential(a)' = P /\ P \in Nat /\ P <= B - N /\ 1 <= N /\ B \in Nat
      BY <1>8, <1>11, Zenon
    <3> HIDE DEF P, B
    <3>3. RecentFailures(a)' + Potential(a)' <= MaxFailedAttempts - 1 + B
      BY <1>1, <1>12, <3>1, <3>2
    <3>. QED BY <3>3, Zenon DEF B
  <2>. QED BY <2>1, <2>2, Zenon
<1>15. ASSUME Locked(a)'
       PROVE  Cardinality(Since(a))' + Count(a, "adder")' + Count(a, "clearer")' <= N - 1
  <2>1. Cardinality(Since(a)) + A + C <= N - 1
    BY <1>3, <1>15, Zenon DEF Budget, A, C, N
  <2>2. Count(a, "adder")' = A - 1 /\ Count(a, "clearer")' = C
    BY <1>2, Zenon DEF A, C
  <2>3. A \in Nat /\ C \in Nat /\ N \in Nat
    BY <1>1, Zenon
  <2>. QED BY <1>6, <1>7, <2>1, <2>2, <2>3
<1>16. Count(a, "locker")' > 0
  BY <1>1, <1>2 DEF K
<1>. QED BY <1>14, <1>15, <1>16, Zenon DEF Budget, N

\* A request that finds no lockout may add a failure, one that finds an expired
\* one deletes it first.
LEMMA ArriveBudget ==
  ASSUME TypeOK, NEW a \in Accounts, Budget(a), NEW r \in Requests, ~Locked(a),
         \/ lock[a] = None /\ Moves(a, r, "other", "adder")
         \/ lock[a] # None /\ Moves(a, r, "other", "clearer"),
         failures'[a] = failures[a], lock'[a] = lock[a], now' = now
  PROVE  Budget(a)'
<1> DEFINE A == Count(a, "adder")
           C == Count(a, "clearer")
           O == Count(a, "other")
           N == Cardinality(Requests)
<1>1. A \in Nat /\ C \in Nat /\ O \in Nat /\ N \in Nat /\ Count(a, "other")' \in Nat
  BY CountsDivide, Zenon
<1>2. Recent(a)' = Recent(a) /\ Since(a)' = Since(a) /\ ~Locked(a)' /\ RecentFailures(a)' = RecentFailures(a)
  BY Zenon DEF Recent, Since, Locked, RecentFailures
<1>3. LockState(a)' = LockState(a) /\ LockState(a) = IF lock[a] = None THEN "none" ELSE "expired"
  BY <1>2, Zenon DEF LockState
<1>4. Count(a, "locker")' = Count(a, "locker") /\ Potential(a)' = Potential(a)
  <2>1. CASE lock[a] = None /\ Moves(a, r, "other", "adder")
    <3>1. /\ Count(a, "adder")' = A + 1 /\ Count(a, "clearer")' = C /\ Count(a, "other")' = O - 1
          /\ Count(a, "locker")' = Count(a, "locker")
      BY <2>1, CountsMove DEF One
    <3>2. O \in Nat \ {0} BY <1>1, <3>1
    <3>3. Pot("none", A + 1, C, O - 1, N) = Pot("none", A, C, O, N)
      <4> HIDE DEF A, C, O, N
      <4>. QED BY <1>1, <3>2, PotArrive
    <3>. QED BY <1>3, <2>1, <3>1, <3>3, Zenon DEF Potential
  <2>2. CASE lock[a] # None /\ Moves(a, r, "other", "clearer")
    <3>1. /\ Count(a, "adder")' = A /\ Count(a, "clearer")' = C + 1 /\ Count(a, "other")' = O - 1
          /\ Count(a, "locker")' = Count(a, "locker")
      BY <2>2, CountsMove DEF One
    <3>2. O \in Nat \ {0} BY <1>1, <3>1
    <3>3. Pot("expired", A, C + 1, O - 1, N) = Pot("expired", A, C, O, N)
      <4> HIDE DEF A, C, O, N
      <4>. QED BY <1>1, <3>2, PotArrive
    <3>. QED BY <1>3, <2>2, <3>1, <3>3, Zenon DEF Potential
  <2>. QED BY <2>1, <2>2, Zenon
<1>. QED BY <1>2, <1>4, Zenon DEF Budget

\* IsLocked deletes an expired lockout, or the one that replaced it.
LEMMA ClearBudget ==
  ASSUME TypeOK, NEW a \in Accounts, Budget(a), NEW r \in Requests, Moves(a, r, "clearer", "adder"),
         failures'[a] = failures[a], lock'[a] = None, now' = now
  PROVE  Budget(a)'
<1> DEFINE A == Count(a, "adder")
           C == Count(a, "clearer")
           O == Count(a, "other")
           N == Cardinality(Requests)
           st == LockState(a)
<1>1. /\ A \in Nat /\ C \in Nat /\ O \in Nat /\ N \in Nat /\ Count(a, "locker") \in Nat /\ Count(a, "clearer")' \in Nat
      /\ A + C + O + Count(a, "locker") = N
  BY CountsDivide, Zenon
<1>2. Recent(a)' = Recent(a) /\ Since(a)' = {} /\ ~Locked(a)' /\ RecentFailures(a)' = RecentFailures(a)
  BY Zenon DEF Recent, Since, Locked, RecentFailures
<1>3. LockState(a)' = "none"
  BY Zenon DEF LockState, Locked
<1>4. Count(a, "adder")' = A + 1 /\ Count(a, "clearer")' = C - 1 /\ Count(a, "other")' = O
  BY <1>1, CountsMove DEF One
<1>5. C \in Nat \ {0} BY <1>1, <1>4
<1>6. Potential(a)' = Pot("none", A + 1, C - 1, O, N) /\ Potential(a) = Pot(st, A, C, O, N)
  BY <1>3, <1>4, Zenon DEF Potential
<1> HIDE DEF A, C, O, N, st
<1>7. Pot("none", A + 1, C - 1, O, N) <= Pot(st, A, C, O, N)
  <2>1. A + C + O <= N BY <1>1
  <2>. QED BY <1>1, <1>5, <2>1, PotClear, Zenon
<1>8. Pot("none", A + 1, C - 1, O, N) \in Int /\ Pot(st, A, C, O, N) \in Int
  BY <1>1 DEF Pot
<1>9. Cardinality(Since(a)' \cap Recent(a)') = 0
  BY <1>2, FS_EmptySet, Zenon
<1>10. RecentFailures(a) \in Nat /\ MaxFailedAttempts \in Nat \ {0} /\ N * N \in Nat
  BY BudgetNumbers, Zenon DEF N
<1>11. RecentFailures(a)' >= MaxFailedAttempts => RecentFailures(a)' + Potential(a)' <= MaxFailedAttempts - 1 + N * N
  BY <1>2, <1>6, <1>7, <1>8, <1>10 DEF Budget, N
<1>12. ~(Cardinality(Since(a)' \cap Recent(a)') >= MaxFailedAttempts)
  BY <1>9, <1>10
<1>. QED BY <1>2, <1>11, <1>12, Zenon DEF Budget, N

\* A failure below the threshold is answered without a lockout.
LEMMA CountBudget ==
  ASSUME TypeOK, NEW a \in Accounts, Budget(a), NEW r \in Requests, Moves(a, r, "locker", "other"),
         ~(RecentFailures(a) >= MaxFailedAttempts), failures'[a] = failures[a], lock'[a] = lock[a], now' = now
  PROVE  Budget(a)'
<1>1. Recent(a)' = Recent(a) /\ Since(a)' = Since(a) /\ (Locked(a)' <=> Locked(a))
  BY Zenon DEF Recent, Since, Locked
<1>2. RecentFailures(a)' = RecentFailures(a)
  BY <1>1, Zenon DEF RecentFailures
<1>3. Count(a, "adder")' = Count(a, "adder") /\ Count(a, "clearer")' = Count(a, "clearer")
  BY CountsMove DEF One
<1>4. ~(Cardinality(Since(a) \cap Recent(a)) >= MaxFailedAttempts)
  BY BudgetNumbers
<1>. QED BY <1>1, <1>2, <1>3, <1>4, Zenon DEF Budget

\* LockAccount: a locker becomes one of the others, and nobody has recorded a
\* failure since.
LEMMA LockBudget ==
  ASSUME TypeOK, NEW a \in Accounts, Budget(a), NEW r \in Requests, Moves(a, r, "locker", "other"),
         \A i \in DOMAIN failures[a] : failures[a][i] <= now,
         failures'[a] = failures[a], lock'[a] = now + LockoutDuration, now' = now
  PROVE  Budget(a)'
<1> DEFINE A == Count(a, "adder")
           C == Count(a, "clearer")
           O == Count(a, "other")
           K == Count(a, "locker")
           N == Cardinality(Requests)
           st == LockState(a)
<1>1. /\ A \in Nat /\ C \in Nat /\ O \in Nat /\ K \in Nat /\ N \in Nat /\ A + C + O + K = N
      /\ Count(a, "locker")' \in Nat
  BY CountsDivide, Zenon
<1>2. Recent(a)' = Recent(a) /\ Since(a)' = {} /\ Locked(a)'
  <2>1. failures[a] \in Seq(Nat) /\ now \in Nat /\ LockoutDuration \in Nat /\ None \notin Nat
    BY LockoutAssumption, RowsAssumption, Zenon DEF TypeOK
  <2>2. lock'[a] \in Nat /\ lock'[a] # None /\ lock'[a] - LockoutDuration = now
    BY <2>1
  <2>3. \A i \in DOMAIN failures[a] : failures[a][i] \in Nat
    BY <2>1
  <2>. QED BY <2>1, <2>2, <2>3 DEF Recent, Since, Locked
<1>3. RecentFailures(a)' = RecentFailures(a) /\ LockState(a)' = "locked"
  BY <1>2, Zenon DEF RecentFailures, LockState
<1>4. Count(a, "adder")' = A /\ Count(a, "clearer")' = C /\ Count(a, "other")' = O + 1 /\ K # 0
  <2>1. \A j : Count(a, j)' = Count(a, j) + One("other", j) - One("locker", j)
    BY CountsMove
  <2>2. /\ One("other", "adder") = 0 /\ One("locker", "adder") = 0 /\ One("other", "clearer") = 0
        /\ One("locker", "clearer") = 0 /\ One("other", "other") = 1 /\ One("locker", "other") = 0
        /\ One("other", "locker") = 0 /\ One("locker", "locker") = 1
    BY Zenon DEF One
  <2>. QED BY <1>1, <2>1, <2>2
<1>5. Potential(a)' = Pot("locked", A, C, O + 1, N) /\ Potential(a) = Pot(st, A, C, O, N)
  BY <1>3, <1>4, Zenon DEF Potential
<1> HIDE DEF A, C, O, K, N, st
<1>6. Pot("locked", A, C, O + 1, N) <= Pot(st, A, C, O, N)
  <2> DEFINE M == O + 1
  <2>1. M \in Nat BY <1>1
  <2> HIDE DEF M
  <2>2. Pot("locked", A, C, M, N) <= Pot(st, A, C, O, N) BY <1>1, <2>1, PotLock, Zenon
  <2>. QED BY <2>2, Zenon DEF M
<1>7. Pot("locked", A, C, O + 1, N) \in Int /\ Pot(st, A, C, O, N) \in Int
  BY <1>1 DEF Pot
<1>8. Cardinality(Since(a)') = 0 /\ Cardinality(Since(a)' \cap Recent(a)') = 0
  BY <1>2, FS_EmptySet, Zenon
<1>9. RecentFailures(a) \in Nat /\ MaxFailedAttempts \in Nat \ {0} /\ N * N \in Nat
  BY BudgetNumbers, Zenon DEF N
<1>10. RecentFailures(a)' >= MaxFailedAttempts => RecentFailures(a)' + Potential(a)' <= MaxFailedAttempts - 1 + N * N
  <2> DEFINE B == N * N
             P == Pot("locked", A, C, O + 1, N)
             Q == Pot(st, A, C, O, N)
  <2>1. RecentFailures(a) >= MaxFailedAttempts => RecentFailures(a) + Q <= MaxFailedAttempts - 1 + B
    BY <1>5, Zenon DEF Budget, N
  <2>2. P <= Q /\ P \in Int /\ Q \in Int /\ B \in Nat
    BY <1>6, <1>7, <1>9, Zenon
  <2> HIDE DEF B, P, Q
  <2>3. RecentFailures(a) >= MaxFailedAttempts => RecentFailures(a) + P <= MaxFailedAttempts - 1 + B
    BY <1>9, <2>1, <2>2
  <2>. QED BY <1>3, <1>5, <2>3, Zenon DEF B, P
<1>11. Cardinality(Since(a)') + Count(a, "adder")' + Count(a, "clearer")' <= N - 1
  BY <1>1, <1>4, <1>8
<1>12. ~(Cardinality(Since(a)' \cap Recent(a)') >= MaxFailedAttempts)
  BY <1>8, <1>9
<1>. QED BY <1>10, <1>11, <1>12, Zenon DEF Budget, N

\* Time passes: attempts leave the window, and when a lockout expires the ones
\* that are left were recorded after it was set.
LEMMA TickBudget ==
  ASSUME TypeOK, NEW a \in Accounts, Budget(a), UNCHANGED <<failures, lock, reqs>>, now' = now + 1
  PROVE  Budget(a)'
<1> DEFINE A == Count(a, "adder")
           C == Count(a, "clearer")
           O == Count(a, "other")
           K == Count(a, "locker")
           N == Cardinality(Requests)
<1>1. A \in Nat /\ C \in Nat /\ O \in Nat /\ K \in Nat /\ N \in Nat /\ A + C + O + K = N
  BY CountsDivide, Zenon
<1>2. \A k : Count(a, k)' = Count(a, k)
  BY Zenon DEF Count, InRole
<1>3. /\ failures[a] \in Seq(Nat) /\ now \in Nat /\ lock[a] \in Nat \cup {None}
      /\ Window \in Nat /\ LockoutDuration \in Nat /\ Window <= LockoutDuration
  BY LockoutAssumption, Zenon DEF TypeOK
<1>4. \A i \in DOMAIN failures[a] : failures[a][i] \in Nat
  BY <1>3
<1>5. Since(a)' = Since(a) /\ Recent(a)' \subseteq Recent(a) /\ (Locked(a)' => Locked(a))
  <2>1. Recent(a)' \subseteq Recent(a) BY <1>3, <1>4 DEF Recent
  <2>2. Locked(a)' => Locked(a) BY <1>3, RowsAssumption DEF Locked
  <2>. QED BY <2>1, <2>2, Zenon DEF Since
<1>6. Recent(a) \subseteq DOMAIN failures[a] /\ Since(a) \subseteq DOMAIN failures[a]
  BY BudgetNumbers, Zenon
<1>7. /\ RecentFailures(a)' \in Nat /\ RecentFailures(a)' <= RecentFailures(a)
      /\ Cardinality(Since(a) \cap Recent(a)') \in Nat
      /\ Cardinality(Since(a) \cap Recent(a)') <= Cardinality(Since(a) \cap Recent(a))
  BY <1>5, <1>6, AttemptsFinite, Zenon DEF RecentFailures
<1>8. /\ RecentFailures(a) \in Nat /\ Cardinality(Since(a)) \in Nat /\ Cardinality(Since(a) \cap Recent(a)) \in Nat
      /\ MaxFailedAttempts \in Nat \ {0} /\ N * N \in Nat
  BY BudgetNumbers, Zenon
<1>9. Locked(a)' => Cardinality(Since(a))' + Count(a, "adder")' + Count(a, "clearer")' <= N - 1
  BY <1>2, <1>5 DEF Budget
<1>10. Cardinality(Since(a)' \cap Recent(a)') >= MaxFailedAttempts => Count(a, "locker")' > 0
  <2>1. Cardinality(Since(a)' \cap Recent(a)') >= MaxFailedAttempts =>
          Cardinality(Since(a) \cap Recent(a)) >= MaxFailedAttempts
    BY <1>5, <1>7, <1>8
  <2>. QED BY <1>2, <2>1, Zenon DEF Budget
<1>11. ASSUME RecentFailures(a)' >= MaxFailedAttempts
       PROVE  RecentFailures(a)' + Potential(a)' <= MaxFailedAttempts - 1 + N * N
  <2>1. CASE LockState(a)' = LockState(a)
    <3>1. Potential(a)' = Potential(a)
      BY <1>2, <2>1 DEF Potential
    <3>2. RecentFailures(a) >= MaxFailedAttempts
      BY <1>7, <1>8, <1>11
    <3>3. RecentFailures(a) + Potential(a) <= MaxFailedAttempts - 1 + N * N
      BY <3>2, Zenon DEF Budget
    <3>4. Potential(a) \in Int
      BY <1>1 DEF Potential, Pot
    <3> HIDE DEF N
    <3>. QED BY <1>7, <1>8, <3>1, <3>3, <3>4
  <2>2. CASE LockState(a)' # LockState(a)
    <3>1. Locked(a) /\ ~Locked(a)' /\ LockState(a)' = "expired"
      BY <1>5, <2>2, Zenon DEF LockState, Locked
    <3>2. lock[a] = now
      BY <1>3, <3>1, RowsAssumption DEF Locked
    <3>3. Recent(a)' \subseteq Since(a) /\ lock[a] # None
      <4>1. lock[a] # None BY <3>1, Zenon DEF Locked
      <4>2. ASSUME NEW i \in DOMAIN failures[a], failures[a][i] > (now + 1) - Window
            PROVE  failures[a][i] > lock[a] - LockoutDuration
        BY <1>3, <1>4, <3>2, <4>2
      <4>. QED BY <4>1, <4>2, Zenon DEF Recent, Since
    <3>4. /\ RecentFailures(a)' <= Cardinality(Since(a))
          /\ RecentFailures(a)' <= Cardinality(Since(a) \cap Recent(a))
      <4>1. /\ Recent(a)' \in SUBSET DOMAIN failures[a] /\ Recent(a)' \subseteq Since(a) \cap Recent(a)
            /\ Since(a) \cap Recent(a) \in SUBSET DOMAIN failures[a]
        BY <1>5, <1>6, <3>3, Zenon
      <4>. QED BY <1>6, <3>3, <4>1, AttemptsFinite, Zenon DEF RecentFailures
    <3>5. K > 0
      <4>1. Cardinality(Since(a) \cap Recent(a)) >= MaxFailedAttempts
        BY <1>7, <1>8, <1>11, <3>4
      <4>. QED BY <4>1, Zenon DEF Budget
    <3>6. Cardinality(Since(a)) + A + C <= N - 1
      BY <3>1, Zenon DEF Budget
    <3>7. Potential(a)' = Pot("expired", A, C, O, N)
      BY <1>2, <3>1 DEF Potential
    <3> DEFINE F == RecentFailures(a)'
               P == Pot("expired", A, C, O, N)
               B == N * N
    <3>8. F \in Nat /\ K \in Nat \ {0} /\ F + A + C <= N - 1
      BY <1>1, <1>7, <1>8, <3>4, <3>5, <3>6
    <3> HIDE DEF A, C, O, K, N, F
    <3>9. F + P <= B - 1
      BY <1>1, <3>8, PotExpire, Zenon
    <3>10. P \in Int /\ B \in Nat
      BY <1>1, <1>8 DEF Pot
    <3> HIDE DEF P, B
    <3>11. F + P <= MaxFailedAttempts - 1 + B
      BY <1>8, <3>8, <3>9, <3>10
    <3>. QED BY <3>7, <3>11, Zenon DEF F, P, B
  <2>. QED BY <2>1, <2>2, Zenon
<1>. QED BY <1>9, <1>10, <1>11, Zenon DEF Budget

-----------------------------------------------------------------------------
(* The steps, within the budget *)

\* What a step of one request shows to the accounts it is not about.
LEMMA GuessKept ==
  ASSUME GuessInv, NEW r \in Requests, \A s \in Requests : s # r => reqs'[s] = reqs[s],
         reqs'[r].pc \notin {"risk.device", "risk.signal", "device", "unlock", "totp.check"}, now' = now,
         NEW a \in Accounts,
         \A b \in Accounts \ {a} : /\ failures'[b] = failures[b] /\ lock'[b] = lock[b]
                                   /\ Role(reqs'[r], b) = Role(reqs[r], b),
         \A i \in DOMAIN failures'[a] : failures'[a][i] <= now, Budget(a)'
  PROVE  GuessInv'
<1>1. ASSUME NEW b \in Accounts \ {a} PROVE Budget(b)'
  <2>1. Budget(b) BY Zenon DEF GuessInv
  <2>2. \A s \in Requests : Role(reqs'[s], b) = Role(reqs[s], b)
    BY Zenon
  <2>. QED BY <2>1, <2>2, BudgetKept, Zenon
<1>2. \A b \in Accounts : Budget(b)'
  BY <1>1, Zenon
<1>3. \A b \in Accounts : \A i \in DOMAIN failures'[b] : failures'[b][i] <= now'
  <2>1. ASSUME NEW b \in Accounts \ {a} PROVE \A i \in DOMAIN failures'[b] : failures'[b][i] <= now'
    BY Zenon DEF GuessInv
  <2>. QED BY <2>1, Zenon
<1>4. \A s \in Requests : reqs'[s].pc \notin {"risk.device", "risk.signal", "device", "unlock", "totp.check"}
  BY Zenon DEF GuessInv
<1>. QED BY <1>2, <1>3, <1>4, Zenon DEF GuessInv

\* A step that changes no attempts, no lockout and no role.
LEMMA GuessQuiet ==
  ASSUME GuessInv, NEW r \in Requests, \A s \in Requests : s # r => reqs'[s] = reqs[s],
         reqs'[r].pc \notin {"risk.device", "risk.signal", "device", "unlock", "totp.check"},
         \A b \in Accounts : Role(reqs'[r], b) = Role(reqs[r], b), UNCHANGED <<failures, lock, now>>
  PROVE  GuessInv'
<1>1. ASSUME NEW b \in Accounts PROVE Budget(b)'
  <2>1. Budget(b) BY Zenon DEF GuessInv
  <2>2. \A s \in Requests : Role(reqs'[s], b) = Role(reqs[s], b)
    BY Zenon
  <2>. QED BY <2>1, <2>2, BudgetKept, Zenon
<1>2. \A s \in Requests : reqs'[s].pc \notin {"risk.device", "risk.signal", "device", "unlock", "totp.check"}
  BY Zenon DEF GuessInv
<1>. QED BY <1>1, <1>2, Zenon DEF GuessInv

\* A request that moves on keeps its account.
LEMMA QueryRole ==
  ASSUME TypeOK, NEW r \in Requests, NEW pc, NEW resp, NEW fault, Moved(r, pc, resp, fault)
  PROVE  /\ \A s \in Requests : s # r => reqs'[s] = reqs[s]
         /\ reqs'[r].pc = pc /\ reqs'[r].acct = reqs[r].acct
  BY Zenon DEF Moved, TypeOK

\* A login that arrives.
LEMMA StartGuess ==
  ASSUME EveryAttemptFails, LoginInv, GuessInv, NEW r \in Requests, NEW a \in Accounts, NEW dev, StartLogin(r, a, dev)
  PROVE  GuessInv'
<1>1. /\ \A s \in Requests : s # r => reqs'[s] = reqs[s]
      /\ reqs'[r].acct = a /\ UNCHANGED <<failures, lock, now>>
      /\ \/ lock[a] = None /\ reqs'[r].pc = "verify"
         \/ lock[a] # None /\ now > lock[a] /\ reqs'[r].pc = "lock.expired"
         \/ reqs'[r].pc = "idle"
  <2> DEFINE x(pc, resp) == [Idle EXCEPT !.pc = pc, !.acct = a, !.dev = dev, !.fault = FALSE, !.resp = resp]
  <2>1. \A pc, resp : x(pc, resp).pc = pc /\ x(pc, resp).acct = a
    BY Zenon DEF Idle
  <2>2. /\ UNCHANGED <<failures, lock, now>>
        /\ \/ lock[a] = None /\ reqs' = [reqs EXCEPT ![r] = x("verify", "none")]
           \/ lock[a] # None /\ now > lock[a] /\ reqs' = [reqs EXCEPT ![r] = x("lock.expired", "none")]
           \/ reqs' = [reqs EXCEPT ![r] = x("idle", "locked")]
    BY Zenon DEF StartLogin, EveryAttemptFails, store
  <2>3. reqs \in [Requests -> RequestStates]
    BY Zenon DEF LoginInv, TypeOK
  <2> HIDE DEF x
  <2>4. ASSUME NEW pc, NEW resp, reqs' = [reqs EXCEPT ![r] = x(pc, resp)]
        PROVE  reqs'[r].acct = a /\ reqs'[r].pc = pc /\ \A s \in Requests : s # r => reqs'[s] = reqs[s]
    BY <2>1, <2>3, <2>4, Zenon
  <2>. QED BY <2>2, <2>4, Zenon
<1>2. reqs[r].pc = "idle" BY Zenon DEF StartLogin
<1>3. \A b : Role(reqs[r], b) = "other" /\ (b # a => Role(reqs'[r], b) = "other")
  BY <1>1, <1>2, Zenon DEF Role
<1>4. CASE reqs'[r].pc = "idle"
  <2>1. \A b : Role(reqs'[r], b) = "other" BY <1>1, <1>4, Zenon DEF Role
  <2>. QED BY <1>1, <1>3, <1>4, <2>1, GuessQuiet, Zenon
<1>5. CASE reqs'[r].pc # "idle"
  <2>1. TypeOK /\ Budget(a) BY Zenon DEF LoginInv, GuessInv
  <2>2. \/ lock[a] = None /\ Role(reqs'[r], a) = "adder"
        \/ lock[a] # None /\ now > lock[a] /\ Role(reqs'[r], a) = "clearer"
    BY <1>1, <1>5, Zenon DEF Role
  <2>3. ~Locked(a)
    BY <2>1, <2>2, RowsAssumption DEF Locked, TypeOK
  <2>4. Budget(a)'
    BY <1>1, <1>3, <2>1, <2>2, <2>3, ArriveBudget, Zenon DEF Moves
  <2>5. \A i \in DOMAIN failures'[a] : failures'[a][i] <= now
    BY <1>1, Zenon DEF GuessInv
  <2>6. reqs'[r].pc \notin {"risk.device", "risk.signal", "device", "unlock", "totp.check"}
    BY <1>1, Zenon
  <2>. QED BY <1>1, <1>3, <2>4, <2>5, <2>6, GuessKept, Zenon
<1>. QED BY <1>4, <1>5, Zenon

\* The requests that see a second factor through record no failures.
LEMMA FactorGuess ==
  ASSUME LoginInv, GuessInv, NEW r \in Requests, NEW a \in Accounts, NEW s,
         (\E t : CompleteMFALogin(r, a, s, t)) \/ VerifyTOTP(r, a, s)
  PROVE  GuessInv'
<1>1. /\ \A q \in Requests : q # r => reqs'[q] = reqs[q]
      /\ reqs'[r].pc \in {"idle", "totp.mark"} /\ UNCHANGED <<failures, lock, now>>
  <2>1. reqs \in [Requests -> RequestStates]
    BY Zenon DEF LoginInv, TypeOK
  <2>2. CASE \E t : CompleteMFALogin(r, a, s, t)
    <3>0. PICK t : CompleteMFALogin(r, a, s, t) BY <2>2, Zenon
    <3> DEFINE valid == totp[a] # None /\ totp[a].secret = s
               x == [Idle EXCEPT !.acct = a, !.resp = IF valid THEN "mfa_session" ELSE "error",
                                 !.token = IF valid THEN t ELSE None]
    <3>1. x.pc = "idle" BY Zenon DEF Idle
    <3>2. reqs' = [reqs EXCEPT ![r] = x] /\ UNCHANGED <<failures, lock, now>>
      BY <3>0, Zenon DEF CompleteMFALogin, store
    <3> HIDE DEF x
    <3>. QED BY <2>1, <3>1, <3>2, Zenon
  <2>3. CASE VerifyTOTP(r, a, s)
    <3> DEFINE x(pc, resp) == [Idle EXCEPT !.pc = pc, !.acct = a, !.row = totp[a].id, !.resp = resp]
    <3>1. \A pc, resp : x(pc, resp).pc = pc BY Zenon DEF Idle
    <3>2. /\ UNCHANGED <<failures, lock, now>>
          /\ \/ reqs' = [reqs EXCEPT ![r] = x("idle", "verified")]
             \/ reqs' = [reqs EXCEPT ![r] = x("totp.mark", "none")]
             \/ reqs' = [reqs EXCEPT ![r] = x("idle", "error")]
      BY <2>3, Zenon DEF VerifyTOTP, store
    <3> HIDE DEF x
    <3>3. ASSUME NEW pc, NEW resp, reqs' = [reqs EXCEPT ![r] = x(pc, resp)]
          PROVE  reqs'[r].pc = pc /\ \A q \in Requests : q # r => reqs'[q] = reqs[q]
      BY <2>1, <3>1, <3>3, Zenon
    <3>. QED BY <3>2, <3>3, Zenon
  <2>. QED BY <2>2, <2>3, Zenon
<1>2. reqs[r].pc = "idle" BY Zenon DEF CompleteMFALogin, VerifyTOTP
<1>3. \A b \in Accounts : Role(reqs'[r], b) = Role(reqs[r], b)
  BY <1>1, <1>2, Zenon DEF Role
<1>. QED BY <1>1, <1>3, GuessQuiet, Zenon

\* The queries of a login, when none fails: the ones past the password are never
\* reached.
LEMMA StepGuess ==
  ASSUME EveryAttemptFails, LoginInv, GuessInv, NEW r \in Requests, Step(r), NEW a, a = reqs[r].acct
  PROVE  GuessInv'
<1>1. TypeOK /\ (reqs[r].pc # "idle" => a \in Accounts) /\ ~Faults
  BY Zenon DEF LoginInv, RequestInv, EveryAttemptFails
<1>2. reqs[r].pc \notin {"risk.device", "risk.signal", "device", "unlock", "totp.check"}
  BY Zenon DEF GuessInv
<1>3. failures \in [Accounts -> Seq(Nat)] /\ lock \in [Accounts -> Nat \cup {None}]
  BY <1>1, Zenon DEF TypeOK
<1>4. ASSUME NEW pc \in PCs, Goto(r, pc)
      PROVE  /\ \A s \in Requests : s # r => reqs'[s] = reqs[s]
             /\ reqs'[r].pc = pc /\ reqs'[r].acct = a
  <2>1. "error" \in Responses BY Zenon DEF Responses
  <2>2. Moved(r, pc, reqs[r].resp, reqs[r].fault) BY <1>1, <1>4, <2>1, QueryMoves, Zenon
  <2>. QED BY <1>1, <2>2, QueryRole, Zenon
<1>5. ASSUME NEW resp \in Responses, Answer(r, resp)
      PROVE  /\ \A s \in Requests : s # r => reqs'[s] = reqs[s]
             /\ reqs'[r].pc = "idle" /\ reqs'[r].acct = a
  <2>1. "idle" \in PCs BY Zenon DEF PCs
  <2>2. Moved(r, "idle", resp, reqs[r].fault) BY <1>1, <1>5, <2>1, QueryMoves, Zenon
  <2>. QED BY <1>1, <2>2, QueryRole, Zenon
<1>6. /\ {"idle", "verify", "fail.record", "fail.count", "fail.lock"} \subseteq PCs
      /\ {"error", "verified"} \subseteq Responses
  BY Zenon DEF PCs, Responses
<1>7. ASSUME a \in Accounts PROVE Budget(a) /\ \A i \in DOMAIN failures[a] : failures[a][i] <= now
  BY <1>7, Zenon DEF GuessInv
<1>8. ASSUME reqs'[r].acct = a PROVE \A b : b # a => Role(reqs[r], b) = "other" /\ Role(reqs'[r], b) = "other"
  BY <1>8, Zenon DEF Role
<1>9. CASE ClearExpiredLock(r)
  <2>1. /\ reqs[r].pc = "lock.expired" /\ lock' = [lock EXCEPT ![a] = None] /\ Goto(r, "verify")
        /\ failures' = failures /\ now' = now
    BY <1>1, <1>9, Zenon DEF ClearExpiredLock, Failing
  <2>2. a \in Accounts BY <1>1, <2>1, Zenon
  <2>3. /\ \A s \in Requests : s # r => reqs'[s] = reqs[s]
        /\ reqs'[r].pc = "verify" /\ reqs'[r].acct = a
    BY <1>4, <1>6, <2>1, Zenon
  <2>4. lock'[a] = None /\ \A b \in Accounts \ {a} : lock'[b] = lock[b]
    BY <1>3, <2>1, <2>2, Zenon
  <2>5. Moves(a, r, "clearer", "adder")
    BY <2>1, <2>3, Zenon DEF Moves, Role
  <2>6. Budget(a)'
    BY <1>1, <1>7, <2>1, <2>2, <2>4, <2>5, ClearBudget, Zenon
  <2>7. \A b : b # a => Role(reqs'[r], b) = Role(reqs[r], b)
    BY <1>8, <2>3, Zenon
  <2>8. reqs'[r].pc \notin {"risk.device", "risk.signal", "device", "unlock", "totp.check"}
    BY <2>3, Zenon
  <2>. QED BY <1>7, <2>1, <2>2, <2>3, <2>4, <2>6, <2>7, <2>8, GuessKept, Zenon
<1>10. CASE VerifyCredentials(r)
  <2>1. reqs[r].pc = "verify" /\ Goto(r, "fail.record") /\ UNCHANGED <<failures, lock, now>>
    BY <1>10, Zenon DEF VerifyCredentials, EveryAttemptFails, store
  <2>2. /\ \A s \in Requests : s # r => reqs'[s] = reqs[s]
        /\ reqs'[r].pc = "fail.record" /\ reqs'[r].acct = a
    BY <1>4, <1>6, <2>1, Zenon
  <2>3. \A b \in Accounts : Role(reqs'[r], b) = Role(reqs[r], b)
    BY <2>1, <2>2, Zenon DEF Role
  <2>. QED BY <2>1, <2>2, <2>3, GuessQuiet, Zenon
<1>11. CASE RecordFailure(r)
  <2>1. /\ reqs[r].pc = "fail.record" /\ failures' = [failures EXCEPT ![a] = Append(@, now)] /\ Goto(r, "fail.count")
        /\ lock' = lock /\ now' = now
    BY <1>1, <1>11, Zenon DEF RecordFailure, Failing
  <2>2. a \in Accounts BY <1>1, <2>1, Zenon
  <2>3. /\ \A s \in Requests : s # r => reqs'[s] = reqs[s]
        /\ reqs'[r].pc = "fail.count" /\ reqs'[r].acct = a
    BY <1>4, <1>6, <2>1, Zenon
  <2>4. failures'[a] = Append(failures[a], now) /\ \A b \in Accounts \ {a} : failures'[b] = failures[b]
    BY <1>3, <2>1, <2>2, Zenon
  <2>5. Moves(a, r, "adder", "locker")
    BY <2>1, <2>3, Zenon DEF Moves, Role
  <2>6. Budget(a)'
    BY <1>1, <1>7, <2>1, <2>2, <2>4, <2>5, RecordBudget, Zenon
  <2>7. \A i \in DOMAIN failures'[a] : failures'[a][i] <= now
    <3>1. failures[a] \in Seq(Nat) /\ now \in Nat
      BY <1>1, <2>2, Zenon DEF TypeOK
    <3>. QED BY <1>7, <2>2, <2>4, <3>1
  <2>8. \A b \in Accounts \ {a} : /\ failures'[b] = failures[b] /\ lock'[b] = lock[b]
                                  /\ Role(reqs'[r], b) = Role(reqs[r], b)
    <3>1. \A b : b # a => Role(reqs'[r], b) = Role(reqs[r], b) BY <1>8, <2>3, Zenon
    <3>. QED BY <2>1, <2>4, <3>1, Zenon
  <2>9. reqs'[r].pc \notin {"risk.device", "risk.signal", "device", "unlock", "totp.check"}
    BY <2>3, Zenon
  <2>. QED BY <2>1, <2>2, <2>3, <2>6, <2>7, <2>8, <2>9, GuessKept, Zenon
<1>12. CASE CountFailures(r) /\ Goto(r, "fail.lock")
  <2>1. reqs[r].pc = "fail.count" /\ UNCHANGED <<failures, lock, now>>
    BY <1>12, Zenon DEF CountFailures, store
  <2>2. /\ \A s \in Requests : s # r => reqs'[s] = reqs[s]
        /\ reqs'[r].pc = "fail.lock" /\ reqs'[r].acct = a
    BY <1>4, <1>6, <1>12, Zenon
  <2>3. \A b \in Accounts : Role(reqs'[r], b) = Role(reqs[r], b)
    BY <2>1, <2>2, Zenon DEF Role
  <2>. QED BY <2>1, <2>2, <2>3, GuessQuiet, Zenon
<1>13. CASE CountFailures(r) /\ ~Goto(r, "fail.lock")
  <2>1. /\ reqs[r].pc = "fail.count" /\ UNCHANGED <<failures, lock, now>>
        /\ Answer(r, "error") /\ ~TooMany(RecentFailures(a))
    BY <1>1, <1>13, Zenon DEF CountFailures, FailingAnswer, store
  <2>2. a \in Accounts BY <1>1, <2>1, Zenon
  <2>3. /\ \A s \in Requests : s # r => reqs'[s] = reqs[s]
        /\ reqs'[r].pc = "idle" /\ reqs'[r].acct = a
    BY <1>5, <1>6, <2>1, Zenon
  <2>4. Moves(a, r, "locker", "other")
    BY <2>1, <2>3, Zenon DEF Moves, Role
  <2>5. Budget(a)'
    <3>1. ~(RecentFailures(a) >= MaxFailedAttempts) BY <2>1, Zenon DEF TooMany
    <3>. QED BY <1>1, <1>7, <2>1, <2>2, <2>4, <3>1, CountBudget, Zenon
  <2>. QED BY <1>7, <1>8, <2>1, <2>2, <2>3, <2>5, GuessKept, Zenon
<1>14. CASE LockAccount(r)
  <2>1. /\ reqs[r].pc = "fail.lock" /\ lock' = [lock EXCEPT ![a] = now + LockoutDuration] /\ Answer(r, "error")
        /\ failures' = failures /\ now' = now
    BY <1>1, <1>14, Zenon DEF LockAccount, FailingAnswer
  <2>2. a \in Accounts BY <1>1, <2>1, Zenon
  <2>3. /\ \A s \in Requests : s # r => reqs'[s] = reqs[s]
        /\ reqs'[r].pc = "idle" /\ reqs'[r].acct = a
    BY <1>5, <1>6, <2>1, Zenon
  <2>4. lock'[a] = now + LockoutDuration /\ \A b \in Accounts \ {a} : lock'[b] = lock[b]
    BY <1>3, <2>1, <2>2, Zenon
  <2>5. Moves(a, r, "locker", "other")
    BY <2>1, <2>3, Zenon DEF Moves, Role
  <2>6. Budget(a)'
    BY <1>1, <1>7, <2>1, <2>2, <2>4, <2>5, LockBudget, Zenon
  <2>7. \A b : b # a => Role(reqs'[r], b) = Role(reqs[r], b)
    BY <1>8, <2>3, Zenon
  <2>8. reqs'[r].pc \notin {"risk.device", "risk.signal", "device", "unlock", "totp.check"}
    BY <2>3, Zenon
  <2>. QED BY <1>7, <2>1, <2>2, <2>3, <2>4, <2>6, <2>7, <2>8, GuessKept, Zenon
<1>15. CASE MarkVerified(r)
  <2>1. reqs[r].pc = "totp.mark" /\ UNCHANGED <<failures, lock, now>> /\ Answer(r, "verified")
    BY <1>1, <1>15, Zenon DEF MarkVerified, FailingAnswer
  <2>2. /\ \A s \in Requests : s # r => reqs'[s] = reqs[s]
        /\ reqs'[r].pc = "idle" /\ reqs'[r].acct = a
    BY <1>5, <1>6, <2>1, Zenon
  <2>3. \A b \in Accounts : Role(reqs'[r], b) = Role(reqs[r], b)
    BY <2>1, <2>2, Zenon DEF Role
  <2>. QED BY <2>1, <2>2, <2>3, GuessQuiet, Zenon
<1>16. ~RiskDevice(r) /\ ~RiskSignal(r) /\ ~LoginDevice(r) /\ ~UnlockAccount(r) /\ ~CheckTotp(r)
  BY <1>2, Zenon DEF RiskDevice, RiskSignal, LoginDevice, UnlockAccount, CheckTotp
<1>. QED BY <1>9, <1>10, <1>11, <1>12, <1>13, <1>14, <1>15, <1>16, Zenon DEF Step

\* Time, and calls that are not about logins.
LEMMA ElseGuess ==
  ASSUME LoginInv, GuessInv, UNCHANGED <<failures, lock, reqs>>, now' = now \/ now' = now + 1
  PROVE  GuessInv'
<1>1. TypeOK /\ now \in Nat BY Zenon DEF LoginInv, TypeOK
<1>2. ASSUME NEW b \in Accounts PROVE Budget(b)'
  <2>1. Budget(b) BY Zenon DEF GuessInv
  <2>2. CASE now' = now + 1 BY <1>1, <2>1, <2>2, TickBudget, Zenon
  <2>3. CASE now' = now BY <2>1, <2>3, BudgetKept, Zenon
  <2>. QED BY <2>2, <2>3, Zenon
<1>3. \A b \in Accounts : \A i \in DOMAIN failures[b] : failures[b][i] <= now'
  <2>1. ASSUME NEW b \in Accounts, NEW i \in DOMAIN failures[b] PROVE failures[b][i] <= now'
    <3>1. failures[b] \in Seq(Nat) BY <1>1, Zenon DEF TypeOK
    <3>2. failures[b][i] \in Nat BY <3>1
    <3>3. failures[b][i] <= now BY Zenon DEF GuessInv
    <3>. QED BY <1>1, <3>2, <3>3
  <2>. QED BY <2>1, Zenon
<1>. QED BY <1>2, <1>3, Zenon DEF GuessInv

\* Every step keeps every account within its budget.
LEMMA GuessInvStep ==
  ASSUME EveryAttemptFails, LoginInv, GuessInv, [Next]_vars
  PROVE  GuessInv'
<1>1. ASSUME NEW r \in Requests, Step(r) PROVE GuessInv'
  <2>1. PICK a : a = reqs[r].acct
    BY Zenon
  <2>. QED BY <1>1, <2>1, StepGuess, Zenon
<1>2. CASE Environment
  <2>1. ASSUME NEW r \in Requests, NEW a \in Accounts, NEW dev \in DeviceKeys \cup {None}, StartLogin(r, a, dev)
        PROVE  GuessInv'
    BY <2>1, StartGuess, Zenon
  <2>2. ASSUME NEW r \in Requests, NEW a \in Accounts, NEW s \in issued,
               (\E t : CompleteMFALogin(r, a, s, t)) \/ VerifyTOTP(r, a, s)
        PROVE  GuessInv'
    BY <2>2, FactorGuess, Zenon
  <2>3. CASE Tick
    BY <2>3, ElseGuess, Zenon DEF Tick, store
  <2>4. ASSUME \/ \E a \in Accounts : DeleteTOTP(a) \/ IngestSignal(a) \/ SignalAges(a)
               \/ \E a \in Accounts, s \in TotpSecrets \ issued : EnrollTOTP(a, s)
               \/ \E k \in Identifiers : RegisterDevice(k)
               \/ \E id \in DeviceIds :
                    DeleteDevice(id) \/ \E c \in BOOLEAN, risk \in RiskScores : UpdatePosture(id, c, risk)
        PROVE  GuessInv'
    <3>1. UNCHANGED <<failures, lock, reqs, now>>
      BY <2>4, Zenon DEF DeleteTOTP, IngestSignal, SignalAges, EnrollTOTP, RegisterDevice, DeleteDevice, UpdatePosture
    <3>. QED BY <3>1, ElseGuess, Zenon
  <2>. QED BY <1>2, <2>1, <2>2, <2>3, <2>4, Zenon DEF Environment
<1>3. CASE UNCHANGED vars
  BY <1>3, ElseGuess, Zenon DEF vars
<1>. QED BY <1>1, <1>2, <1>3, Zenon DEF Next

\* Nothing is recorded before the first request.
LEMMA GuessInvInit == Init => GuessInv
<1> SUFFICES ASSUME Init PROVE GuessInv
  BY Zenon
<1>1. \A r \in Requests : reqs[r].pc = "idle"
  BY Zenon DEF Init, Idle
<1>2. ASSUME NEW a \in Accounts PROVE DOMAIN failures[a] = {} /\ lock[a] = None
  BY DEF Init
<1>3. ASSUME NEW a \in Accounts PROVE Budget(a)
  <2>1. Recent(a) = {} /\ Since(a) \cap Recent(a) = {} /\ ~Locked(a)
    BY <1>2, Zenon DEF Recent, Locked
  <2>2. RecentFailures(a) = 0 /\ Cardinality(Since(a) \cap Recent(a)) = 0
    BY <2>1, FS_EmptySet, Zenon DEF RecentFailures
  <2>. QED BY <2>1, <2>2, LockoutAssumption DEF Budget
<1>. QED BY <1>1, <1>2, <1>3, Zenon DEF GuessInv

\* Within the budget, the attempts in the window are within the bound.
LEMMA BudgetBounds == LoginInv /\ GuessInv => GuessesBounded
<1> SUFFICES ASSUME LoginInv, GuessInv, NEW a \in Accounts
             PROVE  RecentFailures(a) <= MaxFailedAttempts - 1 + Cardinality(Requests) * Cardinality(Requests)
  BY Zenon DEF GuessesBounded
<1> DEFINE N == Cardinality(Requests)
           B == N * N
<1>1. TypeOK /\ Budget(a) BY Zenon DEF LoginInv, GuessInv
<1>2. RecentFailures(a) \in Nat /\ MaxFailedAttempts \in Nat \ {0} /\ B \in Nat
  BY <1>1, BudgetNumbers, Zenon
<1>3. Potential(a) \in Nat
  <2>1. /\ Count(a, "adder") \in Nat /\ Count(a, "clearer") \in Nat /\ Count(a, "other") \in Nat
        /\ N \in Nat
    BY CountsDivide, Zenon
  <2>. QED BY <2>1 DEF Potential, Pot
<1>4. RecentFailures(a) >= MaxFailedAttempts => RecentFailures(a) + Potential(a) <= MaxFailedAttempts - 1 + B
  BY <1>1, Zenon DEF Budget
<1> HIDE DEF B
<1>5. RecentFailures(a) <= MaxFailedAttempts - 1 + B
  BY <1>2, <1>3, <1>4
<1>. QED BY <1>5, Zenon DEF B

\* When every attempt fails, the attempts recorded inside one window exceed the
\* threshold by at most one round of the requests in flight for each of them
\* (login, IsLocked, GetRecentFailures, LockAccount).
THEOREM GuessingBounded == ASSUME EveryAttemptFails PROVE Spec => []GuessesBounded
<1>1. Init => GuessInv BY GuessInvInit, Zenon
<1>2. LoginInv /\ GuessInv /\ [Next]_vars => GuessInv' BY GuessInvStep, Zenon
<1>3. LoginInv /\ GuessInv => GuessesBounded BY BudgetBounds, Zenon
<1>. QED BY <1>1, <1>2, <1>3, LoginInvariance, PTL DEF Spec
=============================================================================
