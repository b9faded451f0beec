-------------------------- MODULE CredentialProofs --------------------------
(***************************************************************************)
(* The credentials that clients and users hold and the roles that they     *)
(* have, for any number of apps, secrets, users, authenticators,           *)
(* challenges, roles and goroutines.                                       *)
(*   - Portal: ended credentials stay dead and the secret shown last       *)
(*     works. A dead credential is one of a deleted app or an older secret *)
(*     of the row, and a rotation draws a secret never drawn before. What  *)
(*     a tenant was shown is the stored secret, or will be once the single *)
(*     creation or rotation under way is answered.                         *)
(*   - Passkeys: replays are refused and tokens are proven. The map of     *)
(*     sessions is shared by all ceremonies of a user and deleted without  *)
(*     looking; it is enough that a challenge enters it once, before       *)
(*     anyone can sign it, under the user it was drawn for, and is gone    *)
(*     from it when its ceremony is answered.                              *)
(*   - Roles: assignments resolve, and permissions are gained by           *)
(*     assignment only. The second rests on the first: a permission that   *)
(*     is assigned exists, its id is taken, and so no later                *)
(*     CreatePermission gives it another meaning.                          *)
(***************************************************************************)
EXTENDS DeveloperApps, Passkeys, Rbac, TLAPS

-----------------------------------------------------------------------------
(* Passkeys *)

Finishing == {"verify", "save", "update", "delete"}

\* A challenge is drawn for itself.
ChallengesOwn == \A h \in Challenges : issued[h] # None => issued[h].challenge = h

\* A reply is to a challenge that was drawn; what was accepted was signed.
RepliesIssued ==
  /\ \A r \in replies : issued[r.challenge] # None
  /\ \A h \in accepted : \E r \in replies : r.challenge = h

\* The session of a user is one drawn for them, and not answered yet.
SessionsFresh ==
  \A u \in PasskeyUsers : sessions[u] # None =>
    /\ sessions[u].user = u
    /\ issued[sessions[u].challenge] = sessions[u]
    /\ sessions[u].challenge \notin accepted

\* A session that is about to be stored was signed by no one.
StoresUnsigned ==
  \A c \in Ceremonies : ceremony[c].pc = "store" =>
    /\ ceremony[c].session \in Sessions
    /\ issued[ceremony[c].session.challenge] = ceremony[c].session
    /\ \A r \in replies : r.challenge # ceremony[c].session.challenge

\* The credential answered a challenge of the user, in a registration.
Registered(u, x) == \E p \in replies : p.kind = "create" /\ p.credential = x /\ DrawnFor(p.challenge, u)

\* What a goroutine that finishes a ceremony has in hand.
FinishesOrderly ==
  \A c \in Ceremonies : ceremony[c].pc \in Finishing =>
    /\ ceremony[c].user \in PasskeyUsers
    /\ ceremony[c].reply \in replies
    /\ DrawnFor(ceremony[c].reply.challenge, ceremony[c].user)
    /\ ceremony[c].pc = "save" => ceremony[c].reply.kind = "create"
    /\ ceremony[c].pc = "update" =>
         /\ ceremony[c].row \in CredentialRows
         /\ credentials[ceremony[c].reply.credential] # None
         /\ Registered(ceremony[c].user, ceremony[c].reply.credential)

\* Every stored credential was registered by its user.
CredentialsRegistered ==
  \A x \in Authenticators : credentials[x] # None => Registered(credentials[x].user, x)

TokensInv ==
  \A k \in tokens : DrawnFor(k.reply.challenge, k.user) /\ Registered(k.user, k.reply.credential)

PasskeyInv ==
  /\ PasskeyTypeOK /\ ChallengesOwn
  /\ RepliesIssued /\ SessionsFresh /\ StoresUnsigned /\ FinishesOrderly
  /\ ReplayRefused /\ CredentialsRegistered /\ TokensInv

\* Nothing exists at the start.
LEMMA PasskeyInvInit == PasskeyInit => PasskeyInv
<1> SUFFICES ASSUME PasskeyInit PROVE PasskeyInv
  BY Zenon
<1> USE PasskeyAssumption DEF PasskeyInit, CeremonyIdle
<1>1. PasskeyTypeOK
  BY DEF PasskeyTypeOK, CeremonyStates
<1>2. ChallengesOwn /\ RepliesIssued /\ SessionsFresh /\ StoresUnsigned
  BY SMTT(60) DEF ChallengesOwn, RepliesIssued, SessionsFresh, StoresUnsigned
<1>3. FinishesOrderly /\ ReplayRefused
  BY SMTT(60) DEF FinishesOrderly, ReplayRefused, Finishing
<1>4. CredentialsRegistered /\ TokensInv
  BY Zenon DEF CredentialsRegistered, TokensInv
<1>. QED BY <1>1, <1>2, <1>3, <1>4, Zenon DEF PasskeyInv

\* What only speaks of challenges, replies, credentials and tokens stays while they do.
LEMMA RecordsKept ==
  ASSUME ChallengesOwn, CredentialsRegistered, TokensInv,
         UNCHANGED <<credentials, issued, replies, tokens>>
  PROVE  ChallengesOwn' /\ CredentialsRegistered' /\ TokensInv'
<1>1. ChallengesOwn' BY Zenon DEF ChallengesOwn
<1>3. \A h, u : DrawnFor(h, u) => DrawnFor(h, u)' BY Zenon DEF DrawnFor
<1>4. \A u, x : Registered(u, x) => Registered(u, x)' BY <1>3, Zenon DEF Registered
<1>5. CredentialsRegistered' BY <1>4, Zenon DEF CredentialsRegistered
<1>6. TokensInv' BY <1>3, <1>4, Zenon DEF TokensInv
<1> QED BY <1>1, <1>5, <1>6, Zenon

\* What Draw returns is in the set it is given.
LEMMA DrawIn == ASSUME NEW S, NEW x \in Draw(S) PROVE x \in S
  BY Zenon DEF Draw

\* Begin draws a challenge that no reply, session or acceptance knows.
LEMMA BeginStep ==
  ASSUME PasskeyInv, NEW c \in Ceremonies, NEW u \in PasskeyUsers, NEW kind \in Kinds,
         BeginChallenge(c, u, kind)
  PROVE  PasskeyInv'
<1> USE PasskeyAssumption DEF PasskeyInv
<1>1. PICK h \in Challenges :
        /\ issued[h] = None
        /\ issued' = [issued EXCEPT ![h] = [user |-> u, challenge |-> h]]
        /\ ceremony' = [ceremony EXCEPT ![c] = [CeremonyIdle EXCEPT !.pc = "store",
                                        !.session = [user |-> u, challenge |-> h]]]
  BY DrawIn, ZenonT(60) DEF BeginChallenge
<1> DEFINE s == [user |-> u, challenge |-> h]
<1>2. s \in Sessions /\ s.challenge = h
  BY Zenon DEF Sessions
<1>3. ceremony[c] = CeremonyIdle /\ UNCHANGED <<sessions, credentials, replies, signatures, accepted, tokens>>
  BY Zenon DEF BeginChallenge
<1>4. \A r \in replies : r.challenge \in Challenges /\ r.challenge # h
  BY <1>1, Zenon DEF PasskeyTypeOK, RepliesIssued, Replies
<1>5. PasskeyTypeOK'
  BY <1>1, <1>2, <1>3, ZenonT(60) DEF PasskeyTypeOK, CeremonyIdle, CeremonyStates
<1>6. RepliesIssued'
  BY <1>1, <1>3, <1>4, Zenon DEF RepliesIssued, PasskeyTypeOK
<1>7. SessionsFresh'
  BY <1>1, <1>3 DEF SessionsFresh, PasskeyTypeOK, Sessions
<1>8. ceremony'[c].pc = "store" /\ ceremony'[c].session = s /\ ~ceremony'[c].late
      /\ \A d \in Ceremonies \ {c} : ceremony'[d] = ceremony[d]
  BY <1>1, Zenon DEF CeremonyIdle, PasskeyTypeOK, CeremonyStates
<1>9. StoresUnsigned'
  BY <1>1, <1>2, <1>3, <1>4, <1>8, SMTT(60) DEF StoresUnsigned, PasskeyTypeOK, Sessions, CeremonyStates
<1>a. \A g \in Challenges, v \in PasskeyUsers : DrawnFor(g, v) => DrawnFor(g, v)'
  BY <1>1, Zenon DEF DrawnFor, PasskeyTypeOK
<1>b. \A v \in PasskeyUsers, y \in Authenticators : Registered(v, y) => Registered(v, y)'
  BY <1>3, <1>4, <1>a, Zenon DEF Registered
<1>c. \A r \in Replies : r.challenge \in Challenges /\ r.credential \in Authenticators
  BY Zenon DEF Replies
<1>10. FinishesOrderly' /\ ReplayRefused'
  <2>1. ReplayRefused'
    BY <1>8, Zenon DEF ReplayRefused
  <2>2. ASSUME NEW d \in Ceremonies, ceremony'[d].pc \in Finishing
        PROVE  ceremony'[d] = ceremony[d] /\ ceremony[d].reply \in Replies
    BY <1>8, <2>2, Zenon DEF Finishing, FinishesOrderly, PasskeyTypeOK
  <2>. QED BY <1>3, <1>a, <1>b, <1>c, <2>1, <2>2, ZenonT(60) DEF FinishesOrderly
<1>11. CredentialsRegistered' /\ TokensInv'
  <2>1. \A y \in Authenticators : credentials[y] # None => credentials[y].user \in PasskeyUsers
    BY Zenon DEF PasskeyTypeOK, CredentialRows
  <2>2. \A k \in tokens : k.user \in PasskeyUsers /\ k.reply \in Replies
    BY Zenon DEF PasskeyTypeOK
  <2>. QED BY <1>3, <1>a, <1>b, <1>c, <2>1, <2>2, Zenon DEF CredentialsRegistered, TokensInv
<1>12. ChallengesOwn'
  BY <1>1, <1>2, Zenon DEF ChallengesOwn, PasskeyTypeOK
<1>. QED BY <1>5, <1>6, <1>7, <1>9, <1>10, <1>11, <1>12, Zenon

\* The fields of a goroutine's record change one or two at a time.
LEMMA CeremonyFields ==
  ASSUME NEW q \in CeremonyStates, NEW pc \in {"verify", "save", "update", "delete"}
  PROVE  /\ [q EXCEPT !.pc = pc] \in CeremonyStates
         /\ \A row \in CredentialRows : [q EXCEPT !.pc = pc, !.row = row] \in CeremonyStates
<1>1. [q EXCEPT !.pc = pc] \in CeremonyStates
  BY Zenon DEF CeremonyStates
<1>3. ASSUME NEW row \in CredentialRows PROVE [q EXCEPT !.pc = pc, !.row = row] \in CeremonyStates
  BY ZenonT(60) DEF CeremonyStates
<1>. QED BY <1>1, <1>3, ZenonT(60)

\* A goroutine that ends without a change leaves everything in order.
LEMMA EndStep ==
  ASSUME PasskeyInv, NEW c \in Ceremonies, EndCeremony(c),
         UNCHANGED <<sessions, credentials, issued, replies, signatures, accepted, tokens>>
  PROVE  PasskeyInv'
<1> USE DEF PasskeyInv, EndCeremony
<1>1. PasskeyTypeOK'
  BY Zenon DEF PasskeyTypeOK, CeremonyIdle, CeremonyStates
<1>2. ceremony'[c].pc = "idle" /\ ~ceremony'[c].late /\ \A d \in Ceremonies \ {c} : ceremony'[d] = ceremony[d]
  BY Zenon DEF CeremonyIdle, PasskeyTypeOK, CeremonyStates
<1>3. ChallengesOwn' /\ RepliesIssued' /\ SessionsFresh' /\ CredentialsRegistered' /\ TokensInv'
  <2>1. ChallengesOwn' /\ CredentialsRegistered' /\ TokensInv' BY RecordsKept, Zenon
  <2>2. RepliesIssued' BY Zenon DEF RepliesIssued
  <2>3. SessionsFresh' BY Zenon DEF SessionsFresh
  <2> QED BY <2>1, <2>2, <2>3, Zenon
<1>4. StoresUnsigned' /\ FinishesOrderly' /\ ReplayRefused'
  BY <1>2, SMTT(60) DEF StoresUnsigned, FinishesOrderly, ReplayRefused, Finishing, Registered, DrawnFor
<1>. QED BY <1>1, <1>3, <1>4, Zenon

\* The session that is stored was signed, hence answered, by no one.
LEMMA StoreSessionStep ==
  ASSUME PasskeyInv, NEW c \in Ceremonies, StoreSession(c)
  PROVE  PasskeyInv'
<1> USE PasskeyAssumption DEF PasskeyInv
<1> DEFINE s == ceremony[c].session
<1>1. /\ s \in Sessions /\ issued[s.challenge] = s /\ \A r \in replies : r.challenge # s.challenge
  BY SMTT(60) DEF StoreSession, StoresUnsigned
<1>2. /\ sessions' = [sessions EXCEPT ![s.user] = s] /\ ceremony' = [ceremony EXCEPT ![c] = CeremonyIdle]
      /\ UNCHANGED <<credentials, issued, replies, signatures, accepted, tokens>>
  BY Zenon DEF StoreSession, EndCeremony
<1>3. PasskeyTypeOK'
  BY <1>1, <1>2, Zenon DEF PasskeyTypeOK, CeremonyIdle, Sessions, CeremonyStates
<1>4. s.challenge \notin accepted
  BY <1>1, Zenon DEF RepliesIssued
<1>5. SessionsFresh'
  BY <1>1, <1>2, <1>4 DEF SessionsFresh, PasskeyTypeOK, Sessions
<1>6. ceremony'[c].pc = "idle" /\ ~ceremony'[c].late /\ \A d \in Ceremonies \ {c} : ceremony'[d] = ceremony[d]
  BY <1>2, Zenon DEF CeremonyIdle, PasskeyTypeOK, CeremonyStates
<1>7. ChallengesOwn' /\ RepliesIssued' /\ CredentialsRegistered' /\ TokensInv'
  <2>1. ChallengesOwn' /\ CredentialsRegistered' /\ TokensInv' BY <1>2, RecordsKept, Zenon
  <2>2. RepliesIssued' BY <1>2, Zenon DEF RepliesIssued
  <2> QED BY <2>1, <2>2, Zenon
<1>8. StoresUnsigned' /\ FinishesOrderly' /\ ReplayRefused'
  BY <1>2, <1>6, SMTT(60) DEF StoresUnsigned, FinishesOrderly, ReplayRefused, Finishing, Registered, DrawnFor
<1>. QED BY <1>3, <1>5, <1>7, <1>8, Zenon

\* An authenticator signs a challenge that was answered, which none is before
\* its session is stored.
LEMMA SignStep ==
  ASSUME PasskeyInv, NEW h \in Challenges, NEW x \in Authenticators, NEW kind \in Kinds, Sign(h, x, kind)
  PROVE  PasskeyInv'
<1> USE PasskeyAssumption DEF PasskeyInv
<1> DEFINE s == issued[h]
           r == [kind |-> kind, challenge |-> h, credential |-> x, count |-> signatures[x] + 1]
<1>1. /\ s # None /\ \A c \in Ceremonies : ceremony[c].pc # "store" \/ ceremony[c].session # s
      /\ signatures[x] < MaxSignatures
      /\ signatures' = [signatures EXCEPT ![x] = signatures[x] + 1] /\ replies' = replies \cup {r}
      /\ UNCHANGED <<sessions, credentials, ceremony, issued, accepted, tokens>>
  BY Zenon DEF Sign
<1>3. signatures[x] + 1 \in 1..MaxSignatures
  BY <1>1 DEF PasskeyTypeOK
<1>4. r \in Replies
  BY <1>3, Zenon DEF Replies
<1>5. PasskeyTypeOK'
  BY <1>1, <1>3, <1>4 DEF PasskeyTypeOK
<1>8. RepliesIssued'
  <2>1. r.challenge = h BY Zenon
  <2> HIDE DEF r
  <2>. QED BY <1>1, <2>1, Zenon DEF RepliesIssued
<1>9. StoresUnsigned'
  BY <1>1, SMTT(60) DEF StoresUnsigned
<1>10. SessionsFresh' /\ ReplayRefused'
  BY <1>1, Zenon DEF SessionsFresh, ReplayRefused
<1>11. \A u \in PasskeyUsers, y \in Authenticators : Registered(u, y) => Registered(u, y)'
  BY <1>1, Zenon DEF Registered, DrawnFor
<1>12. FinishesOrderly' /\ CredentialsRegistered' /\ TokensInv'
  BY <1>1, <1>11, SMTT(60) DEF FinishesOrderly, CredentialsRegistered, TokensInv, Registered, DrawnFor
<1>13. ChallengesOwn'
  BY <1>1, Zenon DEF ChallengesOwn
<1>. QED BY <1>5, <1>8, <1>9, <1>10, <1>12, <1>13, Zenon

\* A reply goes on only to the session that is there, which is not of a challenge
\* that was answered, and was drawn for the user it is sent with.
LEMMA ArriveStep ==
  ASSUME PasskeyInv, NEW c \in Ceremonies, NEW u \in PasskeyUsers, NEW kind \in Kinds, NEW r \in replies,
         Arrive(c, u, kind, r)
  PROVE  PasskeyInv'
<1> USE PasskeyAssumption DEF PasskeyInv
<1> DEFINE pc == IF kind = "get" THEN "verify" ELSE "save"
<1>0. UNCHANGED <<sessions, credentials, issued, replies, signatures, accepted, tokens>>
  BY ZenonT(60) DEF Arrive
<1>1. ceremony' = [ceremony EXCEPT ![c] = [CeremonyIdle EXCEPT !.pc = pc, !.user = u, !.reply = r,
                                                               !.late = r.challenge \in accepted]]
  BY ZenonT(60) DEF Arrive
<1>2. /\ sessions[u] # None /\ sessions[u].challenge = r.challenge /\ r.kind = kind
      /\ r.challenge \notin accepted /\ DrawnFor(r.challenge, u)
  BY Zenon DEF Arrive, Matches, SessionsFresh, DrawnFor
<1>3. /\ pc \in {"verify", "save"} /\ (pc = "save" => r.kind = "create")
  BY <1>2, Zenon DEF Kinds
<1> HIDE DEF pc
<1>4. (r.challenge \in accepted) = FALSE
  BY <1>2
<1>5. PasskeyTypeOK'
  BY <1>0, <1>1, <1>3, <1>4, ZenonT(60) DEF PasskeyTypeOK, CeremonyIdle, CeremonyStates
<1>6. /\ ceremony'[c].pc = pc /\ ceremony'[c].user = u /\ ceremony'[c].reply = r /\ ~ceremony'[c].late
      /\ \A d \in Ceremonies \ {c} : ceremony'[d] = ceremony[d]
  BY <1>1, <1>4, Zenon DEF CeremonyIdle, PasskeyTypeOK, CeremonyStates
<1>7. ChallengesOwn' /\ RepliesIssued' /\ SessionsFresh' /\ CredentialsRegistered' /\ TokensInv'
  <2>1. ChallengesOwn' /\ CredentialsRegistered' /\ TokensInv' BY <1>0, RecordsKept, Zenon
  <2>2. RepliesIssued' BY <1>0, Zenon DEF RepliesIssued
  <2>3. SessionsFresh' BY <1>0, Zenon DEF SessionsFresh
  <2> QED BY <2>1, <2>2, <2>3, Zenon
<1>8. StoresUnsigned' /\ ReplayRefused'
  BY <1>0, <1>3, <1>6, SMTT(60) DEF StoresUnsigned, ReplayRefused
<1>9. FinishesOrderly'
  BY <1>0, <1>2, <1>3, <1>6, SMTT(60) DEF FinishesOrderly, Finishing, Registered, DrawnFor
<1>. QED BY <1>5, <1>7, <1>8, <1>9, Zenon

\* A registration that matches its session stores the credential of its reply.
LEMMA FinishRegistrationStep ==
  ASSUME PasskeyInv, NEW c \in Ceremonies, FinishRegistration(c)
  PROVE  PasskeyInv'
<1> USE PasskeyAssumption DEF PasskeyInv
<1> DEFINE r == ceremony[c].reply
<1>0. ceremony[c].pc = "save" /\ UNCHANGED <<sessions, issued, replies, signatures, accepted, tokens>>
  BY Zenon DEF FinishRegistration
<1>1. CASE EndCeremony(c) /\ UNCHANGED credentials
  BY <1>0, <1>1, EndStep, Zenon
<1>2. CASE /\ credentials[r.credential] = None
           /\ credentials' = [credentials EXCEPT ![r.credential] = NewCredential(ceremony[c])]
           /\ ceremony' = [ceremony EXCEPT ![c].pc = "delete"]
  <2> DEFINE u == ceremony[c].user
             row == NewCredential(ceremony[c])
  <2>1. u \in PasskeyUsers /\ r \in replies /\ r \in Replies /\ r.kind = "create" /\ DrawnFor(r.challenge, u)
    BY <1>0, Zenon DEF FinishesOrderly, Finishing, PasskeyTypeOK
  <2>2. row \in CredentialRows /\ row.user = u /\ r.credential \in Authenticators
    BY <2>1 DEF NewCredential, CredentialRows, Replies
  <2> HIDE DEF row
  <2>3. PasskeyTypeOK'
    BY <1>0, <1>2, <2>2 DEF row, PasskeyTypeOK, CeremonyStates
  <2>4. /\ ceremony'[c].pc = "delete" /\ ceremony'[c].user = u
        /\ ceremony'[c].reply = r /\ ceremony'[c].late = ceremony[c].late
        /\ \A d \in Ceremonies \ {c} : ceremony'[d] = ceremony[d]
    BY <1>2 DEF PasskeyTypeOK, CeremonyStates
  <2>5. ChallengesOwn' /\ RepliesIssued' /\ SessionsFresh' /\ TokensInv'
    <3>1. ChallengesOwn' BY <1>0, Zenon DEF ChallengesOwn
    <3>2. RepliesIssued' BY <1>0, Zenon DEF RepliesIssued
    <3>3. SessionsFresh' BY <1>0, Zenon DEF SessionsFresh
    <3>4. TokensInv' BY <1>0, Zenon DEF TokensInv, Registered, DrawnFor
    <3> QED BY <3>1, <3>2, <3>3, <3>4, Zenon
  <2>6. StoresUnsigned'
    BY <1>0, <2>4, SMTT(60) DEF StoresUnsigned
  <2>7. \A x \in Authenticators : credentials[x] # None => credentials'[x] = credentials[x]
    BY <1>2, <2>2, Zenon DEF PasskeyTypeOK
  <2>8. \A q \in replies : q.credential \in Authenticators
    BY Zenon DEF PasskeyTypeOK, Replies
  <2>9. FinishesOrderly'
    BY <1>0, <2>1, <2>4, <2>7, <2>8, SMTT(60) DEF FinishesOrderly, Finishing, Registered, DrawnFor
  <2>11. ReplayRefused'
    BY <2>4, SMTT(60) DEF ReplayRefused
  <2>12. CredentialsRegistered'
    BY <1>0, <1>2, <2>1, <2>2, <2>7 DEF row, CredentialsRegistered, Registered, DrawnFor, PasskeyTypeOK
  <2>. QED BY <2>3, <2>5, <2>6, <2>9, <2>11, <2>12, Zenon
<1>. QED BY <1>1, <1>2, Zenon DEF FinishRegistration

\* A login that matches its session has a credential of its user.
LEMMA VerifyLoginStep ==
  ASSUME PasskeyInv, NEW c \in Ceremonies, VerifyLogin(c)
  PROVE  PasskeyInv'
<1> USE PasskeyAssumption DEF PasskeyInv
<1> DEFINE r == ceremony[c].reply
           row == UpdateCounter(credentials[r.credential], r.count)
<1>0. /\ ceremony[c].pc = "verify"
      /\ UNCHANGED <<sessions, credentials, issued, replies, signatures, accepted, tokens>>
  BY Zenon DEF VerifyLogin
<1>1. CASE EndCeremony(c)
  BY <1>0, <1>1, EndStep, Zenon
<1>2. CASE /\ OwnCredential(ceremony[c])
           /\ ceremony' = [ceremony EXCEPT ![c].pc = "update", ![c].row = row]
  <2> DEFINE u == ceremony[c].user
  <2>1. u \in PasskeyUsers /\ r \in replies /\ r \in Replies /\ DrawnFor(r.challenge, u)
    BY <1>0, Zenon DEF FinishesOrderly, Finishing, PasskeyTypeOK
  <2>2. /\ r.credential \in Authenticators /\ r.count \in 1..MaxSignatures
        /\ credentials[r.credential] \in CredentialRows /\ credentials[r.credential].user = u
    BY <1>2, <2>1, Zenon DEF OwnCredential, ListCredentials, Replies, PasskeyTypeOK
  <2>3. row \in CredentialRows
    <3>1. [credentials[r.credential] EXCEPT !.warned = TRUE] \in CredentialRows
      BY <2>2, ZenonT(60) DEF CredentialRows
    <3>2. [credentials[r.credential] EXCEPT !.count = r.count] \in CredentialRows
      BY <2>2 DEF CredentialRows
    <3>. QED BY <3>1, <3>2, Zenon DEF UpdateCounter
  <2>4. Registered(u, r.credential)
    BY <2>2, Zenon DEF CredentialsRegistered
  <2> HIDE DEF row
  <2>5. PasskeyTypeOK'
    <3>1. ceremony' = [ceremony EXCEPT ![c] = [ceremony[c] EXCEPT !.pc = "update", !.row = row]]
      BY <1>2, ZenonT(60) DEF PasskeyTypeOK, CeremonyStates
    <3>2. [ceremony[c] EXCEPT !.pc = "update", !.row = row] \in CeremonyStates
      BY <2>3, CeremonyFields, ZenonT(60) DEF PasskeyTypeOK
    <3>. QED BY <1>0, <3>1, <3>2, Zenon DEF PasskeyTypeOK
  <2>6. /\ ceremony'[c].pc = "update" /\ ceremony'[c].user = u /\ ceremony'[c].reply = r /\ ceremony'[c].row = row
        /\ ceremony'[c].late = ceremony[c].late
        /\ \A d \in Ceremonies \ {c} : ceremony'[d] = ceremony[d]
    BY <1>2 DEF PasskeyTypeOK, CeremonyStates
  <2>7. ChallengesOwn' /\ RepliesIssued' /\ SessionsFresh' /\ CredentialsRegistered' /\ TokensInv'
    <3>1. ChallengesOwn' /\ RepliesIssued' /\ SessionsFresh'
      BY <1>0, Zenon DEF ChallengesOwn, RepliesIssued, SessionsFresh
    <3>2. CredentialsRegistered'
      BY <1>0, Zenon DEF CredentialsRegistered, Registered, DrawnFor
    <3>3. TokensInv'
      BY <1>0, Zenon DEF TokensInv, Registered, DrawnFor
    <3>. QED BY <3>1, <3>2, <3>3, Zenon
  <2>8. StoresUnsigned'
    BY <1>0, <2>6, SMTT(60) DEF StoresUnsigned
  <2>9. FinishesOrderly'
    BY <1>0, <2>1, <2>2, <2>3, <2>4, <2>6, SMTT(60) DEF FinishesOrderly, Finishing, Registered, DrawnFor
  <2>11. ReplayRefused'
    BY <2>6, SMTT(60) DEF ReplayRefused
  <2>. QED BY <2>5, <2>7, <2>8, <2>9, <2>11, Zenon
<1>. QED BY <1>1, <1>2, Zenon DEF VerifyLogin

\* The counter is written, or is not, and the token is made: the owner of no
\* credential changes.
LEMMA UpdateSignCountStep ==
  ASSUME PasskeyInv, NEW c \in Ceremonies, UpdateSignCount(c)
  PROVE  PasskeyInv'
<1> USE PasskeyAssumption DEF PasskeyInv
<1> DEFINE u == ceremony[c].user
           r == ceremony[c].reply
           old == credentials[r.credential]
           row == ceremony[c].row
           new == [old EXCEPT !.count = row.count, !.warned = row.warned]
<1>0. /\ ceremony[c].pc = "update" /\ tokens' = tokens \cup {[user |-> u, reply |-> r]}
      /\ UNCHANGED <<sessions, issued, replies, signatures, accepted>>
  BY Zenon DEF UpdateSignCount
<1>1. /\ u \in PasskeyUsers /\ r \in replies /\ r \in Replies /\ row \in CredentialRows
      /\ old # None /\ DrawnFor(r.challenge, u) /\ Registered(u, r.credential)
  BY <1>0, Zenon DEF FinishesOrderly, Finishing, PasskeyTypeOK, CeremonyStates
<1>2. r.credential \in Authenticators /\ old \in CredentialRows
  BY <1>1, Zenon DEF Replies, PasskeyTypeOK
<1>3. new \in CredentialRows /\ new.user = old.user
  BY <1>1, <1>2, ZenonT(60) DEF CredentialRows
<1>4. credentials' = [credentials EXCEPT ![r.credential] = new] \/ credentials' = credentials
  BY <1>2, ZenonT(60) DEF UpdateSignCount, CounterOfCredential, PasskeyTypeOK
<1>5. credentials' \in [Authenticators -> CredentialRows \cup {None}]
  BY <1>3, <1>4, Zenon DEF PasskeyTypeOK
<1>6. \A x \in Authenticators : /\ credentials[x] = None <=> credentials'[x] = None
                                /\ credentials[x] # None => credentials'[x].user = credentials[x].user
  BY <1>1, <1>2, <1>3, <1>4, ZenonT(60) DEF PasskeyTypeOK
<1>7. \A d \in Ceremonies : /\ ceremony'[d].pc = IF d = c THEN "delete" ELSE ceremony[d].pc
                            /\ ceremony'[d].session = ceremony[d].session /\ ceremony'[d].user = ceremony[d].user
                            /\ ceremony'[d].reply = ceremony[d].reply
                            /\ ceremony'[d].row = ceremony[d].row /\ ceremony'[d].late = ceremony[d].late
  BY DEF UpdateSignCount, PasskeyTypeOK, CeremonyStates
<1>8. PasskeyTypeOK'
  <2>1. \A d \in Ceremonies : ceremony'[d] \in {[ceremony[d] EXCEPT !.pc = "delete"],
                                                [ceremony[d] EXCEPT !.overtaken = TRUE], ceremony[d]}
    BY Zenon DEF UpdateSignCount, PasskeyTypeOK
  <2>2. \E f : ceremony' = [d \in Ceremonies |-> f[d]]
    BY DEF UpdateSignCount, PasskeyTypeOK
  <2>3. ceremony' \in [Ceremonies -> CeremonyStates]
    <3>1. \A d \in Ceremonies : /\ [ceremony[d] EXCEPT !.pc = "delete"] \in CeremonyStates
                                /\ [ceremony[d] EXCEPT !.overtaken = TRUE] \in CeremonyStates
      BY ZenonT(60) DEF PasskeyTypeOK, CeremonyStates
    <3>. QED BY <2>1, <2>2, <3>1, ZenonT(60) DEF PasskeyTypeOK
  <2>4. [user |-> u, reply |-> r] \in [user : PasskeyUsers, reply : Replies]
    BY <1>1, Zenon
  <2>. QED BY <1>0, <1>5, <2>3, <2>4, Zenon DEF PasskeyTypeOK
<1> HIDE DEF new, old, row
<1>9. ChallengesOwn' /\ RepliesIssued' /\ SessionsFresh'
  BY <1>0, Zenon DEF ChallengesOwn, RepliesIssued, SessionsFresh
<1>10. TokensInv'
  <2>1. \A g, v : DrawnFor(g, v)' = DrawnFor(g, v)
    BY <1>0, Zenon DEF DrawnFor
  <2>2. \A v, x : Registered(v, x) => Registered(v, x)'
    BY <1>0, <2>1, Zenon DEF Registered
  <2> DEFINE k == [user |-> u, reply |-> r]
  <2>3. k.user = u /\ k.reply = r
    BY Zenon
  <2> HIDE DEF k
  <2>. QED BY <1>0, <1>1, <2>1, <2>2, <2>3, Zenon DEF TokensInv, k
<1>11. CredentialsRegistered'
  BY <1>0, <1>6 DEF CredentialsRegistered, Registered, DrawnFor
<1>12. StoresUnsigned'
  BY <1>0, <1>7, SMTT(60) DEF StoresUnsigned
<1>13. \A q \in replies : q.credential \in Authenticators
  BY Zenon DEF PasskeyTypeOK, Replies
<1>14. FinishesOrderly'
  BY <1>0, <1>1, <1>6, <1>7, <1>13, SMTT(60) DEF FinishesOrderly, Finishing, Registered, DrawnFor
<1>15. ReplayRefused'
  BY <1>0, <1>7, SMTT(60) DEF ReplayRefused
<1>. QED BY <1>8, <1>9, <1>10, <1>11, <1>12, <1>14, <1>15, Zenon

\* The deletion takes away whatever session the user has: certainly that of the
\* challenge that is answered, which no other user's session can be of.
LEMMA DeleteSessionStep ==
  ASSUME PasskeyInv, NEW c \in Ceremonies, DeleteSession(c)
  PROVE  PasskeyInv'
<1> USE PasskeyAssumption DEF PasskeyInv
<1> DEFINE v == ceremony[c].user
           r == ceremony[c].reply
<1>1. /\ sessions' = [sessions EXCEPT ![v] = None] /\ accepted' = accepted \cup {r.challenge}
      /\ ceremony' = [ceremony EXCEPT ![c] = CeremonyIdle]
      /\ UNCHANGED <<credentials, issued, replies, signatures, tokens>>
  BY Zenon DEF DeleteSession, Forget, EndCeremony
<1>2. v \in PasskeyUsers /\ r \in replies /\ r \in Replies /\ DrawnFor(r.challenge, v)
  BY Zenon DEF DeleteSession, FinishesOrderly, Finishing, PasskeyTypeOK
<1>3. PasskeyTypeOK'
  BY <1>1, <1>2, Zenon DEF PasskeyTypeOK, CeremonyIdle, CeremonyStates, Replies
<1>4. RepliesIssued'
  BY <1>1, <1>2, Zenon DEF RepliesIssued
<1>5. ASSUME NEW u \in PasskeyUsers, sessions'[u] # None
      PROVE  /\ sessions'[u].user = u /\ issued'[sessions'[u].challenge] = sessions'[u]
             /\ sessions'[u].challenge \notin accepted'
  <2>1. sessions'[u] = sessions[u] /\ u # v
    BY <1>1, <1>5, Zenon DEF PasskeyTypeOK
  <2>3. sessions[u].challenge # r.challenge
    BY <1>2, <1>5, <2>1, Zenon DEF SessionsFresh, DrawnFor
  <2>. QED BY <1>1, <1>5, <2>1, <2>3 DEF SessionsFresh
<1>6. ceremony'[c].pc = "idle" /\ ~ceremony'[c].late /\ \A d \in Ceremonies \ {c} : ceremony'[d] = ceremony[d]
  BY <1>1, Zenon DEF CeremonyIdle, PasskeyTypeOK
<1>7. ChallengesOwn' /\ CredentialsRegistered' /\ TokensInv'
  BY <1>1, RecordsKept, Zenon
<1>8. StoresUnsigned'
  BY <1>1, <1>6 DEF StoresUnsigned
<1>9. FinishesOrderly'
  BY <1>1, <1>6 DEF FinishesOrderly, Finishing, Registered, DrawnFor
<1>10. ReplayRefused'
  BY <1>1, <1>6 DEF ReplayRefused
<1>11. SessionsFresh'
  BY <1>5, Zenon DEF SessionsFresh
<1>. QED BY <1>3, <1>4, <1>7, <1>8, <1>9, <1>10, <1>11, Zenon

\* Every step of the ceremonies keeps the invariant.
LEMMA PasskeyInvStep == PasskeyInv /\ [PasskeyNext]_passkeyVars => PasskeyInv'
<1> SUFFICES ASSUME PasskeyInv, [PasskeyNext]_passkeyVars PROVE PasskeyInv'
  BY Zenon
<1>1. CASE PasskeyRestart
  <2>0. ChallengesOwn' /\ CredentialsRegistered' /\ TokensInv'
    BY <1>1, RecordsKept, Zenon DEF PasskeyInv, PasskeyRestart
  <2> USE <1>1 DEF PasskeyInv, PasskeyRestart
  <2>1. PasskeyTypeOK'
    BY Zenon DEF PasskeyTypeOK, CeremonyIdle, CeremonyStates
  <2>2. RepliesIssued' /\ SessionsFresh' BY Zenon DEF RepliesIssued, SessionsFresh
  <2>3. StoresUnsigned' /\ FinishesOrderly' /\ ReplayRefused'
    BY Zenon DEF StoresUnsigned, FinishesOrderly, ReplayRefused, Finishing, CeremonyIdle
  <2>. QED BY <2>0, <2>1, <2>2, <2>3, Zenon
<1>2. CASE UNCHANGED passkeyVars
  <2>0. ChallengesOwn' /\ CredentialsRegistered' /\ TokensInv'
    BY <1>2, RecordsKept, Zenon DEF passkeyVars, PasskeyInv
  <2> USE <1>2 DEF passkeyVars, PasskeyInv
  <2>1. PasskeyTypeOK' /\ RepliesIssued' /\ SessionsFresh'
    BY Zenon DEF PasskeyTypeOK, RepliesIssued, SessionsFresh
  <2>2. StoresUnsigned' /\ ReplayRefused'
    BY Zenon DEF StoresUnsigned, ReplayRefused
  <2>3. FinishesOrderly'
    BY Zenon DEF FinishesOrderly, Finishing, Registered, DrawnFor
  <2>. QED BY <2>0, <2>1, <2>2, <2>3, Zenon
<1>3. ASSUME NEW c \in Ceremonies, NEW u \in PasskeyUsers, BeginRegistration(c, u) \/ BeginLogin(c, u)
      PROVE PasskeyInv'
  BY <1>3, BeginStep, Zenon DEF BeginRegistration, BeginLogin, Kinds
<1>. QED
  BY <1>1, <1>2, <1>3, StoreSessionStep, SignStep, ArriveStep, FinishRegistrationStep, VerifyLoginStep,
     UpdateSignCountStep, DeleteSessionStep, Zenon
  DEF PasskeyNext

\* The inductive invariant of the ceremonies (mfa_api.go, webauthn_store.go)
\* holds in every reachable state.
THEOREM PasskeyInvariance == PasskeySpec => []PasskeyInv
  BY PasskeyInvInit, PasskeyInvStep, PTL DEF PasskeySpec

\* A reply that is sent again after its ceremony was answered is refused
\* (finishWebAuthnLogin, finishWebAuthnRegistration).
THEOREM ReplaysRefused == PasskeySpec => []ReplayRefused
<1>1. PasskeyInv => ReplayRefused
  BY Zenon DEF PasskeyInv
<1>. QED BY <1>1, PasskeyInvariance, PTL

\* A token answers a challenge drawn for its user, with a credential that answered
\* a challenge of the same user in a registration, whatever user and route a reply
\* is sent with (finishWebAuthnLogin, FinishWebAuthnLogin).
THEOREM TokensAreProven == PasskeySpec => []TokensProven
<1>1. PasskeyInv => TokensProven
  BY Zenon DEF PasskeyInv, TokensInv, Registered, TokensProven
<1>. QED BY <1>1, PasskeyInvariance, PTL

\* The row a login is about to write is at least what is stored, unless another
\* login with the same credential has written since it was read.
RowsAhead ==
  \A c \in Ceremonies : ceremony[c].pc = "update" /\ ~ceremony[c].overtaken =>
    /\ ceremony[c].row.count >= credentials[ceremony[c].reply.credential].count
    /\ credentials[ceremony[c].reply.credential].warned => ceremony[c].row.warned

\* A step that moves no other login to its update, and changes no stored row,
\* keeps the rows ahead.
LEMMA AheadKept ==
  ASSUME RowsAhead, UNCHANGED credentials,
         \A c \in Ceremonies : ceremony'[c].pc = "update" => ceremony'[c] = ceremony[c]
  PROVE  RowsAhead'
  BY Zenon DEF RowsAhead

\* UpdateCounter neither lowers the counter nor takes the warning back.
LEMMA CounterGrows ==
  ASSUME NEW row \in CredentialRows, NEW n \in 1..MaxSignatures
  PROVE  /\ UpdateCounter(row, n) \in CredentialRows
         /\ UpdateCounter(row, n).count >= row.count
         /\ row.warned => UpdateCounter(row, n).warned
<1>1. row.count \in Nat /\ n \in Nat BY PasskeyAssumption DEF CredentialRows
<1>2. CASE n <= row.count /\ (n # 0 \/ row.count # 0)
  <2>1. UpdateCounter(row, n) = [row EXCEPT !.warned = TRUE] BY <1>2, Zenon DEF UpdateCounter
  <2>2. UpdateCounter(row, n) \in CredentialRows BY <2>1, Zenon DEF CredentialRows
  <2>3. UpdateCounter(row, n).count = row.count /\ UpdateCounter(row, n).warned = TRUE
    BY <2>1, Zenon DEF CredentialRows
  <2> QED BY <1>1, <2>2, <2>3
<1>3. CASE ~(n <= row.count /\ (n # 0 \/ row.count # 0))
  <2>1. n >= row.count BY <1>1, <1>3
  <2>2. UpdateCounter(row, n) = [row EXCEPT !.count = n] BY <1>3, Zenon DEF UpdateCounter
  <2>3. n \in 0..MaxSignatures BY PasskeyAssumption
  <2> QED BY <2>1, <2>2, <2>3, Zenon DEF CredentialRows
<1> QED BY <1>2, <1>3, Zenon

\* Every step keeps the rows ahead, and a counter regresses by none but a login
\* that was overtaken.
LEMMA AheadStep ==
  ASSUME PasskeyInv, RowsAhead, [PasskeyNext]_passkeyVars
  PROVE  RowsAhead' /\ RegressIsOvertaken
<1> USE DEF PasskeyInv
<1>0. /\ ceremony \in [Ceremonies -> CeremonyStates] /\ credentials \in [Authenticators -> CredentialRows \cup {None}]
      /\ replies \subseteq Replies /\ CeremonyIdle.pc = "idle"
  BY Zenon DEF PasskeyTypeOK, CeremonyIdle
<1>1. ASSUME UNCHANGED credentials PROVE RegressIsOvertaken
  <2>1. \A x \in Authenticators : credentials[x] # None => credentials[x].count \in Nat
    BY <1>0, PasskeyAssumption DEF CredentialRows
  <2> QED BY <1>1, <2>1 DEF RegressIsOvertaken
<1>2. ASSUME NEW c \in Ceremonies, NEW x, ceremony' = [ceremony EXCEPT ![c] = x], x.pc # "update",
             UNCHANGED credentials
      PROVE  RowsAhead' /\ RegressIsOvertaken
  BY <1>0, <1>1, <1>2, AheadKept, Zenon
<1>3. ASSUME NEW c \in Ceremonies, NEW u, NEW k, BeginChallenge(c, u, k) PROVE RowsAhead' /\ RegressIsOvertaken
  <2>1. PICK s : ceremony' = [ceremony EXCEPT ![c] = [CeremonyIdle EXCEPT !.pc = "store", !.session = s]]
    BY <1>3, Zenon DEF BeginChallenge
  <2>2. [CeremonyIdle EXCEPT !.pc = "store", !.session = s].pc # "update" BY Zenon DEF CeremonyIdle
  <2> QED BY <1>2, <1>3, <2>1, <2>2, Zenon DEF BeginChallenge
<1>4. ASSUME NEW c \in Ceremonies, NEW u, NEW kind, NEW r, Arrive(c, u, kind, r)
      PROVE  RowsAhead' /\ RegressIsOvertaken
  <2> DEFINE step == IF kind = "get" THEN "verify" ELSE "save"
             x == [CeremonyIdle EXCEPT !.pc = step, !.user = u, !.reply = r, !.late = r.challenge \in accepted]
  <2>1. x.pc # "update" BY Zenon DEF CeremonyIdle
  <2>2. ceremony' = [ceremony EXCEPT ![c] = x] /\ UNCHANGED credentials BY <1>4, Zenon DEF Arrive
  <2> HIDE DEF x
  <2> QED BY <1>2, <2>1, <2>2, Zenon
<1>5. ASSUME NEW c \in Ceremonies, StoreSession(c) \/ DeleteSession(c) PROVE RowsAhead' /\ RegressIsOvertaken
  BY <1>0, <1>2, <1>5, Zenon DEF StoreSession, DeleteSession, EndCeremony
<1>7. ASSUME NEW c \in Ceremonies, FinishRegistration(c) PROVE RowsAhead' /\ RegressIsOvertaken
  <2>1. CASE EndCeremony(c) /\ UNCHANGED credentials BY <1>0, <1>2, <2>1, Zenon DEF EndCeremony
  <2>2. CASE ~(EndCeremony(c) /\ UNCHANGED credentials)
    <3> DEFINE y == ceremony[c].reply.credential
    <3>1. /\ credentials[y] = None /\ credentials' = [credentials EXCEPT ![y] = NewCredential(ceremony[c])]
          /\ ceremony' = [ceremony EXCEPT ![c].pc = "delete"]
      BY <1>7, <2>2, Zenon DEF FinishRegistration
    <3>2. \A d \in Ceremonies : ceremony'[d].pc = "update" => d # c /\ ceremony'[d] = ceremony[d]
      BY <1>0, <3>1 DEF CeremonyStates
    <3> HIDE DEF y
    <3>3. \A x \in Authenticators : credentials[x] # None => credentials'[x] = credentials[x]
      BY <1>0, <3>1, Zenon
    <3>4. \A d \in Ceremonies : ceremony[d].pc = "update" =>
            /\ ceremony[d].reply.credential \in Authenticators
            /\ credentials[ceremony[d].reply.credential] # None
      BY <1>0, Zenon DEF FinishesOrderly, Finishing, Replies
    <3>5. RowsAhead' BY <3>2, <3>3, <3>4 DEF RowsAhead
    <3>6. \A x \in Authenticators : credentials[x] # None => credentials[x].count \in Nat
      BY <1>0, PasskeyAssumption DEF CredentialRows
    <3>7. RegressIsOvertaken BY <3>3, <3>6 DEF RegressIsOvertaken
    <3> QED BY <3>5, <3>7, Zenon
  <2> QED BY <2>1, <2>2, Zenon
<1>8. ASSUME NEW c \in Ceremonies, VerifyLogin(c) PROVE RowsAhead' /\ RegressIsOvertaken
  <2>1. CASE EndCeremony(c) BY <1>0, <1>2, <1>8, <2>1, Zenon DEF VerifyLogin, EndCeremony
  <2>2. CASE ~EndCeremony(c)
    <3> DEFINE q == ceremony[c]
               y == q.reply.credential
               new == UpdateCounter(credentials[y], q.reply.count)
               x == [q EXCEPT !.pc = "update", !.row = new]
    <3>1. /\ q.pc = "verify" /\ OwnCredential(q)
          /\ ceremony' = [ceremony EXCEPT ![c].pc = "update", ![c].row = new] /\ UNCHANGED credentials
      BY <1>8, <2>2, Zenon DEF VerifyLogin
    <3>2. ceremony' = [ceremony EXCEPT ![c] = x] BY <1>0, <3>1, Zenon
    <3>3. q \in CeremonyStates /\ q.reply \in Replies BY <1>0, <3>1, Zenon DEF FinishesOrderly, Finishing
    <3>4. y \in Authenticators /\ credentials[y] \in CredentialRows
      BY <1>0, <3>1, <3>3, Zenon DEF Replies, OwnCredential, ListCredentials
    <3>5. q.reply.count \in 1..MaxSignatures BY <3>3, Zenon DEF Replies
    <3>6. new \in CredentialRows /\ new.count >= credentials[y].count /\ (credentials[y].warned => new.warned)
      BY <3>4, <3>5, CounterGrows, Zenon
    <3> HIDE DEF new
    <3>7. x.row = new /\ x.reply = q.reply BY <3>3, <3>6, Zenon DEF CeremonyStates
    <3> HIDE DEF x
    <3>8. ceremony'[c] = x /\ \A d \in Ceremonies \ {c} : ceremony'[d] = ceremony[d] BY <1>0, <3>2, Zenon
    <3>9. RowsAhead'
      <4> SUFFICES ASSUME NEW d \in Ceremonies, ceremony'[d].pc = "update", ~ceremony'[d].overtaken
                   PROVE  /\ ceremony'[d].row.count >= credentials'[ceremony'[d].reply.credential].count
                          /\ credentials'[ceremony'[d].reply.credential].warned => ceremony'[d].row.warned
        BY Zenon DEF RowsAhead
      <4>1. CASE d = c BY <3>1, <3>6, <3>7, <3>8, <4>1
      <4>2. CASE d # c BY <3>1, <3>8, <4>2, Zenon DEF RowsAhead
      <4> QED BY <4>1, <4>2, Zenon
    <3> QED BY <1>1, <3>1, <3>9, Zenon
  <2> QED BY <2>1, <2>2, Zenon
<1>9. ASSUME NEW c \in Ceremonies, UpdateSignCount(c) PROVE RowsAhead' /\ RegressIsOvertaken
  <2> DEFINE q == ceremony[c]
             y == q.reply.credential
  <2>1. q \in CeremonyStates /\ q.pc = "update" BY <1>0, <1>9, Zenon DEF UpdateSignCount
  <2>2. CASE ceremony' = [ceremony EXCEPT ![c].pc = "delete"] /\ UNCHANGED credentials
    <3>1. \A d \in Ceremonies : ceremony'[d].pc = "update" => ceremony'[d] = ceremony[d]
      BY <1>0, <2>2, Zenon DEF CeremonyStates
    <3> QED BY <1>1, <2>2, <3>1, AheadKept, Zenon
  <2>3. CASE /\ credentials' = CounterOfCredential(q)
             /\ ceremony' = [d \in Ceremonies |->
                  IF d = c THEN [ceremony[d] EXCEPT !.pc = "delete"]
                  ELSE IF ceremony[d].pc = "update" /\ ceremony[d].reply.credential = q.reply.credential
                  THEN [ceremony[d] EXCEPT !.overtaken = TRUE]
                  ELSE ceremony[d]]
    <3>1. /\ q.reply \in Replies /\ y \in Authenticators /\ q.row \in CredentialRows
          /\ credentials[y] \in CredentialRows
      BY <1>0, <2>1, Zenon DEF FinishesOrderly, Finishing, Replies
    <3> DEFINE new == [credentials[y] EXCEPT !.count = q.row.count, !.warned = q.row.warned]
    <3>2. credentials' = [credentials EXCEPT ![y] = new] BY <1>0, <2>3, <3>1, Zenon DEF CounterOfCredential
    <3>3. new.count = q.row.count /\ new.warned = q.row.warned BY <3>1, Zenon DEF CredentialRows
    <3> HIDE DEF new
    <3>4. credentials'[y] = new /\ \A x \in Authenticators \ {y} : credentials'[x] = credentials[x]
      BY <1>0, <3>1, <3>2, Zenon
    <3>5. ceremony'[c].pc = "delete" BY <2>1, <2>3, Zenon DEF CeremonyStates
    <3>6. ASSUME NEW d \in Ceremonies, ceremony'[d].pc = "update", ~ceremony'[d].overtaken
          PROVE  d # c /\ ceremony'[d] = ceremony[d] /\ ceremony[d].reply.credential # y
      <4>1. d # c BY <3>5, <3>6, Zenon
      <4>2. CASE ceremony[d].pc = "update" /\ ceremony[d].reply.credential = y
        <5>1. ceremony'[d] = [ceremony[d] EXCEPT !.overtaken = TRUE] BY <2>3, <4>1, <4>2, Zenon
        <5> QED BY <1>0, <3>6, <5>1, Zenon DEF CeremonyStates
      <4>3. CASE ~(ceremony[d].pc = "update" /\ ceremony[d].reply.credential = y)
        <5>1. ceremony'[d] = ceremony[d] BY <2>3, <4>1, <4>3, Zenon
        <5> QED BY <3>6, <4>1, <4>3, <5>1, Zenon
      <4> QED BY <4>2, <4>3, Zenon
    <3>7. \A d \in Ceremonies : ceremony[d].pc = "update" => ceremony[d].reply.credential \in Authenticators
      BY <1>0, Zenon DEF FinishesOrderly, Finishing, Replies
    <3>8. RowsAhead' BY <3>4, <3>6, <3>7 DEF RowsAhead
    <3>9. \A x \in Authenticators : credentials[x] # None => credentials[x].count \in Nat
      BY <1>0, PasskeyAssumption DEF CredentialRows
    <3>10. new.count \in Nat BY <3>1, <3>3, PasskeyAssumption DEF CredentialRows
    <3>11. ASSUME NEW x \in Authenticators, credentials[x] # None,
                  credentials'[x].count < credentials[x].count \/ (credentials[x].warned /\ ~credentials'[x].warned)
           PROVE  x = y /\ q.overtaken
      <4>1. x = y BY <3>4, <3>9, <3>11
      <4>2. ASSUME ~q.overtaken PROVE FALSE
        <5>1. q.row.count >= credentials[y].count /\ (credentials[y].warned => q.row.warned)
          BY <2>1, <4>2, Zenon DEF RowsAhead
        <5> QED BY <3>3, <3>4, <3>9, <3>10, <3>11, <4>1, <5>1
      <4>3. q.overtaken \in BOOLEAN BY <2>1, Zenon DEF CeremonyStates
      <4> QED BY <4>1, <4>2, <4>3, Zenon
    <3>12. RegressIsOvertaken BY <2>1, <3>5, <3>11, Zenon DEF RegressIsOvertaken
    <3> QED BY <3>8, <3>12, Zenon
  <2> QED BY <1>9, <2>2, <2>3, Zenon DEF UpdateSignCount
<1>10. ASSUME NEW h, NEW x, NEW kind, Sign(h, x, kind) PROVE RowsAhead' /\ RegressIsOvertaken
  BY <1>1, <1>10, AheadKept, Zenon DEF Sign
<1>11. CASE PasskeyRestart
  <2>1. \A c \in Ceremonies : ceremony'[c].pc # "update" BY <1>0, <1>11, Zenon DEF PasskeyRestart
  <2> QED BY <1>1, <1>11, <2>1, AheadKept, Zenon DEF PasskeyRestart
<1>12. CASE UNCHANGED passkeyVars BY <1>1, <1>12, AheadKept, Zenon DEF passkeyVars
<1> QED BY <1>3, <1>4, <1>5, <1>7, <1>8, <1>9, <1>10, <1>11, <1>12, Zenon
        DEF PasskeyNext, BeginRegistration, BeginLogin

\* A stored counter decreases, or a warning disappears, only by a login that
\* another with the same credential overtook (FinishWebAuthnLogin,
\* UpdateCredential).
THEOREM CountersRegressOvertaken == PasskeySpec => CounterRegressesOnlyOvertaken
<1>1. PasskeyInit => RowsAhead BY DEF PasskeyInit, RowsAhead, CeremonyIdle
<1>2. PasskeyInv /\ RowsAhead /\ [PasskeyNext]_passkeyVars => RowsAhead' BY AheadStep, Zenon
<1>3. PasskeyInv /\ RowsAhead /\ [PasskeyNext]_passkeyVars => [RegressIsOvertaken]_passkeyVars BY AheadStep, Zenon
<1> QED BY <1>1, <1>2, <1>3, PasskeyInvariance, PTL DEF PasskeySpec, CounterRegressesOnlyOvertaken

\* Sessions, credentials, ceremonies and histories keep their shape (mfa_api.go,
\* webauthn_store.go).
THEOREM PasskeyTypes == PasskeySpec => []PasskeyTypeOK
<1>1. PasskeyInv => PasskeyTypeOK BY Zenon DEF PasskeyInv
<1> QED BY <1>1, PasskeyInvariance, PTL

-----------------------------------------------------------------------------
(* The developer portal *)

\* Goroutine c has stored a secret of app a and not answered yet.
Answering(c, a) == portal[c].pc = "answer" /\ portal[c].app = a

\* An app that a goroutine works on exists; the secrets in use were drawn.
PortalRefs ==
  /\ \A c \in PortalCalls : portal[c].pc = "update" => portal[c].app \in AppIds /\ portal[c].uris \in RedirectUris
  /\ \A c \in PortalCalls : portal[c].pc = "answer" => portal[c].secret \in AppSecrets
  /\ \A c \in PortalCalls : portal[c].app # None => apps[portal[c].app] # None
  /\ \A a \in AppIds : apps[a] # None => apps[a].secret \in drawn

\* What was accepted once and no more is of an app that is deleted or has
\* another secret.
DeadForGood ==
  \A x \in dead : /\ x[2] \in drawn
                  /\ apps[x[1]] # None
                  /\ apps[x[1]].status = "deleted" \/ apps[x[1]].secret # x[2]

\* At most one answer with a secret of an app is under way, and it, or the last one
\* given, has the secret of the row; except for the apps in unsure.
SettledAt(a) ==
  apps[a] # None =>
    /\ (\A c \in PortalCalls : ~Answering(c, a)) => shown[a] = apps[a].secret
    /\ \A c \in PortalCalls : Answering(c, a) => portal[c].secret = apps[a].secret
    /\ \A c, d \in PortalCalls : Answering(c, a) /\ Answering(d, a) => c = d

Settled == \A a \in AppIds \ unsure : SettledAt(a)

PortalInv == PortalTypeOK /\ PortalRefs /\ DeadForGood /\ Settled

\* Nothing exists at the start.
LEMMA PortalInvInit == PortalInit => PortalInv
  BY PortalAssumption
  DEF PortalInit, PortalInv, PortalTypeOK, PortalRefs, DeadForGood, Settled, SettledAt, Answering, PortalIdle

\* A step that keeps an app's secret, what was shown of it and who answers with
\* which secret, leaves it settled.
LEMMA StaysSettled ==
  ASSUME Settled, NEW a \in AppIds, a \notin unsure,
         apps'[a] # None => apps[a] # None /\ apps'[a].secret = apps[a].secret,
         shown'[a] = shown[a],
         \A c \in PortalCalls : /\ Answering(c, a)' <=> Answering(c, a)
                                /\ Answering(c, a) => portal'[c].secret = portal[c].secret
  PROVE  SettledAt(a)'
<1> SUFFICES ASSUME apps'[a] # None
             PROVE  /\ (\A c \in PortalCalls : ~Answering(c, a)') => shown'[a] = apps'[a].secret
                    /\ \A c \in PortalCalls : Answering(c, a)' => portal'[c].secret = apps'[a].secret
                    /\ \A c, d \in PortalCalls : Answering(c, a)' /\ Answering(d, a)' => c = d
  BY Zenon DEF SettledAt
<1>1. SettledAt(a) BY Zenon DEF Settled
<1>2. \A c \in PortalCalls : Answering(c, a)' <=> Answering(c, a) BY Zenon
<1>3. (\A c \in PortalCalls : ~Answering(c, a)') => shown'[a] = apps'[a].secret
  BY <1>1, <1>2, Zenon DEF SettledAt
<1>4. \A c \in PortalCalls : Answering(c, a)' => portal'[c].secret = apps'[a].secret
  BY <1>1, <1>2, Zenon DEF SettledAt
<1>5. \A c, d \in PortalCalls : Answering(c, a)' /\ Answering(d, a)' => c = d
  BY <1>1, <1>2, Zenon DEF SettledAt
<1> QED BY <1>3, <1>4, <1>5, Zenon

\* A statement that keeps the other rows, and of row a either keeps the secret
\* and does not revive the app, or stores a secret never drawn, revives no
\* credential.
LEMMA StoreDead ==
  ASSUME PortalInv, NEW table \in [AppIds -> AppRows \cup {None}], Store(table), drawn \subseteq drawn',
         \A a \in AppIds : apps[a] # None =>
           /\ table[a] # None
           /\ table[a].secret = apps[a].secret \/ table[a].secret \notin drawn
           /\ apps[a].status = "deleted" => table[a].status = "deleted"
  PROVE  DeadForGood'
<1> USE DEF PortalInv, PortalTypeOK
<1> SUFFICES ASSUME NEW x \in dead'
             PROVE  /\ x[2] \in drawn' /\ table[x[1]] # None
                    /\ table[x[1]].status = "deleted" \/ table[x[1]].secret # x[2]
  BY Zenon DEF Store, DeadForGood
<1>1. CASE x \in dead
  BY <1>1, Zenon DEF DeadForGood
<1>2. CASE x \notin dead
  <2>1. /\ x \in AppIds \X AppSecrets
        /\ ValidateCredentials(apps, x[1], x[2])
        /\ ~ValidateCredentials(table, x[1], x[2])
    BY <1>2, Zenon DEF Store
  <2>2. apps[x[1]] # None /\ apps[x[1]].secret = x[2]
    BY <2>1, Zenon DEF ValidateCredentials, GetByClientID
  <2>3. table[x[1]] # None
    BY <2>1, <2>2, Zenon
  <2>4. table[x[1]].status # "active" \/ table[x[1]].secret # x[2]
    BY <2>1, <2>3, Zenon DEF ValidateCredentials, GetByClientID
  <2>5. table[x[1]].status \in {"active", "deleted"}
    BY <2>1, <2>3, Zenon DEF AppRows
  <2>. QED BY <2>1, <2>2, <2>3, <2>4, <2>5, Zenon DEF PortalRefs
<1>. QED BY <1>1, <1>2, Zenon

\* CreateApp puts a row where there was none, with a secret of its own, and has
\* yet to answer with it.
LEMMA CreateAppStep ==
  ASSUME PortalInv, NEW c \in PortalCalls, NEW t \in Tenants, NEW u \in RedirectUris, CreateApp(c, t, u)
  PROVE  PortalInv'
<1>t. PortalTypeOK BY Zenon DEF PortalInv
<1>r. PortalRefs BY Zenon DEF PortalInv
<1>s. Settled BY Zenon DEF PortalInv
<1>1. PICK a \in AppIds, s \in AppSecrets \ drawn :
        /\ apps[a] = None
        /\ Store([apps EXCEPT ![a] = NewApp(t, s, u)])
        /\ drawn' = drawn \cup {s}
        /\ portal' = [portal EXCEPT ![c] = [PortalIdle EXCEPT !.pc = "answer", !.app = a, !.secret = s]]
  BY DrawIn, ZenonT(60) DEF CreateApp
<1>2. portal[c] = PortalIdle /\ UNCHANGED <<shown, unsure>>
  BY Zenon DEF CreateApp
<1>3. NewApp(t, s, u) \in AppRows /\ NewApp(t, s, u).secret = s
  BY Zenon DEF NewApp, AppRows
<1>4. /\ apps' = [apps EXCEPT ![a] = NewApp(t, s, u)] /\ apps' \in [AppIds -> AppRows \cup {None}]
      /\ apps'[a] # None /\ apps'[a].secret = s /\ \A b \in AppIds \ {a} : apps'[b] = apps[b]
  BY <1>t, <1>1, <1>3, PortalAssumption, Zenon DEF Store, PortalTypeOK
<1>5. /\ portal'[c].pc = "answer" /\ portal'[c].app = a /\ portal'[c].secret = s
      /\ \A d \in PortalCalls \ {c} : portal'[d] = portal[d]
  BY <1>t, <1>1, Zenon DEF PortalIdle, PortalTypeOK
<1>6. PortalTypeOK'
  BY <1>t, <1>1, <1>2, <1>4, ZenonT(60) DEF Store, PortalIdle, PortalTypeOK
<1>7. PortalRefs'
  BY <1>t, <1>r, <1>1, <1>4, <1>5 DEF PortalRefs, PortalTypeOK
<1>8. DeadForGood'
  BY <1>t, <1>1, <1>3, <1>4, StoreDead, ZenonT(60) DEF PortalTypeOK
<1>9. Settled'
  <2>1. ASSUME NEW b \in AppIds \ unsure, b # a PROVE SettledAt(b)'
    <3>1. \A d \in PortalCalls : /\ Answering(d, b)' <=> Answering(d, b)
                                 /\ Answering(d, b) => portal'[d].secret = portal[d].secret
      BY <1>2, <1>5, <2>1 DEF Answering, PortalIdle
    <3>. QED BY <1>s, <1>2, <1>4, <2>1, <3>1, StaysSettled, Zenon
  <2>2. SettledAt(a)'
    <3>1. \A d \in PortalCalls : ~Answering(d, a)
      BY <1>t, <1>r, <1>1, PortalAssumption, Zenon DEF Answering, PortalRefs, PortalTypeOK
    <3>2. \A d \in PortalCalls : Answering(d, a)' <=> d = c
      BY <1>5, <3>1, Zenon DEF Answering
    <3>. QED BY <1>4, <1>5, <3>2, Zenon DEF SettledAt
  <2>. QED BY <1>2, <2>1, <2>2, Zenon DEF Settled
<1>. QED BY <1>6, <1>7, <1>8, <1>9, Zenon DEF PortalInv

\* The steps of an update: neither the secret nor the status is written.
LEMMA UpdateAppStep ==
  ASSUME PortalInv, NEW c \in PortalCalls,
         \/ \E t \in Tenants, a \in AppIds : UpdateAppRead(c, t, a)
         \/ \E u \in RedirectUris \cup {None} : UpdateAppWrite(c, u)
         \/ UpdateAppFails(c)
  PROVE  PortalInv'
<1>t. PortalTypeOK BY Zenon DEF PortalInv
<1>r. PortalRefs BY Zenon DEF PortalInv
<1>s. Settled BY Zenon DEF PortalInv
<1>1. ASSUME NEW t \in Tenants, NEW a \in AppIds, UpdateAppRead(c, t, a) PROVE PortalInv'
  <2>1. /\ apps[a] \in AppRows /\ portal[c] = PortalIdle
        /\ portal' = [portal EXCEPT ![c] = [PortalIdle EXCEPT !.pc = "update", !.app = a,
                                              !.uris = apps[a].uris, !.secret = apps[a].secret]]
    BY <1>t, <1>1, ZenonT(60) DEF UpdateAppRead, GetApp, AppOf, PortalTypeOK
  <2>2. UNCHANGED <<apps, drawn, dead, shown, unsure>>
    BY <1>1, ZenonT(60) DEF UpdateAppRead
  <2>3. PortalTypeOK'
    BY <1>t, <2>1, <2>2, ZenonT(60) DEF PortalIdle, AppRows, PortalTypeOK
  <2>4. PortalRefs' /\ DeadForGood'
    BY <1>t, <1>r, <2>1, <2>2, PortalAssumption, Zenon
    DEF PortalRefs, DeadForGood, PortalIdle, AppRows, PortalInv, PortalTypeOK
  <2>5. \A d \in PortalCalls : "answer" \in {portal[d].pc, portal'[d].pc} => portal'[d] = portal[d]
    BY <1>t, <2>1 DEF PortalIdle, PortalTypeOK
  <2>6. Settled'
    BY <1>s, <2>2, <2>5, SMTT(60) DEF Settled, SettledAt, Answering
  <2>. QED BY <2>3, <2>4, <2>6, Zenon DEF PortalInv
<1>2. ASSUME NEW u \in RedirectUris \cup {None}, UpdateAppWrite(c, u) PROVE PortalInv'
  <2> DEFINE a == portal[c].app
             v == IF u = None THEN portal[c].uris ELSE u
             table == [apps EXCEPT ![a] = WriteBack(@, portal[c], v)]
  <2>1. portal[c].pc = "update"
    BY <1>2, Zenon DEF UpdateAppWrite
  <2>2. a \in AppIds /\ v \in RedirectUris
    BY <1>r, <2>1, Zenon DEF PortalRefs
  <2>3. apps[a] \in AppRows
    BY <1>t, <1>r, <2>2, PortalAssumption, Zenon DEF PortalRefs, PortalTypeOK
  <2>4. Store(table) /\ portal' = [portal EXCEPT ![c] = PortalIdle] /\ UNCHANGED <<drawn, shown, unsure>>
    BY <1>2, Zenon DEF UpdateAppWrite
  <2>5. table = [apps EXCEPT ![a] = [apps[a] EXCEPT !.uris = v]]
    BY <1>t, <2>2, Zenon DEF WriteBack, PortalTypeOK
  <2>6. [apps[a] EXCEPT !.uris = v] \in AppRows
    BY <2>2, <2>3, Zenon DEF AppRows
  <2>7. table \in [AppIds -> AppRows \cup {None}]
    BY <1>t, <2>2, <2>5, <2>6, ZenonT(60) DEF PortalTypeOK
  <2>8. \A b \in AppIds : /\ table[b] = None <=> apps[b] = None
                          /\ apps[b] # None => table[b].secret = apps[b].secret /\ table[b].status = apps[b].status
    BY <1>t, <2>2, <2>3, <2>5, <2>6, PortalAssumption DEF AppRows, PortalTypeOK
  <2> HIDE DEF table, v
  <2>9. apps' = table
    BY <2>4, Zenon DEF Store
  <2>10. PortalTypeOK'
    BY <1>t, <2>4, <2>7, <2>9, Zenon DEF Store, PortalIdle, PortalTypeOK
  <2>11. PortalRefs'
    BY <1>t, <1>r, <2>4, <2>8, <2>9, Zenon DEF PortalRefs, PortalIdle, PortalTypeOK
  <2>12. DeadForGood'
    BY <2>4, <2>7, <2>8, StoreDead, Zenon
  <2>13. \A d \in PortalCalls : "answer" \in {portal[d].pc, portal'[d].pc} => portal'[d] = portal[d]
    BY <1>t, <2>1, <2>4, Zenon DEF PortalIdle, PortalTypeOK
  <2>14. Settled'
    BY <1>s, <2>4, <2>8, <2>9, <2>13, SMTT(60) DEF Settled, SettledAt, Answering
  <2>. QED BY <2>10, <2>11, <2>12, <2>14, Zenon DEF PortalInv
<1>3. ASSUME UpdateAppFails(c) PROVE PortalInv'
  <2>1. /\ portal[c].pc = "update" /\ portal' = [portal EXCEPT ![c] = PortalIdle]
        /\ UNCHANGED <<apps, drawn, dead, shown, unsure>>
    BY <1>3, Zenon DEF UpdateAppFails
  <2>2. PortalTypeOK' /\ PortalRefs' /\ DeadForGood'
    BY <1>t, <1>r, <2>1, Zenon DEF PortalRefs, DeadForGood, PortalIdle, PortalInv, PortalTypeOK
  <2>3. \A d \in PortalCalls : "answer" \in {portal[d].pc, portal'[d].pc} => portal'[d] = portal[d]
    BY <1>t, <2>1, Zenon DEF PortalIdle, PortalTypeOK
  <2>4. Settled'
    BY <1>s, <2>1, <2>3, SMTT(60) DEF Settled, SettledAt, Answering
  <2>. QED BY <2>2, <2>4, Zenon DEF PortalInv
<1>. QED BY <1>1, <1>2, <1>3, Zenon

\* RotateSecret draws a secret and stores it; a rotation that is not alone makes
\* the app unsure, one that is alone settles it.
LEMMA RotateSecretStep ==
  ASSUME PortalInv, NEW c \in PortalCalls, NEW t \in Tenants, NEW a \in AppIds, RotateSecret(c, t, a)
  PROVE  PortalInv'
<1>t. PortalTypeOK BY Zenon DEF PortalInv
<1>r. PortalRefs BY Zenon DEF PortalInv
<1>s. Settled BY Zenon DEF PortalInv
<1>1. PICK s \in AppSecrets \ drawn :
        /\ Store(Rotated(t, a, s))
        /\ drawn' = drawn \cup {s}
        /\ portal' = [portal EXCEPT ![c] = [PortalIdle EXCEPT !.pc = "answer", !.secret = s,
                                                              !.app = IF AppOf(t, a) THEN a ELSE None]]
  BY DrawIn, ZenonT(60) DEF RotateSecret
<1>2. portal[c] = PortalIdle /\ UNCHANGED shown
  BY Zenon DEF RotateSecret
<1>3. CASE ~AppOf(t, a)
  <2>1. apps' = apps /\ unsure' = unsure /\ Store(apps)
    BY <1>1, <1>3, Zenon DEF RotateSecret, Rotated, Store
  <2>2. /\ portal'[c].pc = "answer" /\ portal'[c].app = None /\ portal'[c].secret = s
        /\ \A d \in PortalCalls \ {c} : portal'[d] = portal[d]
    BY <1>t, <1>1, <1>3, Zenon DEF PortalIdle, PortalTypeOK
  <2>3. PortalTypeOK'
    BY <1>t, <1>1, <1>2, <1>3, <2>1, ZenonT(60) DEF Store, PortalIdle, PortalTypeOK
  <2>4. PortalRefs'
    BY <1>t, <1>r, <1>1, <2>1, <2>2, Zenon DEF PortalRefs, PortalTypeOK
  <2>5. DeadForGood'
    BY <1>t, <1>1, <2>1, StoreDead, ZenonT(60) DEF PortalTypeOK
  <2>6. \A d \in PortalCalls, b \in AppIds :
          /\ (portal'[d].pc = "answer" /\ portal'[d].app = b) <=> (portal[d].pc = "answer" /\ portal[d].app = b)
          /\ portal[d].pc = "answer" => portal'[d] = portal[d]
    BY <1>2, <2>2, PortalAssumption DEF PortalIdle
  <2>7. Settled'
    <3>1. \A d \in PortalCalls, b \in AppIds : /\ Answering(d, b)' <=> Answering(d, b)
                                               /\ Answering(d, b) => portal'[d].secret = portal[d].secret
      BY <2>6, Zenon DEF Answering
    <3>2. ASSUME NEW b \in AppIds \ unsure PROVE SettledAt(b)'
      BY <1>s, <1>2, <2>1, <3>1, StaysSettled, Zenon
    <3>. QED BY <2>1, <3>2, Zenon DEF Settled
  <2>. QED BY <2>3, <2>4, <2>5, <2>7, Zenon DEF PortalInv
<1>4. CASE AppOf(t, a)
  <2> DEFINE table == [apps EXCEPT ![a] = [apps[a] EXCEPT !.secret = s]]
  <2>1. apps[a] \in AppRows
    BY <1>t, <1>4, Zenon DEF AppOf, PortalTypeOK
  <2>2. [apps[a] EXCEPT !.secret = s] \in AppRows
    BY <2>1, Zenon DEF AppRows
  <2>3. Store(table)
    BY <1>1, <1>4, Zenon DEF Rotated
  <2>4. table \in [AppIds -> AppRows \cup {None}]
    BY <1>t, <2>2, Zenon DEF PortalTypeOK
  <2>5. /\ table[a] # None /\ table[a].secret = s /\ table[a].status = apps[a].status
        /\ \A b \in AppIds \ {a} : table[b] = apps[b]
    BY <1>t, <2>1, <2>2, PortalAssumption, Zenon DEF AppRows, PortalTypeOK
  <2> HIDE DEF table
  <2>6. /\ portal'[c].pc = "answer" /\ portal'[c].app = a /\ portal'[c].secret = s
        /\ \A d \in PortalCalls \ {c} : portal'[d] = portal[d]
    BY <1>t, <1>1, <1>4, Zenon DEF PortalIdle, PortalTypeOK
  <2>7. apps' = table
    BY <2>3, Zenon DEF Store
  <2>8. unsure' = IF Unanswered(a) THEN unsure \cup {a} ELSE unsure \ {a}
    BY <1>4, Zenon DEF RotateSecret
  <2>9. PortalTypeOK'
    BY <1>t, <1>1, <1>2, <1>4, <2>3, <2>4, <2>7, <2>8, ZenonT(60) DEF Store, PortalIdle, PortalTypeOK
  <2>10. PortalRefs'
    BY <1>t, <1>r, <1>1, <2>5, <2>6, <2>7 DEF PortalRefs, PortalTypeOK
  <2>11. DeadForGood'
    BY <1>1, <2>3, <2>4, <2>5, StoreDead, ZenonT(60)
  <2>12. Settled'
    <3>1. ASSUME NEW b \in AppIds \ unsure', b # a PROVE SettledAt(b)'
      <4>1. \A d \in PortalCalls : /\ Answering(d, b)' <=> Answering(d, b)
                                   /\ Answering(d, b) => portal'[d].secret = portal[d].secret
        BY <1>2, <2>6, <3>1 DEF Answering, PortalIdle
      <4>2. apps'[b] = apps[b] /\ b \notin unsure BY <2>5, <2>7, <2>8, <3>1, Zenon
      <4>. QED BY <1>s, <1>2, <4>1, <4>2, StaysSettled, Zenon
    <3>2. ASSUME a \notin unsure' PROVE SettledAt(a)'
      <4>1. \A d \in PortalCalls : ~Answering(d, a) BY <2>8, <3>2, Zenon DEF Unanswered, Answering
      <4>2. \A d \in PortalCalls : Answering(d, a)' <=> d = c BY <2>6, <4>1, Zenon DEF Answering
      <4>3. apps'[a].secret = s BY <2>5, <2>7, Zenon
      <4>. QED BY <2>6, <4>2, <4>3, Zenon DEF SettledAt
    <3>. QED BY <3>1, <3>2, Zenon DEF Settled
  <2>. QED BY <2>9, <2>10, <2>11, <2>12, Zenon DEF PortalInv
<1>. QED BY <1>3, <1>4, Zenon

\* An answer shows the stored secret, or the app is unsure.
LEMMA SecretAnsweredStep ==
  ASSUME PortalInv, NEW c \in PortalCalls, AnswerSecret(c) \/ SecretLost(c)
  PROVE  PortalInv'
<1>t. PortalTypeOK BY Zenon DEF PortalInv
<1>r. PortalRefs BY Zenon DEF PortalInv
<1>s. Settled BY Zenon DEF PortalInv
<1>1. /\ portal[c].pc = "answer" /\ portal' = [portal EXCEPT ![c] = PortalIdle]
      /\ UNCHANGED <<apps, drawn, dead>>
  BY Zenon DEF AnswerSecret, SecretLost
<1>2. PortalRefs' /\ DeadForGood'
  BY <1>t, <1>r, <1>1, Zenon DEF PortalRefs, DeadForGood, PortalIdle, PortalInv, PortalTypeOK
<1>5. \A d \in PortalCalls, b \in AppIds : /\ Answering(d, b)' <=> d # c /\ Answering(d, b)
                                           /\ Answering(d, b)' => portal'[d].secret = portal[d].secret
  BY <1>t, <1>1, PortalAssumption, Zenon DEF Answering, PortalIdle, PortalTypeOK
<1>3. CASE AnswerSecret(c)
  <2>1. /\ shown' = IF portal[c].app = None THEN shown ELSE [shown EXCEPT ![portal[c].app] = portal[c].secret]
        /\ UNCHANGED unsure
    BY <1>3, Zenon DEF AnswerSecret
  <2>2. PortalTypeOK'
    BY <1>t, <1>r, <1>1, <2>1, Zenon DEF PortalIdle, PortalRefs, PortalTypeOK
  <2>3. ASSUME NEW b \in AppIds \ unsure, portal[c].app # b PROVE SettledAt(b)'
    <3>1. \A d \in PortalCalls : Answering(d, b)' <=> Answering(d, b) BY <1>5, <2>3, Zenon DEF Answering
    <3>2. shown'[b] = shown[b] BY <1>t, <2>1, <2>3, Zenon DEF PortalTypeOK
    <3>. QED BY <1>s, <1>1, <1>5, <3>1, <3>2, StaysSettled, Zenon
  <2>4. ASSUME NEW b \in AppIds \ unsure, portal[c].app = b, apps'[b] # None PROVE SettledAt(b)'
    <3>1. Answering(c, b) BY <1>1, <2>4, Zenon DEF Answering
    <3>2. SettledAt(b) BY <1>s, Zenon DEF Settled
    <3>3. \A d \in PortalCalls : ~Answering(d, b)' BY <1>1, <1>5, <2>4, <3>1, <3>2, Zenon DEF SettledAt
    <3>4. shown'[b] = apps'[b].secret
      BY <1>t, <1>1, <2>1, <2>4, <3>1, <3>2, PortalAssumption, Zenon DEF SettledAt, PortalTypeOK
    <3>. QED BY <3>3, <3>4, Zenon DEF SettledAt
  <2>5. Settled'
    BY <2>1, <2>3, <2>4, Zenon DEF Settled, SettledAt
  <2>. QED BY <1>2, <2>2, <2>5, Zenon DEF PortalInv
<1>4. CASE SecretLost(c)
  <2>1. unsure' = unsure \cup ({portal[c].app} \cap AppIds) /\ UNCHANGED shown
    BY <1>4, Zenon DEF SecretLost
  <2>2. PortalTypeOK'
    BY <1>t, <1>1, <2>1, Zenon DEF PortalIdle, PortalTypeOK
  <2>3. ASSUME NEW b \in AppIds \ unsure' PROVE SettledAt(b)'
    <3>1. \A d \in PortalCalls : Answering(d, b)' <=> Answering(d, b) BY <1>5, <2>1, Zenon DEF Answering
    <3>. QED BY <1>s, <1>1, <1>5, <2>1, <3>1, StaysSettled, Zenon
  <2>4. Settled'
    BY <2>3, Zenon DEF Settled
  <2>. QED BY <1>2, <2>2, <2>4, Zenon DEF PortalInv
<1>. QED BY <1>3, <1>4, Zenon

\* DeleteApp writes the status only.
LEMMA DeleteAppStep ==
  ASSUME PortalInv, NEW t \in Tenants, NEW a \in AppIds, DeleteApp(t, a)
  PROVE  PortalInv'
<1>t. PortalTypeOK BY Zenon DEF PortalInv
<1>r. PortalRefs BY Zenon DEF PortalInv
<1>s. Settled BY Zenon DEF PortalInv
<1> DEFINE table == IF AppOf(t, a) THEN [apps EXCEPT ![a] = [apps[a] EXCEPT !.status = "deleted"]] ELSE apps
<1>1. Store(table) /\ UNCHANGED <<portal, drawn, shown, unsure>>
  BY Zenon DEF DeleteApp
<1>2. AppOf(t, a) => [apps[a] EXCEPT !.status = "deleted"] \in AppRows
  BY <1>t, Zenon DEF AppOf, AppRows, PortalTypeOK
<1>3. table \in [AppIds -> AppRows \cup {None}]
  BY <1>t, <1>2, Zenon DEF PortalTypeOK
<1>4. \A b \in AppIds : /\ table[b] = None <=> apps[b] = None
                        /\ apps[b] # None => /\ table[b].secret = apps[b].secret
                                             /\ apps[b].status = "deleted" => table[b].status = "deleted"
  BY <1>t, <1>2, PortalAssumption, Zenon DEF AppOf, AppRows, PortalTypeOK
<1> HIDE DEF table
<1>5. apps' = table
  BY <1>1, Zenon DEF Store
<1>6. PortalTypeOK'
  BY <1>t, <1>1, <1>3, <1>5, Zenon DEF Store, PortalTypeOK
<1>7. PortalRefs'
  BY <1>t, <1>r, <1>1, <1>4, <1>5, Zenon DEF PortalRefs, PortalTypeOK
<1>8. DeadForGood'
  BY <1>1, <1>3, <1>4, StoreDead, Zenon
<1>9. Settled'
  <2>1. ASSUME NEW b \in AppIds \ unsure PROVE SettledAt(b)'
    <3>1. apps'[b] # None => apps[b] # None /\ apps'[b].secret = apps[b].secret BY <1>4, <1>5, Zenon
    <3>. QED BY <1>s, <1>1, <3>1, StaysSettled, Zenon DEF Answering
  <2>. QED BY <1>1, <2>1, Zenon DEF Settled
<1>. QED BY <1>6, <1>7, <1>8, <1>9, Zenon DEF PortalInv

\* Every step of the portal keeps the invariant.
LEMMA PortalInvStep == PortalInv /\ [PortalNext]_portalVars => PortalInv'
<1> SUFFICES ASSUME PortalInv, [PortalNext]_portalVars PROVE PortalInv'
  BY Zenon
<1>1. CASE PortalRestart
  <2> USE <1>1 DEF PortalInv, PortalTypeOK, PortalRestart, PortalIdle
  <2>1. PortalTypeOK' /\ DeadForGood'
    BY Zenon DEF DeadForGood
  <2>2. PortalRefs'
    BY Zenon DEF PortalRefs
  <2>3. Settled'
    BY SMTT(60) DEF Settled, SettledAt, Answering, Unanswered
  <2>. QED BY <2>1, <2>2, <2>3, Zenon
<1>2. CASE UNCHANGED portalVars
  BY <1>2, SMTT(60) DEF portalVars, PortalInv, PortalTypeOK, PortalRefs, DeadForGood, Settled, SettledAt, Answering
<1>. QED
  BY <1>1, <1>2, CreateAppStep, UpdateAppStep, RotateSecretStep, SecretAnsweredStep, DeleteAppStep, Zenon DEF PortalNext

\* The inductive invariant of the developer portal (developer_api.go,
\* developer_app_store.go) holds in every reachable state.
THEOREM PortalInvariance == PortalSpec => []PortalInv
  BY PortalInvInit, PortalInvStep, PTL DEF PortalSpec

\* No update or rotation in flight brings back credentials that a deletion or a
\* rotation ended (Update, RotateSecret, Delete).
THEOREM EndedStayDead == PortalSpec => []EndedCredentialsStayDead
<1>1. PortalInv => EndedCredentialsStayDead
  BY Zenon DEF PortalInv, PortalTypeOK, DeadForGood, EndedCredentialsStayDead, ValidateCredentials, GetByClientID
<1>. QED BY <1>1, PortalInvariance, PTL

\* The secret shown last works, unless its rotation overlapped another or the
\* creation, or an answer was lost (createApp, rotateSecret).
THEOREM ShownWorks == PortalSpec => []ShownSecretWorks
<1>1. PortalInv => ShownSecretWorks
  BY SMTT(60) DEF PortalInv, PortalTypeOK, Settled, SettledAt, Answering, Unanswered, ShownSecretWorks,
         ValidateCredentials, GetByClientID
<1>. QED BY <1>1, PortalInvariance, PTL
-----------------------------------------------------------------------------
(* Roles and permissions *)

\* The id of a row was given out before, and ids are given out once.
RowsKnown ==
  /\ \A r \in RoleIds : roles[r] # None => r \in knownIds
  /\ \A p \in PermissionIds : permissions[p] # None => p \in knownIds

RbacInv == RbacTypeOK /\ RowsKnown /\ AssignmentsResolve

\* Nothing exists at the start.
LEMMA RbacInvInit == RbacInit => RbacInv
  BY SMTT(60) DEF RbacInit, RbacInv, RbacTypeOK, RowsKnown, AssignmentsResolve

\* Every step of the four tables keeps the invariant: one step per operation.
LEMMA RbacInvStep == RbacInv /\ [RbacNext]_rbacVars => RbacInv'
<1> SUFFICES ASSUME RbacInv, [RbacNext]_rbacVars PROVE RbacInv'
  BY Zenon
<1> USE RbacAssumption DEF RbacInv, RbacTypeOK, RowsKnown, AssignmentsResolve
<1>1. ASSUME NEW t \in Tenants, NEW n \in RoleNames, CreateRole(t, n) PROVE RbacInv'
  <2>1. PICK r \in RoleIds \ knownIds : /\ roles' = [roles EXCEPT ![r] = [tenant |-> t, name |-> n]]
                                        /\ knownIds' = knownIds \cup {r}
    BY <1>1, ZenonT(60) DEF CreateRole
  <2>2. [tenant |-> t, name |-> n] \in RoleRows
    BY Zenon DEF RoleRows
  <2>3. UNCHANGED <<permissions, rolePermissions, userRoles>>
    BY <1>1, Zenon DEF CreateRole
  <2>4. RbacTypeOK'
    BY <2>1, <2>2, <2>3, Zenon
  <2>5. RowsKnown'
    BY <2>1, <2>3, Zenon
  <2>6. AssignmentsResolve'
    BY <2>1, <2>2, <2>3, Zenon DEF UserRoles
  <2>. QED BY <2>4, <2>5, <2>6, Zenon
<1>2. ASSUME NEW r \in RoleIds, NEW n \in RoleNames \cup {None}, UpdateRole(r, n) PROVE RbacInv'
  <2>1. roles[r] \in RoleRows
    BY <1>2, Zenon DEF UpdateRole
  <2>2. [roles[r] EXCEPT !.name = n] \in RoleRows
    BY <2>1, Zenon DEF RoleRows
  <2>3. roles' = [roles EXCEPT ![r] = [roles[r] EXCEPT !.name = n]]
    BY <1>2, Zenon DEF UpdateRole
  <2>4. UNCHANGED <<permissions, rolePermissions, userRoles, knownIds>>
    BY <1>2, Zenon DEF UpdateRole
  <2>5. RbacTypeOK' /\ RowsKnown'
    BY <1>2, <2>2, <2>3, <2>4 DEF UpdateRole
  <2>6. AssignmentsResolve'
    BY <2>2, <2>3, <2>4, Zenon DEF UserRoles
  <2>. QED BY <2>5, <2>6, Zenon
<1>3. ASSUME NEW t \in Tenants, NEW r \in RoleIds, DeleteRole(t, r) PROVE RbacInv'
  <2>1. RbacTypeOK' /\ RowsKnown'
    BY <1>3, Zenon DEF DeleteRole
  <2>2. ASSUME NEW x \in rolePermissions' PROVE roles'[x[1]] # None /\ permissions'[x[2]] # None
    BY <1>3, <2>2, Zenon DEF DeleteRole
  <2>3. ASSUME NEW x \in userRoles' PROVE roles'[x.role] # None
    BY <1>3, <2>3, Zenon DEF DeleteRole, UserRoles
  <2>. QED BY <2>1, <2>2, <2>3, Zenon
<1>4. ASSUME NEW t \in Tenants, NEW res \in Resources, NEW act \in Actions, CreatePermission(t, res, act)
      PROVE RbacInv'
  <2>1. PICK p \in PermissionIds \ knownIds :
          /\ permissions' = [permissions EXCEPT ![p] = [tenant |-> t, resource |-> res, action |-> act]]
          /\ knownIds' = knownIds \cup {p}
    BY <1>4, ZenonT(60) DEF CreatePermission
  <2>2. [tenant |-> t, resource |-> res, action |-> act] \in PermissionRows
    BY Zenon DEF PermissionRows
  <2>3. UNCHANGED <<roles, rolePermissions, userRoles>>
    BY <1>4, Zenon DEF CreatePermission
  <2>4. RbacTypeOK' /\ RowsKnown'
    BY <2>1, <2>2, <2>3, Zenon
  <2>5. AssignmentsResolve'
    BY <2>1, <2>2, <2>3, Zenon
  <2>. QED BY <2>4, <2>5, Zenon
<1>5. ASSUME NEW r \in RoleIds, NEW p \in PermissionIds, AssignPermissionToRole(r, p) PROVE RbacInv'
  BY <1>5 DEF AssignPermissionToRole
<1>6. ASSUME NEW r \in RoleIds, NEW p \in PermissionIds, RemovePermissionFromRole(r, p) PROVE RbacInv'
  BY <1>6, Zenon DEF RemovePermissionFromRole
<1>7. ASSUME NEW t \in Tenants, NEW u \in UserIds, NEW r \in RoleIds, AssignRoleToUser(t, u, r) PROVE RbacInv'
  BY <1>7 DEF AssignRoleToUser, UserRoles
<1>8. ASSUME NEW u \in UserIds, NEW r \in RoleIds, RemoveRoleFromUser(u, r) PROVE RbacInv'
  BY <1>8, Zenon DEF RemoveRoleFromUser
<1>9. CASE UNCHANGED rbacVars
  BY <1>9, Zenon DEF rbacVars
<1>. QED
  BY <1>1, <1>2, <1>3, <1>4, <1>5, <1>6, <1>7, <1>8, <1>9, Zenon
  DEF RbacNext, RoleStep, PermissionStep, UserRoleStep

\* A permission keeps its meaning: no step changes the row of one that exists.
LEMMA PermissionsStay ==
  ASSUME RbacInv, [RbacNext]_rbacVars, NEW p \in PermissionIds, permissions[p] # None
  PROVE  permissions'[p] = permissions[p]
<1>1. ASSUME NEW t \in Tenants, NEW res \in Resources, NEW act \in Actions, CreatePermission(t, res, act)
      PROVE permissions'[p] = permissions[p]
  BY <1>1, Zenon DEF CreatePermission, RbacInv, RbacTypeOK, RowsKnown
<1>2. CASE RoleStep
  BY <1>2, Zenon DEF RoleStep, CreateRole, UpdateRole, DeleteRole, AssignPermissionToRole, RemovePermissionFromRole
<1>3. CASE UserRoleStep
  BY <1>3, Zenon DEF UserRoleStep, AssignRoleToUser, RemoveRoleFromUser
<1>4. CASE UNCHANGED rbacVars
  BY <1>4, Zenon DEF rbacVars
<1>. QED BY <1>1, <1>2, <1>3, <1>4, Zenon DEF RbacNext, PermissionStep

\* If neither the role nor the permission through which someone holds
\* something is newly assigned, they held it before.
LEMMA GrantsStep == RbacInv /\ [RbacNext]_rbacVars => GrantStep
<1> SUFFICES ASSUME RbacInv, [RbacNext]_rbacVars,
                    NEW t \in Tenants, NEW u \in UserIds, NEW res \in Resources, NEW act \in Actions,
                    ~HasPermission(t, u, res, act), HasPermission(t, u, res, act)'
             PROVE  \E x \in userRoles' :
                      /\ x.user = u /\ x.tenant = t
                      /\ \/ x \notin userRoles
                         \/ \E p \in PermissionIds : <<x.role, p>> \in rolePermissions' \ rolePermissions
  BY ZenonT(60) DEF GrantStep
<1>1. PICK q \in PermissionIds :
        /\ \E x \in userRoles' : x.user = u /\ x.tenant = t /\ <<x.role, q>> \in rolePermissions'
        /\ permissions'[q].resource \in {res, "*"} /\ permissions'[q].action \in {act, "*", "admin"}
  BY Zenon DEF HasPermission, GetUserPermissions
<1>2. PICK x \in userRoles' : x.user = u /\ x.tenant = t /\ <<x.role, q>> \in rolePermissions'
  BY <1>1, Zenon
<1>3. ASSUME x \in userRoles, <<x.role, q>> \in rolePermissions PROVE FALSE
  <2>1. permissions[q] # None
    BY <1>3, SMTT(60) DEF RbacInv, AssignmentsResolve
  <2>2. permissions'[q] = permissions[q]
    BY <2>1, PermissionsStay, Zenon
  <2>3. permissions[q] \in GetUserPermissions(t, u)
    BY <1>2, <1>3, Zenon DEF GetUserPermissions
  <2>. QED BY <1>1, <2>2, <2>3, Zenon DEF HasPermission
<1>. QED BY <1>2, <1>3, Zenon

\* The inductive invariant of the role tables holds in every reachable state.
THEOREM RbacInvariance == RbacSpec => []RbacInv
  BY RbacInvInit, RbacInvStep, PTL DEF RbacSpec

\* No assignment outlives its role (DeleteRole).
THEOREM AssignmentsResolveAlways == RbacSpec => []AssignmentsResolve
<1>1. RbacInv => AssignmentsResolve
  BY Zenon DEF RbacInv
<1>. QED BY <1>1, RbacInvariance, PTL

\* Nobody gains a permission but by an assignment (HasPermission).
THEOREM GainedByAssignment == RbacSpec => GrantedByAssignment
<1>1. RbacInv /\ [RbacNext]_rbacVars => [GrantStep]_rbacVars
  BY GrantsStep, Zenon
<1>. QED BY <1>1, RbacInvariance, PTL DEF RbacSpec, GrantedByAssignment
=============================================================================
