------------------------------ MODULE Passkeys ------------------------------
(***************************************************************************)
(* WebAuthn ceremonies of authsvc (internal/auth/mfa_api.go,               *)
(* webauthn_store.go and the service's four WebAuthn functions).  The      *)
(* challenge of a ceremony waits in one map from users to sessions, shared *)
(* by registrations and logins, which a session does not tell apart, and   *)
(* guarded by no lock; finishing reads it, verifies, stores, and then      *)
(* deletes whatever session the user has by now.  Concurrent writes to a   *)
(* Go map may abort the process, which is one of the moments at which      *)
(* PasskeyRestart happens.                                                 *)
(***************************************************************************)
EXTENDS Tenancy, Naturals, FiniteSets

CONSTANTS
  PasskeyUsers,
  Authenticators,  \* each holds one credential, whose id it is
  Challenges,      \* random
  Ceremonies,      \* goroutines that may serve a ceremony at the same time
  MaxSignatures,   \* bound: signatures an authenticator makes
  MaxReplies       \* bound: replies that exist

VARIABLES
  sessions,      \* webAuthnSessions: user -> session or None
  credentials,   \* webauthn_credentials: credential id -> row or None
  ceremony,      \* per goroutine: its next step and what it works on
  issued,        \* history: challenge -> the session it was drawn for, or None
  replies,       \* the signed answers of authenticators; any may arrive, at any time, again
  signatures,    \* authenticator -> its signature counter
  accepted,      \* history: challenges for which a ceremony was answered with success
  tokens         \* history: access tokens, as the user and the reply they were issued for

passkeyVars == <<sessions, credentials, ceremony, issued, replies, signatures, accepted, tokens>>

Kinds == {"create", "get"}

\* SessionData: the user and the challenge
Sessions == [user : PasskeyUsers, challenge : Challenges]

\* What an authenticator signs: the kind of ceremony (webauthn.create or
\* webauthn.get), the challenge, its credential and its counter
Replies == [kind : Kinds, challenge : Challenges, credential : Authenticators, count : 1..MaxSignatures]

CredentialRows == [user : PasskeyUsers, count : 0..MaxSignatures, warned : BOOLEAN]

ASSUME PasskeyAssumption ==
  /\ None \notin Sessions \cup Replies \cup CredentialRows
  /\ MaxSignatures \in Nat \ {0}

CeremonyStates ==
  [pc : {"idle", "store", "verify", "save", "update", "delete"},
   session : Sessions \cup {None}, user : PasskeyUsers \cup {None}, reply : Replies \cup {None},
   row : CredentialRows \cup {None}, late : BOOLEAN, overtaken : BOOLEAN]

CeremonyIdle == [pc |-> "idle", session |-> None, user |-> None, reply |-> None, row |-> None,
                 late |-> FALSE, overtaken |-> FALSE]

PasskeyTypeOK ==
  /\ sessions \in [PasskeyUsers -> Sessions \cup {None}]
  /\ credentials \in [Authenticators -> CredentialRows \cup {None}]
  /\ ceremony \in [Ceremonies -> CeremonyStates]
  /\ issued \in [Challenges -> Sessions \cup {None}]
  /\ replies \subseteq Replies
  /\ signatures \in [Authenticators -> 0..MaxSignatures]
  /\ accepted \subseteq Challenges
  /\ tokens \subseteq [user : PasskeyUsers, reply : Replies]

PasskeyInit ==
  /\ sessions = [u \in PasskeyUsers |-> None]
  /\ credentials = [x \in Authenticators |-> None]
  /\ ceremony = [c \in Ceremonies |-> CeremonyIdle]
  /\ issued = [h \in Challenges |-> None]
  /\ replies = {} /\ accepted = {} /\ tokens = {}
  /\ signatures = [x \in Authenticators |-> 0]  \* of this credential

-----------------------------------------------------------------------------
(* The credentials' table *)

\* ListCredentials: the rows of the user
ListCredentials(u) == {x \in Authenticators : credentials[x] # None /\ credentials[x].user = u}

EndCeremony(c) == ceremony' = [ceremony EXCEPT ![c] = CeremonyIdle]

-----------------------------------------------------------------------------
(* Begin: the library draws a challenge, the handler stores the session *)

\* BeginWebAuthnLogin needs a credential; BeginWebAuthnRegistration goes on also
\* when the credentials cannot be listed.
MayBegin(u, kind) == kind = "get" => ListCredentials(u) # {}

BeginChallenge(c, u, kind) ==
  /\ ceremony[c] = CeremonyIdle
  /\ MayBegin(u, kind)
  /\ \E h \in Draw({x \in Challenges : issued[x] = None}) :
       LET s == [user |-> u, challenge |-> h] IN
       /\ issued' = [issued EXCEPT ![h] = s]
       /\ ceremony' = [ceremony EXCEPT ![c] = [CeremonyIdle EXCEPT !.pc = "store", !.session = s]]
  /\ UNCHANGED <<sessions, credentials, replies, signatures, accepted, tokens>>

BeginRegistration(c, u) == BeginChallenge(c, u, "create")

BeginLogin(c, u) == BeginChallenge(c, u, "get")

\* The options are answered, and the user's authenticator may sign them; a
\* session of the user that is still there is replaced.
StoreSession(c) ==
  LET s == ceremony[c].session IN
  /\ ceremony[c].pc = "store"
  /\ sessions' = [sessions EXCEPT ![s.user] = s]
  /\ EndCeremony(c)
  /\ UNCHANGED <<credentials, issued, replies, signatures, accepted, tokens>>

\* The client: any authenticator at hand signs a challenge that was answered, for
\* either kind of ceremony; what that is good for is for the server to decide.
Sign(h, x, kind) ==
  LET s == issued[h] IN
  /\ s # None
  /\ \A c \in Ceremonies : ceremony[c].pc # "store" \/ ceremony[c].session # s
  /\ signatures[x] < MaxSignatures /\ Cardinality(replies) < MaxReplies
  /\ signatures' = [signatures EXCEPT ![x] = @ + 1]
  /\ replies' = replies \cup {[kind |-> kind, challenge |-> h, credential |-> x, count |-> signatures[x] + 1]}
  /\ UNCHANGED <<sessions, credentials, ceremony, issued, accepted, tokens>>

-----------------------------------------------------------------------------
(* Finish *)

\* The library's FinishRegistration and FinishLogin: the reply must be of the
\* handler's kind and to the challenge of the session, and the session the user's.
Matches(s, u, kind, r) == s.user = u /\ s.challenge = r.challenge /\ r.kind = kind

\* A reply comes in and its handler reads the map.  The handler is that of the
\* route, and the user the one of the query or the header, whatever the body holds.
\* Without a session, or with one the reply does not match, it will end and has
\* changed nothing: it goes on only in the other case.
Arrive(c, u, kind, r) ==
  /\ ceremony[c] = CeremonyIdle
  /\ sessions[u] # None /\ Matches(sessions[u], u, kind, r)
  /\ ceremony' = [ceremony EXCEPT ![c] = [CeremonyIdle EXCEPT !.pc = IF kind = "get" THEN "verify" ELSE "save",
                                            !.user = u, !.reply = r, !.late = r.challenge \in accepted]]
  /\ UNCHANGED <<sessions, credentials, issued, replies, signatures, accepted, tokens>>

\* SaveCredential: the row.  No migration creates webauthn_credentials; the
\* model takes a table with the entity's columns and, as UpdateCredential does,
\* credential_id for a key.
NewCredential(q) == [user |-> q.user, count |-> q.reply.count, warned |-> FALSE]

\* FinishWebAuthnRegistration: the attestation may not verify, and the INSERT may fail.
FinishRegistration(c) ==
  LET q == ceremony[c] IN
  /\ q.pc = "save"
  /\ \/ /\ credentials[q.reply.credential] = None
        /\ credentials' = [credentials EXCEPT ![q.reply.credential] = NewCredential(q)]
        /\ ceremony' = [ceremony EXCEPT ![c].pc = "delete"]
     \/ EndCeremony(c) /\ UNCHANGED credentials
  /\ UNCHANGED <<sessions, issued, replies, signatures, accepted, tokens>>

\* Mutant: the credentials of all users are candidates.
KnownCredential(q) == credentials[q.reply.credential] # None

\* The credential that signed is one ListCredentials returned.
OwnCredential(q) == q.reply.credential \in ListCredentials(q.user)

\* UpdateCounter of the library: a counter that does not grow is a warning,
\* which is not an error, and leaves the counter.
UpdateCounter(row, count) ==
  IF count <= row.count /\ (count # 0 \/ row.count # 0) THEN [row EXCEPT !.warned = TRUE] ELSE [row EXCEPT !.count = count]

\* FinishWebAuthnLogin up to the library's verdict: the credentials are listed
\* anew; a failing query ends the login.
VerifyLogin(c) ==
  LET q == ceremony[c] IN
  /\ q.pc = "verify"
  /\ \/ /\ OwnCredential(q)
        /\ ceremony' = [ceremony EXCEPT ![c].pc = "update",
                          ![c].row = UpdateCounter(credentials[q.reply.credential], q.reply.count)]
     \/ EndCeremony(c)
  /\ UNCHANGED <<sessions, credentials, issued, replies, signatures, accepted, tokens>>

\* Mutant: the counter of the reply is stored, whether or not the library took it.
CounterOfReply(q) ==
  [credentials EXCEPT ![q.reply.credential].count = q.reply.count, ![q.reply.credential].warned = q.row.warned]

\* UpdateCredential: the counter and the warning, by credential id
CounterOfCredential(q) ==
  [credentials EXCEPT ![q.reply.credential].count = q.row.count, ![q.reply.credential].warned = q.row.warned]

\* A failing update is logged and the login goes on; the token is made.
UpdateSignCount(c) ==
  LET q == ceremony[c] IN
  /\ q.pc = "update"
  /\ \/ /\ credentials' = CounterOfCredential(q)
        /\ ceremony' = [d \in Ceremonies |->
             IF d = c THEN [ceremony[d] EXCEPT !.pc = "delete"]
             ELSE IF ceremony[d].pc = "update" /\ ceremony[d].reply.credential = q.reply.credential
             THEN [ceremony[d] EXCEPT !.overtaken = TRUE]
             ELSE ceremony[d]]
     \/ ceremony' = [ceremony EXCEPT ![c].pc = "delete"] /\ UNCHANGED credentials
  /\ tokens' = tokens \cup {[user |-> q.user, reply |-> q.reply]}
  /\ UNCHANGED <<sessions, issued, replies, signatures, accepted>>

\* Mutant: the session stays until the next ceremony replaces it.
ForgetNothing(u) == sessions

\* delete(webAuthnSessions, userID), whichever session that is now
Forget(u) == [sessions EXCEPT ![u] = None]

\* The session is deleted and the success answered.
DeleteSession(c) ==
  LET q == ceremony[c] IN
  /\ q.pc = "delete"
  /\ sessions' = Forget(q.user)
  /\ accepted' = accepted \cup {q.reply.challenge}
  /\ EndCeremony(c)
  /\ UNCHANGED <<credentials, issued, replies, signatures, tokens>>

\* authsvc stops, or dies of a concurrent map write, and starts again.
PasskeyRestart ==
  /\ sessions' = [u \in PasskeyUsers |-> None]
  /\ ceremony' = [c \in Ceremonies |-> CeremonyIdle]
  /\ UNCHANGED <<credentials, issued, replies, signatures, accepted, tokens>>

PasskeyNext ==
  \/ \E c \in Ceremonies :
       \/ \E u \in PasskeyUsers : BeginRegistration(c, u) \/ BeginLogin(c, u)
       \/ \E u \in PasskeyUsers, kind \in Kinds, r \in replies : Arrive(c, u, kind, r)
       \/ StoreSession(c) \/ FinishRegistration(c) \/ VerifyLogin(c)
       \/ UpdateSignCount(c) \/ DeleteSession(c)
  \/ \E h \in Challenges, x \in Authenticators, kind \in Kinds : Sign(h, x, kind)
  \/ PasskeyRestart

PasskeySpec == PasskeyInit /\ [][PasskeyNext]_passkeyVars

-----------------------------------------------------------------------------
(* Properties *)

\* A reply that is sent again after its ceremony was answered with success is
\* refused, with whichever user it is sent: its session is gone and no later Begin
\* brings that challenge back, however ceremonies of the same user overlap
\* (finishWebAuthnLogin, finishWebAuthnRegistration).
ReplayRefused == \A c \in Ceremonies : ~ceremony[c].late

\* A challenge was drawn for user u.
DrawnFor(h, u) == issued[h] # None /\ issued[h].user = u

\* A token for a user is issued only for the answer to a challenge that was drawn
\* for them, signed by a credential that also answered a challenge of theirs in a
\* registration: neither a reply to another user's challenge nor another user's
\* credential is worth anything, whichever route and user it is sent with and
\* however ceremonies overlap.  The challenge may be one of a registration: the
\* sessions do not tell (finishWebAuthnLogin, FinishWebAuthnLogin).
TokensProven ==
  \A k \in tokens :
    /\ DrawnFor(k.reply.challenge, k.user)
    /\ \E p \in replies : /\ p.kind = "create" /\ p.credential = k.reply.credential
                          /\ DrawnFor(p.challenge, k.user)

\* A counter that decreases or a warning that disappears is written by a login
\* whose read another one has overtaken.
RegressIsOvertaken ==
  \A x \in Authenticators :
    credentials[x] # None /\ credentials'[x] # None
      /\ (credentials'[x].count < credentials[x].count \/ (credentials[x].warned /\ ~credentials'[x].warned)) =>
        \E c \in Ceremonies : /\ ceremony[c].pc = "update" /\ ceremony'[c].pc # "update"
                              /\ ceremony[c].reply.credential = x
                              /\ ceremony[c].overtaken

\* A stored signature counter decreases, or a clone warning disappears, only by
\* a login that another login with the same credential overtook between its
\* read and its update (FinishWebAuthnLogin, UpdateCredential).
CounterRegressesOnlyOvertaken == [][RegressIsOvertaken]_passkeyVars
====
