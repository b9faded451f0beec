---------------------------- MODULE OAuthTokens ----------------------------
(***************************************************************************)
(* The OAuth 2.0 token service of authsvc (internal/auth/service.go) with  *)
(* the stores NewService falls back to: authorization codes, refresh       *)
(* tokens and the revocation list in maps of the process, each call        *)
(* atomic under its mutex, and the OAuth clients and security events in    *)
(* Postgres.  A request is served by a goroutine of its own that makes     *)
(* several store calls and holds no lock between them: every store call is *)
(* a step here, so the steps of concurrent requests interleave.            *)
(*                                                                         *)
(* An access token is the JWT itself, a value: its claims and the process  *)
(* that signed it (every process generates its own RSA key).  Two tokens   *)
(* with equal claims are one token, as with a deterministic signature.     *)
(***************************************************************************)
EXTENDS Integers, FiniteSets

CONSTANTS
  Tenants, Clients, Uris, Scopes, Secrets,
  Verifiers, Challenges,
  S256,            \* the PKCE transformation, Verifiers -> Challenges
  CodeIds,         \* authorization codes (32 random bytes, never repeated)
  TokenIds,        \* refresh tokens (32 random bytes, never repeated)
  Requests,        \* goroutines that may serve a request at the same time
  Registrations,   \* the OAuth clients administrators create
  Updates,         \* the changes administrators make to one
  Calls,           \* which operations the callers of this instance use
  CodeTTL, AccessTTL, RefreshTTL,  \* 5 minutes, 1 hour, 7 days, in clock ticks
  TicksPerSecond,  \* JWT times are cut to whole seconds
  MaxTime,         \* bound: last clock tick
  MaxEpoch,        \* bound: number of restarts
  None

\* What validateCreateInput and validateUpdateInput let through: at least one
\* redirect URI and scope, a secret when confidential; None in an update is a
\* field the administrator does not send.
ASSUME AdminAssumption ==
  /\ \A reg \in Registrations :
       /\ reg.type \in {"public", "confidential"}
       /\ reg.redirects \in (SUBSET Uris) \ {{}} /\ reg.scopes \in (SUBSET Scopes) \ {{}}
       /\ reg.secret \in Secrets
  /\ \A upd \in Updates :
       /\ upd.type \in {"public", "confidential", None}
       /\ upd.redirects \in ((SUBSET Uris) \ {{}}) \cup {None}
       /\ upd.scopes \in ((SUBSET Scopes) \ {{}}) \cup {None}
       /\ upd.secret \in Secrets \cup {None}

ASSUME TimeAssumption ==
  /\ CodeTTL \in Nat /\ AccessTTL \in Nat /\ RefreshTTL \in Nat
  /\ TicksPerSecond \in Nat \ {0} /\ MaxTime \in Nat /\ MaxEpoch \in Nat

ASSUME NoneAssumption ==
  /\ None \notin Tenants \cup Clients \cup Uris
  /\ None \notin CodeIds \cup TokenIds
  /\ CodeIds \cap TokenIds = {}

\* SHA-256 does not collide on the verifiers in use.
ASSUME PkceAssumption ==
  /\ S256 \in [Verifiers -> Challenges]
  /\ \A v, w \in Verifiers : S256[v] = S256[w] => v = w

VARIABLES
  clients,   \* oauth_clients: tenant and client id -> registration or None
  codes,     \* authorizationCodeStore.codes
  refresh,   \* refreshTokenStore.tokens
  revoked,   \* tokenRevocationStore.revoked
  signals,   \* security_events
  now,       \* the clock
  epoch,     \* which process (and signing key) is running
  reqs,      \* per goroutine: where it is and what it holds
  authz,     \* history: what each authorization code was issued for
  family,    \* history: the code each refresh token descends from
  minted,    \* history: access tokens handed out, with the code they descend from
  uses,      \* history: how often a code or refresh token was exchanged
  acked,     \* history: tokens whose revocation was acknowledged
  reported   \* history: tokens introspection reported as dead

stores == <<codes, refresh, revoked>>
history == <<authz, family, minted, uses, acked, reported>>
vars == <<clients, codes, refresh, revoked, signals, now, epoch, reqs,
          authz, family, minted, uses, acked, reported>>

-----------------------------------------------------------------------------
(* Types *)

\* bcrypt.GenerateFromPassword; comparing is equality of hashes here
Bcrypt(secret) == <<"bcrypt", secret>>

ClientConfigs == [type : {"public", "confidential"}, redirects : (SUBSET Uris) \ {{}},
                  scopes : (SUBSET Scopes) \ {{}}, hash : {Bcrypt(s) : s \in Secrets} \cup {None}]

AccessTokens == [tenant : Tenants, client : Clients, scope : SUBSET Scopes,
                 subject : {"user", "client"}, iat : Nat, exp : Nat, epoch : Nat]

CodeEntries == [client : Clients, uri : Uris, scope : SUBSET Scopes,
                tenant : Tenants, challenge : Challenges, exp : Nat]

RefreshEntries == [client : Clients, tenant : Tenants, scope : SUBSET Scopes, exp : Nat]

Authorizations == [client : Clients, uri : Uris, scope : SUBSET Scopes,
                   tenant : Tenants, challenge : Challenges, allowed : SUBSET Scopes]

PCs == {"idle", "authorize.save", "code.get", "code.delete", "refresh.get",
        "refresh.delete", "issue", "cc.secret", "introspect.parse",
        "introspect.signals", "revoke.delete"}

Responses == {"none", "error", "code", "tokens", "active", "inactive", "revoked"}

Tokens == TokenIds \cup AccessTokens

\* The locals a handler carries from one store call to the next.  late and
\* origin are history: whether the presented credential was already used up
\* or revoked when the request arrived, and the code it descends from.
RequestStates ==
  [pc : PCs, tenant : Tenants \cup {None}, client : Clients \cup {None},
   cred : CodeIds \cup Tokens \cup {None}, uri : Uris \cup {None},
   pkce : Verifiers \cup Challenges \cup {None}, secret : Secrets \cup {None},
   scope : SUBSET Scopes, allowed : SUBSET Scopes, exp : Nat,
   origin : CodeIds \cup {None}, late : BOOLEAN, resp : Responses]

Idle == [pc |-> "idle", tenant |-> None, client |-> None, cred |-> None, uri |-> None,
         pkce |-> None, secret |-> None, scope |-> {}, allowed |-> {}, exp |-> 0,
         origin |-> None, late |-> FALSE, resp |-> "none"]

\* None stands for "absent" in every map.
ASSUME NullAssumption ==
  /\ None \notin ClientConfigs \cup CodeEntries \cup RefreshEntries \cup Authorizations
  /\ None \notin AccessTokens
  /\ \A x \in CodeIds \cup TokenIds : x \notin AccessTokens

TypeOK ==
  /\ clients \in [Tenants \X Clients -> ClientConfigs \cup {None}]
  /\ codes \in [CodeIds -> CodeEntries \cup {None}]
  /\ refresh \in [TokenIds -> RefreshEntries \cup {None}]
  /\ revoked \in SUBSET Tokens
  /\ signals \in SUBSET [subject : Clients, time : Nat]
  /\ now \in Nat /\ epoch \in Nat
  /\ reqs \in [Requests -> RequestStates]
  /\ authz \in [CodeIds -> Authorizations \cup {None}]
  /\ family \in [TokenIds -> CodeIds \cup {None}]
  /\ minted \in SUBSET [token : AccessTokens, origin : CodeIds \cup {None}, at : Nat]
  /\ uses \in [CodeIds \cup TokenIds -> Nat]
  /\ acked \in SUBSET Tokens
  /\ reported \in SUBSET Tokens


-----------------------------------------------------------------------------
(* Helpers *)

Free(r) == reqs[r].pc = "idle"

\* The response is sent and the goroutine ends.
AnswerTo(r, late, resp) ==
  reqs' = [reqs EXCEPT ![r] = [Idle EXCEPT !.late = late, !.resp = resp]]

Answer(r, resp) == AnswerTo(r, reqs[r].late, resp)

Goto(r, pc) == reqs' = [reqs EXCEPT ![r].pc = pc]

\* oauthclient.Repository.GetClient as resolveClient uses it: a missing row and
\* a failing query both end the request with an error.
ResolveClient(t, c) == {clients[<<t, c>>], None}

AllowsRedirect(cfg, uri) == uri \in cfg.redirects

ValidateScopes(cfg, scope) == scope \subseteq cfg.scopes

VerifyClientSecret(secret, hash) == hash = Bcrypt(secret)

VerifyCodeChallenge(challenge, verifier) == S256[verifier] = challenge

\* handleAuthorizationCodeGrant's checks of the stored code
CodeMatches(e, q) ==
  /\ now <= e.exp
  /\ e.client = q.client /\ e.uri = q.uri /\ e.tenant = q.tenant
  /\ VerifyCodeChallenge(e.challenge, q.pkce)

\* Mutant: the tenant of a refresh token is not compared.
RefreshMatchesAnyTenant(e, q) == now <= e.exp

\* handleRefreshTokenGrant's checks of the stored refresh token
RefreshMatches(e, q) == now <= e.exp /\ e.tenant = q.tenant

\* jwt.NumericDate: whole seconds
Unix(t) == t - (t % TicksPerSecond)

AccessToken(t, c, scope, subject) ==
  [tenant |-> t, client |-> c, scope |-> scope, subject |-> subject,
   iat |-> Unix(now), exp |-> Unix(now + AccessTTL), epoch |-> epoch]

\* Mutant: one signing key shared by all processes.
ValidJWTAnyProcess(tok) == tok \in AccessTokens /\ now < tok.exp

\* jwt.Parse with this process's public key: signature and expiry
ValidJWT(tok) == tok \in AccessTokens /\ tok.epoch = epoch /\ now < tok.exp

\* A refresh token counts as live for introspection strictly before its expiry.
LiveRefresh(tok) == tok \in TokenIds /\ refresh[tok] # None /\ now < refresh[tok].exp

\* GetLatestCriticalEvent: any event of the subject later than the token's iat
EventAfter(sub, iat) == \E e \in signals : e.subject = sub /\ e.time > iat

KnownCodes == {c \in CodeIds : authz[c] # None}

KnownRefresh == {t \in TokenIds : family[t] # None}

KnownTokens == KnownRefresh \cup {m.token : m \in minted}

FreshCodes == {c \in CodeIds \ KnownCodes : \A r \in Requests : reqs[r].cred # c}

Spent(x) == x \in acked \/ (x \in CodeIds \cup TokenIds /\ uses[x] > 0)

-----------------------------------------------------------------------------
Init ==
  /\ clients = [tc \in Tenants \X Clients |-> None]
  /\ codes = [c \in CodeIds |-> None]
  /\ refresh = [t \in TokenIds |-> None]
  /\ revoked = {} /\ signals = {}
  /\ now = 0 /\ epoch = 0
  /\ reqs = [r \in Requests |-> Idle]
  /\ authz = [c \in CodeIds |-> None]
  /\ family = [t \in TokenIds |-> None]
  /\ minted = {}
  /\ uses = [x \in CodeIds \cup TokenIds |-> 0]
  /\ acked = {} /\ reported = {}

-----------------------------------------------------------------------------
(* GET /oauth2/authorize *)

\* Resolve the client, validate the request, draw the code.
Authorize(r, t, c, u, scope, challenge) ==
  /\ "authorize" \in Calls /\ Free(r)
  /\ \E cfg \in ResolveClient(t, c) :
       IF cfg # None /\ AllowsRedirect(cfg, u) /\ ValidateScopes(cfg, scope)
       THEN \E id \in FreshCodes :
              reqs' = [reqs EXCEPT ![r] =
                         [Idle EXCEPT !.pc = "authorize.save", !.tenant = t, !.client = c,
                                      !.cred = id, !.uri = u, !.pkce = challenge, !.scope = scope,
                                      !.allowed = cfg.scopes, !.exp = now + CodeTTL]]
       ELSE AnswerTo(r, FALSE, "error")
  /\ UNCHANGED <<clients, stores, signals, now, epoch, history>>

\* codeStore.Save, then the redirect that carries the code.
AuthorizeSave(r) ==
  LET q == reqs[r] IN
  /\ q.pc = "authorize.save"
  /\ codes' = [codes EXCEPT ![q.cred] =
                 [client |-> q.client, uri |-> q.uri, scope |-> q.scope, tenant |-> q.tenant,
                  challenge |-> q.pkce, exp |-> q.exp]]
  /\ authz' = [authz EXCEPT ![q.cred] =
                 [client |-> q.client, uri |-> q.uri, scope |-> q.scope, tenant |-> q.tenant,
                  challenge |-> q.pkce, allowed |-> q.allowed]]
  /\ Answer(r, "code")
  /\ UNCHANGED <<clients, refresh, revoked, signals, now, epoch,
                 family, minted, uses, acked, reported>>

-----------------------------------------------------------------------------
(* POST /oauth2/token, grant_type=authorization_code *)

\* Resolve the client and check the redirect URI.
CodeGrant(r, t, c, code, u, verifier) ==
  /\ "code" \in Calls /\ Free(r)
  /\ \E cfg \in ResolveClient(t, c) :
       IF cfg # None /\ AllowsRedirect(cfg, u)
       THEN reqs' = [reqs EXCEPT ![r] =
                       [Idle EXCEPT !.pc = "code.get", !.tenant = t, !.client = c, !.cred = code,
                                    !.uri = u, !.pkce = verifier, !.late = Spent(code)]]
       ELSE AnswerTo(r, Spent(code), "error")
  /\ UNCHANGED <<clients, stores, signals, now, epoch, history>>

\* codeStore.Get and the checks on what it returned.
CodeGet(r) ==
  LET q == reqs[r]
      e == codes[q.cred] IN
  /\ q.pc = "code.get"
  /\ IF e # None /\ CodeMatches(e, q)
     THEN reqs' = [reqs EXCEPT ![r].pc = "code.delete", ![r].scope = e.scope,
                               ![r].origin = q.cred]
     ELSE Answer(r, "error")
  /\ UNCHANGED <<clients, stores, signals, now, epoch, history>>

\* Mutant: the redeemed code is not deleted.
CodeKept(r) ==
  /\ reqs[r].pc = "code.delete"
  /\ Goto(r, "issue")
  /\ UNCHANGED <<clients, stores, signals, now, epoch, history>>

\* codeStore.Delete: no answer whether the code was still there.
CodeDelete(r) ==
  /\ reqs[r].pc = "code.delete"
  /\ codes' = [codes EXCEPT ![reqs[r].cred] = None]
  /\ Goto(r, "issue")
  /\ UNCHANGED <<clients, refresh, revoked, signals, now, epoch, history>>

-----------------------------------------------------------------------------
(* POST /oauth2/token, grant_type=refresh_token *)

\* revokedTokens.IsRevoked
RefreshGrant(r, t, tok) ==
  /\ "refresh" \in Calls /\ Free(r)
  /\ IF tok \in revoked
     THEN AnswerTo(r, Spent(tok), "error")
     ELSE reqs' = [reqs EXCEPT ![r] =
                     [Idle EXCEPT !.pc = "refresh.get", !.tenant = t, !.cred = tok,
                                  !.late = Spent(tok)]]
  /\ UNCHANGED <<clients, stores, signals, now, epoch, history>>

\* refreshTokenStore.Get and the checks on what it returned.
RefreshGet(r) ==
  LET q == reqs[r]
      e == refresh[q.cred] IN
  /\ q.pc = "refresh.get"
  /\ IF e # None /\ RefreshMatches(e, q)
     THEN reqs' = [reqs EXCEPT ![r].pc = "refresh.delete", ![r].client = e.client,
                               ![r].scope = e.scope, ![r].origin = family[q.cred]]
     ELSE Answer(r, "error")
  /\ UNCHANGED <<clients, stores, signals, now, epoch, history>>

\* Mutant: the old refresh token is not deleted.
RefreshKept(r) ==
  /\ reqs[r].pc = "refresh.delete"
  /\ Goto(r, "issue")
  /\ UNCHANGED <<clients, stores, signals, now, epoch, history>>

\* refreshTokenStore.Delete: no answer whether the token was still there.
RefreshDelete(r) ==
  /\ reqs[r].pc = "refresh.delete"
  /\ refresh' = [refresh EXCEPT ![reqs[r].cred] = None]
  /\ Goto(r, "issue")
  /\ UNCHANGED <<clients, codes, revoked, signals, now, epoch, history>>

\* issueTokens: sign the access token, draw and save the refresh token.  When
\* that fails the request ends in an error with the credential already gone.
IssueTokens(r) ==
  LET q == reqs[r] IN
  /\ q.pc = "issue"
  /\ \/ \E id \in TokenIds \ KnownRefresh :
          /\ refresh' = [refresh EXCEPT ![id] =
                           [client |-> q.client, tenant |-> q.tenant, scope |-> q.scope,
                            exp |-> now + RefreshTTL]]
          /\ family' = [family EXCEPT ![id] = q.origin]
          /\ minted' = minted \cup
               {[token |-> AccessToken(q.tenant, q.client, q.scope, "user"),
                 origin |-> q.origin, at |-> now]}
          /\ uses' = [uses EXCEPT ![q.cred] = @ + 1]
          /\ Answer(r, "tokens")
     \/ Answer(r, "error") /\ UNCHANGED <<refresh, family, minted, uses>>
  /\ UNCHANGED <<clients, codes, revoked, signals, now, epoch, authz, acked, reported>>

-----------------------------------------------------------------------------
(* POST /oauth2/token, grant_type=client_credentials *)

\* Resolve the client; only a confidential one may go on.
ClientCredentials(r, t, c, secret, scope) ==
  /\ "client_credentials" \in Calls /\ Free(r)
  /\ \E cfg \in ResolveClient(t, c) :
       IF cfg # None /\ cfg.type = "confidential"
       THEN reqs' = [reqs EXCEPT ![r] =
                       [Idle EXCEPT !.pc = "cc.secret", !.tenant = t, !.client = c,
                                    !.secret = secret, !.scope = scope, !.allowed = cfg.scopes]]
       ELSE AnswerTo(r, FALSE, "error")
  /\ UNCHANGED <<clients, stores, signals, now, epoch, history>>

\* A second GetClient for the secret; the scopes are those of the first.
ClientSecret(r) ==
  LET q == reqs[r]
      scope == IF q.scope = {} THEN q.allowed ELSE q.scope IN
  /\ q.pc = "cc.secret"
  /\ \E cfg \in ResolveClient(q.tenant, q.client) :
       IF /\ cfg # None /\ cfg.hash # None
          /\ VerifyClientSecret(q.secret, cfg.hash)
          /\ scope \subseteq q.allowed
       THEN /\ minted' = minted \cup
                 {[token |-> AccessToken(q.tenant, q.client, scope, "client"),
                   origin |-> None, at |-> now]}
            /\ Answer(r, "tokens")
       ELSE Answer(r, "error") /\ UNCHANGED minted
  /\ UNCHANGED <<clients, stores, signals, now, epoch, authz, family, uses, acked, reported>>

-----------------------------------------------------------------------------
(* POST /oauth2/introspect and /oauth2/revoke *)

\* A dead token's answer is remembered, so that later answers can be compared.
ReportDead(r, tok) ==
  /\ reported' = reported \cup {tok}
  /\ Answer(r, "inactive")

\* revokedTokens.IsRevoked
Introspect(r, tok) ==
  /\ "introspect" \in Calls /\ Free(r)
  /\ IF tok \in revoked
     THEN /\ reported' = reported \cup {tok}
          /\ AnswerTo(r, Spent(tok) \/ tok \in reported, "inactive")
     ELSE /\ reqs' = [reqs EXCEPT ![r] =
                        [Idle EXCEPT !.pc = "introspect.parse", !.cred = tok,
                                     !.late = Spent(tok) \/ tok \in reported]]
          /\ UNCHANGED reported
  /\ UNCHANGED <<clients, stores, signals, now, epoch, authz, family, minted, uses, acked>>

\* jwt.Parse; what is not a valid access token is looked up as a refresh token.
IntrospectParse(r) ==
  LET tok == reqs[r].cred IN
  /\ reqs[r].pc = "introspect.parse"
  /\ \/ ValidJWT(tok) /\ Goto(r, "introspect.signals") /\ UNCHANGED reported
     \/ ~ValidJWT(tok) /\ LiveRefresh(tok) /\ Answer(r, "active") /\ UNCHANGED reported
     \/ ~ValidJWT(tok) /\ ~LiveRefresh(tok) /\ ReportDead(r, tok)
  /\ UNCHANGED <<clients, stores, signals, now, epoch, authz, family, minted, uses, acked>>

\* GetLatestCriticalEvent; a failing query is taken for "no event".
IntrospectSignals(r) ==
  LET tok == reqs[r].cred IN
  /\ reqs[r].pc = "introspect.signals"
  /\ \/ EventAfter(tok.client, tok.iat) /\ Answer(r, "inactive")
     \/ Answer(r, "active")
  /\ UNCHANGED <<clients, stores, signals, now, epoch, history>>

\* revokedTokens.Revoke
Revoke(r, tok) ==
  /\ "revoke" \in Calls /\ Free(r)
  /\ revoked' = revoked \cup {tok}
  /\ reqs' = [reqs EXCEPT ![r] = [Idle EXCEPT !.pc = "revoke.delete", !.cred = tok]]
  /\ UNCHANGED <<clients, codes, refresh, signals, now, epoch, history>>

\* refreshTokenStore.Delete, then 200 OK.
RevokeDelete(r) ==
  LET tok == reqs[r].cred IN
  /\ reqs[r].pc = "revoke.delete"
  /\ refresh' = [t \in TokenIds |-> IF t = tok THEN None ELSE refresh[t]]
  /\ acked' = acked \cup {tok}
  /\ Answer(r, "revoked")
  /\ UNCHANGED <<clients, codes, revoked, signals, now, epoch,
                 authz, family, minted, uses, reported>>

-----------------------------------------------------------------------------
(* Client administration (govsvc), security events, the clock, restarts *)

\* CreateOAuthClient: INSERT under UNIQUE (tenant_id, client_id); the secret
\* of a public client is not stored.
CreateClient(t, c, reg) ==
  /\ clients[<<t, c>>] = None
  /\ clients' = [clients EXCEPT ![<<t, c>>] =
                   [type |-> reg.type, redirects |-> reg.redirects, scopes |-> reg.scopes,
                    hash |-> IF reg.type = "confidential" THEN Bcrypt(reg.secret) ELSE None]]
  /\ UNCHANGED <<stores, signals, now, epoch, reqs, history>>

\* Mutant: a field that is not sent is emptied.
CoalesceNothing(new, old) == IF new = None THEN {} ELSE new

Coalesce(new, old) == IF new = None THEN old ELSE new

\* UpdateOAuthClient: one UPDATE that keeps the fields not sent
UpdateClient(t, c, upd) ==
  LET old == clients[<<t, c>>] IN
  /\ "admin" \in Calls
  /\ old # None
  /\ clients' = [clients EXCEPT ![<<t, c>>] =
                   [type |-> Coalesce(upd.type, old.type),
                    redirects |-> Coalesce(upd.redirects, old.redirects),
                    scopes |-> Coalesce(upd.scopes, old.scopes),
                    hash |-> IF upd.secret = None THEN old.hash ELSE Bcrypt(upd.secret)]]
  /\ UNCHANGED <<stores, signals, now, epoch, reqs, history>>

\* DeleteOAuthClient: tokens and codes of the client stay
DeleteClient(t, c) ==
  /\ "admin" \in Calls
  /\ clients[<<t, c>>] # None
  /\ clients' = [clients EXCEPT ![<<t, c>>] = None]
  /\ UNCHANGED <<stores, signals, now, epoch, reqs, history>>

\* POST /api/v1/signals/ingest
IngestSignal(sub) ==
  /\ "signal" \in Calls
  /\ signals' = signals \cup {[subject |-> sub, time |-> now]}
  /\ UNCHANGED <<clients, stores, now, epoch, reqs, history>>

Tick ==
  /\ now < MaxTime
  /\ now' = now + 1
  /\ UNCHANGED <<clients, stores, signals, epoch, reqs, history>>

\* The process stops and starts again: the maps of the process, the signing
\* key and every request in flight are gone; Postgres stays.
Restart ==
  /\ epoch < MaxEpoch
  /\ epoch' = epoch + 1
  /\ codes' = [c \in CodeIds |-> None]
  /\ refresh' = [t \in TokenIds |-> None]
  /\ revoked' = {}
  /\ reqs' = [r \in Requests |-> Idle]
  /\ UNCHANGED <<clients, signals, now, history>>

-----------------------------------------------------------------------------
\* A request's next store call
Step(r) ==
  \/ AuthorizeSave(r)
  \/ CodeGet(r) \/ CodeDelete(r)
  \/ RefreshGet(r) \/ RefreshDelete(r)
  \/ IssueTokens(r)
  \/ ClientSecret(r)
  \/ IntrospectParse(r) \/ IntrospectSignals(r)
  \/ RevokeDelete(r)

\* A request arrives.  Callers present codes and tokens they were given.
Arrive(r) ==
  \/ \E t \in Tenants, c \in Clients :
       \/ \E u \in Uris, scope \in (SUBSET Scopes) \ {{}}, v \in Verifiers :
            Authorize(r, t, c, u, scope, S256[v])
       \/ \E code \in KnownCodes, u \in Uris, v \in Verifiers : CodeGrant(r, t, c, code, u, v)
       \/ \E secret \in Secrets, scope \in SUBSET Scopes :
            ClientCredentials(r, t, c, secret, scope)
  \/ \E t \in Tenants, tok \in KnownRefresh : RefreshGrant(r, t, tok)
  \/ \E tok \in KnownTokens : Introspect(r, tok) \/ Revoke(r, tok)

Admin ==
  \E t \in Tenants, c \in Clients :
    \/ \E reg \in Registrations : CreateClient(t, c, reg)
    \/ \E upd \in Updates : UpdateClient(t, c, upd)
    \/ DeleteClient(t, c)

Next ==
  \/ \E r \in Requests : Arrive(r) \/ Step(r)
  \/ Admin
  \/ \E sub \in Clients : IngestSignal(sub)
  \/ Tick
  \/ Restart

Spec == Init /\ [][Next]_vars

-----------------------------------------------------------------------------
(* Properties *)

\* A token belongs to what its authorization code was issued for.
GrantedBy(tok, code) ==
  /\ code \in KnownCodes
  /\ tok.tenant = authz[code].tenant
  /\ tok.client = authz[code].client
  /\ tok.scope = authz[code].scope
  /\ tok.scope \subseteq authz[code].allowed

\* Every refresh token in the store and every access token handed out for a
\* user descends from an authorization code, through any number of rotations,
\* and has that code's tenant, client and scope, which the client's
\* registration allowed when Authorize ran: concurrent requests, restarts and
\* changes to the registration never move a token to another tenant or client
\* or widen it (Authorize, handleAuthorizationCodeGrant,
\* handleRefreshTokenGrant, issueTokens).
TokensTraceToAuthorization ==
  /\ \A t \in TokenIds : refresh[t] # None => GrantedBy(refresh[t], family[t])
  /\ \A m \in minted : m.token.subject = "user" => GrantedBy(m.token, m.origin)

\* A request that arrives after its code or refresh token was exchanged (the
\* tokens were sent) or revoked (the 200 was sent) obtains no tokens, and a
\* token that introspection once called dead, or that was exchanged or revoked,
\* is never called active by an introspection that arrives later - across
\* restarts that empty the revocation list too (Get, Delete and IsRevoked in
\* the grants, Introspect and Revoke).
NoLateUse ==
  \A r \in Requests : reqs[r].resp \in {"tokens", "active"} => ~reqs[r].late

-----------------------------------------------------------------------------
(* The inductive invariant behind the two properties above *)

\* What a request's locals are at each point of its handler
LocalsOK(q) ==
  /\ q.pc = "authorize.save" =>
       /\ q.tenant \in Tenants /\ q.client \in Clients /\ q.uri \in Uris
       /\ q.cred \in CodeIds \ KnownCodes /\ q.pkce \in Challenges
       /\ q.scope \subseteq q.allowed
  /\ q.pc \in {"code.get", "code.delete"} =>
       /\ q.tenant \in Tenants /\ q.client \in Clients /\ q.uri \in Uris
       /\ q.cred \in KnownCodes /\ q.pkce \in Verifiers
  /\ q.pc \in {"refresh.get", "refresh.delete"} => q.tenant \in Tenants /\ q.cred \in KnownRefresh
  /\ q.pc = "cc.secret" => q.tenant \in Tenants /\ q.client \in Clients /\ q.secret \in Secrets
  /\ q.pc = "introspect.signals" => q.cred \in AccessTokens

\* A request that holds a grant holds exactly what the code was issued for, and
\* when it issues tokens its credential is gone from the store.
CarriesGrant(q) ==
  /\ q.pc \in {"code.delete", "refresh.delete", "issue"} => GrantedBy(q, q.origin)
  /\ q.pc = "issue" =>
       \/ q.cred \in KnownCodes /\ codes[q.cred] = None
       \/ q.cred \in KnownRefresh /\ refresh[q.cred] = None

\* A token somebody holds: it was handed out by this process or an earlier one.
Genuine(tok) == tok \in KnownRefresh \/ (tok \in AccessTokens /\ tok.epoch <= epoch)

\* Dead without the help of the revocation list, and for good
Dead(tok) ==
  \/ tok \in KnownRefresh /\ (refresh[tok] = None \/ refresh[tok].exp <= now)
  \/ tok \in AccessTokens /\ (tok.epoch < epoch \/ tok.exp <= now)

\* A late request is still to be turned down.
LateOK(q) ==
  /\ q.late /\ q.pc = "code.get" => codes[q.cred] = None
  /\ q.late /\ q.pc = "refresh.get" => refresh[q.cred] = None
  /\ q.late /\ q.pc = "introspect.parse" => Dead(q.cred)
  /\ q.pc \in {"code.delete", "refresh.delete", "issue", "cc.secret", "introspect.signals"} => ~q.late
  /\ q.pc \in {"introspect.parse", "revoke.delete"} => Genuine(q.cred)
  /\ q.pc = "revoke.delete" => q.cred \in revoked

ReservedApart ==
  \A r, s \in Requests :
    reqs[r].pc = "authorize.save" /\ reqs[s].pc = "authorize.save" /\ reqs[r].cred = reqs[s].cred
      => r = s

CodesMatchAuthz ==
  \A c \in CodeIds :
    /\ codes[c] # None =>
         /\ c \in KnownCodes
         /\ codes[c].client = authz[c].client /\ codes[c].tenant = authz[c].tenant
         /\ codes[c].scope = authz[c].scope
    /\ c \in KnownCodes => authz[c].scope \subseteq authz[c].allowed

\* A code that was exchanged, and a refresh token that was exchanged or whose
\* revocation was acknowledged, is out of its store for good, and a token that was
\* acknowledged as revoked or reported dead is on the revocation list or dead
\* without it: no call that races the deletion brings it back, and a restart that
\* empties the list revives nothing (Get and Delete of the grants, Revoke,
\* Introspect).  What is on the list or minted comes from no later process.
SpentIsGone ==
  /\ \A c \in CodeIds : uses[c] > 0 => c \in KnownCodes /\ codes[c] = None
  /\ \A t \in TokenIds : uses[t] > 0 \/ t \in acked => t \in KnownRefresh /\ refresh[t] = None
  /\ \A tok \in acked \cup reported : tok \in revoked \/ Dead(tok)
  /\ \A tok \in revoked : Genuine(tok)
  /\ \A m \in minted : m.token.epoch <= epoch

\* Each request carries what its code was issued for, and what was exchanged,
\* revoked or called dead is out of every store for good: the invariant that
\* every step preserves and that implies the two properties above.
IInv ==
  /\ TypeOK
  /\ \A r \in Requests : LocalsOK(reqs[r]) /\ CarriesGrant(reqs[r]) /\ LateOK(reqs[r])
  /\ ReservedApart /\ CodesMatchAuthz /\ SpentIsGone
  /\ TokensTraceToAuthorization
  /\ NoLateUse

-----------------------------------------------------------------------------
(* What the documentation says of the grants *)

\* README: redeeming a code twice returns invalid_grant.
CodeRedeemedOnce == \A c \in CodeIds : uses[c] <= 1

-----------------------------------------------------------------------------
\* What the token endpoint promises: codes and refresh tokens change hands in
\* one step.  A credential that was read and deleted is in flight until the
\* tokens that replace it are saved.
InFlight == {reqs[r].cred : r \in {q \in Requests : reqs[q].pc = "issue"}}

Ledger == INSTANCE GrantLedger WITH
  open <- {c \in CodeIds : codes[c] # None \/ c \in InFlight},
  live <- {t \in TokenIds : refresh[t] # None \/ t \in InFlight},
  used <- KnownCodes \cup KnownRefresh

\* With one request at a time the grants are atomic: the service implements
\* GrantLedger (handleAuthorizationCodeGrant, handleRefreshTokenGrant, Revoke).
ImplementsLedger == Ledger!Spec

====
