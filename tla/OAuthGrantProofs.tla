------------------------- MODULE OAuthGrantProofs -------------------------
(***************************************************************************)
(* Lemmas for the proofs about OAuthTokens: facts about its operators,     *)
(* what a step may leave alone (Frame, Bystander, OneRequest), and that    *)
(* the steps of authorize and of the grants preserve IInv.                 *)
(***************************************************************************)
EXTENDS OAuthTokens, TLAPS

-----------------------------------------------------------------------------
(* Facts about the operators *)

\* Cutting a time to whole seconds leaves a time.
LEMMA UnixNat == ASSUME NEW t \in Nat PROVE Unix(t) \in Nat
  BY TimeAssumption DEF Unix

\* The empty request record is well typed.
LEMMA IdleType == Idle \in RequestStates
  BY Zenon DEF Idle, RequestStates, PCs, Responses

\* Every access token the service signs is well typed and of this process.
LEMMA AccessTokenType ==
  ASSUME TypeOK, NEW t \in Tenants, NEW c \in Clients, NEW scope \in SUBSET Scopes,
         NEW subject \in {"user", "client"}
  PROVE  /\ AccessToken(t, c, scope, subject) \in AccessTokens
         /\ AccessToken(t, c, scope, subject).epoch = epoch
         /\ AccessToken(t, c, scope, subject).tenant = t
         /\ AccessToken(t, c, scope, subject).client = c
         /\ AccessToken(t, c, scope, subject).scope = scope
         /\ AccessToken(t, c, scope, subject).subject = subject
  <1>1. Unix(now) \in Nat /\ Unix(now + AccessTTL) \in Nat
    BY UnixNat, TimeAssumption DEF TypeOK
  <1> QED BY <1>1, Zenon DEF TypeOK, AccessToken, AccessTokens

\* A registration that resolveClient returns has scopes of the instance.
LEMMA ConfigType ==
  ASSUME TypeOK, NEW t \in Tenants, NEW c \in Clients, NEW cfg \in ResolveClient(t, c), cfg # None
  PROVE  cfg \in ClientConfigs /\ cfg.scopes \in SUBSET Scopes
  <1>1. cfg \in ClientConfigs
    BY Zenon DEF TypeOK, ResolveClient
  <1> QED BY <1>1, Zenon DEF ClientConfigs

\* Sending a response keeps the requests well typed and empties the locals.
LEMMA AnswerToType ==
  ASSUME TypeOK, NEW r \in Requests, NEW late \in BOOLEAN, NEW resp \in Responses,
         AnswerTo(r, late, resp)
  PROVE  /\ reqs' \in [Requests -> RequestStates]
         /\ reqs'[r].pc = "idle" /\ reqs'[r].late = late /\ reqs'[r].resp = resp
         /\ \A s \in Requests \ {r} : reqs'[s] = reqs[s]
  BY ZenonT(60) DEF TypeOK, AnswerTo, Idle, RequestStates, PCs, Responses

\* The same for a response that keeps the request's own mark.
LEMMA AnswerType ==
  ASSUME TypeOK, NEW r \in Requests, NEW resp \in Responses, Answer(r, resp)
  PROVE  /\ reqs' \in [Requests -> RequestStates]
         /\ reqs'[r].pc = "idle" /\ reqs'[r].late = reqs[r].late /\ reqs'[r].resp = resp
         /\ \A s \in Requests \ {r} : reqs'[s] = reqs[s]
  <1>1. reqs[r].late \in BOOLEAN
    BY Zenon DEF TypeOK, RequestStates
  <1> QED BY <1>1, AnswerToType, Zenon DEF Answer

-----------------------------------------------------------------------------
(* What every step leaves alone *)

\* Codes and tokens that were handed out keep their meaning; a store entry may
\* only disappear; time and the process number do not go back.
Frame ==
  /\ \A c \in KnownCodes : authz'[c] = authz[c] /\ (codes'[c] = codes[c] \/ codes'[c] = None)
  /\ \A t \in KnownRefresh : family'[t] = family[t] /\ (refresh'[t] = refresh[t] \/ refresh'[t] = None)
  /\ epoch <= epoch' /\ now <= now'
  /\ epoch' \in Nat /\ now' \in Nat

\* What was handed out stays known.
LEMMA FrameKnown ==
  ASSUME Frame
  PROVE  KnownCodes \subseteq KnownCodes' /\ KnownRefresh \subseteq KnownRefresh'
  BY Zenon DEF Frame, KnownCodes, KnownRefresh

\* A grant stays the grant of its code.
LEMMA FrameGranted ==
  ASSUME Frame, NEW x, NEW c, GrantedBy(x, c)
  PROVE  /\ c \in KnownCodes' /\ x.tenant = authz'[c].tenant /\ x.client = authz'[c].client
         /\ x.scope = authz'[c].scope /\ x.scope \subseteq authz'[c].allowed
  BY FrameKnown, Zenon DEF Frame, GrantedBy

\* A genuine token stays genuine.
LEMMA FrameGenuine ==
  ASSUME TypeOK, Frame, NEW tok, Genuine(tok)
  PROVE  tok \in KnownRefresh' \/ (tok \in AccessTokens /\ tok.epoch <= epoch')
  BY FrameKnown DEF Frame, Genuine, TypeOK, AccessTokens

\* A dead token stays dead.
LEMMA FrameDead ==
  ASSUME TypeOK, Frame, NEW tok, Dead(tok)
  PROVE  \/ tok \in KnownRefresh' /\ (refresh'[tok] = None \/ refresh'[tok].exp <= now')
         \/ tok \in AccessTokens /\ (tok.epoch < epoch' \/ tok.exp <= now')
  <1>1. CASE tok \in KnownRefresh
    <2>1. tok \in TokenIds /\ (refresh[tok] # None => refresh[tok].exp \in Nat)
      BY <1>1, Zenon DEF TypeOK, KnownRefresh, RefreshEntries
    <2> QED BY <1>1, <2>1, FrameKnown, NullAssumption DEF Frame, Dead, TypeOK, KnownRefresh
  <1>2. CASE tok \notin KnownRefresh
    BY <1>2, FrameKnown DEF Frame, Dead, TypeOK, AccessTokens
  <1> QED BY <1>1, <1>2, Zenon

\* A request that takes no part in a step keeps its part of the invariant.
LEMMA Bystander ==
  ASSUME IInv, Frame, revoked \subseteq revoked', NEW s \in Requests, reqs'[s] = reqs[s],
         reqs[s].pc = "authorize.save" => reqs[s].cred \notin KnownCodes'
  PROVE  (LocalsOK(reqs[s]) /\ CarriesGrant(reqs[s]) /\ LateOK(reqs[s]))'
  <1> DEFINE q == reqs[s]
  <1>0. LocalsOK(q) /\ CarriesGrant(q) /\ LateOK(q) /\ TypeOK
    BY Zenon DEF IInv
  <1>1. LocalsOK(reqs[s])'
    BY <1>0, FrameKnown, Zenon DEF LocalsOK
  <1>2. CarriesGrant(reqs[s])'
    <2>1. q.pc \in {"code.delete", "refresh.delete", "issue"} => GrantedBy(reqs[s], reqs[s].origin)'
      BY <1>0, FrameGranted DEF CarriesGrant, GrantedBy
    <2>2. q.pc = "issue" => \/ q.cred \in KnownCodes' /\ codes'[q.cred] = None
                            \/ q.cred \in KnownRefresh' /\ refresh'[q.cred] = None
      BY <1>0, FrameKnown, Zenon DEF CarriesGrant, Frame
    <2> QED BY <2>1, <2>2, Zenon DEF CarriesGrant
  <1>3. LateOK(reqs[s])'
    <2>1. q.late /\ q.pc = "code.get" => codes'[q.cred] = None
      BY <1>0, Zenon DEF LateOK, LocalsOK, Frame
    <2>2. q.late /\ q.pc = "refresh.get" => refresh'[q.cred] = None
      BY <1>0, Zenon DEF LateOK, LocalsOK, Frame
    <2>3. q.late /\ q.pc = "introspect.parse" => Dead(reqs[s].cred)'
      BY <1>0, FrameDead, Zenon DEF LateOK, Dead
    <2>4. q.pc \in {"introspect.parse", "revoke.delete"} => Genuine(reqs[s].cred)'
      BY <1>0, FrameGenuine, Zenon DEF LateOK, Genuine
    <2> QED BY <1>0, <2>1, <2>2, <2>3, <2>4, Zenon DEF LateOK
  <1> QED BY <1>1, <1>2, <1>3, Zenon

\* The stores' part of the invariant survives a step that adds no code, token,
\* use, acknowledgement or report, and keeps the revocation list.
LEMMA QuietStores ==
  ASSUME IInv, Frame, TypeOK', revoked \subseteq revoked',
         UNCHANGED <<authz, family, uses, minted, acked, reported>>,
         \A c \in CodeIds : codes'[c] = codes[c] \/ codes'[c] = None,
         \A t \in TokenIds : refresh'[t] = refresh[t] \/ refresh'[t] = None,
         \A tok \in revoked' : Genuine(tok)'
  PROVE  (CodesMatchAuthz /\ SpentIsGone /\ TokensTraceToAuthorization)'
  <1>0. TypeOK /\ CodesMatchAuthz /\ SpentIsGone /\ TokensTraceToAuthorization
    BY Zenon DEF IInv
  <1>1. CodesMatchAuthz'
    BY <1>0, Zenon DEF CodesMatchAuthz, KnownCodes
  <1>2. SpentIsGone'
    <2>1. \A tok \in acked' \cup reported' : tok \in revoked' \/ Dead(tok)'
      BY <1>0, FrameDead, Zenon DEF SpentIsGone, Dead
    <2>2. \A m \in minted' : m.token.epoch <= epoch'
      BY <1>0 DEF SpentIsGone, Frame, TypeOK, AccessTokens
    <2> QED BY <1>0, <2>1, <2>2, Zenon DEF SpentIsGone, KnownCodes, KnownRefresh
  <1>3. TokensTraceToAuthorization'
    BY <1>0 DEF TokensTraceToAuthorization, GrantedBy, KnownCodes
  <1> QED BY <1>1, <1>2, <1>3, Zenon

\* A request that has been answered is under no obligation.
LEMMA AnsweredOK ==
  ASSUME NEW r \in Requests, reqs'[r].pc = "idle"
  PROVE  (LocalsOK(reqs[r]) /\ CarriesGrant(reqs[r]) /\ LateOK(reqs[r]))'
  BY Zenon DEF LocalsOK, CarriesGrant, LateOK

\* A step of one request: what is left to show is about that request and the stores.
LEMMA OneRequest ==
  ASSUME IInv, Frame, TypeOK', revoked \subseteq revoked', NEW r \in Requests,
         \A s \in Requests \ {r} :
           /\ reqs'[s] = reqs[s]
           /\ reqs[s].pc = "authorize.save" => reqs[s].cred \notin KnownCodes',
         (LocalsOK(reqs[r]) /\ CarriesGrant(reqs[r]) /\ LateOK(reqs[r]))',
         reqs'[r].pc = "authorize.save" => \A s \in Requests : reqs[s].cred # reqs'[r].cred,
         reqs'[r].resp \in {"tokens", "active"} => ~reqs'[r].late,
         (CodesMatchAuthz /\ SpentIsGone /\ TokensTraceToAuthorization)'
  PROVE  IInv'
  <1>1. \A s \in Requests : (LocalsOK(reqs[s]) /\ CarriesGrant(reqs[s]) /\ LateOK(reqs[s]))'
    BY Bystander, Zenon
  <1>2. ReservedApart'
    BY Zenon DEF IInv, ReservedApart
  <1>3. NoLateUse'
    BY Zenon DEF IInv, NoLateUse
  <1> QED BY <1>1, <1>2, <1>3, Zenon DEF IInv

\* A step that changes no variable but reqs
LEMMA OnlyRequest ==
  ASSUME IInv, NEW r \in Requests,
         UNCHANGED <<clients, stores, signals, now, epoch, history>>,
         reqs' \in [Requests -> RequestStates],
         \A s \in Requests \ {r} : reqs'[s] = reqs[s],
         (LocalsOK(reqs[r]) /\ CarriesGrant(reqs[r]) /\ LateOK(reqs[r]))',
         reqs'[r].pc = "authorize.save" => \A s \in Requests : reqs[s].cred # reqs'[r].cred,
         reqs'[r].resp \in {"tokens", "active"} => ~reqs'[r].late
  PROVE  IInv'
  <1>0. TypeOK
    BY Zenon DEF IInv
  <1>1. Frame
    BY <1>0 DEF Frame, stores, history, TypeOK
  <1>2. TypeOK'
    BY <1>0, Zenon DEF TypeOK, stores, history
  <1>3. \A tok \in revoked' : Genuine(tok)'
    BY <1>0, Zenon DEF IInv, SpentIsGone, Genuine, KnownRefresh, stores, history
  <1>4. (CodesMatchAuthz /\ SpentIsGone /\ TokensTraceToAuthorization)'
    BY <1>1, <1>2, <1>3, QuietStores, Zenon DEF stores, history
  <1>5. \A s \in Requests : reqs[s].pc = "authorize.save" => reqs[s].cred \notin KnownCodes'
    BY ZenonT(60) DEF IInv, LocalsOK, KnownCodes, history
  <1> QED BY <1>1, <1>2, <1>4, <1>5, OneRequest, Zenon DEF stores

\* Turning a request down changes nothing but the request.
LEMMA TurnedDown ==
  ASSUME IInv, NEW r \in Requests, NEW late \in BOOLEAN, NEW resp \in Responses,
         AnswerTo(r, late, resp), resp \in {"tokens", "active"} => ~late,
         UNCHANGED <<clients, stores, signals, now, epoch, history>>
  PROVE  IInv'
  <1>1. TypeOK
    BY Zenon DEF IInv
  <1> QED BY <1>1, AnswerToType, AnsweredOK, OnlyRequest

-----------------------------------------------------------------------------
(* One lemma per action: authorize and the authorization_code grant *)

\* Authorize reserves a code nobody else has.
LEMMA AuthorizeInv ==
  ASSUME IInv, NEW r \in Requests, NEW t \in Tenants, NEW c \in Clients, NEW u \in Uris,
         NEW scope \in SUBSET Scopes, NEW ch \in Challenges, Authorize(r, t, c, u, scope, ch)
  PROVE  IInv'
  <1>0. TypeOK
    BY Zenon DEF IInv
  <1>1. PICK cfg \in ResolveClient(t, c) :
          IF cfg # None /\ AllowsRedirect(cfg, u) /\ ValidateScopes(cfg, scope)
          THEN \E id \in FreshCodes :
                 reqs' = [reqs EXCEPT ![r] =
                            [Idle EXCEPT !.pc = "authorize.save", !.tenant = t, !.client = c,
                                         !.cred = id, !.uri = u, !.pkce = ch, !.scope = scope,
                                         !.allowed = cfg.scopes, !.exp = now + CodeTTL]]
          ELSE AnswerTo(r, FALSE, "error")
    BY ZenonT(60) DEF Authorize
  <1>2. CASE AnswerTo(r, FALSE, "error")
    BY <1>2, TurnedDown, ZenonT(60) DEF Authorize, Responses
  <1>3. CASE cfg # None /\ AllowsRedirect(cfg, u) /\ ValidateScopes(cfg, scope)
    <2>1. PICK id \in FreshCodes :
            reqs' = [reqs EXCEPT ![r] =
                       [Idle EXCEPT !.pc = "authorize.save", !.tenant = t, !.client = c,
                                    !.cred = id, !.uri = u, !.pkce = ch, !.scope = scope,
                                    !.allowed = cfg.scopes, !.exp = now + CodeTTL]]
      BY <1>1, <1>3, ZenonT(60)
    <2> DEFINE q == [Idle EXCEPT !.pc = "authorize.save", !.tenant = t, !.client = c,
                                 !.cred = id, !.uri = u, !.pkce = ch, !.scope = scope,
                                 !.allowed = cfg.scopes, !.exp = now + CodeTTL]
    <2>2. cfg.scopes \in SUBSET Scopes /\ scope \subseteq cfg.scopes
      BY <1>0, <1>3, ConfigType, Zenon DEF ValidateScopes
    <2>3. now + CodeTTL \in Nat
      BY <1>0, TimeAssumption DEF TypeOK
    <2>4. id \in CodeIds \ KnownCodes /\ \A s \in Requests : reqs[s].cred # id
      BY Zenon DEF FreshCodes
    <2>5. q \in RequestStates
      BY <2>2, <2>3, <2>4, ZenonT(60) DEF Idle, RequestStates, PCs, Responses
    <2>6. reqs' \in [Requests -> RequestStates] /\ reqs'[r] = q
          /\ \A s \in Requests \ {r} : reqs'[s] = reqs[s]
      BY <1>0, <2>1, <2>5, Zenon DEF TypeOK
    <2>7. q.pc = "authorize.save" /\ q.tenant = t /\ q.client = c /\ q.cred = id /\ q.uri = u
          /\ q.pkce = ch /\ q.scope = scope /\ q.allowed = cfg.scopes /\ q.resp = "none"
      BY Zenon DEF Idle
    <2>8. id \notin KnownCodes'
      BY <2>4, ZenonT(60) DEF KnownCodes, Authorize, history
    <2> HIDE DEF q
    <2>9. (LocalsOK(reqs[r]) /\ CarriesGrant(reqs[r]) /\ LateOK(reqs[r]))'
      BY <2>2, <2>4, <2>6, <2>7, <2>8, Zenon DEF LocalsOK, CarriesGrant, LateOK
    <2> QED BY <2>4, <2>6, <2>7, <2>9, OnlyRequest, ZenonT(60) DEF Authorize
  <1> QED BY <1>1, <1>2, <1>3, ZenonT(60)

\* A redemption that arrives late finds no code.
LEMMA CodeGrantInv ==
  ASSUME IInv, NEW r \in Requests, NEW t \in Tenants, NEW c \in Clients, NEW code \in KnownCodes,
         NEW u \in Uris, NEW v \in Verifiers, CodeGrant(r, t, c, code, u, v)
  PROVE  IInv'
  <1>0. TypeOK /\ code \in CodeIds
    BY Zenon DEF IInv, KnownCodes
  <1>1. Spent(code) \in BOOLEAN
    BY Zenon DEF Spent
  <1>2. CASE AnswerTo(r, Spent(code), "error")
    BY <1>1, <1>2, TurnedDown, Zenon DEF CodeGrant, Responses
  <1> DEFINE q == [Idle EXCEPT !.pc = "code.get", !.tenant = t, !.client = c, !.cred = code,
                               !.uri = u, !.pkce = v, !.late = Spent(code)]
  <1>3. CASE reqs' = [reqs EXCEPT ![r] = q]
    <2>1. q \in RequestStates
      BY <1>0, <1>1, ZenonT(60) DEF Idle, RequestStates, PCs, Responses
    <2>2. reqs' \in [Requests -> RequestStates] /\ reqs'[r] = q
          /\ \A s \in Requests \ {r} : reqs'[s] = reqs[s]
      BY <1>0, <1>3, <2>1, Zenon DEF TypeOK
    <2>3. q.pc = "code.get" /\ q.tenant = t /\ q.client = c /\ q.cred = code /\ q.uri = u
          /\ q.pkce = v /\ q.late = Spent(code) /\ q.resp = "none"
      BY Zenon DEF Idle
    <2>4. Spent(code) => codes[code] = None
      <3>1. code \notin acked
        BY <1>0, NoneAssumption, NullAssumption, Zenon DEF TypeOK, Tokens
      <3> QED BY <1>0, <3>1, Zenon DEF IInv, SpentIsGone, Spent
    <2>5. code \in KnownCodes' /\ codes' = codes
      BY Zenon DEF KnownCodes, CodeGrant, history, stores
    <2> HIDE DEF q
    <2>6. (LocalsOK(reqs[r]) /\ CarriesGrant(reqs[r]) /\ LateOK(reqs[r]))'
      BY <2>2, <2>3, <2>4, <2>5, Zenon DEF LocalsOK, CarriesGrant, LateOK
    <2> QED BY <2>2, <2>3, <2>6, OnlyRequest, Zenon DEF CodeGrant
  <1> QED BY <1>2, <1>3, Zenon DEF CodeGrant

\* Saving the reserved code adds one authorization and disturbs no other.
LEMMA AuthorizeSaveInv ==
  ASSUME IInv, NEW r \in Requests, AuthorizeSave(r)
  PROVE  IInv'
  <1> DEFINE q == reqs[r]
             e == [client |-> q.client, uri |-> q.uri, scope |-> q.scope, tenant |-> q.tenant,
                   challenge |-> q.pkce, exp |-> q.exp]
             a == [client |-> q.client, uri |-> q.uri, scope |-> q.scope, tenant |-> q.tenant,
                   challenge |-> q.pkce, allowed |-> q.allowed]
  <1>0. TypeOK /\ CodesMatchAuthz /\ SpentIsGone /\ TokensTraceToAuthorization
    BY Zenon DEF IInv
  <1>1. /\ q.tenant \in Tenants /\ q.client \in Clients /\ q.uri \in Uris
        /\ q.cred \in CodeIds \ KnownCodes /\ q.pkce \in Challenges /\ q.scope \subseteq q.allowed
    BY ZenonT(60) DEF IInv, AuthorizeSave, LocalsOK
  <1>2. q.scope \in SUBSET Scopes /\ q.allowed \in SUBSET Scopes /\ q.exp \in Nat
    BY <1>0, Zenon DEF TypeOK, RequestStates
  <1>3. e \in CodeEntries /\ a \in Authorizations
    BY <1>1, <1>2, Zenon DEF CodeEntries, Authorizations
  <1>4. /\ codes' = [codes EXCEPT ![q.cred] = e] /\ authz' = [authz EXCEPT ![q.cred] = a]
        /\ Answer(r, "code")
        /\ UNCHANGED <<clients, refresh, revoked, signals, now, epoch,
                       family, minted, uses, acked, reported>>
    BY Zenon DEF AuthorizeSave
  <1>5. /\ reqs' \in [Requests -> RequestStates] /\ reqs'[r].pc = "idle" /\ reqs'[r].resp = "code"
        /\ \A s \in Requests \ {r} : reqs'[s] = reqs[s]
    BY <1>0, <1>4, AnswerType, Zenon DEF Responses
  <1>6. a # None /\ a.scope = q.scope /\ a.allowed = q.allowed /\ a.client = q.client
        /\ a.tenant = q.tenant /\ e.scope = q.scope /\ e.client = q.client /\ e.tenant = q.tenant
    BY <1>3, NullAssumption, Zenon
  <1> HIDE DEF a, e
  <1>7. TypeOK'
    BY <1>0, <1>1, <1>3, <1>4, <1>5, Zenon DEF TypeOK
  <1>8. KnownCodes' = KnownCodes \cup {q.cred} /\ KnownRefresh' = KnownRefresh
    BY <1>0, <1>1, <1>4, <1>6, ZenonT(60) DEF KnownCodes, KnownRefresh, TypeOK
  <1>9. Frame
    <2>1. \A c \in KnownCodes : authz'[c] = authz[c] /\ codes'[c] = codes[c]
      BY <1>0, <1>1, <1>4, ZenonT(60) DEF TypeOK, KnownCodes
    <2>2. epoch \in Nat /\ now \in Nat
      BY <1>0, Zenon DEF TypeOK
    <2>3. epoch <= epoch' /\ now <= now' /\ epoch' \in Nat /\ now' \in Nat
      BY <1>4, <2>2
    <2> QED BY <1>4, <2>1, <2>3, ZenonT(60) DEF Frame
  <1>10. \A s \in Requests \ {r} : reqs[s].pc = "authorize.save" => reqs[s].cred \notin KnownCodes'
    BY <1>8, ZenonT(60) DEF IInv, ReservedApart, LocalsOK, AuthorizeSave
  <1>11. CodesMatchAuthz'
    BY <1>0, <1>1, <1>4, <1>6, <1>8, ZenonT(60) DEF CodesMatchAuthz, TypeOK, KnownCodes
  <1>12. SpentIsGone'
    <2>1. \A c \in CodeIds : uses[c] > 0 => c \in KnownCodes' /\ codes'[c] = None
      BY <1>0, <1>1, <1>4, <1>8, ZenonT(60) DEF SpentIsGone, TypeOK
    <2>2. \A tok : (Dead(tok) => Dead(tok)') /\ (Genuine(tok) => Genuine(tok)')
      BY <1>4, <1>8, ZenonT(60) DEF Dead, Genuine
    <2> QED BY <1>0, <1>4, <1>8, <2>1, <2>2, ZenonT(60) DEF SpentIsGone
  <1>13. TokensTraceToAuthorization'
    <2>1. \A x, c : GrantedBy(x, c) => GrantedBy(x, c)'
      BY <1>9, FrameGranted, Zenon DEF GrantedBy
    <2> QED BY <1>0, <1>4, <2>1, ZenonT(60) DEF TokensTraceToAuthorization, GrantedBy
  <1> QED BY <1>4, <1>5, <1>7, <1>9, <1>10, <1>11, <1>12, <1>13, AnsweredOK, OneRequest, ZenonT(60)

\* A code that passes the checks is what was authorized.
LEMMA CodeGetInv ==
  ASSUME IInv, NEW r \in Requests, CodeGet(r)
  PROVE  IInv'
  <1> DEFINE q == reqs[r]
             e == codes[q.cred]
             n == [q EXCEPT !.pc = "code.delete", !.scope = e.scope, !.origin = q.cred]
  <1>0. TypeOK /\ LocalsOK(q) /\ LateOK(q) /\ q.pc = "code.get" /\ q.late \in BOOLEAN
        /\ q \in RequestStates
    BY Zenon DEF IInv, CodeGet, TypeOK, RequestStates
  <1>1. CASE Answer(r, "error")
    BY <1>0, <1>1, TurnedDown, Zenon DEF CodeGet, Answer, Responses
  <1>2. CASE e # None /\ CodeMatches(e, q)
    <2>1. q.cred \in KnownCodes /\ q.cred \in CodeIds /\ e \in CodeEntries
      BY <1>0, <1>2, ZenonT(60) DEF LocalsOK, KnownCodes, TypeOK
    <2>2. e.scope \in SUBSET Scopes
      BY <2>1, ZenonT(60) DEF CodeEntries
    <2>3. n \in RequestStates
      BY <1>0, <2>1, <2>2, ZenonT(60) DEF RequestStates, PCs
    <2>4. reqs' = [reqs EXCEPT ![r] = n]
      BY <1>0, <1>2, ZenonT(60) DEF CodeGet, TypeOK
    <2>5. reqs' \in [Requests -> RequestStates] /\ reqs'[r] = n
          /\ \A s \in Requests \ {r} : reqs'[s] = reqs[s]
      BY <1>0, <2>3, <2>4, Zenon DEF TypeOK
    <2>6. /\ n.pc = "code.delete" /\ n.scope = e.scope /\ n.origin = q.cred /\ n.cred = q.cred
          /\ n.tenant = q.tenant /\ n.client = q.client /\ n.uri = q.uri /\ n.pkce = q.pkce
          /\ n.late = q.late /\ n.resp = q.resp
      BY <1>0, Zenon DEF RequestStates
    <2>7. GrantedBy(n, q.cred)
      BY <1>2, <2>1, <2>6, Zenon DEF IInv, CodesMatchAuthz, GrantedBy, CodeMatches
    <2>8. ~q.late
      BY <1>0, <1>2, Zenon DEF LateOK
    <2>9. UNCHANGED <<clients, stores, signals, now, epoch, history>>
      BY Zenon DEF CodeGet
    <2> HIDE DEF n
    <2>10. (LocalsOK(reqs[r]) /\ CarriesGrant(reqs[r]) /\ LateOK(reqs[r]))'
      BY <1>0, <2>1, <2>5, <2>6, <2>7, <2>8, <2>9, ZenonT(60)
      DEF LocalsOK, CarriesGrant, LateOK, GrantedBy, KnownCodes, history
    <2> QED BY <2>5, <2>6, <2>8, <2>9, <2>10, OnlyRequest, ZenonT(60)
  <1> QED BY <1>1, <1>2, Zenon DEF CodeGet

\* The code is gone before tokens are issued for it.
LEMMA CodeDeleteInv ==
  ASSUME IInv, NEW r \in Requests, CodeDelete(r)
  PROVE  IInv'
  <1> DEFINE q == reqs[r]
             n == [q EXCEPT !.pc = "issue"]
  <1>0. TypeOK /\ LocalsOK(q) /\ CarriesGrant(q) /\ LateOK(q) /\ q.pc = "code.delete"
        /\ q \in RequestStates
    BY Zenon DEF IInv, CodeDelete, TypeOK
  <1>1. /\ codes' = [codes EXCEPT ![q.cred] = None] /\ reqs' = [reqs EXCEPT ![r] = n]
        /\ UNCHANGED <<clients, refresh, revoked, signals, now, epoch, history>>
    BY <1>0, Zenon DEF CodeDelete, Goto, TypeOK
  <1>2. q.cred \in KnownCodes /\ q.cred \in CodeIds
    BY <1>0, Zenon DEF LocalsOK, KnownCodes
  <1>3. n \in RequestStates
    BY <1>0, Zenon DEF RequestStates, PCs
  <1>4. /\ n.pc = "issue" /\ n.scope = q.scope /\ n.origin = q.origin /\ n.cred = q.cred
        /\ n.tenant = q.tenant /\ n.client = q.client /\ n.late = q.late /\ n.resp = q.resp
    BY <1>0, Zenon DEF RequestStates
  <1>5. reqs' \in [Requests -> RequestStates] /\ reqs'[r] = n
        /\ \A s \in Requests \ {r} : reqs'[s] = reqs[s]
    BY <1>0, <1>1, <1>3, Zenon DEF TypeOK
  <1> HIDE DEF n
  <1>6. TypeOK'
    BY <1>0, <1>1, <1>2, <1>5, Zenon DEF TypeOK, history
  <1>7. Frame
    BY <1>0, <1>1, <1>2 DEF Frame, TypeOK, history, KnownCodes, KnownRefresh
  <1>8. KnownCodes' = KnownCodes /\ KnownRefresh' = KnownRefresh
    BY <1>1, Zenon DEF KnownCodes, KnownRefresh, history
  <1>9. \A tok \in revoked' : Genuine(tok)'
    BY <1>1, <1>8, Zenon DEF IInv, SpentIsGone, Genuine
  <1>10. (CodesMatchAuthz /\ SpentIsGone /\ TokensTraceToAuthorization)'
    BY <1>0, <1>1, <1>2, <1>6, <1>7, <1>9, QuietStores, Zenon DEF history, TypeOK
  <1>11. codes'[q.cred] = None
    BY <1>0, <1>1, <1>2, ZenonT(60) DEF TypeOK
  <1>12. GrantedBy(reqs[r], reqs[r].origin)'
    BY <1>0, <1>1, <1>4, <1>5, <1>8, ZenonT(60) DEF CarriesGrant, GrantedBy, history
  <1>13. (LocalsOK(reqs[r]) /\ CarriesGrant(reqs[r]) /\ LateOK(reqs[r]))'
    BY <1>0, <1>2, <1>4, <1>5, <1>8, <1>11, <1>12, ZenonT(60) DEF LocalsOK, CarriesGrant, LateOK
  <1>14. \A s \in Requests : reqs[s].pc = "authorize.save" => reqs[s].cred \notin KnownCodes'
    BY <1>8, ZenonT(60) DEF IInv, LocalsOK
  <1>15. reqs'[r].resp \in {"tokens", "active"} => ~reqs'[r].late
    BY <1>0, <1>4, <1>5, Zenon DEF LateOK
  <1> QED BY <1>1, <1>4, <1>5, <1>6, <1>7, <1>10, <1>13, <1>14, <1>15, OneRequest, Zenon

-----------------------------------------------------------------------------
(* The refresh_token and client_credentials grants, and issueTokens *)

\* A refresh request that arrives late finds no token.
LEMMA RefreshGrantInv ==
  ASSUME IInv, NEW r \in Requests, NEW t \in Tenants, NEW tok \in KnownRefresh,
         RefreshGrant(r, t, tok)
  PROVE  IInv'
  <1>0. TypeOK /\ tok \in TokenIds
    BY Zenon DEF IInv, KnownRefresh
  <1>1. Spent(tok) \in BOOLEAN
    BY Zenon DEF Spent
  <1>2. CASE AnswerTo(r, Spent(tok), "error")
    BY <1>1, <1>2, TurnedDown, Zenon DEF RefreshGrant, Responses
  <1> DEFINE q == [Idle EXCEPT !.pc = "refresh.get", !.tenant = t, !.cred = tok, !.late = Spent(tok)]
  <1>3. CASE reqs' = [reqs EXCEPT ![r] = q]
    <2>1. q \in RequestStates
      BY <1>0, <1>1, ZenonT(60) DEF Idle, RequestStates, PCs, Responses, Tokens
    <2>2. reqs' \in [Requests -> RequestStates] /\ reqs'[r] = q
          /\ \A s \in Requests \ {r} : reqs'[s] = reqs[s]
      BY <1>0, <1>3, <2>1, Zenon DEF TypeOK
    <2>3. q.pc = "refresh.get" /\ q.tenant = t /\ q.cred = tok /\ q.late = Spent(tok) /\ q.resp = "none"
      BY Zenon DEF Idle
    <2>4. Spent(tok) => refresh[tok] = None
      BY <1>0, Zenon DEF IInv, SpentIsGone, Spent
    <2>5. tok \in KnownRefresh' /\ refresh' = refresh
      BY Zenon DEF KnownRefresh, RefreshGrant, history, stores
    <2> HIDE DEF q
    <2>6. (LocalsOK(reqs[r]) /\ CarriesGrant(reqs[r]) /\ LateOK(reqs[r]))'
      BY <2>2, <2>3, <2>4, <2>5, Zenon DEF LocalsOK, CarriesGrant, LateOK
    <2> QED BY <2>2, <2>3, <2>6, OnlyRequest, Zenon DEF RefreshGrant
  <1> QED BY <1>2, <1>3, Zenon DEF RefreshGrant

\* A refresh token that passes the checks carries its family's grant.
LEMMA RefreshGetInv ==
  ASSUME IInv, NEW r \in Requests, RefreshGet(r)
  PROVE  IInv'
  <1> DEFINE q == reqs[r]
             e == refresh[q.cred]
             n == [q EXCEPT !.pc = "refresh.delete", !.client = e.client, !.scope = e.scope,
                            !.origin = family[q.cred]]
  <1>0. TypeOK /\ LocalsOK(q) /\ LateOK(q) /\ q.pc = "refresh.get" /\ q.late \in BOOLEAN
        /\ q \in RequestStates
    BY Zenon DEF IInv, RefreshGet, TypeOK, RequestStates
  <1>1. CASE Answer(r, "error")
    BY <1>0, <1>1, TurnedDown, Zenon DEF RefreshGet, Answer, Responses
  <1>2. CASE e # None /\ RefreshMatches(e, q)
    <2>1. q.cred \in KnownRefresh /\ q.cred \in TokenIds /\ e \in RefreshEntries
      BY <1>0, <1>2, Zenon DEF LocalsOK, KnownRefresh, TypeOK
    <2>2. e.scope \in SUBSET Scopes /\ e.client \in Clients /\ family[q.cred] \in CodeIds \cup {None}
      BY <1>0, <2>1, Zenon DEF RefreshEntries, TypeOK
    <2>3. n \in RequestStates
      BY <1>0, <2>1, <2>2, ZenonT(60) DEF RequestStates, PCs
    <2>4. reqs' = [reqs EXCEPT ![r] = n]
      BY <1>0, <1>2, ZenonT(60) DEF RefreshGet, TypeOK
    <2>5. reqs' \in [Requests -> RequestStates] /\ reqs'[r] = n
          /\ \A s \in Requests \ {r} : reqs'[s] = reqs[s]
      BY <1>0, <2>3, <2>4, Zenon DEF TypeOK
    <2>6. /\ n.pc = "refresh.delete" /\ n.scope = e.scope /\ n.origin = family[q.cred]
          /\ n.cred = q.cred /\ n.tenant = q.tenant /\ n.client = e.client
          /\ n.late = q.late /\ n.resp = q.resp
      BY <1>0, Zenon DEF RequestStates
    <2>7. GrantedBy(n, family[q.cred])
      BY <1>2, <2>1, <2>6, Zenon DEF IInv, TokensTraceToAuthorization, GrantedBy, RefreshMatches
    <2>8. ~q.late
      BY <1>0, <1>2, Zenon DEF LateOK
    <2>9. UNCHANGED <<clients, stores, signals, now, epoch, history>>
      BY Zenon DEF RefreshGet
    <2> HIDE DEF n
    <2>10. (LocalsOK(reqs[r]) /\ CarriesGrant(reqs[r]) /\ LateOK(reqs[r]))'
      BY <1>0, <2>1, <2>5, <2>6, <2>7, <2>8, <2>9, ZenonT(60)
      DEF LocalsOK, CarriesGrant, LateOK, GrantedBy, KnownCodes, KnownRefresh, history
    <2> QED BY <2>5, <2>6, <2>8, <2>9, <2>10, OnlyRequest, Zenon
  <1> QED BY <1>1, <1>2, Zenon DEF RefreshGet

\* The refresh token is gone before its successor is issued.
LEMMA RefreshDeleteInv ==
  ASSUME IInv, NEW r \in Requests, RefreshDelete(r)
  PROVE  IInv'
  <1> DEFINE q == reqs[r]
             n == [q EXCEPT !.pc = "issue"]
  <1>0. TypeOK /\ LocalsOK(q) /\ CarriesGrant(q) /\ LateOK(q) /\ q.pc = "refresh.delete"
        /\ q \in RequestStates
    BY ZenonT(60) DEF IInv, RefreshDelete, TypeOK
  <1>1. /\ refresh' = [refresh EXCEPT ![q.cred] = None] /\ reqs' = [reqs EXCEPT ![r] = n]
        /\ UNCHANGED <<clients, codes, revoked, signals, now, epoch, history>>
    BY <1>0, Zenon DEF RefreshDelete, Goto, TypeOK
  <1>2. q.cred \in KnownRefresh /\ q.cred \in TokenIds
    BY <1>0, ZenonT(60) DEF LocalsOK, KnownRefresh
  <1>3. n \in RequestStates
    BY <1>0 DEF RequestStates, PCs
  <1>4. /\ n.pc = "issue" /\ n.scope = q.scope /\ n.origin = q.origin /\ n.cred = q.cred
        /\ n.tenant = q.tenant /\ n.client = q.client /\ n.late = q.late /\ n.resp = q.resp
    BY <1>0, Zenon DEF RequestStates
  <1>5. reqs' \in [Requests -> RequestStates] /\ reqs'[r] = n
        /\ \A s \in Requests \ {r} : reqs'[s] = reqs[s]
    BY <1>0, <1>1, <1>3, Zenon DEF TypeOK
  <1> HIDE DEF n
  <1>6. TypeOK'
    BY <1>0, <1>1, <1>2, <1>5, Zenon DEF TypeOK, history
  <1>7. Frame
    BY <1>0, <1>1, <1>2 DEF Frame, TypeOK, history, KnownCodes, KnownRefresh
  <1>8. KnownCodes' = KnownCodes /\ KnownRefresh' = KnownRefresh
    BY <1>1, Zenon DEF KnownCodes, KnownRefresh, history
  <1>9. \A tok \in revoked' : Genuine(tok)'
    BY <1>1, <1>8, ZenonT(60) DEF IInv, SpentIsGone, Genuine
  <1>10. (CodesMatchAuthz /\ SpentIsGone /\ TokensTraceToAuthorization)'
    BY <1>0, <1>1, <1>2, <1>6, <1>7, <1>9, QuietStores, ZenonT(60) DEF history, TypeOK
  <1>11. refresh'[q.cred] = None
    BY <1>0, <1>1, <1>2, ZenonT(60) DEF TypeOK
  <1>12. GrantedBy(reqs[r], reqs[r].origin)'
    BY <1>0, <1>1, <1>4, <1>5, <1>8, Zenon DEF CarriesGrant, GrantedBy, history
  <1>13. (LocalsOK(reqs[r]) /\ CarriesGrant(reqs[r]) /\ LateOK(reqs[r]))'
    BY <1>0, <1>2, <1>4, <1>5, <1>8, <1>11, <1>12, ZenonT(60) DEF LocalsOK, CarriesGrant, LateOK
  <1>14. \A s \in Requests : reqs[s].pc = "authorize.save" => reqs[s].cred \notin KnownCodes'
    BY <1>8, ZenonT(60) DEF IInv, LocalsOK
  <1>15. reqs'[r].resp \in {"tokens", "active"} => ~reqs'[r].late
    BY <1>0, <1>4, <1>5, Zenon DEF LateOK
  <1> QED BY <1>1, <1>4, <1>5, <1>6, <1>7, <1>10, <1>13, <1>14, <1>15, OneRequest, Zenon

\* The new tokens carry the request's grant; the credential counts as used and
\* is in no store.
LEMMA IssueTokensInv ==
  ASSUME IInv, NEW r \in Requests, IssueTokens(r)
  PROVE  IInv'
  <1> DEFINE q == reqs[r]
  <1>0. TypeOK /\ CarriesGrant(q) /\ LateOK(q) /\ q.pc = "issue" /\ q \in RequestStates
        /\ q.late = FALSE
    BY ZenonT(60) DEF IInv, IssueTokens, TypeOK, LateOK, RequestStates
  <1>1. CASE Answer(r, "error") /\ UNCHANGED <<refresh, family, minted, uses>>
    BY <1>0, <1>1, TurnedDown, ZenonT(60) DEF IssueTokens, Answer, Responses, stores, history
  <1>2. CASE \E id \in TokenIds \ KnownRefresh :
               /\ refresh' = [refresh EXCEPT ![id] =
                                [client |-> q.client, tenant |-> q.tenant, scope |-> q.scope,
                                 exp |-> now + RefreshTTL]]
               /\ family' = [family EXCEPT ![id] = q.origin]
               /\ minted' = minted \cup
                    {[token |-> AccessToken(q.tenant, q.client, q.scope, "user"),
                      origin |-> q.origin, at |-> now]}
               /\ uses' = [uses EXCEPT ![q.cred] = @ + 1]
               /\ Answer(r, "tokens")
    <2>1. PICK id \in TokenIds \ KnownRefresh :
               /\ refresh' = [refresh EXCEPT ![id] =
                                [client |-> q.client, tenant |-> q.tenant, scope |-> q.scope,
                                 exp |-> now + RefreshTTL]]
               /\ family' = [family EXCEPT ![id] = q.origin]
               /\ minted' = minted \cup
                    {[token |-> AccessToken(q.tenant, q.client, q.scope, "user"),
                      origin |-> q.origin, at |-> now]}
               /\ uses' = [uses EXCEPT ![q.cred] = @ + 1]
               /\ Answer(r, "tokens")
      BY <1>2, ZenonT(60)
    <2> DEFINE e == [client |-> q.client, tenant |-> q.tenant, scope |-> q.scope,
                     exp |-> now + RefreshTTL]
               a == AccessToken(q.tenant, q.client, q.scope, "user")
               m == [token |-> a, origin |-> q.origin, at |-> now]
    <2>2. UNCHANGED <<clients, codes, revoked, signals, now, epoch, authz, acked, reported>>
      BY ZenonT(60) DEF IssueTokens
    <2>3. GrantedBy(q, q.origin) /\ q.origin \in CodeIds /\ q.origin # None
      BY <1>0, NoneAssumption, ZenonT(60) DEF CarriesGrant, GrantedBy, KnownCodes
    <2>4. q.tenant \in Tenants /\ q.client \in Clients /\ q.scope \in SUBSET Scopes
      <3>1. authz[q.origin] \in Authorizations
        BY <1>0, <2>3, Zenon DEF GrantedBy, KnownCodes, TypeOK
      <3> QED BY <1>0, <2>3, <3>1, Zenon DEF GrantedBy, Authorizations, RequestStates
    <2>5. /\ q.cred \in CodeIds \cup TokenIds
          /\ q.cred \in CodeIds => q.cred \in KnownCodes /\ codes[q.cred] = None
          /\ q.cred \in TokenIds => q.cred \in KnownRefresh /\ refresh[q.cred] = None
      BY <1>0, NoneAssumption, Zenon DEF CarriesGrant, KnownCodes, KnownRefresh
    <2>6. now \in Nat /\ now + RefreshTTL \in Nat
      BY <1>0, TimeAssumption DEF TypeOK
    <2>7. e \in RefreshEntries /\ e.client = q.client /\ e.tenant = q.tenant /\ e.scope = q.scope
      BY <2>4, <2>6, Zenon DEF RefreshEntries
    <2>8. /\ a \in AccessTokens /\ a.epoch = epoch /\ a.tenant = q.tenant /\ a.client = q.client
          /\ a.scope = q.scope
      BY <1>0, <2>4, AccessTokenType
    <2>9. /\ reqs' \in [Requests -> RequestStates] /\ reqs'[r].pc = "idle"
          /\ reqs'[r].late = FALSE /\ \A s \in Requests \ {r} : reqs'[s] = reqs[s]
      BY <1>0, <2>1, AnswerType, ZenonT(60) DEF Responses
    <2> HIDE DEF e, a
    <2>10. m \in [token : AccessTokens, origin : CodeIds \cup {None}, at : Nat]
           /\ m.token = a /\ m.origin = q.origin
      BY <2>3, <2>6, <2>8, Zenon
    <2> HIDE DEF m
    <2>11. /\ refresh' = [refresh EXCEPT ![id] = e] /\ minted' = minted \cup {m}
           /\ family' = [family EXCEPT ![id] = q.origin]
      BY <2>1, Zenon DEF e, a, m
    <2>12. uses' \in [CodeIds \cup TokenIds -> Nat]
           /\ \A x \in CodeIds \cup TokenIds : x # q.cred => uses'[x] = uses[x]
      <3>1. uses \in [CodeIds \cup TokenIds -> Nat]
        BY <1>0, Zenon DEF TypeOK
      <3> QED BY <2>1, <2>5, <3>1
    <2>13. TypeOK'
      BY <1>0, <2>2, <2>3, <2>7, <2>9, <2>10, <2>11, <2>12, ZenonT(60) DEF TypeOK
    <2>14. KnownCodes' = KnownCodes /\ KnownRefresh' = KnownRefresh \cup {id}
      BY <1>0, <2>2, <2>3, <2>11 DEF KnownCodes, KnownRefresh, TypeOK
    <2>15. Frame
      BY <1>0, <2>2, <2>11 DEF Frame, TypeOK, KnownRefresh
    <2>16. CodesMatchAuthz'
      BY <2>2, <2>14, ZenonT(60) DEF IInv, CodesMatchAuthz
    <2>17. \A x, c : GrantedBy(x, c) <=> GrantedBy(x, c)'
      BY <2>2, <2>14, Zenon DEF GrantedBy
    <2>18. TokensTraceToAuthorization'
      <3>1. \A t \in TokenIds : refresh'[t] # None => GrantedBy(refresh'[t], family'[t])
        <4>1. GrantedBy(e, q.origin)
          BY <2>3, <2>7, Zenon DEF GrantedBy
        <4> QED BY <1>0, <2>11, <4>1, ZenonT(60) DEF IInv, TokensTraceToAuthorization, TypeOK
      <3>2. \A k \in minted' : k.token.subject = "user" => GrantedBy(k.token, k.origin)
        <4>1. GrantedBy(m.token, m.origin)
          BY <2>3, <2>8, <2>10, Zenon DEF GrantedBy
        <4> QED BY <2>11, <4>1, Zenon DEF IInv, TokensTraceToAuthorization
      <3> QED BY <2>2, <2>14, <3>1, <3>2, ZenonT(60) DEF TokensTraceToAuthorization, GrantedBy
    <2>19. SpentIsGone'
      <3>1. \A c \in CodeIds : uses'[c] > 0 => c \in KnownCodes' /\ codes'[c] = None
        BY <2>2, <2>5, <2>12, <2>14, ZenonT(60) DEF IInv, SpentIsGone
      <3>2. \A t \in TokenIds : uses'[t] > 0 \/ t \in acked' => t \in KnownRefresh' /\ refresh'[t] = None
        BY <1>0, <2>2, <2>5, <2>11, <2>12, <2>14, ZenonT(60) DEF IInv, SpentIsGone, TypeOK
      <3>3. \A tok \in acked' \cup reported' : tok \in revoked' \/ Dead(tok)'
        BY <1>0, <2>2, <2>15, FrameDead, ZenonT(60) DEF IInv, SpentIsGone, Dead
      <3>4. \A tok \in revoked' : Genuine(tok)'
        BY <1>0, <2>2, <2>15, FrameGenuine, ZenonT(60) DEF IInv, SpentIsGone, Genuine
      <3>5. \A k \in minted' : k.token.epoch <= epoch'
        <4>1. epoch \in Nat /\ \A k \in minted : k.token.epoch <= epoch
          BY <1>0, Zenon DEF IInv, SpentIsGone, TypeOK
        <4> QED BY <2>2, <2>8, <2>10, <2>11, <4>1
      <3> QED BY <3>1, <3>2, <3>3, <3>4, <3>5, Zenon DEF SpentIsGone
    <2>20. \A s \in Requests : reqs[s].pc = "authorize.save" => reqs[s].cred \notin KnownCodes'
      BY <2>14, Zenon DEF IInv, LocalsOK
    <2> QED BY <2>2, <2>9, <2>13, <2>15, <2>16, <2>18, <2>19, <2>20, AnsweredOK, OneRequest, ZenonT(60)
  <1> QED BY <1>1, <1>2, Zenon DEF IssueTokens

\* A client_credentials request holds no code or token.
LEMMA ClientCredentialsInv ==
  ASSUME IInv, NEW r \in Requests, NEW t \in Tenants, NEW c \in Clients, NEW secret \in Secrets,
         NEW scope \in SUBSET Scopes, ClientCredentials(r, t, c, secret, scope)
  PROVE  IInv'
  <1>0. TypeOK
    BY Zenon DEF IInv
  <1>1. PICK cfg \in ResolveClient(t, c) :
          IF cfg # None /\ cfg.type = "confidential"
          THEN reqs' = [reqs EXCEPT ![r] =
                          [Idle EXCEPT !.pc = "cc.secret", !.tenant = t, !.client = c,
                                       !.secret = secret, !.scope = scope, !.allowed = cfg.scopes]]
          ELSE AnswerTo(r, FALSE, "error")
    BY ZenonT(60) DEF ClientCredentials
  <1>2. CASE AnswerTo(r, FALSE, "error")
    BY <1>2, TurnedDown, ZenonT(60) DEF ClientCredentials, Responses
  <1>3. CASE cfg # None /\ cfg.type = "confidential"
    <2> DEFINE q == [Idle EXCEPT !.pc = "cc.secret", !.tenant = t, !.client = c,
                                 !.secret = secret, !.scope = scope, !.allowed = cfg.scopes]
    <2>1. cfg.scopes \in SUBSET Scopes
      BY <1>0, <1>3, ConfigType, Zenon
    <2>2. q \in RequestStates
      BY <2>1, ZenonT(60) DEF Idle, RequestStates, PCs, Responses
    <2>3. reqs' \in [Requests -> RequestStates] /\ reqs'[r] = q
          /\ \A s \in Requests \ {r} : reqs'[s] = reqs[s]
      BY <1>0, <1>1, <1>3, <2>2, Zenon DEF TypeOK
    <2>4. q.pc = "cc.secret" /\ q.tenant = t /\ q.client = c /\ q.secret = secret
          /\ q.late = FALSE /\ q.resp = "none"
      BY Zenon DEF Idle
    <2> HIDE DEF q
    <2>5. (LocalsOK(reqs[r]) /\ CarriesGrant(reqs[r]) /\ LateOK(reqs[r]))'
      BY <2>3, <2>4, ZenonT(60) DEF LocalsOK, CarriesGrant, LateOK
    <2> QED BY <2>3, <2>4, <2>5, OnlyRequest, Zenon DEF ClientCredentials
  <1> QED BY <1>1, <1>2, <1>3, ZenonT(60)

\* A client token is signed by this process and belongs to no user's grant.
LEMMA ClientSecretInv ==
  ASSUME IInv, NEW r \in Requests, ClientSecret(r)
  PROVE  IInv'
  <1> DEFINE q == reqs[r]
             scope == IF q.scope = {} THEN q.allowed ELSE q.scope
             a == AccessToken(q.tenant, q.client, scope, "client")
             m == [token |-> a, origin |-> None, at |-> now]
  <1>0. TypeOK /\ LocalsOK(q) /\ LateOK(q) /\ q.pc = "cc.secret" /\ q \in RequestStates
        /\ q.late = FALSE
    BY ZenonT(60) DEF IInv, ClientSecret, TypeOK, LateOK, RequestStates
  <1>1. CASE Answer(r, "error") /\ UNCHANGED minted
    BY <1>0, <1>1, TurnedDown, ZenonT(60) DEF ClientSecret, Answer, Responses, history
  <1>2. CASE Answer(r, "tokens") /\ minted' = minted \cup {m}
    <2>1. UNCHANGED <<clients, stores, signals, now, epoch, authz, family, uses, acked, reported>>
      BY Zenon DEF ClientSecret
    <2>2. q.tenant \in Tenants /\ q.client \in Clients /\ scope \in SUBSET Scopes /\ now \in Nat
      BY <1>0, Zenon DEF LocalsOK, RequestStates, TypeOK
    <2> HIDE DEF scope
    <2>3. a \in AccessTokens /\ a.epoch = epoch /\ a.subject = "client"
      <3>1. \A t \in Tenants, c \in Clients, sc \in SUBSET Scopes :
              LET tok == AccessToken(t, c, sc, "client") IN
              tok \in AccessTokens /\ tok.epoch = epoch /\ tok.subject = "client"
        BY <1>0, AccessTokenType
      <3>. QED BY <2>2, <3>1, Zenon
    <2> HIDE DEF a
    <2>4. m \in [token : AccessTokens, origin : CodeIds \cup {None}, at : Nat] /\ m.token = a
      BY <2>2, <2>3, Zenon
    <2> HIDE DEF m
    <2>5. /\ reqs' \in [Requests -> RequestStates] /\ reqs'[r].pc = "idle"
          /\ reqs'[r].late = FALSE /\ \A s \in Requests \ {r} : reqs'[s] = reqs[s]
      BY <1>0, <1>2, AnswerType, Zenon DEF Responses
    <2>6. TypeOK'
      BY <1>0, <1>2, <2>1, <2>4, <2>5, Zenon DEF TypeOK, stores
    <2>7. Frame
      BY <1>0, <2>1 DEF Frame, TypeOK, stores
    <2>8. KnownCodes' = KnownCodes /\ KnownRefresh' = KnownRefresh
      BY <2>1, Zenon DEF KnownCodes, KnownRefresh
    <2>9. CodesMatchAuthz'
      BY <2>1, <2>8, Zenon DEF IInv, CodesMatchAuthz, stores
    <2>10. TokensTraceToAuthorization'
      <3>1. \A k \in minted' : k.token.subject = "user" => GrantedBy(k.token, k.origin)
        BY <1>2, <2>3, <2>4, Zenon DEF IInv, TokensTraceToAuthorization
      <3> QED BY <2>1, <2>8, <3>1, ZenonT(60) DEF IInv, TokensTraceToAuthorization, GrantedBy, stores
    <2>11. SpentIsGone'
      <3>1. \A k \in minted' : k.token.epoch <= epoch'
        <4>1. epoch \in Nat /\ \A k \in minted : k.token.epoch <= epoch
          BY <1>0, Zenon DEF IInv, SpentIsGone, TypeOK
        <4> QED BY <1>2, <2>1, <2>3, <2>4, <4>1
      <3> QED BY <2>1, <2>8, <3>1, ZenonT(60) DEF IInv, SpentIsGone, Dead, Genuine, stores
    <2>12. \A s \in Requests : reqs[s].pc = "authorize.save" => reqs[s].cred \notin KnownCodes'
      BY <2>8, ZenonT(60) DEF IInv, LocalsOK
    <2> QED BY <2>1, <2>5, <2>6, <2>7, <2>9, <2>10, <2>11, <2>12, AnsweredOK, OneRequest, ZenonT(60) DEF stores
  <1> QED BY <1>1, <1>2, Zenon DEF ClientSecret
====
