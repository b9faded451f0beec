------------------------- MODULE OAuthTokensProofs -------------------------
(***************************************************************************)
(* Proofs about OAuthTokens, for every number of tenants, clients, codes,  *)
(* tokens and concurrent requests: IInv is inductive, and with it          *)
(* TokensTraceToAuthorization and NoLateUse hold in every behaviour; and   *)
(* while no two requests contend for a credential, the service implements  *)
(* GrantLedger.  The steps of the grants are in OAuthGrantProofs.          *)
(***************************************************************************)
EXTENDS OAuthGrantProofs

-----------------------------------------------------------------------------
(* Introspection and revocation, administration, restarts *)

\* A step that only reports a dead token
LEMMA Reported ==
  ASSUME IInv, NEW r \in Requests, NEW late \in BOOLEAN, NEW tok \in Tokens,
         AnswerTo(r, late, "inactive"), tok \in revoked \/ Dead(tok),
         reported' = reported \cup {tok},
         UNCHANGED <<clients, stores, signals, now, epoch, authz, family, minted, uses, acked>>
  PROVE  IInv'
  <1>0. TypeOK
    BY Zenon DEF IInv
  <1>1. /\ reqs' \in [Requests -> RequestStates] /\ reqs'[r].pc = "idle"
        /\ reqs'[r].resp = "inactive" /\ \A s \in Requests \ {r} : reqs'[s] = reqs[s]
    <2>1. "inactive" \in Responses BY Zenon DEF Responses
    <2> QED BY <1>0, <2>1, AnswerToType, Zenon
  <1>2. TypeOK'
    BY <1>0, <1>1, Zenon DEF TypeOK, stores
  <1>3. Frame
    BY <1>0 DEF Frame, TypeOK, stores
  <1>4. KnownCodes' = KnownCodes /\ KnownRefresh' = KnownRefresh
    BY ZenonT(60) DEF KnownCodes, KnownRefresh
  <1>5. CodesMatchAuthz' /\ TokensTraceToAuthorization'
    BY <1>4, ZenonT(60) DEF IInv, CodesMatchAuthz, TokensTraceToAuthorization, GrantedBy, stores
  <1>6. SpentIsGone'
    BY <1>4, ZenonT(60) DEF IInv, SpentIsGone, Dead, Genuine, stores
  <1>7. \A s \in Requests : reqs[s].pc = "authorize.save" => reqs[s].cred \notin KnownCodes'
    BY <1>4, Zenon DEF IInv, LocalsOK
  <1> QED BY <1>1, <1>2, <1>3, <1>5, <1>6, <1>7, AnsweredOK, OneRequest, ZenonT(60) DEF stores

\* What callers hold is genuine.
LEMMA KnownGenuine ==
  ASSUME IInv, NEW tok \in KnownTokens
  PROVE  tok \in Tokens /\ Genuine(tok)
  <1>1. CASE tok \in KnownRefresh
    BY <1>1, Zenon DEF Tokens, KnownRefresh, Genuine
  <1>2. CASE tok \in {m.token : m \in minted}
    <2>1. PICK m \in minted : tok = m.token
      BY <1>2, Zenon
    <2>2. m.token \in AccessTokens /\ m.token.epoch <= epoch
      BY Zenon DEF IInv, TypeOK, SpentIsGone
    <2> QED BY <2>1, <2>2, Zenon DEF Tokens, Genuine
  <1> QED BY <1>1, <1>2, Zenon DEF KnownTokens

\* An introspection that arrives late is about a dead token.
LEMMA IntrospectInv ==
  ASSUME IInv, NEW r \in Requests, NEW tok \in KnownTokens, Introspect(r, tok)
  PROVE  IInv'
  <1>0. TypeOK /\ tok \in Tokens /\ Genuine(tok)
    BY KnownGenuine, Zenon DEF IInv
  <1> DEFINE late == Spent(tok) \/ tok \in reported
  <1>1. late \in BOOLEAN
    BY Zenon DEF Spent
  <1>2. CASE tok \in revoked
    BY <1>0, <1>1, <1>2, Reported, ZenonT(60) DEF Introspect
  <1>3. CASE tok \notin revoked
    <2> DEFINE q == [Idle EXCEPT !.pc = "introspect.parse", !.cred = tok, !.late = late]
    <2>1. reqs' = [reqs EXCEPT ![r] = q] /\ UNCHANGED <<clients, stores, signals, now, epoch, history>>
      BY <1>3, Zenon DEF Introspect, history
    <2>2. late => Dead(tok)
      <3>1. CASE tok \in acked \cup reported
        BY <1>3, <3>1, Zenon DEF IInv, SpentIsGone
      <3>2. CASE tok \in CodeIds \cup TokenIds /\ uses[tok] > 0
        <4>1. tok \in TokenIds
          BY <1>0, <3>2, NoneAssumption, NullAssumption, Zenon DEF Tokens
        <4> QED BY <3>2, <4>1, Zenon DEF IInv, SpentIsGone, Dead
      <3> QED BY <3>1, <3>2, Zenon DEF Spent
    <2> HIDE DEF late
    <2>3. q \in RequestStates
      BY <1>0, <1>1, ZenonT(60) DEF Idle, RequestStates, PCs, Responses
    <2>4. reqs' \in [Requests -> RequestStates] /\ reqs'[r] = q
          /\ \A s \in Requests \ {r} : reqs'[s] = reqs[s]
      BY <1>0, <2>1, <2>3, Zenon DEF TypeOK
    <2>5. q.pc = "introspect.parse" /\ q.cred = tok /\ q.late = late /\ q.resp = "none"
      BY Zenon DEF Idle
    <2> HIDE DEF q
    <2>6. KnownRefresh' = KnownRefresh
      BY <2>1, Zenon DEF KnownRefresh, history
    <2>7. (LocalsOK(reqs[r]) /\ CarriesGrant(reqs[r]) /\ LateOK(reqs[r]))'
      BY <1>0, <2>1, <2>2, <2>4, <2>5, <2>6, ZenonT(60)
      DEF LocalsOK, CarriesGrant, LateOK, Dead, Genuine, stores
    <2> QED BY <2>1, <2>4, <2>5, <2>7, OnlyRequest, Zenon
  <1> QED BY <1>2, <1>3, Zenon

\* Parsing tells a dead token from a live one.
LEMMA IntrospectParseInv ==
  ASSUME IInv, NEW r \in Requests, IntrospectParse(r)
  PROVE  IInv'
  <1> DEFINE q == reqs[r]
             tok == reqs[r].cred
  <1>0. TypeOK /\ LateOK(q) /\ q.pc = "introspect.parse" /\ q \in RequestStates /\ q.late \in BOOLEAN
        /\ Genuine(tok) /\ tok \in Tokens
    BY ZenonT(60) DEF IInv, IntrospectParse, TypeOK, LateOK, RequestStates, Genuine, KnownRefresh, Tokens
  <1>1. Dead(tok) => ~ValidJWT(tok) /\ ~LiveRefresh(tok)
    <2>1. ASSUME tok \in AccessTokens PROVE tok.epoch \in Nat /\ tok.exp \in Nat /\ tok \notin TokenIds
      BY <2>1, NullAssumption, Zenon DEF AccessTokens
    <2>2. ASSUME tok \in TokenIds, refresh[tok] # None PROVE refresh[tok].exp \in Nat
      BY <1>0, <2>2, Zenon DEF TypeOK, RefreshEntries
    <2> QED BY <1>0, <2>1, <2>2 DEF Dead, ValidJWT, LiveRefresh, TypeOK, KnownRefresh
  <1>2. CASE ValidJWT(tok) /\ Goto(r, "introspect.signals") /\ UNCHANGED reported
    <2> DEFINE n == [q EXCEPT !.pc = "introspect.signals"]
    <2>1. n \in RequestStates
      BY <1>0, Zenon DEF RequestStates, PCs
    <2>2. reqs' \in [Requests -> RequestStates] /\ reqs'[r] = n
          /\ \A s \in Requests \ {r} : reqs'[s] = reqs[s]
      BY <1>0, <1>2, <2>1, Zenon DEF TypeOK, Goto
    <2>3. n.pc = "introspect.signals" /\ n.cred = tok /\ n.late = q.late /\ n.resp = q.resp
      BY <1>0, Zenon DEF RequestStates
    <2>4. ~q.late /\ tok \in AccessTokens
      BY <1>0, <1>1, <1>2, ZenonT(60) DEF LateOK, ValidJWT
    <2> HIDE DEF n
    <2>5. (LocalsOK(reqs[r]) /\ CarriesGrant(reqs[r]) /\ LateOK(reqs[r]))'
      BY <2>2, <2>3, <2>4, ZenonT(60) DEF LocalsOK, CarriesGrant, LateOK
    <2> QED BY <1>2, <2>2, <2>3, <2>4, <2>5, OnlyRequest, ZenonT(60) DEF IntrospectParse, history
  <1>3. CASE LiveRefresh(tok) /\ Answer(r, "active") /\ UNCHANGED reported
    <2>1. ~q.late
      BY <1>0, <1>1, <1>3, ZenonT(60) DEF LateOK
    <2> QED BY <1>0, <1>3, <2>1, TurnedDown, ZenonT(60) DEF IntrospectParse, Answer, Responses, history
  <1>4. CASE ~ValidJWT(tok) /\ ~LiveRefresh(tok) /\ ReportDead(r, tok)
    <2>1. Dead(tok)
      <3>1. CASE tok \in KnownRefresh
        <4>1. refresh[tok] # None => refresh[tok].exp \in Nat
          BY <1>0, <3>1, ZenonT(60) DEF TypeOK, RefreshEntries, KnownRefresh
        <4> QED BY <1>0, <1>4, <3>1, <4>1 DEF Dead, LiveRefresh, KnownRefresh, TypeOK
      <3>2. CASE tok \in AccessTokens /\ tok.epoch <= epoch
        <4>1. tok.epoch \in Nat /\ tok.exp \in Nat
          BY <3>2, Zenon DEF AccessTokens
        <4>2. now \in Nat /\ epoch \in Nat
          BY <1>0, Zenon DEF TypeOK
        <4>3. tok.epoch # epoch \/ ~(now < tok.exp)
          BY <1>4, <3>2, Zenon DEF ValidJWT
        <4>4. tok.epoch < epoch \/ tok.exp <= now
          BY <3>2, <4>1, <4>2, <4>3
        <4> QED BY <3>2, <4>4, Zenon DEF Dead
      <3> QED BY <1>0, <3>1, <3>2, Zenon DEF Genuine
    <2> QED BY <1>0, <1>4, <2>1, Reported, ZenonT(60) DEF IntrospectParse, ReportDead, Answer
  <1> QED BY <1>2, <1>3, <1>4, Zenon DEF IntrospectParse

\* The answer after the event query is to a request that is not late.
LEMMA IntrospectSignalsInv ==
  ASSUME IInv, NEW r \in Requests, IntrospectSignals(r)
  PROVE  IInv'
  <1>0. reqs[r].late = FALSE
    BY Zenon DEF IInv, IntrospectSignals, LateOK, TypeOK, RequestStates
  <1> QED BY <1>0, TurnedDown, ZenonT(60) DEF IntrospectSignals, Answer, Responses

\* Revoking adds a genuine token to the list.
LEMMA RevokeInv ==
  ASSUME IInv, NEW r \in Requests, NEW tok \in KnownTokens, Revoke(r, tok)
  PROVE  IInv'
  <1> DEFINE q == [Idle EXCEPT !.pc = "revoke.delete", !.cred = tok]
  <1>0. TypeOK /\ tok \in Tokens /\ Genuine(tok)
    BY KnownGenuine, Zenon DEF IInv
  <1>1. /\ revoked' = revoked \cup {tok} /\ reqs' = [reqs EXCEPT ![r] = q]
        /\ UNCHANGED <<clients, codes, refresh, signals, now, epoch, history>>
    BY Zenon DEF Revoke
  <1>2. q \in RequestStates
    BY <1>0, ZenonT(60) DEF Idle, RequestStates, PCs, Responses
  <1>3. reqs' \in [Requests -> RequestStates] /\ reqs'[r] = q
        /\ \A s \in Requests \ {r} : reqs'[s] = reqs[s]
    BY <1>0, <1>1, <1>2, Zenon DEF TypeOK
  <1>4. q.pc = "revoke.delete" /\ q.cred = tok /\ q.late = FALSE /\ q.resp = "none"
    BY Zenon DEF Idle
  <1> HIDE DEF q
  <1>5. TypeOK'
    BY <1>0, <1>1, <1>3, Zenon DEF TypeOK, history
  <1>6. Frame
    BY <1>0, <1>1 DEF Frame, TypeOK, history
  <1>7. KnownCodes' = KnownCodes /\ KnownRefresh' = KnownRefresh
    BY <1>1, Zenon DEF KnownCodes, KnownRefresh, history
  <1>8. \A x \in revoked' : Genuine(x)'
    BY <1>0, <1>1, <1>7, ZenonT(60) DEF IInv, SpentIsGone, Genuine
  <1>9. (CodesMatchAuthz /\ SpentIsGone /\ TokensTraceToAuthorization)'
    BY <1>1, <1>5, <1>6, <1>8, QuietStores, Zenon DEF history
  <1>10. (LocalsOK(reqs[r]) /\ CarriesGrant(reqs[r]) /\ LateOK(reqs[r]))'
    BY <1>1, <1>3, <1>4, <1>8, ZenonT(60) DEF LocalsOK, CarriesGrant, LateOK
  <1>11. \A s \in Requests : reqs[s].pc = "authorize.save" => reqs[s].cred \notin KnownCodes'
    BY <1>7, ZenonT(60) DEF IInv, LocalsOK
  <1> QED BY <1>1, <1>3, <1>4, <1>5, <1>6, <1>9, <1>10, <1>11, OneRequest, Zenon

\* An acknowledged revocation leaves the token on the list and out of the store.
LEMMA RevokeDeleteInv ==
  ASSUME IInv, NEW r \in Requests, RevokeDelete(r)
  PROVE  IInv'
  <1> DEFINE q == reqs[r]
             tok == reqs[r].cred
  <1>0. TypeOK /\ LateOK(q) /\ q.pc = "revoke.delete" /\ Genuine(tok) /\ tok \in revoked
        /\ tok \in Tokens
    BY ZenonT(60) DEF IInv, RevokeDelete, TypeOK, LateOK
  <1>1. /\ refresh' = [t \in TokenIds |-> IF t = tok THEN None ELSE refresh[t]]
        /\ acked' = acked \cup {tok} /\ Answer(r, "revoked")
        /\ UNCHANGED <<clients, codes, revoked, signals, now, epoch,
                       authz, family, minted, uses, reported>>
    BY ZenonT(60) DEF RevokeDelete
  <1>2. /\ reqs' \in [Requests -> RequestStates] /\ reqs'[r].pc = "idle"
        /\ reqs'[r].resp = "revoked" /\ \A s \in Requests \ {r} : reqs'[s] = reqs[s]
    BY <1>0, <1>1, AnswerType, ZenonT(60) DEF Responses
  <1>3. TypeOK'
    BY <1>0, <1>1, <1>2, ZenonT(60) DEF TypeOK
  <1>4. Frame
    BY <1>0, <1>1 DEF Frame, TypeOK, KnownRefresh
  <1>5. KnownCodes' = KnownCodes /\ KnownRefresh' = KnownRefresh
    BY <1>1, ZenonT(60) DEF KnownCodes, KnownRefresh
  <1>6. CodesMatchAuthz'
    BY <1>1, <1>5, ZenonT(60) DEF IInv, CodesMatchAuthz
  <1>7. TokensTraceToAuthorization'
    <2>1. \A x, c : GrantedBy(x, c) => GrantedBy(x, c)'
      BY <1>1, <1>5, Zenon DEF GrantedBy
    <2>2. \A t \in TokenIds : refresh'[t] # None => refresh'[t] = refresh[t]
      BY <1>1, Zenon
    <2>3. \A t \in TokenIds : refresh'[t] # None => GrantedBy(refresh[t], family[t])
      BY <2>2, Zenon DEF IInv, TokensTraceToAuthorization
    <2>4. \A t \in TokenIds : (refresh[t] # None => GrantedBy(refresh[t], family[t]))'
      BY <1>1, <1>5, <2>2, <2>3, ZenonT(60) DEF GrantedBy
    <2>5. (\A m \in minted : m.token.subject = "user" => GrantedBy(m.token, m.origin))'
      BY <1>1, <1>5, Zenon DEF IInv, TokensTraceToAuthorization, GrantedBy
    <2> QED BY <2>4, <2>5, ZenonT(60) DEF TokensTraceToAuthorization
  <1>8. SpentIsGone'
    <2>1. \A t \in TokenIds : uses'[t] > 0 \/ t \in acked' => t \in KnownRefresh' /\ refresh'[t] = None
      <3>1. tok \in TokenIds => tok \in KnownRefresh
        BY <1>0, NullAssumption, Zenon DEF Genuine
      <3> QED BY <1>1, <1>5, <3>1, ZenonT(60) DEF IInv, SpentIsGone
    <2>2. \A x \in acked' \cup reported' : x \in revoked' \/ Dead(x)'
      BY <1>0, <1>1, <1>4, FrameDead, ZenonT(60) DEF IInv, SpentIsGone, Dead
    <2>3. \A x \in revoked' : Genuine(x)'
      BY <1>1, <1>5, Zenon DEF IInv, SpentIsGone, Genuine
    <2> QED BY <1>1, <1>5, <2>1, <2>2, <2>3, ZenonT(60) DEF IInv, SpentIsGone
  <1>9. \A s \in Requests : reqs[s].pc = "authorize.save" => reqs[s].cred \notin KnownCodes'
    BY <1>5, ZenonT(60) DEF IInv, LocalsOK
  <1> QED BY <1>1, <1>2, <1>3, <1>4, <1>6, <1>7, <1>8, <1>9, AnsweredOK, OneRequest, ZenonT(60)

\* A step that leaves requests, stores and history alone
LEMMA Outside ==
  ASSUME IInv, TypeOK', UNCHANGED <<stores, epoch, reqs, history>>, now <= now'
  PROVE  IInv'
  <1>0. TypeOK
    BY Zenon DEF IInv
  <1>1. Frame
    BY <1>0 DEF Frame, TypeOK, stores, history
  <1>2. KnownCodes' = KnownCodes /\ KnownRefresh' = KnownRefresh
    BY Zenon DEF KnownCodes, KnownRefresh, history
  <1>3. \A s \in Requests : (LocalsOK(reqs[s]) /\ CarriesGrant(reqs[s]) /\ LateOK(reqs[s]))'
    <2>1. \A s \in Requests : reqs[s].pc = "authorize.save" => reqs[s].cred \notin KnownCodes'
      BY <1>2, Zenon DEF IInv, LocalsOK
    <2> QED BY <1>1, <2>1, Bystander, Zenon DEF stores
  <1>4. \A tok \in revoked' : Genuine(tok)'
    BY <1>2, ZenonT(60) DEF IInv, SpentIsGone, Genuine, stores
  <1>5. (CodesMatchAuthz /\ SpentIsGone /\ TokensTraceToAuthorization)'
    BY <1>1, <1>4, QuietStores, ZenonT(60) DEF stores, history
  <1> QED BY <1>3, <1>5, Zenon DEF IInv, ReservedApart, NoLateUse

\* Administrators write well-formed registrations and touch nothing else.
LEMMA AdminInv ==
  ASSUME IInv, Admin
  PROVE  IInv'
  <1>0. TypeOK
    BY Zenon DEF IInv
  <1>1. PICK t \in Tenants, c \in Clients :
          \/ \E reg \in Registrations : CreateClient(t, c, reg)
          \/ \E upd \in Updates : UpdateClient(t, c, upd)
          \/ DeleteClient(t, c)
    BY Zenon DEF Admin
  <1>2. UNCHANGED <<stores, signals, now, epoch, reqs, history>>
    BY <1>1, ZenonT(60) DEF CreateClient, UpdateClient, DeleteClient
  <1>3. clients' \in [Tenants \X Clients -> ClientConfigs \cup {None}]
    <2>1. CASE \E reg \in Registrations : CreateClient(t, c, reg)
      <3>1. PICK reg \in Registrations : CreateClient(t, c, reg)
        BY <2>1, Zenon
      <3>2. [type |-> reg.type, redirects |-> reg.redirects, scopes |-> reg.scopes,
             hash |-> IF reg.type = "confidential" THEN Bcrypt(reg.secret) ELSE None]
            \in ClientConfigs
        BY AdminAssumption, ZenonT(60) DEF ClientConfigs
      <3> QED BY <1>0, <3>1, <3>2, Zenon DEF CreateClient, TypeOK
    <2>2. CASE \E upd \in Updates : UpdateClient(t, c, upd)
      <3>1. PICK upd \in Updates : UpdateClient(t, c, upd)
        BY <2>2, Zenon
      <3> DEFINE old == clients[<<t, c>>]
      <3>2. old \in ClientConfigs
        BY <1>0, <3>1, Zenon DEF UpdateClient, TypeOK
      <3>3. /\ old.type \in {"public", "confidential"} /\ old.redirects \in (SUBSET Uris) \ {{}}
            /\ old.scopes \in (SUBSET Scopes) \ {{}}
            /\ old.hash \in {Bcrypt(s) : s \in Secrets} \cup {None}
        BY <3>2, Zenon DEF ClientConfigs
      <3> DEFINE new == [type |-> Coalesce(upd.type, old.type),
                         redirects |-> Coalesce(upd.redirects, old.redirects),
                         scopes |-> Coalesce(upd.scopes, old.scopes),
                         hash |-> IF upd.secret = None THEN old.hash ELSE Bcrypt(upd.secret)]
      <3>4. new \in ClientConfigs
        <4> HIDE DEF old
        <4>1. Coalesce(upd.type, old.type) \in {"public", "confidential"}
          BY <3>3, AdminAssumption, Zenon DEF Coalesce
        <4>2. Coalesce(upd.redirects, old.redirects) \in (SUBSET Uris) \ {{}}
          BY <3>3, AdminAssumption, Zenon DEF Coalesce
        <4>3. Coalesce(upd.scopes, old.scopes) \in (SUBSET Scopes) \ {{}}
          BY <3>3, AdminAssumption, Zenon DEF Coalesce
        <4>4. (IF upd.secret = None THEN old.hash ELSE Bcrypt(upd.secret))
                \in {Bcrypt(s) : s \in Secrets} \cup {None}
          BY <3>3, AdminAssumption, Zenon
        <4> QED BY <4>1, <4>2, <4>3, <4>4, ZenonT(60) DEF ClientConfigs
      <3>5. clients' = [clients EXCEPT ![<<t, c>>] = new]
        BY <3>1, Zenon DEF UpdateClient
      <3> HIDE DEF new
      <3> QED BY <1>0, <3>4, <3>5, Zenon DEF TypeOK
    <2>3. CASE DeleteClient(t, c)
      BY <1>0, <2>3, Zenon DEF DeleteClient, TypeOK
    <2> QED BY <1>1, <2>1, <2>2, <2>3, Zenon
  <1>4. TypeOK'
    BY <1>0, <1>2, <1>3, Zenon DEF TypeOK, stores, history
  <1>5. now <= now'
    BY <1>0, <1>2 DEF TypeOK
  <1> QED BY <1>2, <1>4, <1>5, Outside, Zenon

\* A new event or a tick of the clock changes no token's history.
LEMMA EventInv ==
  ASSUME IInv, (\E sub \in Clients : IngestSignal(sub)) \/ Tick
  PROVE  IInv'
  <1>0. TypeOK
    BY Zenon DEF IInv
  <1>1. TypeOK' /\ now <= now' /\ UNCHANGED <<stores, epoch, reqs, history>>
    BY <1>0 DEF TypeOK, IngestSignal, Tick, stores, history
  <1> QED BY <1>1, Outside, Zenon

\* A restart loses the revocation list, and with it every token it held down.
LEMMA RestartInv ==
  ASSUME IInv, Restart
  PROVE  IInv'
  <1>0. TypeOK /\ SpentIsGone
    BY Zenon DEF IInv
  <1>1. /\ epoch' = epoch + 1
        /\ codes' = [c \in CodeIds |-> None] /\ refresh' = [t \in TokenIds |-> None]
        /\ revoked' = {} /\ reqs' = [r \in Requests |-> Idle]
        /\ UNCHANGED <<clients, signals, now, history>>
    BY Zenon DEF Restart
  <1>2. TypeOK'
    BY <1>0, <1>1, IdleType DEF TypeOK, history
  <1>3. \A r \in Requests : reqs'[r].pc = "idle" /\ reqs'[r].resp = "none"
    BY <1>1, Zenon DEF Idle
  <1>4. \A r \in Requests : (LocalsOK(reqs[r]) /\ CarriesGrant(reqs[r]) /\ LateOK(reqs[r]))'
    BY <1>3, AnsweredOK, Zenon
  <1>5. KnownCodes' = KnownCodes /\ KnownRefresh' = KnownRefresh
    BY <1>1, Zenon DEF KnownCodes, KnownRefresh, history
  <1>6. KnownRefresh \subseteq TokenIds
    BY Zenon DEF KnownRefresh
  <1>7. CodesMatchAuthz'
    BY <1>1, <1>5, Zenon DEF IInv, CodesMatchAuthz, history
  <1>8. TokensTraceToAuthorization'
    BY <1>1, <1>5, ZenonT(60) DEF IInv, TokensTraceToAuthorization, GrantedBy, history
  <1>9. \A tok : Genuine(tok) => Dead(tok)'
    <2>1. \A tok \in AccessTokens : tok.epoch <= epoch => tok.epoch < epoch'
      BY <1>0, <1>1 DEF TypeOK, AccessTokens
    <2> QED BY <1>1, <1>5, <1>6, <2>1, Zenon DEF Genuine, Dead
  <1>10. \A tok : Dead(tok) => Dead(tok)'
    <2>1. \A tok \in AccessTokens : tok.epoch < epoch => tok.epoch < epoch'
      BY <1>0, <1>1 DEF TypeOK, AccessTokens
    <2> QED BY <1>1, <1>5, <1>6, <2>1, Zenon DEF Dead, history
  <1>11. SpentIsGone'
    <2>1. \A tok \in acked' \cup reported' : tok \in revoked' \/ Dead(tok)'
      BY <1>0, <1>1, <1>9, <1>10, Zenon DEF SpentIsGone, history
    <2>2. \A m \in minted' : m.token.epoch <= epoch'
      BY <1>0, <1>1 DEF SpentIsGone, TypeOK, AccessTokens, history
    <2> QED BY <1>0, <1>1, <1>5, <2>1, <2>2, ZenonT(60) DEF SpentIsGone, history
  <1> QED BY <1>2, <1>3, <1>4, <1>7, <1>8, <1>11, ZenonT(60) DEF IInv, ReservedApart, NoLateUse

-----------------------------------------------------------------------------
(* The theorems *)

\* The initial state satisfies the invariant.
LEMMA InitInv == Init => IInv
  <1> SUFFICES ASSUME Init PROVE IInv
    BY Zenon
  <1>1. TypeOK
    BY IdleType, Zenon DEF Init, TypeOK
  <1>2. \A r \in Requests : reqs[r].pc = "idle" /\ reqs[r].resp = "none"
    BY Zenon DEF Init, Idle
  <1>3. \A r \in Requests : LocalsOK(reqs[r]) /\ CarriesGrant(reqs[r]) /\ LateOK(reqs[r])
    BY <1>2, ZenonT(60) DEF LocalsOK, CarriesGrant, LateOK
  <1>4. CodesMatchAuthz /\ SpentIsGone /\ TokensTraceToAuthorization
    BY DEF Init, CodesMatchAuthz, SpentIsGone, TokensTraceToAuthorization, KnownCodes
  <1> QED BY <1>1, <1>2, <1>3, <1>4, Zenon DEF IInv, ReservedApart, NoLateUse

\* Every step preserves the invariant.
LEMMA NextInv == IInv /\ [Next]_vars => IInv'
  <1> SUFFICES ASSUME IInv, [Next]_vars PROVE IInv'
    BY Zenon
  <1>1. ASSUME NEW r \in Requests, Arrive(r) PROVE IInv'
    <2>1. ASSUME NEW t \in Tenants, NEW c \in Clients, NEW u \in Uris,
                 NEW scope \in (SUBSET Scopes) \ {{}}, NEW v \in Verifiers,
                 Authorize(r, t, c, u, scope, S256[v])
          PROVE  IInv'
      BY <2>1, AuthorizeInv, PkceAssumption, Zenon
    <2>2. ASSUME NEW t \in Tenants, NEW c \in Clients, NEW code \in KnownCodes, NEW u \in Uris,
                 NEW v \in Verifiers, CodeGrant(r, t, c, code, u, v)
          PROVE  IInv'
      BY <2>2, CodeGrantInv, Zenon
    <2>3. ASSUME NEW t \in Tenants, NEW c \in Clients, NEW secret \in Secrets,
                 NEW scope \in SUBSET Scopes, ClientCredentials(r, t, c, secret, scope)
          PROVE  IInv'
      BY <2>3, ClientCredentialsInv, Zenon
    <2>4. ASSUME NEW t \in Tenants, NEW tok \in KnownRefresh, RefreshGrant(r, t, tok) PROVE IInv'
      BY <2>4, RefreshGrantInv, Zenon
    <2>5. ASSUME NEW tok \in KnownTokens, Introspect(r, tok) \/ Revoke(r, tok) PROVE IInv'
      BY <2>5, IntrospectInv, RevokeInv, Zenon
    <2> QED BY <1>1, <2>1, <2>2, <2>3, <2>4, <2>5, ZenonT(60) DEF Arrive
  <1>2. ASSUME NEW r \in Requests, Step(r) PROVE IInv'
    BY <1>2, AuthorizeSaveInv, CodeGetInv, CodeDeleteInv, RefreshGetInv, RefreshDeleteInv,
       IssueTokensInv, ClientSecretInv, IntrospectParseInv, IntrospectSignalsInv, RevokeDeleteInv, Zenon
    DEF Step
  <1>3. CASE UNCHANGED vars
    <2>1. TypeOK' /\ now <= now' /\ UNCHANGED <<stores, epoch, reqs, history>>
      BY <1>3 DEF IInv, TypeOK, vars, stores, history
    <2> QED BY <2>1, Outside, Zenon
  <1> QED BY <1>1, <1>2, <1>3, AdminInv, EventInv, RestartInv, Zenon DEF Next

\* IInv holds in every reachable state, for every instance: every variable
\* keeps its type, and each request, store and token is as IInv says.
THEOREM Invariance == Spec => []IInv
  BY InitInv, NextInv, PTL DEF Spec

\* Type correctness of the token service.
THEOREM TypeCorrect == Spec => []TypeOK
  <1>1. IInv => TypeOK
    BY Zenon DEF IInv
  <1> QED BY <1>1, Invariance, PTL

\* Through any number of concurrent exchanges, restarts and changes to the
\* registrations, a user's tokens keep the tenant, client and scope of the
\* authorization code they descend from.
THEOREM Provenance == Spec => []TokensTraceToAuthorization
  <1>1. IInv => TokensTraceToAuthorization
    BY Zenon DEF IInv
  <1> QED BY <1>1, Invariance, PTL

\* No request that arrives after its credential was exchanged or revoked is
\* served, and no token once reported dead is later reported active.
THEOREM LateUseRefused == Spec => []NoLateUse
  <1>1. IInv => NoLateUse
    BY Zenon DEF IInv
  <1> QED BY <1>1, Invariance, PTL

\* What was exchanged or acknowledged as revoked is out of its store for good,
\* whatever raced the deletion (Delete in the grants and in Revoke, restarts).
THEOREM SpentForGood == Spec => []SpentIsGone
  <1>1. IInv => SpentIsGone
    BY Zenon DEF IInv
  <1> QED BY <1>1, Invariance, PTL

-----------------------------------------------------------------------------
(* The refinement of GrantLedger *)

\* A request that has read a credential and will exchange it
Holding == {"code.delete", "refresh.delete", "issue"}

\* While a request holds a credential, no other request holds or deletes it.
Uncontended ==
  \A r, s \in Requests :
    r # s /\ reqs[r].pc \in Holding /\ reqs[s].pc \in Holding \cup {"revoke.delete"}
      => reqs[r].cred # reqs[s].cred

\* What a request is about to delete is still there.
HeldIsStored ==
  \A r \in Requests :
    /\ reqs[r].pc = "code.delete" => codes[reqs[r].cred] # None
    /\ reqs[r].pc = "refresh.delete" => refresh[reqs[r].cred] # None

\* What every step is to the ledger
LedgerStep == HeldIsStored' /\ (Ledger!Next \/ UNCHANGED Ledger!vars)

\* What the stores map, and what a request holds.
LEMMA LedgerTypes ==
  ASSUME IInv
  PROVE  /\ codes \in [CodeIds -> CodeEntries \cup {None}] /\ refresh \in [TokenIds -> RefreshEntries \cup {None}]
         /\ authz \in [CodeIds -> Authorizations \cup {None}] /\ family \in [TokenIds -> CodeIds \cup {None}]
         /\ reqs \in [Requests -> RequestStates] /\ now \in Nat
  BY Zenon DEF IInv, TypeOK

LEMMA HeldTypes ==
  ASSUME IInv, NEW s \in Requests
  PROVE  /\ reqs[s].pc = "authorize.save" => reqs[s].cred \in CodeIds \ KnownCodes
         /\ reqs[s].pc = "code.delete" => reqs[s].cred \in KnownCodes
         /\ reqs[s].pc = "refresh.delete" => reqs[s].cred \in KnownRefresh
         /\ reqs[s].pc = "issue" => \/ reqs[s].cred \in KnownCodes /\ codes[reqs[s].cred] = None
                                    \/ reqs[s].cred \in KnownRefresh /\ refresh[reqs[s].cred] = None
  BY Zenon DEF IInv, LocalsOK, CarriesGrant

LEMMA KnownIds == KnownCodes \subseteq CodeIds /\ KnownRefresh \subseteq TokenIds
  BY Zenon DEF KnownCodes, KnownRefresh

\* A request that answers or goes on, in terms of its record.
LEMMA RequestMoves ==
  ASSUME IInv, NEW r \in Requests, NEW q, reqs' = [reqs EXCEPT ![r] = q]
  PROVE  reqs'[r] = q /\ \A s \in Requests \ {r} : reqs'[s] = reqs[s]
  BY LedgerTypes, Zenon

\* An answered request is idle.
LEMMA Answered ==
  ASSUME IInv, NEW r \in Requests, NEW late, NEW resp, AnswerTo(r, late, resp)
  PROVE  reqs'[r].pc = "idle" /\ \A s \in Requests \ {r} : reqs'[s] = reqs[s]
<1> DEFINE q == [Idle EXCEPT !.late = late, !.resp = resp]
<1>1. q.pc = "idle" BY Zenon DEF Idle
<1>2. reqs' = [reqs EXCEPT ![r] = q] BY Zenon DEF AnswerTo
<1> HIDE DEF q
<1> QED BY <1>1, <1>2, RequestMoves, Zenon

\* A request that goes on keeps its credential.
LEMMA WentOn ==
  ASSUME IInv, NEW r \in Requests, NEW pc, Goto(r, pc)
  PROVE  /\ reqs'[r].pc = pc /\ reqs'[r].cred = reqs[r].cred
         /\ \A s \in Requests \ {r} : reqs'[s] = reqs[s]
  BY LedgerTypes, ZenonT(30) DEF Goto, RequestStates

\* A step of a request that keeps the stores, and neither starts nor ends an
\* issue, is nothing to the ledger.
LEMMA QuietRequest ==
  ASSUME HeldIsStored, NEW r \in Requests, UNCHANGED <<codes, refresh, authz, family>>,
         \A s \in Requests \ {r} : reqs'[s] = reqs[s],
         reqs[r].pc # "issue", reqs'[r].pc # "issue",
         reqs'[r].pc = "code.delete" => codes[reqs'[r].cred] # None,
         reqs'[r].pc = "refresh.delete" => refresh[reqs'[r].cred] # None
  PROVE  LedgerStep
<1>1. HeldIsStored' BY Zenon DEF HeldIsStored
<1>2. InFlight' = InFlight BY DEF InFlight
<1>3. UNCHANGED Ledger!vars BY <1>2, Zenon DEF Ledger!vars, KnownCodes, KnownRefresh
<1> QED BY <1>1, <1>3, Zenon DEF LedgerStep

\* A request that is turned down, answered or only read something.
LEMMA QuietAnswer ==
  ASSUME IInv, HeldIsStored, NEW r \in Requests, UNCHANGED <<codes, refresh, authz, family>>,
         reqs[r].pc # "issue", NEW late, NEW resp, AnswerTo(r, late, resp)
  PROVE  LedgerStep
  BY Answered, QuietRequest, Zenon

\* A request that arrives and goes on has touched nothing yet.
LEMMA Started ==
  ASSUME IInv, HeldIsStored, NEW r \in Requests, UNCHANGED <<codes, refresh, authz, family>>, reqs[r].pc = "idle",
         NEW q, reqs' = [reqs EXCEPT ![r] = q], q.pc \notin Holding
  PROVE  LedgerStep
<1>1. reqs'[r] = q /\ \A s \in Requests \ {r} : reqs'[s] = reqs[s]
  BY RequestMoves, Zenon
<1> QED BY <1>1, QuietRequest, Zenon DEF Holding

\* The arrivals: a request is turned down or starts.
LEMMA ArriveLedger ==
  ASSUME IInv, HeldIsStored, NEW r \in Requests, Arrive(r)
  PROVE  LedgerStep
<1> DEFINE Untouched == reqs[r].pc = "idle" /\ UNCHANGED <<codes, refresh, authz, family>>
<1>a. ASSUME Untouched, NEW late, NEW resp, AnswerTo(r, late, resp) PROVE LedgerStep
  BY <1>a, QuietAnswer, Zenon
<1>b. ASSUME Untouched, NEW q, reqs' = [reqs EXCEPT ![r] = q], q.pc \notin Holding PROVE LedgerStep
  BY <1>b, Started, Zenon
<1>c. \A x \in {"authorize.save", "code.get", "refresh.get", "cc.secret", "introspect.parse", "revoke.delete"} :
        x \notin Holding
  BY Zenon DEF Holding
<1>1. ASSUME NEW t \in Tenants, NEW c \in Clients, NEW u \in Uris, NEW scope, NEW challenge,
             Authorize(r, t, c, u, scope, challenge)
      PROVE  LedgerStep
  <2> DEFINE q(id, cfg) == [Idle EXCEPT !.pc = "authorize.save", !.tenant = t, !.client = c,
                                        !.cred = id, !.uri = u, !.pkce = challenge, !.scope = scope,
                                        !.allowed = cfg.scopes, !.exp = now + CodeTTL]
  <2>1. Untouched BY <1>1, Zenon DEF Authorize, Free, stores, history
  <2>2. \A id, cfg : q(id, cfg).pc \notin Holding BY <1>c, Zenon DEF Idle
  <2>3. AnswerTo(r, FALSE, "error") \/ \E cfg, id : reqs' = [reqs EXCEPT ![r] = q(id, cfg)]
    BY <1>1, Zenon DEF Authorize
  <2> HIDE DEF q
  <2> QED BY <1>a, <1>b, <2>1, <2>2, <2>3, Zenon
<1>2. ASSUME NEW t \in Tenants, NEW c \in Clients, NEW code, NEW u \in Uris, NEW v, CodeGrant(r, t, c, code, u, v)
      PROVE  LedgerStep
  <2> DEFINE q == [Idle EXCEPT !.pc = "code.get", !.tenant = t, !.client = c, !.cred = code,
                               !.uri = u, !.pkce = v, !.late = Spent(code)]
  <2>1. Untouched BY <1>2, Zenon DEF CodeGrant, Free, stores, history
  <2>2. q.pc \notin Holding BY <1>c, Zenon DEF Idle
  <2>3. AnswerTo(r, Spent(code), "error") \/ reqs' = [reqs EXCEPT ![r] = q] BY <1>2, Zenon DEF CodeGrant
  <2> HIDE DEF q
  <2> QED BY <1>a, <1>b, <2>1, <2>2, <2>3, Zenon
<1>3. ASSUME NEW t \in Tenants, NEW c \in Clients, NEW secret, NEW scope, ClientCredentials(r, t, c, secret, scope)
      PROVE  LedgerStep
  <2> DEFINE q(cfg) == [Idle EXCEPT !.pc = "cc.secret", !.tenant = t, !.client = c,
                                    !.secret = secret, !.scope = scope, !.allowed = cfg.scopes]
  <2>1. Untouched BY <1>3, Zenon DEF ClientCredentials, Free, stores, history
  <2>2. \A cfg : q(cfg).pc \notin Holding BY <1>c, Zenon DEF Idle
  <2>3. AnswerTo(r, FALSE, "error") \/ \E cfg : reqs' = [reqs EXCEPT ![r] = q(cfg)]
    BY <1>3, Zenon DEF ClientCredentials
  <2> HIDE DEF q
  <2> QED BY <1>a, <1>b, <2>1, <2>2, <2>3, Zenon
<1>4. ASSUME NEW t \in Tenants, NEW tok, RefreshGrant(r, t, tok) PROVE LedgerStep
  <2> DEFINE q == [Idle EXCEPT !.pc = "refresh.get", !.tenant = t, !.cred = tok, !.late = Spent(tok)]
  <2>1. Untouched BY <1>4, Zenon DEF RefreshGrant, Free, stores, history
  <2>2. q.pc \notin Holding BY <1>c, Zenon DEF Idle
  <2>3. AnswerTo(r, Spent(tok), "error") \/ reqs' = [reqs EXCEPT ![r] = q] BY <1>4, Zenon DEF RefreshGrant
  <2> HIDE DEF q
  <2> QED BY <1>a, <1>b, <2>1, <2>2, <2>3, Zenon
<1>5. ASSUME NEW tok, Introspect(r, tok) PROVE LedgerStep
  <2> DEFINE late == Spent(tok) \/ tok \in reported
             q == [Idle EXCEPT !.pc = "introspect.parse", !.cred = tok, !.late = late]
  <2>1. Untouched BY <1>5, Zenon DEF Introspect, Free, stores
  <2>2. q.pc \notin Holding BY <1>c, Zenon DEF Idle
  <2>3. AnswerTo(r, late, "inactive") \/ reqs' = [reqs EXCEPT ![r] = q] BY <1>5, Zenon DEF Introspect
  <2> HIDE DEF q, late
  <2> QED BY <1>a, <1>b, <2>1, <2>2, <2>3, Zenon
<1>6. ASSUME NEW tok, Revoke(r, tok) PROVE LedgerStep
  <2> DEFINE q == [Idle EXCEPT !.pc = "revoke.delete", !.cred = tok]
  <2>1. Untouched BY <1>6, Zenon DEF Revoke, Free, history
  <2>2. q.pc \notin Holding BY <1>c, Zenon DEF Idle
  <2>3. reqs' = [reqs EXCEPT ![r] = q] BY <1>6, Zenon DEF Revoke
  <2> HIDE DEF q
  <2> QED BY <1>b, <2>1, <2>2, <2>3, Zenon
<1> QED BY <1>1, <1>2, <1>3, <1>4, <1>5, <1>6, Zenon DEF Arrive

\* A grant that reads its credential finds it stored.
LEMMA ReadLedger ==
  ASSUME IInv, HeldIsStored, NEW r \in Requests, CodeGet(r) \/ RefreshGet(r)
  PROVE  LedgerStep
<1>0. reqs \in [Requests -> RequestStates] BY LedgerTypes, Zenon
<1>1. UNCHANGED <<codes, refresh, authz, family>> /\ reqs[r].pc # "issue"
  BY Zenon DEF CodeGet, RefreshGet, stores, history
<1>2. CASE Answer(r, "error")
  BY <1>1, <1>2, QuietAnswer, Zenon DEF Answer
<1>3. ASSUME reqs' = [reqs EXCEPT ![r].pc = "code.delete", ![r].scope = codes[reqs[r].cred].scope,
                                  ![r].origin = reqs[r].cred], codes[reqs[r].cred] # None
      PROVE  LedgerStep
  <2>1. /\ reqs'[r].pc = "code.delete" /\ reqs'[r].cred = reqs[r].cred
        /\ \A s \in Requests \ {r} : reqs'[s] = reqs[s]
    BY <1>0, <1>3, ZenonT(30) DEF RequestStates
  <2> QED BY <1>1, <1>3, <2>1, QuietRequest, Zenon
<1>4. ASSUME reqs' = [reqs EXCEPT ![r].pc = "refresh.delete", ![r].client = refresh[reqs[r].cred].client,
                                  ![r].scope = refresh[reqs[r].cred].scope, ![r].origin = family[reqs[r].cred]],
             refresh[reqs[r].cred] # None
      PROVE  LedgerStep
  <2>1. /\ reqs'[r].pc = "refresh.delete" /\ reqs'[r].cred = reqs[r].cred
        /\ \A s \in Requests \ {r} : reqs'[s] = reqs[s]
    BY <1>0, <1>4, ZenonT(30) DEF RequestStates
  <2> QED BY <1>1, <1>4, <2>1, QuietRequest, Zenon
<1> QED BY <1>2, <1>3, <1>4, Zenon DEF CodeGet, RefreshGet

\* client_credentials and introspection do not touch the ledger.
LEMMA OtherLedger ==
  ASSUME IInv, HeldIsStored, NEW r \in Requests, ClientSecret(r) \/ IntrospectParse(r) \/ IntrospectSignals(r)
  PROVE  LedgerStep
<1>1. UNCHANGED <<codes, refresh, authz, family>> /\ reqs[r].pc # "issue"
  BY Zenon DEF ClientSecret, IntrospectParse, IntrospectSignals, stores, history
<1>2. (\E resp \in Responses : Answer(r, resp)) \/ Goto(r, "introspect.signals")
  BY Zenon DEF ClientSecret, IntrospectParse, IntrospectSignals, ReportDead, Responses
<1>3. CASE \E resp \in Responses : Answer(r, resp)
  BY <1>1, <1>3, QuietAnswer, Zenon DEF Answer
<1>4. CASE Goto(r, "introspect.signals")
  <2>1. reqs'[r].pc = "introspect.signals" /\ \A s \in Requests \ {r} : reqs'[s] = reqs[s]
    BY <1>4, WentOn, Zenon
  <2> QED BY <1>1, <2>1, QuietRequest, Zenon
<1> QED BY <1>2, <1>3, <1>4, Zenon

\* What is in flight, before and after a step.
LEMMA Flight ==
  /\ \A x : x \in InFlight <=> \E s \in Requests : reqs[s].pc = "issue" /\ reqs[s].cred = x
  /\ \A x : x \in InFlight' <=> \E s \in Requests : reqs'[s].pc = "issue" /\ reqs'[s].cred = x
  BY Zenon DEF InFlight

\* A code that is saved is a new one.
LEMMA SaveLedger ==
  ASSUME IInv, HeldIsStored, NEW r \in Requests, AuthorizeSave(r)
  PROVE  LedgerStep
<1> DEFINE c == reqs[r].cred
<1>1. c \in CodeIds \ KnownCodes /\ c \notin TokenIds /\ reqs[r].pc = "authorize.save"
  BY HeldTypes, NoneAssumption, Zenon DEF AuthorizeSave
<1>2. UNCHANGED <<refresh, family>> /\ reqs'[r].pc = "idle" /\ \A s \in Requests \ {r} : reqs'[s] = reqs[s]
  BY Answered, Zenon DEF AuthorizeSave, Answer
<1>3. /\ codes'[c] # None /\ \A d \in CodeIds \ {c} : codes'[d] = codes[d]
      /\ authz'[c] # None /\ \A d \in CodeIds \ {c} : authz'[d] = authz[d]
  <2> DEFINE q == reqs[r]
             e == [client |-> q.client, uri |-> q.uri, scope |-> q.scope, tenant |-> q.tenant,
                   challenge |-> q.pkce, exp |-> q.exp]
             a == [client |-> q.client, uri |-> q.uri, scope |-> q.scope, tenant |-> q.tenant,
                   challenge |-> q.pkce, allowed |-> q.allowed]
  <2>1. /\ q.client \in Clients /\ q.uri \in Uris /\ q.scope \in SUBSET Scopes /\ q.tenant \in Tenants
        /\ q.pkce \in Challenges /\ q.exp \in Nat /\ q.allowed \in SUBSET Scopes
    <3>1. /\ q.client \in Clients /\ q.uri \in Uris /\ q.tenant \in Tenants /\ q.pkce \in Challenges
      BY <1>1, Zenon DEF IInv, LocalsOK
    <3>2. q.scope \in SUBSET Scopes /\ q.exp \in Nat /\ q.allowed \in SUBSET Scopes
      BY LedgerTypes, Zenon DEF RequestStates
    <3> QED BY <3>1, <3>2, Zenon
  <2>2. e \in CodeEntries /\ a \in Authorizations BY <2>1, Zenon DEF CodeEntries, Authorizations
  <2>3. codes' = [codes EXCEPT ![c] = e] /\ authz' = [authz EXCEPT ![c] = a] BY Zenon DEF AuthorizeSave
  <2> HIDE DEF e, a
  <2> QED BY <1>1, <2>2, <2>3, LedgerTypes, NullAssumption, Zenon
<1>4. HeldIsStored'
  <2> SUFFICES ASSUME NEW s \in Requests
               PROVE  /\ reqs'[s].pc = "code.delete" => codes'[reqs'[s].cred] # None
                      /\ reqs'[s].pc = "refresh.delete" => refresh'[reqs'[s].cred] # None
    BY Zenon DEF HeldIsStored
  <2>1. reqs[s].pc = "code.delete" => reqs[s].cred \in CodeIds \ {c}
    BY <1>1, HeldTypes, KnownIds, Zenon
  <2> QED BY <1>2, <1>3, <2>1 DEF HeldIsStored
<1>5. InFlight' = InFlight
  BY <1>1, <1>2 DEF InFlight
<1>6. KnownCodes' = KnownCodes \cup {c} /\ KnownRefresh' = KnownRefresh
  BY <1>1, <1>2, <1>3 DEF KnownCodes, KnownRefresh
<1>7. PICK y : y = c
  BY Zenon
<1>8. y \in CodeIds /\ Ledger!IssueCode(y)
  BY <1>1, <1>2, <1>3, <1>5, <1>6, <1>7 DEF Ledger!IssueCode, KnownRefresh
<1> QED BY <1>4, <1>8, Zenon DEF LedgerStep, Ledger!Next

\* A grant that deletes its credential has it in flight instead.
LEMMA DeleteLedger ==
  ASSUME IInv, HeldIsStored, Uncontended, NEW r \in Requests, CodeDelete(r) \/ RefreshDelete(r)
  PROVE  LedgerStep
<1> DEFINE x == reqs[r].cred
<1>1. UNCHANGED <<authz, family>> /\ reqs[r].pc \in {"code.delete", "refresh.delete"}
  BY Zenon DEF CodeDelete, RefreshDelete, history
<1>2. reqs'[r].pc = "issue" /\ reqs'[r].cred = x /\ \A s \in Requests \ {r} : reqs'[s] = reqs[s]
  BY WentOn, Zenon DEF CodeDelete, RefreshDelete
<1>3. /\ \A c \in CodeIds \ {x} : codes'[c] = codes[c]
      /\ \A t \in TokenIds \ {x} : refresh'[t] = refresh[t]
  BY LedgerTypes, Zenon DEF CodeDelete, RefreshDelete
<1>4. \A y : y \in InFlight' <=> y \in InFlight \/ y = x
  <2>1. ASSUME NEW y, y \in InFlight' PROVE y \in InFlight \/ y = x
    BY <1>2, <2>1, Flight
  <2>2. ASSUME NEW y \in InFlight PROVE y \in InFlight'
    BY <1>1, <1>2, <2>2, Flight
  <2>3. x \in InFlight'
    BY <1>2, Flight, Zenon
  <2> QED BY <2>1, <2>2, <2>3, Zenon
<1>5. HeldIsStored'
  <2> SUFFICES ASSUME NEW s \in Requests
               PROVE  /\ reqs'[s].pc = "code.delete" => codes'[reqs'[s].cred] # None
                      /\ reqs'[s].pc = "refresh.delete" => refresh'[reqs'[s].cred] # None
    BY Zenon DEF HeldIsStored
  <2>1. CASE s = r BY <1>2, <2>1, Zenon
  <2>2. CASE s # r
    <3>1. reqs[s].pc \in {"code.delete", "refresh.delete"} => reqs[s].cred # x
      BY <1>1, <2>2, Zenon DEF Uncontended, Holding
    <3>2. /\ reqs[s].pc = "code.delete" => reqs[s].cred \in CodeIds
          /\ reqs[s].pc = "refresh.delete" => reqs[s].cred \in TokenIds
      BY HeldTypes, KnownIds, Zenon
    <3> QED BY <1>2, <1>3, <2>2, <3>1, <3>2 DEF HeldIsStored
  <2> QED BY <2>1, <2>2, Zenon
<1>6. \/ x \in CodeIds /\ x \notin TokenIds /\ codes[x] # None
      \/ x \in TokenIds /\ x \notin CodeIds /\ refresh[x] # None
  <2>1. CASE reqs[r].pc = "code.delete"
    BY <2>1, HeldTypes, KnownIds, NoneAssumption, Zenon DEF HeldIsStored
  <2>2. CASE reqs[r].pc = "refresh.delete"
    BY <2>2, HeldTypes, KnownIds, NoneAssumption, Zenon DEF HeldIsStored
  <2> QED BY <1>1, <2>1, <2>2, Zenon
<1>7. UNCHANGED Ledger!vars
  BY <1>1, <1>3, <1>4, <1>6 DEF Ledger!vars, KnownCodes, KnownRefresh
<1> QED BY <1>5, <1>7, Zenon DEF LedgerStep

\* A revoked refresh token leaves the ledger.
LEMMA RevokeLedger ==
  ASSUME IInv, HeldIsStored, Uncontended, NEW r \in Requests, RevokeDelete(r)
  PROVE  LedgerStep
<1> DEFINE x == reqs[r].cred
<1>1. /\ UNCHANGED <<codes, authz, family>> /\ reqs[r].pc = "revoke.delete"
      /\ refresh' = [t \in TokenIds |-> IF t = x THEN None ELSE refresh[t]]
  BY Zenon DEF RevokeDelete
<1>2. reqs'[r].pc = "idle" /\ \A s \in Requests \ {r} : reqs'[s] = reqs[s]
  BY Answered, Zenon DEF RevokeDelete, Answer
<1>3. \A s \in Requests : reqs[s].pc \in Holding => s # r /\ reqs[s].cred # x
  BY <1>1, Zenon DEF Uncontended, Holding
<1>4. InFlight' = InFlight /\ x \notin InFlight
  BY <1>1, <1>2, <1>3 DEF InFlight, Holding
<1>5. HeldIsStored'
  <2> SUFFICES ASSUME NEW s \in Requests
               PROVE  /\ reqs'[s].pc = "code.delete" => codes'[reqs'[s].cred] # None
                      /\ reqs'[s].pc = "refresh.delete" => refresh'[reqs'[s].cred] # None
    BY Zenon DEF HeldIsStored
  <2>1. reqs[s].pc = "refresh.delete" => reqs[s].cred # x /\ reqs[s].cred \in TokenIds
    BY <1>3, HeldTypes, KnownIds, Zenon DEF Holding
  <2>2. reqs'[s].pc \in Holding => reqs'[s] = reqs[s]
    BY <1>2, Zenon DEF Holding
  <2> QED BY <1>1, <2>1, <2>2, Zenon DEF HeldIsStored, Holding
<1>6. KnownCodes' = KnownCodes /\ KnownRefresh' = KnownRefresh
  BY <1>1, Zenon DEF KnownCodes, KnownRefresh
<1> DEFINE open == {c \in CodeIds : codes[c] # None \/ c \in InFlight}
           live == {t \in TokenIds : refresh[t] # None \/ t \in InFlight}
           gone == {x} \cap live
<1>7. PICK C, T : C = {} /\ T = gone
  BY Zenon
<1>8. C \in SUBSET open /\ T \in SUBSET live /\ Ledger!Drop(C, T)
  BY <1>1, <1>4, <1>6, <1>7, Zenon DEF Ledger!Drop
<1>9. Ledger!Next
  BY <1>8, Zenon DEF Ledger!Next
<1> QED BY <1>5, <1>9, Zenon DEF LedgerStep

\* A process that stops takes its codes, tokens and grants in flight with it.
LEMMA RestartLedger ==
  ASSUME Restart
  PROVE  LedgerStep
<1>1. UNCHANGED <<authz, family>> /\ \A s \in Requests : reqs'[s].pc = "idle"
  BY Zenon DEF Restart, history, Idle
<1>2. (\A c \in CodeIds : codes'[c] = None) /\ (\A t \in TokenIds : refresh'[t] = None)
  BY Zenon DEF Restart
<1>3. HeldIsStored' /\ InFlight' = {}
  BY <1>1, Zenon DEF HeldIsStored, InFlight
<1>4. KnownCodes' = KnownCodes /\ KnownRefresh' = KnownRefresh
  BY <1>1, Zenon DEF KnownCodes, KnownRefresh
<1> DEFINE open == {c \in CodeIds : codes[c] # None \/ c \in InFlight}
           live == {t \in TokenIds : refresh[t] # None \/ t \in InFlight}
<1>5. PICK C, T : C = open /\ T = live
  BY Zenon
<1>6. C \in SUBSET open /\ T \in SUBSET live /\ Ledger!Drop(C, T)
  BY <1>2, <1>3, <1>4, <1>5, Zenon DEF Ledger!Drop
<1>7. Ledger!Next
  BY <1>6, Zenon DEF Ledger!Next
<1> QED BY <1>3, <1>7, Zenon DEF LedgerStep

\* Tokens that are issued take the place of the credential in flight; when that
\* fails, the credential is lost.
LEMMA IssueLedger ==
  ASSUME IInv, HeldIsStored, Uncontended, NEW r \in Requests, IssueTokens(r)
  PROVE  LedgerStep
<1> DEFINE x == reqs[r].cred
           open == {c \in CodeIds : codes[c] # None \/ c \in InFlight}
           live == {t \in TokenIds : refresh[t] # None \/ t \in InFlight}
<1>1. UNCHANGED <<codes, authz>> /\ reqs[r].pc = "issue" /\ KnownCodes' = KnownCodes
  BY Zenon DEF IssueTokens, KnownCodes
<1>2. reqs'[r].pc = "idle" /\ \A s \in Requests \ {r} : reqs'[s] = reqs[s]
  BY Answered, Zenon DEF IssueTokens, Answer
<1>3. x \in InFlight
  BY <1>1, Flight, Zenon
<1>4. \A y : y \in InFlight' <=> y \in InFlight /\ y # x
  <2>1. ASSUME NEW y, y \in InFlight' PROVE y \in InFlight /\ y # x
    <3>1. PICK s \in Requests : reqs'[s].pc = "issue" /\ reqs'[s].cred = y
      BY <2>1, Flight, Zenon
    <3>2. s # r /\ reqs[s].pc = "issue" /\ reqs[s].cred = y
      BY <1>2, <3>1, Zenon
    <3> QED BY <1>1, <3>2, Flight, Zenon DEF Uncontended, Holding
  <2>2. ASSUME NEW y \in InFlight, y # x PROVE y \in InFlight'
    <3>1. PICK s \in Requests : reqs[s].pc = "issue" /\ reqs[s].cred = y
      BY <2>2, Flight, Zenon
    <3> QED BY <1>2, <2>2, <3>1, Flight, Zenon
  <2> QED BY <2>1, <2>2, Zenon
<1>5. \/ x \in CodeIds /\ x \notin TokenIds /\ codes[x] = None
      \/ x \in TokenIds /\ x \notin CodeIds /\ x \in KnownRefresh /\ refresh[x] = None
  BY <1>1, HeldTypes, KnownIds, NoneAssumption, Zenon
<1>6. ASSUME UNCHANGED <<refresh, family>> PROVE LedgerStep
  <2>1. HeldIsStored'
    BY <1>1, <1>2, <1>6, Zenon DEF HeldIsStored
  <2>2. KnownRefresh' = KnownRefresh
    BY <1>6, Zenon DEF KnownRefresh
  <2>3. PICK C, T : C = {x} \cap open /\ T = {x} \cap live
    BY Zenon
  <2>4. C \in SUBSET open /\ T \in SUBSET live /\ Ledger!Drop(C, T)
    BY <1>1, <1>4, <1>5, <1>6, <2>2, <2>3, Zenon DEF Ledger!Drop
  <2> QED BY <2>1, <2>4, Zenon DEF LedgerStep, Ledger!Next
<1>7. ASSUME NEW id \in TokenIds \ KnownRefresh,
             refresh' = [refresh EXCEPT ![id] = [client |-> reqs[r].client, tenant |-> reqs[r].tenant,
                                                 scope |-> reqs[r].scope, exp |-> now + RefreshTTL]],
             family' = [family EXCEPT ![id] = reqs[r].origin]
      PROVE  LedgerStep
  <2>1. /\ refresh'[id] # None /\ \A t \in TokenIds \ {id} : refresh'[t] = refresh[t]
        /\ family'[id] # None /\ \A t \in TokenIds \ {id} : family'[t] = family[t]
    <3>1. GrantedBy(reqs[r], reqs[r].origin)
      BY <1>1, Zenon DEF IInv, CarriesGrant
    <3>2. /\ reqs[r].client \in Clients /\ reqs[r].tenant \in Tenants /\ reqs[r].scope \in SUBSET Scopes
          /\ reqs[r].origin \in CodeIds
      <4>1. reqs[r].origin \in CodeIds /\ authz[reqs[r].origin] \in Authorizations
        BY <3>1, LedgerTypes, Zenon DEF GrantedBy, KnownCodes
      <4> QED BY <3>1, <4>1, Zenon DEF GrantedBy, Authorizations
    <3>3. [client |-> reqs[r].client, tenant |-> reqs[r].tenant, scope |-> reqs[r].scope,
           exp |-> now + RefreshTTL] \in RefreshEntries
      BY <3>2, LedgerTypes, TimeAssumption DEF RefreshEntries
    <3>4. refresh'[id] \in RefreshEntries /\ family'[id] \in CodeIds
      BY <1>7, <3>2, <3>3, LedgerTypes, Zenon
    <3>5. refresh'[id] # None /\ family'[id] # None
      BY <3>4, NullAssumption, NoneAssumption, Zenon
    <3>6. /\ \A t \in TokenIds \ {id} : refresh'[t] = refresh[t]
          /\ \A t \in TokenIds \ {id} : family'[t] = family[t]
      BY <1>7, LedgerTypes, Zenon
    <3> QED BY <3>5, <3>6, Zenon
  <2>2. HeldIsStored'
    <3> SUFFICES ASSUME NEW s \in Requests
                 PROVE  /\ reqs'[s].pc = "code.delete" => codes'[reqs'[s].cred] # None
                        /\ reqs'[s].pc = "refresh.delete" => refresh'[reqs'[s].cred] # None
      BY Zenon DEF HeldIsStored
    <3>1. reqs[s].pc = "refresh.delete" => reqs[s].cred \in TokenIds
      BY HeldTypes, KnownIds, Zenon
    <3> QED BY <1>1, <1>2, <2>1, <3>1 DEF HeldIsStored
  <2>3. KnownRefresh' = KnownRefresh \cup {id} /\ id \notin KnownCodes
    BY <2>1, NoneAssumption, Zenon DEF KnownRefresh, KnownCodes
  <2>4. CASE x \in CodeIds
    <3>1. PICK y : y = x
      BY Zenon
    <3>2. y \in CodeIds /\ Ledger!Redeem(y, id)
      BY <1>1, <1>3, <1>4, <1>5, <2>1, <2>3, <2>4, <3>1 DEF Ledger!Redeem
    <3> QED BY <2>2, <3>2, Zenon DEF LedgerStep, Ledger!Next
  <2>5. CASE x \in TokenIds
    <3>1. PICK y : y = x
      BY Zenon
    <3>2. y \in TokenIds /\ Ledger!Rotate(y, id)
      BY <1>1, <1>3, <1>4, <1>5, <2>1, <2>3, <2>5, <3>1, Zenon DEF Ledger!Rotate
    <3> QED BY <2>2, <3>2, Zenon DEF LedgerStep, Ledger!Next
  <2> QED BY <1>5, <2>4, <2>5, Zenon
<1> QED BY <1>6, <1>7, Zenon DEF IssueTokens

\* Every step of the service is a step of the ledger, or none.
LEMMA NextLedger == IInv /\ HeldIsStored /\ Uncontended /\ [Next]_vars => LedgerStep
<1> SUFFICES ASSUME IInv, HeldIsStored, Uncontended, [Next]_vars PROVE LedgerStep
  BY Zenon
<1>1. ASSUME UNCHANGED <<codes, refresh, authz, family, reqs>> PROVE LedgerStep
  <2>1. HeldIsStored' BY <1>1, Zenon DEF HeldIsStored
  <2>2. UNCHANGED Ledger!vars
    BY <1>1, Zenon DEF Ledger!vars, KnownCodes, KnownRefresh, InFlight
  <2> QED BY <2>1, <2>2, Zenon DEF LedgerStep
<1>2. CASE Admin \/ (\E sub \in Clients : IngestSignal(sub)) \/ Tick \/ UNCHANGED vars
  <2>1. UNCHANGED <<stores, reqs, history>>
    BY <1>2, Zenon DEF Admin, CreateClient, UpdateClient, DeleteClient, IngestSignal, Tick, vars, stores, history
  <2> QED BY <1>1, <2>1, Zenon DEF stores, history
<1>3. ASSUME NEW r \in Requests, Step(r) PROVE LedgerStep
  BY <1>3, SaveLedger, ReadLedger, DeleteLedger, IssueLedger, OtherLedger, RevokeLedger, Zenon DEF Step
<1> QED BY <1>2, <1>3, ArriveLedger, RestartLedger, Zenon DEF Next

\* As long as no two requests contend for one credential, codes and refresh
\* tokens change hands as in the ledger: a code is exchanged at most once, for one
\* refresh token, and a refresh token for its successor, through failures,
\* revocations and restarts (handleAuthorizationCodeGrant,
\* handleRefreshTokenGrant, issueTokens, Revoke).
THEOREM LedgerImplemented == Spec /\ []Uncontended => ImplementsLedger
<1>1. Init => HeldIsStored /\ Ledger!Init
  BY DEF Init, Idle, HeldIsStored, Ledger!Init, InFlight, KnownCodes, KnownRefresh
<1>2. IInv /\ HeldIsStored /\ Uncontended /\ [Next]_vars => HeldIsStored' /\ [Ledger!Next]_(Ledger!vars)
  BY NextLedger, Zenon DEF LedgerStep
<1> QED BY <1>1, <1>2, Invariance, PTL DEF Spec, ImplementsLedger, Ledger!Spec

\* A service that serves one request at a time implements the ledger.
THEOREM LedgerOneAtATime ==
  ASSUME NEW r, Requests = {r}
  PROVE  Spec => ImplementsLedger
<1>1. Uncontended BY Zenon DEF Uncontended
<1> QED BY <1>1, LedgerImplemented, PTL
====
