# WardSeal in TLA+

TLA+ models of WardSeal's services, the TLC runs that check them on small
instances, and TLAPS proofs about every part modelled. `PROJECT.json` lists the
components, runs, mutants, hazards and theorems, and maps every definition to
the lines of Go it models.

    tlc -workers 2 -config MCOAuthRaces.cfg MCOAuthTokens
    tlapm OAuthTokensProofs.tla

## The system

WardSeal is a multi-tenant identity platform in three Go services over one
Postgres database. authsvc issues OAuth tokens and logs users in; dirsvc keeps
users and groups, with a SCIM front end; govsvc keeps OAuth clients, access
requests, certification campaigns, connectors, roles and organizations.
policysvc and provsvc answer health checks only.

Every HTTP request runs in a goroutine of its own. A handler makes several
queries, map operations or HTTP calls, holds no lock between them and, outside
the directory, opens no transaction. Beside the handlers there are only the
rate limiter's cleanup and the event dispatcher's goroutines. What is
hard to test is therefore the same everywhere: **what another request does
between two store calls of this one**, and what a crash, a lost answer or a
failing query leaves behind between two calls.

| Part | State | Operations | Module |
|---|---|---|---|
| OAuth tokens (`internal/auth`) | codes, refresh tokens, revocations, signing key; clients and security events in Postgres | authorize, three grants, introspect, revoke, client administration, event ingestion | `OAuthTokens`, `GrantLedger` |
| Login (`internal/auth`) | failed attempts, lockouts, TOTP secrets, devices, recent events | login, TOTP enrol/verify/delete, device registration and posture | `Login` |
| Directory and SCIM | identities with accounts, groups, memberships | REST and SCIM create, update, patch, delete | `Directory` |
| Federation, sign-up, SSO providers | providers, federated identities, over the directory | social login, sign-up, provider administration | `Federation` |
| Access requests, policy engine | requests, over the directory | create, approve, reject | `AccessRequests` |
| Campaigns | campaigns, review items | create, start, complete, cancel, delete, decide | `Campaigns` |
| Connectors, provisioning tasks | connector rows, in-memory registry, tasks | administration, test, enqueue, process | `Connectors` |
| Roles and permissions | four tables | administration, assignment, `HasPermission` | `Rbac` |
| Developer portal (`internal/auth`) | apps with a client secret | create, update, rotate, delete, credentials | `DeveloperApps` |
| WebAuthn (`internal/auth`) | one map of sessions, credentials | both ceremonies, begin and finish | `Passkeys` |
| Webhooks and events | subscriptions, detached goroutines | create, delete, publish, look up, send | `Webhooks` |
| Audit log, console's page | entries, visible once committed; the page's offset, filters and loads | log, query, export; open, turn pages, edit and submit filters | `AuditLog` |
| Rate limiter (`pkg/middleware`) | a limiter per address | admit, refill, empty the map | `RateLimiter` |

`Federation` and `AccessRequests` EXTEND `Directory` and run over its actual
state and actions: the directory's operations are steps of theirs. `Console`
puts campaigns, roles, the developer portal, passkeys, the audit log and the rate
limiter side by side. They share no table and no memory, so no step of one can
disturb another; `part` chooses at the start which of them moves, and their
product, which would show nothing more, is never explored. `Tenancy` holds what
they, the directory, the connectors and the webhooks have in common.

## How the code becomes a model

- A goroutine is a record with a `pc`, the locals that matter later, and for
  checking the response it ended with. Each store call is one action; the checks
  on what a call returned are part of that action.
- A directory operation is one statement or transaction, hence one action.
- A Postgres constraint (UNIQUE, foreign key, CHECK) is part of the guard or
  effect of the statements it can reject.
- A query that may fail has a failing outcome, and what the code makes of it:
  `ResolveClient` may return nothing, `IntrospectSignals` takes failure for "no
  event", a failing TOTP query is "no second factor".
- A JWT is a value (its claims and the process that signed it), bcrypt and S256
  are functions, random identifiers are drawn from what was never drawn before.
  JWT times are cut to whole seconds (`Unix`).
- Where only the identity of a drawn id or secret matters, `Draw` takes one fixed
  unused value, which stands for all of them.
- `Calls` and `DirCalls` choose the operations an instance uses; `MaxTime`,
  `MaxEpoch`, `MaxAttempts` are bounds.
- Variables commented *history* are written and never read by the actions that
  model code. They record what the properties compare with: who authorized
  (`authz`), what descends from what (`family`), which safeguards held during a
  whole login (`held`), which membership dirsvc acknowledged (`provisioned`), what
  a walk through the audit log owes (`owed`) and which answers were lost (`unsure`,
  `unsettled`).
- Operators commented *Mutant* are deliberately wrong variants of the definition
  that follows them. Each property is known to fail under one.

Configurations that the models assume:

- **Token stores.** `OAuthTokens` models the in-memory stores that `NewService`
  falls back to. authsvc's `main` passes the SQL stores of `store_sql.go`, whose
  reads scan columns such as `client_id` into structs without `db` tags and so
  return an error for every existing row.
- **FederationStore.** `main` passes none, so a social login as deployed stops at
  `service_federation.go:111`. `Federation` is the service with one.
- **Workers.** Nothing calls `ProcessTask`; `Connectors` has workers that list the
  pending tasks and process one.
- **Access requests.** `CreateAccessRequest` stores a placeholder for the
  requester, which the table refuses (`CreateAccessRequest` models that). Rows
  come from `ImportRequest`, another writer of the table.
- **WebAuthn credentials.** No migration creates `webauthn_credentials`. `Passkeys`
  takes a table with the entity's columns and `credential_id` as its key, as
  `UpdateCredential` uses it.
- **Dispatcher and audit.** Nothing constructs the dispatcher and nothing calls
  `Log`. `Webhooks` and `AuditLog` have callers that publish and log at any time.

## Runs

States are distinct states; times are with two workers.

| Run | What is in it | What it shows |
|---|---|---|
| `oauth_races` | 2 requests, 1 code, 2 refresh tokens, expiry, a restart; 892k states | `NoLateUse`, `SpentIsGone` |
| `oauth_service` | 2 tenants, 2 scopes, one request at a time, a client created, changed, deleted; 137k | `TokensTraceToAuthorization`, `ImplementsLedger` |
| `oauth_double_redeem` | 2 requests, 1 code | violated: `CodeRedeemedOnce` |
| `login_guess` | 2 failing logins at a time, threshold 2, 6 ticks, windows of 2 | `GuessesBounded` |
| `login_factors` | a login between enrolments, devices, events, failing queries; 506k | `CodeAskedFor`, `VerifiedRowProven`, `RiskyDeviceRefused` |
| `access_approve` | 2 tenants, 2 requests, 2 approvals, lost answers, restarts, a SCIM patch; 407k | `MembershipWithinTenant`, `ApprovedWasProvisioned` |
| `access_stuck` | an approver who tries for ever, calls that never fail | violated: `ApprovalSucceeds` |
| `connectors` | 2 tenants, 2 calls and 2 workers at a time, 3 types, 3 operations, failing statements; 792k | `RegistryBacked`, `CompletedWasApplied`, `RetriesBounded` |
| `federation` | 2 tenants, 2 users, a PATCH and 2 social logins at a time; 247k | `LinkedWithinTenant`, `DeletedForGood` |
| `social_link` | 1 tenant, 1 user, 2 addresses | violated: `LinkedByEmail` |
| `console`: campaigns | 2 campaigns, 2 goroutines | `CompletionFollowsStart`, `ItemsHaveCampaign` |
| `console`: roles | 2 tenants, 2 roles, 2 permissions, wildcards | `AssignmentsResolve`, `GrantedByAssignment` |
| `console`: portal | 1 app, 4 secrets, 2 updates or rotations at a time | `EndedCredentialsStayDead`, `ShownSecretWorks` |
| `console`: passkeys | 2 users, 2 authenticators, 3 challenges, 3 signed replies sent to any route under any user and again, 2 ceremonies at a time | `ReplayRefused`, `TokensProven`, `CounterRegressesOnlyOvertaken` |
| `console`: audit | 3 entries, a page of 2 rows with 2 loads at a time that may fail, with 0 or 2 filters; queries and exports with up to 7 | `PagingComplete`, `ExportComplete`, `RefusedOnlyAtTen` |
| `console`: limiter | 2 addresses, 2 requests, burst 2, one emptying | `RateBounded` |
| `webhooks` | 2 tenants, 2 subscriptions, 2 events, 2 types, restarts; 700k | `DeliveredWhereAsked`, `OwedIsTried` |

`console` is one run of 898k states, some three minutes; each run also checks a type
invariant where the table names none.

Why the bounds are enough. The races are between two requests over one object,
so two goroutines and one or two objects reach each of them; a third object adds
copies. Two tenants are needed wherever a query could forget the tenant. One
restart separates "this process" from "an earlier one". In `login_guess` two
windows and two lockouts fit into the clock, so a stale unlock can meet a new
lockout; since attempts are bounded there, that instance stops and is the only
one in which deadlock is not checked. Lifetimes of one or two ticks let expiry
fall between any two steps. In `console`, three challenges let two ceremonies of
one user overlap and a third begin while an old reply comes again; four secrets
let the creation and two rotations overlap and a third mend the result; three
replies (`MaxReplies`) are a registration, a login and one more that may be of
either kind, to any challenge and from either authenticator, and each of them may
be sent any number of times. Three entries and pages of two give a last page that
entries still move into, and two loads (`AuditReaders`) are what a submission on a
later page starts. Of the numbers of filters (`Filters`), 7 are all there are, 2
are the console's and 0 none; for the placeholders every number below seven is as
good as none. Clients of the API are looked at one at a time and beside no page
(`NothingOpen`): a query changes nothing that another could notice. Their limit
(`QueryLimits`) is the default, and an offset of one stands for every positive one;
the theorems have any limit. The timestamps are ranks, no more than there are
entries. In `connectors` the types are scim, azure-ad and one that no factory knows
(ldap and google are covered by the theorems only), and the operations are one on
users, one on memberships and one that is unknown. In `webhooks` a subscription asks for nothing,
for one type or for both (`Wishes`), with an address that a request can be made for
or not.
The rate is 1 per step with a burst of 2 where the code has 20 per second and 40,
and the map is emptied above 1 address where the code allows 10000.

Symmetry sets contain only identifiers no definition tells apart, and never
what `Draw` chooses from.

Fairness. `WebhookSpec` has weak fairness of the dispatcher's goroutines: the Go
scheduler runs a runnable goroutine, a query returns with rows or an error, and
the HTTP client gives up after ten seconds. Nothing is assumed of who subscribes,
publishes or restarts the service, or of the endpoints. `OwedIsTried` says that
an event whose lookup would find a subscription that a request can be made for is
tried there, unless the subscription is deleted, the lookup fails or the service restarts; the excuses
are needed because nothing is stored or retried.

`FairSpec` of `AccessRequests` has weak fairness of the steps of an approval (the
database and dirsvc answer) and strong fairness of an approver's calls, which is
the approver's persistence and not the code's. It serves to show that
persistence does not help. No other liveness is claimed: nothing else in the code
goes on by itself.

## Proofs

Eight modules hold the proofs. Every invariant, action property and refinement
of a passing run has a theorem, for any values of the constants. (`ConsoleTypeOK`
is the conjunction of type invariants that are proved part by part.)

`OAuthGrantProofs` and `OAuthTokensProofs` prove, for any sets of tenants, clients,
codes, tokens, requests and any lifetimes:

- `Invariance`: `Spec => []IInv`;
- `TypeCorrect`: the type invariant, with what requests in flight remember;
- `Provenance`: `TokensTraceToAuthorization`. Every refresh token and user's
  access token, through any chain of rotations, has the tenant, client and scopes
  of an authorization code;
- `LateUseRefused`: `NoLateUse`. A request that arrives after its code or refresh
  token was exchanged or revoked gets no tokens, and a token once reported dead
  is not reported active by an introspection that arrives later;
- `SpentForGood`: `SpentIsGone`. What was exchanged or revoked is out of the stores
  for good, and what was reported dead stays dead, whatever races the deletion;
- `LedgerImplemented`: `Spec /\ []Uncontended => ImplementsLedger`. As long as no
  request holds a code or refresh token that another one holds or deletes,
  codes and tokens change hands as in `GrantLedger`, step by step, with failing
  steps, revocations, expiry and restarts in between, and with any number of
  requests over different credentials;
- `LedgerOneAtATime`: with a single request that needs no assumption. It is the
  instance that `oauth_service` checks; with two, `oauth_double_redeem` shows what
  contention does.

Neither `TokensTraceToAuthorization` nor `NoLateUse` is inductive, because a grant
reads, deletes and issues in separate steps. `IInv` adds what a request holds at
each step:

- `CarriesGrant`: a request past its read carries exactly what the code it goes
  back to was issued for, and one about to issue has its credential out of the
  store. Several requests may be there at once with one credential, which is why
  "at most one use" is not provable and indeed false.
- `SpentIsGone`, which `oauth_races` also checks by itself: what was exchanged or
  acknowledged as revoked is out of its store, and what was reported dead is
  revoked or dead by itself.
- `LateOK`: a late request that has not read yet will find nothing. A restart
  empties the revocation list, so a revoked access token must then be dead for
  another reason: a new process has a new key (`Genuine`, `Dead`).
- `ReservedApart`, `CodesMatchAuthz`, `LocalsOK`: fresh codes are distinct, a
  stored code agrees with its authorization, locals have their types.

Each lemma treats the conjuncts an action can disturb. The grants have a module
of their own because the prover is slow on one large file.

The refinement maps a credential that a request has taken from the store and not
yet exchanged to one that is in flight in the ledger. `IInv` does not say that
what a request is about to delete is still there, and under contention it is not.
`HeldIsStored` says it, and every step from an uncontended state keeps it. Each
action then is one step of the ledger (`SaveLedger`, `DeleteLedger`, `IssueLedger`,
`RevokeLedger`, `RestartLedger`) or leaves the mapped state alone (`ReadLedger`,
`OtherLedger`, `ArriveLedger`).

The other parts, again for any sets of tenants, ids and goroutines. In each, the
named invariant is inductive and the properties follow from it.

| Module | Properties | Invariant, and what it adds |
|---|---|---|
| `DirectoryProofs`: campaigns | `CompletionFollowsStart`, `ItemsHaveCampaign` | `CampaignInv`: a goroutine about to complete a campaign found it active, so it was started, and that is never undone, however stale the check is |
| `CredentialProofs`: roles | `AssignmentsResolve`, `GrantedByAssignment` (an action property) | `RbacInv`: ids of rows are taken. Hence an assigned permission exists and `CreatePermission` cannot give it another meaning |
| `CountingProofs`: audit | `PagingComplete`, `ExportComplete`, `RefusedOnlyAtTen` | `AuditInv`: in an orderly walk, an entry that is owed is shown already, or has at least as many newer entries as the offset skips. Entries are only added, so its rank only grows; when the offset passes the count, nothing owed is left. `WalkInv`: the page knows this from its last answer, or waits for the only load there is, which has the page's offset and filters and hands it back |
| `CredentialProofs`: passkeys | `ReplayRefused`, `TokensProven`, `CounterRegressesOnlyOvertaken` (an action property) | `PasskeyInv`: a challenge enters the map once, before anyone can sign it, and is not in it once accepted; so a late reply meets only sessions of other challenges. A session is in the map under the user it was drawn for, so a reply that matches it answers a challenge of that user, and every stored credential did so in a registration. `RowsAhead`: the row a login is about to write is not behind the stored one unless it was overtaken |
| `CredentialProofs`: portal | `EndedCredentialsStayDead`, `ShownSecretWorks` | `PortalInv`: a dead credential is of a deleted app or an older secret, and secrets in use were drawn, so a rotation never returns to one; outside `unsure`, at most one answer of an app, to its creation or a rotation, is under way and carries the stored secret |
| `CountingProofs`: limiter | `RateBounded` | `LimiterInv`: what an address was given and the tokens it can still draw, from the limiter in the map and from old ones that requests hold, stay within the burst and refill of the limiters made for it, and those are at most one more than the emptyings |
| `ConnectorProofs`: webhooks | `DeliveredWhereAsked`, `WebhookTypeOK` | `WebhookInv`: before its lookup an event is sent to no one, and what a goroutine sends was asked for when it was looked up |
| `ConnectorProofs`: connectors | `RegistryBacked`, `CompletedWasApplied`, `RetriesBounded` | `ConnectorInv`: who is about to register an instance is alone with an id nobody knows yet; a worker with a success to record has carried the task out; the retry count and the workers that may still raise it are bounded together (`RetryBudget`) |
| `DirectoryProofs`: access requests | `MembershipWithinTenant`, `ApprovedWasProvisioned` | `AccessInv`: logins are unique in a tenant, ids of rows were given out, and an approval about to update its group request had the membership acknowledged |
| `DirectoryProofs`: federation | `LinkedWithinTenant`, `DeletedForGood` (an action property) | `FedInv`: the same for the directory; a social login past its search holds a user who is of the tenant or is gone for good, and then the link is refused |
| `LoginProofs` | `CodeAskedFor`, `RiskyDeviceRefused`, `VerifiedRowProven` | `LoginInv`: a device row shows the last report for its id; a login from a device that was bad all along has a high score and is on no path to a token; who marks a TOTP row saw a code for that row |
| `GuessProofs` | `GuessesBounded`, when every attempt fails | `GuessInv`, on top of `LoginInv`: the recorded failures and the ones that can still come are bounded together, see below |

The limiter and the retry counts are counting arguments. They are stated with the
cardinality of a set, of tokens `<<limiter, i>>` or of workers, instead of a sum, so
that one step adds or removes elements and no induction is needed.

`GuessesBounded` is the longest of them. The lockout is checked when a login
arrives and set two queries after its failure is recorded, so an account past the
threshold still gets failures: from the requests past the check, and from those
that had found an old lockout expired and now delete the new one, each of which
lets everyone in again. At any moment a request has a role for an account: it may
add a failure (adder), delete the lockout (clearer), set it (locker) or do nothing
before it arrives again. `Potential` is what the roles can still add: behind a
lockout one failure for each adder and a round of all N requests for each clearer;
without one, the others may add one each too; after an expired one, the others may
become clearers. `Budget` says that past the threshold the failures in the window
plus the potential are at most the threshold, less one, plus N². The step that
enters this regime is a recording: the one who made it is a locker, and with a
locker the potential is at most N² - N (`PotEntry`). After that a recording moves
one from the potential to the count, and a deletion spends its clearer's round
(`PotRecord`, `PotClear`). Expiry is the hard step, since it turns everyone into a
possible clearer. By then the failures before the lockout have left the window,
which is no longer than the lockout, and the ones since were all made by requests
that were on the way when it was set: this is the second conjunct of `Budget`
(`Since`). The third says that if those pass the threshold again, someone is about
to lock. The theorem assumes `EveryAttemptFails`, the configuration of
`login_guess`: a successful login deletes the lockout, and a failing query may skip
the count or the lockout.

Each module also proves the type invariants of its parts. The assumptions are the
ASSUMEs of the modelled modules; TLC evaluates them in the runs. Most say that
`None` is not a row or an id and that numbers are numbers. The others: user ids
and group ids are different (random UUIDs); audit entries, workers and the logins
in flight are finite sets; the failures' window is no longer than the lockout (both
are 15 minutes); the console pages with a positive limit that `Query` does not cut (it sends
50 and `Query` allows more); an export's limit is not zero; an authenticator signs
at least once; S256 does not collide on the verifiers in use.

Only model-checked:

- `OwedIsTried` and `ApprovalSucceeds`: liveness is out of the prover's reach.
- `ConsoleTypeOK` as one formula: the parts have specifications of their own, and
  the theorems are about those.

tlapm and TLC group `SUBSET S \ T` differently; the modules write
`(SUBSET S) \ T`, so that both read the same.

## Where code and documents disagree

Shown by a run:

- `CodeRedeemedOnce`. Two requests that read a code before either deletes it are
  both given tokens; the repository's README says the second gets `invalid_grant`.
- `ApprovalSucceeds`. An approval adds the membership first, and adding an existing
  membership is an error; a request whose requester is a member, for instance
  from an approval that failed half-way, stays pending for ever.
- `LinkedByEmail`. `findUserByEmail` sends a filter that SCIM's `ListUsers` does not
  use and takes the first user, so a first social login is linked to the newest
  user of the tenant, whatever their address.

Met while modelling, visible in the models, without a run of their own:

- a refresh token can be rotated twice in parallel like a code
  (`docs/security.md:65`); `ImplementsLedger` therefore holds one request at a time;
- an event of the second in which a token is issued may make the new token
  inactive at once (`service.go:817`);
- a login that read an expired lockout deletes a newer one
  (`docs/security.md:42`), which the bound of `GuessesBounded` allows for;
- the answer that asks for a TOTP code already carries the signed access token, as
  `pending_token` (`api.go:190-194`), and `completeMFALogin` sends back whatever
  token it was given once a code for the named user is valid (`api.go:239-269`).
  `THREAT_MODEL.md:13` says "TOTP enforced at login if enabled". The model hands the
  token out there (`HandOut`), and `CodeAskedFor` claims no more than holds: no
  session is set, and a code is asked for. A failing TOTP query lets a login
  through without one; `CodeAskedFor` is about logins whose queries succeed;
- enrolling again between the check of a code and `MarkVerified` leaves the new,
  unproven secret verified (`totp_store.go:69`); `VerifiedRowProven` is about rows;
- a SCIM PATCH writes back all it read, so a deactivation in between is undone,
  and a user created inactive is stored active (`organization-onboarding.md:86`);
- `StartCampaign` and `CompleteCampaign` check a status they do not write under, so
  a cancelled campaign can become active or completed;
- an approval for a group that is gone succeeds and adds nothing, and a rejection
  after an approval leaves the membership (`admin-console.md:78-90`);
- deleting or disabling a connector whose statement was carried out but reported as
  failed leaves its instance in the registry; `RegistryBacked` excuses it until a
  later call removes it (`unsettled`);
- enabling a connector never registers it, and testing one unregisters a live
  connector of that id; `RegistryBacked` states the other direction;
- client credentials read the client twice, once for its scopes and once for its
  secret, and an update in between mixes two versions (`service.go:634`); at the
  very instant of expiry a grant accepts what introspection reports dead
  (`service.go:693`); entries of the in-memory stores are never removed
  (`service.go:1037`);
- two overlapping rotations of a client secret, or one that overlaps the creation,
  may show last the one that is not stored, and rotating an app that is not there reports success;
- a passkey login that another one overtook writes an older signature counter
  back and may remove a clone warning;
- a WebAuthn ceremony that ends deletes whichever session its user has by then;
  both kinds of ceremony share the map and a session does not say its kind, so a
  login may answer the challenge of a registration of the same user (`TokensProven`
  says of which user the challenge is, and not of which kind);
- deliveries are not retried (`identity-platform-spec.md:154` says "Webhook
  dispatchers with retry logic"), a redirect may make the HTTP client send one
  twice, a subscription may have an address no request can be made for, and deleting a subscription does not stop
  requests that were started;
- emptying the rate limiter's map gives every address a new burst, on top of the
  20 requests per second of `docs/security.md:29`;
- `itoa` of the audit store writes 10 as a colon, so a later page under all seven
  filters is refused; entries with equal timestamps may be skipped or shown twice,
  and an entry committed between the count and the select of the last page can
  push another one off it;
- the console's audit page keeps its offset when a load fails, so the next button
  skips that page; its buttons and form work while a load is under way and the last
  answer to arrive is shown, whichever page it is of; submitting filters on a later
  page starts one load with the old offset and one with the new
  (`AuditLogs.tsx:39-43`). `PagingComplete` is about walks without these (`orderly`);
- API keys cannot be created, see below, although `docs/developer-portal.md`
  describes it; updating an SSO provider erases its client secret, which JSON never
  carries.

## Not modelled

| Part | Why |
|---|---|
| SQL token stores | reads fail as described above |
| API keys | the key prefix has 19 characters and its column 12 (migration 22): no row can be created |
| Organizations, domain verification | since migration 20 every read of an existing row fails, and before it the verification's columns do not exist |
| Settings of SSO providers | rows are modelled by whether a login may use them; the other fields are written by one statement, or read and written back by `ToggleProvider` |
| Branding, licences | one row or one file, read and written whole |
| SAML | XML and signatures of a library; service providers registered in the table never reach the library's store |
| Other middleware | tenant and service checks are guards every modelled request has passed |
| admincli, client, user interface, stub services | no state of their own, but for the console's audit page |

Of the modelled parts, left out are: the wording of errors, logging and metrics;
listing and paging, except of the audit log and `ListUsers` as social login uses it; display fields of
users, groups, connectors and providers.

## Plan

1. Model: the SQL token stores once their reads work; organizations once their
   columns agree; the settings of SSO providers.
2. Prove: a bound on the guesses when successful logins and failing queries are
   mixed in, once a run has found one that holds.
