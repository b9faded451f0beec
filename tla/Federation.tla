----------------------------- MODULE Federation -----------------------------
(***************************************************************************)
(* Federated sign-in and sign-up of authsvc over the directory             *)
(* (internal/auth/service_federation.go, SignUp, internal/sso).  A social  *)
(* login exchanges a code at the provider, looks for a link, then for a    *)
(* user, creates one if there is none, and stores the link; every step is  *)
(* a query or an HTTP call of its own, with other logins, administrators   *)
(* and SCIM clients in between.  The service is one that is configured     *)
(* with a FederationStore.                                                 *)
(***************************************************************************)
EXTENDS Directory

CONSTANTS
  Providers,    \* names of OIDC providers
  Subjects,     \* "sub" claims the providers give their users
  Socials       \* goroutines that may serve a social login at the same time

VARIABLES
  providers,    \* sso_providers: the enabled ones, as (tenant, name)
  links,        \* federated_identities
  social        \* per goroutine: its next step, the profile, the user found

fedVars == <<providers, links, social>>
federationVars == <<dirVars, fedVars>>

SocialStates == [pc : {"idle", "lookup", "find", "provision", "link"}, tenant : Tenants \cup {None},
                 provider : Providers \cup {None}, ext : Subjects \cup {None},
                 email : Logins \cup {None}, user : UserIds \cup {None}]

Links == [tenant : Tenants, provider : Providers, ext : Subjects, user : UserIds, email : Logins]

NoSocial == [pc |-> "idle", tenant |-> None, provider |-> None, ext |-> None, email |-> None, user |-> None]

FedTypeOK ==
  /\ DirTypeOK
  /\ providers \subseteq Tenants \X Providers
  /\ links \subseteq Links
  /\ social \in [Socials -> SocialStates]

FedInit ==
  /\ DirInit
  /\ providers = {}
  /\ links = {}
  /\ social = [s \in Socials |-> NoSocial]

-----------------------------------------------------------------------------
(* /sso/providers at govsvc *)

\* GetByName reads enabled providers only.
Enabled(t, p) == <<t, p>> \in providers

SetEnabled(t, p, enabled) ==
  providers' = IF enabled THEN providers \cup {<<t, p>>} ELSE providers \ {<<t, p>>}

\* A new provider is enabled.
CreateProvider(t, p) == ~Enabled(t, p) /\ SetEnabled(t, p, TRUE)

\* ToggleProvider and UpdateProvider, of a provider that exists: one that is
\* not enabled is as good as none.
ToggleProvider(t, p, enabled) == SetEnabled(t, p, enabled)

DeleteProvider(t, p) == SetEnabled(t, p, FALSE)

ProviderStep ==
  /\ \E t \in Tenants, p \in Providers :
       CreateProvider(t, p) \/ DeleteProvider(t, p) \/ \E b \in BOOLEAN : ToggleProvider(t, p, b)
  /\ UNCHANGED <<dirVars, links, social>>

-----------------------------------------------------------------------------
(* SocialLogin *)

Goto(s, pc, u) == social' = [social EXCEPT ![s].pc = pc, ![s].user = u]

\* The tokens or an error are sent.
Answer(s) == social' = [social EXCEPT ![s] = NoSocial]

\* The code is exchanged at the provider, which gives the profile.
SocialStart(s, t, p, x, email) ==
  /\ social[s].pc = "idle"
  /\ Enabled(t, p)
  /\ social' = [social EXCEPT ![s] = [NoSocial EXCEPT !.pc = "lookup", !.tenant = t, !.provider = p,
                                                  !.ext = x, !.email = email]]
  /\ UNCHANGED <<dirVars, providers, links>>

LinksOf(q) == {k \in links : k.tenant = q.tenant /\ k.provider = q.provider /\ k.ext = q.ext}

\* federationStore.Get: an existing link is a login, a failing query an error.
SocialLookup(s) ==
  /\ social[s].pc = "lookup"
  /\ Answer(s) \/ (LinksOf(social[s]) = {} /\ Goto(s, "find", None))
  /\ UNCHANGED <<dirVars, providers, links>>

\* Mutant: the tenant header is not sent.
FindUserAnywhere(t, email) == {u \in UserIds : users[u] # None}

\* findUserByEmail as dirsvc answers it: SCIM ListUsers drops the filter and
\* lists the tenant's users, and the first of them is taken.
FindUserByEmail(t, email) == {u \in UserIds : UserIn(t, u)}

\* An error status counts as not found; a failing call ends the login.
SocialFind(s) ==
  LET q == social[s]
      found == FindUserByEmail(q.tenant, q.email)
  IN
  /\ q.pc = "find"
  /\ \/ \E u \in found : Goto(s, "link", u)
     \/ Goto(s, "provision", None)
     \/ Answer(s)
  /\ UNCHANGED <<dirVars, providers, links>>

\* provisionUser: POST /scim/v2/Users; the answer may be lost, and a login that
\* is taken is an error.
SocialProvision(s) ==
  LET q == social[s] IN
  /\ q.pc = "provision"
  /\ \/ /\ ScimCreateUser(q.tenant, q.email)
        /\ \/ \E u \in known' \ known : Goto(s, "link", u)
           \/ Answer(s)
     \/ Answer(s) /\ UNCHANGED dirVars
  /\ UNCHANGED <<providers, links>>

\* INSERT INTO federated_identities: the user must exist and the subject must
\* have no link.
Insert(q) ==
  links' = IF users[q.user] # None /\ LinksOf(q) = {}
           THEN links \cup {[tenant |-> q.tenant, provider |-> q.provider, ext |-> q.ext,
                             user |-> q.user, email |-> q.email]}
           ELSE links

SocialLink(s) ==
  /\ social[s].pc = "link"
  /\ Insert(social[s])
  /\ Answer(s)
  /\ UNCHANGED <<dirVars, providers>>

SocialStep ==
  \E s \in Socials :
    \/ \E t \in Tenants, p \in Providers, x \in Subjects, email \in Logins :
         SocialStart(s, t, p, x, email)
    \/ SocialLookup(s) \/ SocialFind(s) \/ SocialProvision(s) \/ SocialLink(s)

-----------------------------------------------------------------------------
\* A tenant id nobody uses yet, as a random UUID is
Unused(t) ==
  /\ \A u \in UserIds : ~UserIn(t, u)
  /\ \A p \in Providers : ~Enabled(t, p)
  /\ \A s \in Socials : social[s].tenant # t

\* SignUp: the first user of a new tenant.
SignUp(l, w) ==
  /\ \E t \in Tenants : Unused(t) /\ CreateUser(t, l, w)
  /\ UNCHANGED fedVars

\* A deleted identity takes its links along (ON DELETE CASCADE).
RemoveUser(t, u) ==
  /\ DeleteUser(t, u)
  /\ links' = {k \in links : k.user # u}
  /\ UNCHANGED <<providers, social>>

\* authsvc stops and starts.
AuthRestart ==
  /\ social' = [s \in Socials |-> NoSocial]
  /\ UNCHANGED <<dirVars, providers, links>>

FedNext ==
  \/ SocialStep
  \/ ProviderStep
  \/ \E l \in Logins, w \in Passwords : SignUp(l, w)
  \/ DirStep /\ UNCHANGED fedVars
  \/ \E t \in Tenants, u \in UserIds : RemoveUser(t, u)
  \/ AuthRestart

FedSpec == FedInit /\ [][FedNext]_federationVars

-----------------------------------------------------------------------------
(* Properties *)

\* A federated identity stands for one user, who exists and is of the tenant
\* that the login came in for, whatever is deleted, created or linked between
\* the lookup, the search and the insertion of the link (SocialLogin).
LinkedWithinTenant ==
  \A k \in links : UserIn(k.tenant, k.user) /\ LinksOf(k) = {k}

-----------------------------------------------------------------------------
(* What the comments say *)

\* SocialLogin: "Check if user exists by email (JIT / Auto-Link)".  A link is
\* made to a user who has the e-mail address of the profile.
LinkedByEmail == [][\A k \in links' \ links : users[k.user].login = k.email]_federationVars
====
