----------------------------- MODULE Directory -----------------------------
(***************************************************************************)
(* dirsvc: identities with their accounts, groups and memberships in       *)
(* Postgres (internal/directory), and the SCIM front end on the same       *)
(* service (internal/scim).  A directory operation is one statement or one *)
(* transaction, so one step; a SCIM PATCH reads and writes in two.         *)
(***************************************************************************)
EXTENDS Tenancy

CONSTANTS
  UserIds, GroupIds, Logins, Passwords, Names,
  DefaultPassword,  \* the password SCIM gives a new user
  Patchers,         \* goroutines that may serve a SCIM PATCH at the same time
  DirCalls          \* operations used: subset of {"users", "groups", "members", "scim", "scim.create"}

ASSUME DirectoryAssumption ==
  /\ DefaultPassword \in Passwords
  /\ None \notin Tenants \cup UserIds \cup GroupIds \cup Logins \cup Passwords \cup Names
  /\ UserIds \cap GroupIds = {}  \* random UUIDs

VARIABLES
  users,    \* identities joined with accounts: id -> row or None
  groups,   \* groups: id -> row or None
  members,  \* identity_groups
  patches,  \* per PATCH goroutine: the row it read and what it is to change
  known     \* history: ids ever given out

dirVars == <<users, groups, members, patches, known>>

\* "inactive" stands for "suspended" too: both mean not active.
Statuses == {"active", "inactive"}

UserRows == [tenant : Tenants, login : Logins, password : Passwords, status : Statuses]

GroupRows == [tenant : Tenants, name : Names]

Memberships == [user : UserIds, group : GroupIds, tenant : Tenants]

ASSUME RowsAssumption == None \notin UserRows \cup GroupRows

PatchStates == [tenant : Tenants \cup {None}, id : UserIds \cup GroupIds \cup {None},
                login : Logins \cup {None}, status : Statuses \cup {None}, name : Names \cup {None}]

NoPatch == [tenant |-> None, id |-> None, login |-> None, status |-> None, name |-> None]

DirTypeOK ==
  /\ users \in [UserIds -> UserRows \cup {None}]
  /\ groups \in [GroupIds -> GroupRows \cup {None}]
  /\ members \subseteq Memberships
  /\ patches \in [Patchers -> PatchStates]
  /\ known \subseteq UserIds \cup GroupIds

DirInit ==
  /\ users = [u \in UserIds |-> None]
  /\ groups = [g \in GroupIds |-> None]
  /\ members = {}
  /\ patches = [p \in Patchers |-> NoPatch]
  /\ known = {}

-----------------------------------------------------------------------------
(* Rows *)

UserIn(t, u) == users[u] # None /\ users[u].tenant = t

GroupIn(t, g) == groups[g] # None /\ groups[g].tenant = t

\* UNIQUE (tenant_id, login), for a row of user u
LoginFree(t, l, u) == \A v \in UserIds \ {u} : UserIn(t, v) => users[v].login # l

NameFree(t, n, g) == \A h \in GroupIds \ {g} : GroupIn(t, h) => groups[h].name # n

Or(new, old) == IF new = None THEN old ELSE new

Updatable(t, u, login) == UserIn(t, u) /\ LoginFree(t, Or(login, users[u].login), u)

\* Mutant: fields that are not set are written too.
UpdateRowBlank(t, u, login, password, status) ==
  users' = IF Updatable(t, u, login)
           THEN [users EXCEPT ![u].login = login, ![u].password = password, ![u].status = status]
           ELSE users

\* UpdateUser's transaction: the fields that are set, on the row of that id and
\* tenant if there is one; a login already taken rolls everything back.
UpdateRow(t, u, login, password, status) ==
  users' = IF Updatable(t, u, login)
           THEN [users EXCEPT ![u].login = Or(login, @), ![u].password = Or(password, @),
                              ![u].status = Or(status, @)]
           ELSE users

-----------------------------------------------------------------------------
(* /users *)

\* The status in the request is not used.
CreateUser(t, l, p) ==
  /\ "users" \in DirCalls
  /\ \E u \in UserIds \ known :
       /\ LoginFree(t, l, u)
       /\ users' = [users EXCEPT ![u] = [tenant |-> t, login |-> l, password |-> p, status |-> "active"]]
       /\ known' = known \cup {u}
  /\ UNCHANGED <<groups, members, patches>>

\* The handler wants all three fields.
UpdateUser(t, u, login, password, status) ==
  /\ "users" \in DirCalls
  /\ UpdateRow(t, u, login, password, status)
  /\ UNCHANGED <<groups, members, patches, known>>

\* ON DELETE CASCADE takes the account and the memberships along.
DeleteUser(t, u) ==
  /\ "users" \in DirCalls /\ UserIn(t, u)
  /\ users' = [users EXCEPT ![u] = None]
  /\ members' = {m \in members : m.user # u}
  /\ UNCHANGED <<groups, patches, known>>

-----------------------------------------------------------------------------
(* /groups *)

CreateGroup(t, n) ==
  /\ "groups" \in DirCalls
  /\ \E g \in GroupIds \ known :
       /\ NameFree(t, n, g)
       /\ groups' = [groups EXCEPT ![g] = [tenant |-> t, name |-> n]]
       /\ known' = known \cup {g}
  /\ UNCHANGED <<users, members, patches>>

UpdateGroup(t, g, n) ==
  /\ "groups" \in DirCalls /\ GroupIn(t, g) /\ NameFree(t, n, g)
  /\ groups' = [groups EXCEPT ![g].name = n]
  /\ UNCHANGED <<users, members, patches, known>>

DeleteGroup(t, g) ==
  /\ "groups" \in DirCalls /\ GroupIn(t, g)
  /\ groups' = [groups EXCEPT ![g] = None]
  /\ members' = {m \in members : m.group # g}
  /\ UNCHANGED <<users, patches, known>>

IsMember(u, g) == \E m \in members : m.user = u /\ m.group = g

\* The primary key (identity_id, group_id) refuses the row that the statement
\* would insert; where it inserts none there is no conflict.
Conflicts(t, u, g) == UserIn(t, u) /\ GroupIn(t, g) /\ IsMember(u, g)

\* Mutant: the tenant of the group is not looked at.
InsertMemberAnyGroup(t, u, g) ==
  members' = IF UserIn(t, u) /\ groups[g] # None
             THEN members \cup {[user |-> u, group |-> g, tenant |-> t]} ELSE members

\* INSERT ... SELECT ... WHERE EXISTS: no row when the user or the group is not
\* of the tenant, and no error either.
InsertMember(t, u, g) ==
  members' = IF UserIn(t, u) /\ GroupIn(t, g)
             THEN members \cup {[user |-> u, group |-> g, tenant |-> t]} ELSE members

AddUserToGroup(t, u, g) ==
  /\ "members" \in DirCalls /\ ~Conflicts(t, u, g)
  /\ InsertMember(t, u, g)
  /\ UNCHANGED <<users, groups, patches, known>>

RemoveUserFromGroup(t, u, g) ==
  /\ "members" \in DirCalls
  /\ members' = members \ {[user |-> u, group |-> g, tenant |-> t]}
  /\ UNCHANGED <<users, groups, patches, known>>

-----------------------------------------------------------------------------
(* /scim/v2: a list of operations acts like the last value for each path *)

\* The service inserts "active" whatever was sent.
ScimCreateUser(t, l) ==
  /\ "scim.create" \in DirCalls
  /\ \E u \in UserIds \ known :
       /\ LoginFree(t, l, u)
       /\ users' = [users EXCEPT ![u] = [tenant |-> t, login |-> l, password |-> DefaultPassword,
                                         status |-> "active"]]
       /\ known' = known \cup {u}
  /\ UNCHANGED <<groups, members, patches>>

\* PUT: an empty user name leaves the login alone.
ScimReplaceUser(t, u, l, active) ==
  /\ "scim" \in DirCalls /\ Updatable(t, u, l)
  /\ UpdateRow(t, u, l, None, active)
  /\ UNCHANGED <<groups, members, patches, known>>

\* PATCH: GetUserByID, then the operations on the row that was read.
PatchUserRead(p, t, u, login, status) ==
  /\ "scim" \in DirCalls /\ patches[p] = NoPatch
  /\ UserIn(t, u)
  /\ patches' = [patches EXCEPT ![p] =
       [NoPatch EXCEPT !.tenant = t, !.id = u, !.login = Or(login, users[u].login),
                       !.status = Or(status, users[u].status)]]
  /\ UNCHANGED <<users, groups, members, known>>

\* Mutant: writing back re-creates the row.
PatchUserUpsert(p) ==
  LET q == patches[p] IN
  /\ q.id \in UserIds /\ LoginFree(q.tenant, q.login, q.id)
  /\ users' = [users EXCEPT ![q.id] = [tenant |-> q.tenant, login |-> q.login,
                                       password |-> DefaultPassword, status |-> q.status]]
  /\ patches' = [patches EXCEPT ![p] = NoPatch]
  /\ UNCHANGED <<groups, members, known>>

\* UpdateUser with login and status as read or changed.
PatchUserWrite(p) ==
  LET q == patches[p] IN
  /\ q.id \in UserIds
  /\ UpdateRow(q.tenant, q.id, q.login, None, q.status)
  /\ patches' = [patches EXCEPT ![p] = NoPatch]
  /\ UNCHANGED <<groups, members, known>>

PatchGroupRead(p, t, g, name) ==
  /\ "scim" \in DirCalls /\ patches[p] = NoPatch
  /\ GroupIn(t, g)
  /\ patches' = [patches EXCEPT ![p] =
       [NoPatch EXCEPT !.tenant = t, !.id = g, !.name = Or(name, groups[g].name)]]
  /\ UNCHANGED <<users, groups, members, known>>

PatchGroupWrite(p) ==
  LET q == patches[p] IN
  /\ q.id \in GroupIds
  /\ groups' = IF GroupIn(q.tenant, q.id) /\ NameFree(q.tenant, q.name, q.id)
               THEN [groups EXCEPT ![q.id].name = q.name] ELSE groups
  /\ patches' = [patches EXCEPT ![p] = NoPatch]
  /\ UNCHANGED <<users, members, known>>

-----------------------------------------------------------------------------
UserStep ==
  \E t \in Tenants, l \in Logins, w \in Passwords :
    CreateUser(t, l, w) \/ \E u \in UserIds, s \in Statuses : UpdateUser(t, u, l, w, s)

GroupStep ==
  \E t \in Tenants :
    \/ \E n \in Names : CreateGroup(t, n) \/ \E g \in GroupIds : UpdateGroup(t, g, n)
    \/ \E g \in GroupIds :
         DeleteGroup(t, g) \/ \E u \in UserIds : AddUserToGroup(t, u, g) \/ RemoveUserFromGroup(t, u, g)

\* A SCIM DELETE is a DeleteUser.
ScimUserStep ==
  \/ \E t \in Tenants, l \in Logins : ScimCreateUser(t, l)
  \/ \E t \in Tenants, u \in UserIds, l \in Logins \cup {None} :
       \/ \E s \in Statuses : ScimReplaceUser(t, u, l, s)
       \/ \E p \in Patchers, s \in Statuses \cup {None} : PatchUserRead(p, t, u, l, s)
  \/ \E p \in Patchers : PatchUserWrite(p)

\* SCIM creates, replaces and deletes groups by the operations of GroupStep.
ScimGroupStep ==
  \E p \in Patchers :
    \/ \E t \in Tenants, g \in GroupIds, n \in Names \cup {None} : PatchGroupRead(p, t, g, n)
    \/ PatchGroupWrite(p)

\* Every operation but the deletion of users, which concerns other tables too
DirStep == UserStep \/ GroupStep \/ ScimUserStep \/ ScimGroupStep

-----------------------------------------------------------------------------
(* Properties *)

\* A membership joins a user and a group that exist and are both of its
\* tenant, whatever is deleted, recreated or added through another tenant's
\* request meanwhile (AddUserToGroup, DeleteUser, DeleteGroup).
MembershipWithinTenant ==
  \A m \in members : UserIn(m.tenant, m.user) /\ GroupIn(m.tenant, m.group)

\* A deleted user stays deleted: a PATCH that read the row before does not
\* bring it back (PatchUser, UpdateUser).
DeletedForGood ==
  [][\A u \in UserIds : users[u] = None /\ u \in known => users'[u] = None]_dirVars
====
