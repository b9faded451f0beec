-------------------------- MODULE DirectoryProofs ---------------------------
(***************************************************************************)
(* The directory, the services that work over it and the reviews of        *)
(* access, for any number of tenants, users, groups, campaigns and         *)
(* concurrent calls.                                                       *)
(*   - Directory, access requests, federation: memberships and federated   *)
(*     links stay within their tenant, a deleted user stays deleted, and a *)
(*     group request is approved only after dirsvc acknowledged the        *)
(*     membership.                                                         *)
(*   - Campaigns: a completed campaign was started and an item has its     *)
(*     campaign. A goroutine writes the status by id after a check that    *)
(*     may be stale by then; the stale check is still evidence, because    *)
(*     what it found active was activated, and that is never undone.       *)
(***************************************************************************)
EXTENDS AccessRequests, Federation, Campaigns, TLAPS

\* Ids of rows were given out; a PATCH of a group has a name to write.
IdsGivenOut ==
  /\ \A u \in UserIds : users[u] # None => u \in known
  /\ \A g \in GroupIds : groups[g] # None => g \in known
  /\ \A p \in Patchers : patches[p].id \in GroupIds => patches[p].name \in Names

DirInv == DirTypeOK /\ MembershipWithinTenant /\ IdsGivenOut

\* What every step of the directory but a deletion does for users: they stay,
\* in their tenant, and the deleted ones stay deleted.
UsersStay ==
  /\ known \subseteq known'
  /\ \A u \in UserIds :
       /\ users[u] # None => users'[u] # None /\ users'[u].tenant = users[u].tenant
       /\ users[u] = None /\ u \in known => users'[u] = None
-----------------------------------------------------------------------------
(* The tables *)

LEMMA DirInvInit == DirInit => DirInv
  BY DirectoryAssumption DEF DirInit, DirInv, DirTypeOK, MembershipWithinTenant, IdsGivenOut, NoPatch,
     PatchStates

\* A step that leaves the tables alone keeps what is known of them.
LEMMA DirUntouched == DirInv /\ UNCHANGED dirVars => DirInv' /\ UsersStay
  BY DEF dirVars, DirInv, DirTypeOK, MembershipWithinTenant, IdsGivenOut, UsersStay, UserIn, GroupIn

\* INSERT of a user with a new id.
LEMMA UserInserted ==
  ASSUME DirInv, NEW u \in UserIds \ known, NEW row \in UserRows,
         users' = [users EXCEPT ![u] = row], known' = known \cup {u}, UNCHANGED <<groups, members, patches>>
  PROVE  DirInv' /\ UsersStay
<1> USE RowsAssumption
<1>1. users[u] = None
  BY Zenon DEF DirInv, IdsGivenOut
<1>2. /\ users'[u] = row /\ users'[u] # None
      /\ \A v \in UserIds : v # u => users'[v] = users[v]
  BY Zenon DEF DirInv, DirTypeOK
<1>3. DirTypeOK'
  BY Zenon DEF DirInv, DirTypeOK
<1>4. MembershipWithinTenant'
  <2> SUFFICES ASSUME NEW m \in members PROVE UserIn(m.tenant, m.user)' /\ GroupIn(m.tenant, m.group)'
    BY Zenon DEF MembershipWithinTenant
  <2>1. m.user \in UserIds /\ UserIn(m.tenant, m.user) /\ GroupIn(m.tenant, m.group)
    BY Zenon DEF DirInv, DirTypeOK, Memberships, MembershipWithinTenant
  <2>. QED BY <1>1, <1>2, <2>1, Zenon DEF UserIn, GroupIn
<1>6. IdsGivenOut'
  BY <1>2, Zenon DEF DirInv, IdsGivenOut
<1>7. UsersStay
  BY <1>1, <1>2, Zenon DEF UsersStay
<1>. QED BY <1>3, <1>4, <1>6, <1>7, Zenon DEF DirInv

\* UPDATE of a user: the row keeps its tenant.
LEMMA UserUpdated ==
  ASSUME DirInv, NEW t, NEW u \in UserIds, NEW login \in Logins \cup {None}, NEW password \in Passwords \cup {None},
         NEW status \in Statuses \cup {None}, UpdateRow(t, u, login, password, status),
         UNCHANGED <<groups, members, known>>, patches' \in [Patchers -> PatchStates],
         \A p \in Patchers : patches'[p].id \in GroupIds => patches'[p].name \in Names
  PROVE  DirInv' /\ UsersStay
<1> USE RowsAssumption
<1> DEFINE row == [users[u] EXCEPT !.login = Or(login, users[u].login), !.password = Or(password, users[u].password),
                                  !.status = Or(status, users[u].status)]
<1>1. CASE ~Updatable(t, u, login)
  BY <1>1, Zenon DEF UpdateRow, DirInv, DirTypeOK, MembershipWithinTenant, IdsGivenOut, UsersStay, UserIn,
              GroupIn
<1>2. CASE Updatable(t, u, login)
  <2>1. users[u] # None /\ users[u].tenant = t
    BY <1>2, Zenon DEF Updatable, UserIn
  <2>2. users[u] \in UserRows
    BY <2>1, Zenon DEF DirInv, DirTypeOK
  <2>3. row \in UserRows /\ row.tenant = t
    BY <2>1, <2>2, Zenon DEF UserRows, Or
  <2>4. users' = [users EXCEPT ![u] = row]
    BY <1>2, <2>2, Zenon DEF UpdateRow, UserRows, DirInv, DirTypeOK
  <2> HIDE DEF row
  <2>5. /\ users'[u] = row /\ users'[u] # None
        /\ \A v \in UserIds : v # u => users'[v] = users[v]
    BY <2>3, <2>4, Zenon DEF DirInv, DirTypeOK
  <2>6. DirTypeOK'
    BY <2>3, <2>4, Zenon DEF DirInv, DirTypeOK
  <2>7. MembershipWithinTenant'
    <3> SUFFICES ASSUME NEW m \in members PROVE UserIn(m.tenant, m.user)' /\ GroupIn(m.tenant, m.group)'
      BY Zenon DEF MembershipWithinTenant
    <3>1. m.user \in UserIds /\ UserIn(m.tenant, m.user) /\ GroupIn(m.tenant, m.group)
      BY Zenon DEF DirInv, DirTypeOK, Memberships, MembershipWithinTenant
    <3>. QED BY <2>1, <2>3, <2>5, <3>1, Zenon DEF UserIn, GroupIn
  <2>9. IdsGivenOut'
    BY <2>1, <2>5, Zenon DEF DirInv, IdsGivenOut
  <2>10. UsersStay
    BY <2>1, <2>3, <2>5, Zenon DEF UsersStay
  <2>. QED BY <2>6, <2>7, <2>9, <2>10, Zenon DEF DirInv
<1>. QED BY <1>1, <1>2, Zenon

\* DELETE of a user, with the memberships.
LEMMA UserDeleted ==
  ASSUME DirInv, NEW t, NEW u \in UserIds, DeleteUser(t, u)
  PROVE  /\ DirInv' /\ known' = known /\ users'[u] = None
         /\ \A v \in UserIds : v # u => users'[v] = users[v]
<1> USE RowsAssumption
<1>1. /\ users' = [users EXCEPT ![u] = None] /\ members' = {m \in members : m.user # u}
      /\ UNCHANGED <<groups, patches, known>>
  BY Zenon DEF DeleteUser
<1>2. users'[u] = None /\ \A v \in UserIds : v # u => users'[v] = users[v]
  BY <1>1, Zenon DEF DirInv, DirTypeOK
<1>3. DirTypeOK'
  BY <1>1, Zenon DEF DirInv, DirTypeOK
<1>4. MembershipWithinTenant'
  <2> SUFFICES ASSUME NEW m \in members, m.user # u PROVE UserIn(m.tenant, m.user)' /\ GroupIn(m.tenant, m.group)'
    BY <1>1, Zenon DEF MembershipWithinTenant
  <2>1. m.user \in UserIds /\ UserIn(m.tenant, m.user) /\ GroupIn(m.tenant, m.group)
    BY Zenon DEF DirInv, DirTypeOK, Memberships, MembershipWithinTenant
  <2>. QED BY <1>1, <1>2, <2>1, Zenon DEF UserIn, GroupIn
<1>5. IdsGivenOut'
  BY <1>1, <1>2 DEF DirInv, IdsGivenOut
<1>. QED BY <1>1, <1>2, <1>3, <1>4, <1>5, Zenon DEF DirInv

\* A step that leaves the users alone, and what it has to respect.
LEMMA UsersUntouched ==
  ASSUME DirInv, UNCHANGED users, DirTypeOK', known \subseteq known',
         \A m \in members' : UserIn(m.tenant, m.user) /\ GroupIn(m.tenant, m.group)',
         \A g \in GroupIds : groups'[g] # None => g \in known',
         \A p \in Patchers : patches'[p].id \in GroupIds => patches'[p].name \in Names
  PROVE  DirInv' /\ UsersStay
  BY Zenon DEF DirInv, MembershipWithinTenant, IdsGivenOut, UsersStay, UserIn

\* A change of groups that leaves the ones with members in their tenant.
LEMMA GroupsChanged ==
  ASSUME DirInv, UNCHANGED <<users, patches>>, known \subseteq known', known' \subseteq UserIds \cup GroupIds,
         groups' \in [GroupIds -> GroupRows \cup {None}], members' \subseteq members,
         \A g \in GroupIds : groups'[g] # None => g \in known',
         \A m \in members' : groups[m.group] # None =>
           groups'[m.group] # None /\ groups'[m.group].tenant = groups[m.group].tenant
  PROVE  DirInv' /\ UsersStay
<1>1. DirTypeOK'
  BY Zenon DEF DirInv, DirTypeOK
<1>2. \A m \in members' : UserIn(m.tenant, m.user) /\ GroupIn(m.tenant, m.group)'
  BY Zenon DEF DirInv, MembershipWithinTenant, GroupIn
<1>. QED BY <1>1, <1>2, UsersUntouched, Zenon DEF DirInv, IdsGivenOut

\* INSERT INTO identity_groups ... WHERE EXISTS.
LEMMA MemberInserted ==
  ASSUME DirInv, NEW t \in Tenants, NEW u \in UserIds, NEW g \in GroupIds, InsertMember(t, u, g),
         UNCHANGED <<users, groups, patches, known>>
  PROVE  DirInv' /\ UsersStay
<1> DEFINE n == [user |-> u, group |-> g, tenant |-> t]
<1>1. n \in Memberships /\ n.user = u /\ n.group = g /\ n.tenant = t
  BY Zenon DEF Memberships
<1>2. members' \subseteq members \cup {n} /\ (n \in members' \ members => UserIn(t, u) /\ GroupIn(t, g))
  BY Zenon DEF InsertMember
<1> HIDE DEF n
<1>3. DirTypeOK'
  BY <1>1, <1>2, Zenon DEF DirInv, DirTypeOK
<1>4. \A m \in members' : UserIn(m.tenant, m.user) /\ GroupIn(m.tenant, m.group)'
  BY <1>1, <1>2, Zenon DEF DirInv, MembershipWithinTenant, GroupIn
<1>. QED BY <1>3, <1>4, UsersUntouched, Zenon DEF DirInv, IdsGivenOut

\* A step of a PATCH that leaves the tables alone.
LEMMA PatchChanged ==
  ASSUME DirInv, UNCHANGED <<users, groups, members, known>>, NEW p \in Patchers, NEW q \in PatchStates,
         patches' = [patches EXCEPT ![p] = q], q.id \in GroupIds => q.name \in Names
  PROVE  DirInv' /\ UsersStay
<1>1. DirTypeOK'
  BY Zenon DEF DirInv, DirTypeOK
<1>2. \A r \in Patchers : patches'[r].id \in GroupIds => patches'[r].name \in Names
  BY Zenon DEF DirInv, DirTypeOK, IdsGivenOut
<1>3. \A m \in members' : UserIn(m.tenant, m.user) /\ GroupIn(m.tenant, m.group)'
  BY Zenon DEF DirInv, MembershipWithinTenant, GroupIn
<1>. QED BY <1>1, <1>2, <1>3, UsersUntouched, Zenon DEF DirInv, IdsGivenOut

\* A PATCH that ends has nothing left to write.
LEMMA PatchDone ==
  ASSUME DirInv, NEW p \in Patchers, patches' = [patches EXCEPT ![p] = NoPatch]
  PROVE  /\ patches' \in [Patchers -> PatchStates]
         /\ \A r \in Patchers : patches'[r].id \in GroupIds => patches'[r].name \in Names
<1>1. NoPatch \in PatchStates /\ NoPatch.id \notin GroupIds
  BY DirectoryAssumption, Zenon DEF NoPatch, PatchStates
<1>. QED BY <1>1, Zenon DEF DirInv, DirTypeOK, IdsGivenOut
-----------------------------------------------------------------------------
(* The operations *)

\* CreateUser, ScimCreateUser.
LEMMA CreationKeeps ==
  ASSUME DirInv, NEW t \in Tenants, NEW l \in Logins, NEW w \in Passwords, CreateUser(t, l, w) \/ ScimCreateUser(t, l)
  PROVE  DirInv' /\ UsersStay
<1>1. PICK u \in UserIds \ known, y \in {w, DefaultPassword} :
        /\ known' = known \cup {u}
        /\ users' = [users EXCEPT ![u] = [tenant |-> t, login |-> l, password |-> y, status |-> "active"]]
        /\ UNCHANGED <<groups, members, patches>>
  BY Zenon DEF CreateUser, ScimCreateUser
<1> DEFINE row == [tenant |-> t, login |-> l, password |-> y, status |-> "active"]
<1>2. row \in UserRows /\ row.tenant = t /\ row.login = l
  BY DirectoryAssumption, Zenon DEF UserRows, Statuses
<1>3. users' = [users EXCEPT ![u] = row]
  BY <1>1, Zenon
<1> HIDE DEF row
<1>. QED BY <1>1, <1>2, <1>3, UserInserted, Zenon

\* CreateGroup, UpdateGroup, DeleteGroup and the two on members.
LEMMA GroupStepKeeps == ASSUME DirInv, GroupStep PROVE DirInv' /\ UsersStay
<1> USE RowsAssumption
<1> PICK t \in Tenants :
      \/ \E n \in Names : CreateGroup(t, n) \/ \E g \in GroupIds : UpdateGroup(t, g, n)
      \/ \E g \in GroupIds :
           DeleteGroup(t, g) \/ \E u \in UserIds : AddUserToGroup(t, u, g) \/ RemoveUserFromGroup(t, u, g)
  BY Zenon DEF GroupStep
<1>1. ASSUME NEW n \in Names, CreateGroup(t, n) PROVE DirInv' /\ UsersStay
  <2>1. PICK g \in GroupIds \ known :
          groups' = [groups EXCEPT ![g] = [tenant |-> t, name |-> n]] /\ known' = known \cup {g}
    BY <1>1, Zenon DEF CreateGroup
  <2>2. [tenant |-> t, name |-> n] \in GroupRows /\ groups[g] = None
    BY Zenon DEF GroupRows, DirInv, IdsGivenOut
  <2>3. UNCHANGED <<users, members, patches>>
    BY <1>1, Zenon DEF CreateGroup
  <2>4. /\ groups' \in [GroupIds -> GroupRows \cup {None}]
        /\ \A h \in GroupIds : (h # g => groups'[h] = groups[h]) /\ (groups'[h] # None => h \in known')
    BY <2>1, <2>2, Zenon DEF DirInv, DirTypeOK, IdsGivenOut
  <2>5. \A m \in members' : m.group \in GroupIds /\ m.group # g
    BY <2>2, <2>3, Zenon DEF DirInv, DirTypeOK, Memberships, MembershipWithinTenant, GroupIn
  <2>6. known \subseteq known' /\ known' \subseteq UserIds \cup GroupIds
    BY <2>1, Zenon DEF DirInv, DirTypeOK
  <2>. QED BY <2>3, <2>4, <2>5, <2>6, GroupsChanged, Zenon
<1>2. ASSUME NEW n \in Names, NEW g \in GroupIds, UpdateGroup(t, g, n) PROVE DirInv' /\ UsersStay
  <2> DEFINE row == [groups[g] EXCEPT !.name = n]
  <2>1. groups[g] # None /\ groups' = [groups EXCEPT ![g] = row] /\ UNCHANGED <<users, members, patches, known>>
    BY <1>2, Zenon DEF UpdateGroup, GroupIn
  <2>2. row \in GroupRows /\ row.tenant = groups[g].tenant
    BY <2>1, Zenon DEF DirInv, DirTypeOK, GroupRows
  <2> HIDE DEF row
  <2>3. /\ groups' \in [GroupIds -> GroupRows \cup {None}] /\ groups'[g] = row
        /\ \A h \in GroupIds : (h # g => groups'[h] = groups[h]) /\ (groups'[h] # None => h \in known')
    BY <2>1, <2>2, Zenon DEF DirInv, DirTypeOK, IdsGivenOut
  <2>4. \A m \in members' : m.group \in GroupIds
    BY <2>1, Zenon DEF DirInv, DirTypeOK, Memberships
  <2>5. known \subseteq known' /\ known' \subseteq UserIds \cup GroupIds
    BY <2>1, Zenon DEF DirInv, DirTypeOK
  <2>. QED BY <2>1, <2>2, <2>3, <2>4, <2>5, GroupsChanged, Zenon
<1>3. ASSUME NEW g \in GroupIds, DeleteGroup(t, g) PROVE DirInv' /\ UsersStay
  <2>1. /\ groups' = [groups EXCEPT ![g] = None] /\ members' = {m \in members : m.group # g}
        /\ UNCHANGED <<users, patches, known>>
    BY <1>3, Zenon DEF DeleteGroup
  <2>2. /\ groups' \in [GroupIds -> GroupRows \cup {None}]
        /\ \A h \in GroupIds : (h # g => groups'[h] = groups[h]) /\ (groups'[h] # None => h \in known')
    BY <2>1, Zenon DEF DirInv, DirTypeOK, IdsGivenOut
  <2>3. members' \subseteq members /\ \A m \in members' : m.group \in GroupIds /\ m.group # g
    BY <2>1, Zenon DEF DirInv, DirTypeOK, Memberships
  <2>4. known \subseteq known' /\ known' \subseteq UserIds \cup GroupIds
    BY <2>1, Zenon DEF DirInv, DirTypeOK
  <2>. QED BY <2>1, <2>2, <2>3, <2>4, GroupsChanged, Zenon
<1>4. ASSUME NEW g \in GroupIds, NEW u \in UserIds, AddUserToGroup(t, u, g) PROVE DirInv' /\ UsersStay
  BY <1>4, MemberInserted, Zenon DEF AddUserToGroup
<1>5. ASSUME NEW g \in GroupIds, NEW u \in UserIds, RemoveUserFromGroup(t, u, g) PROVE DirInv' /\ UsersStay
  <2>1. members' \subseteq members /\ UNCHANGED <<users, groups, patches, known>>
    BY <1>5, Zenon DEF RemoveUserFromGroup
  <2>2. /\ groups' \in [GroupIds -> GroupRows \cup {None}] /\ known' \subseteq UserIds \cup GroupIds
        /\ \A h \in GroupIds : groups'[h] # None => h \in known'
    BY <2>1, Zenon DEF DirInv, DirTypeOK, IdsGivenOut
  <2>. QED BY <2>1, <2>2, GroupsChanged, Zenon
<1>. QED BY <1>1, <1>2, <1>3, <1>4, <1>5, Zenon

\* PATCH of SCIM: what was read may be stale when it is written.
LEMMA PatchKeeps ==
  ASSUME DirInv, NEW p \in Patchers,
         \/ PatchUserWrite(p) \/ PatchGroupWrite(p)
         \/ \E t \in Tenants, u \in UserIds, l \in Logins \cup {None}, st \in Statuses \cup {None} :
              PatchUserRead(p, t, u, l, st)
         \/ \E t \in Tenants, g \in GroupIds, n \in Names \cup {None} : PatchGroupRead(p, t, g, n)
  PROVE  DirInv' /\ UsersStay
<1> USE RowsAssumption, DirectoryAssumption
<1>1. ASSUME NEW t \in Tenants, NEW u \in UserIds, NEW l \in Logins \cup {None}, NEW st \in Statuses \cup {None},
             PatchUserRead(p, t, u, l, st)
      PROVE  DirInv' /\ UsersStay
  <2> DEFINE q == [NoPatch EXCEPT !.tenant = t, !.id = u, !.login = Or(l, users[u].login),
                                  !.status = Or(st, users[u].status)]
  <2>1. patches' = [patches EXCEPT ![p] = q] /\ UNCHANGED <<users, groups, members, known>> /\ users[u] # None
    BY <1>1, Zenon DEF PatchUserRead, UserIn
  <2>2. users[u].login \in Logins /\ users[u].status \in Statuses
    BY <2>1, Zenon DEF DirInv, DirTypeOK, UserRows
  <2>3. q \in PatchStates /\ q.id = u
    BY <2>2, Zenon DEF PatchStates, NoPatch, Or
  <2> HIDE DEF q
  <2>. QED BY <2>1, <2>3, PatchChanged, Zenon
<1>2. ASSUME NEW t \in Tenants, NEW g \in GroupIds, NEW n \in Names \cup {None}, PatchGroupRead(p, t, g, n)
      PROVE  DirInv' /\ UsersStay
  <2> DEFINE q == [NoPatch EXCEPT !.tenant = t, !.id = g, !.name = Or(n, groups[g].name)]
  <2>1. patches' = [patches EXCEPT ![p] = q] /\ UNCHANGED <<users, groups, members, known>> /\ groups[g] # None
    BY <1>2, Zenon DEF PatchGroupRead, GroupIn
  <2>2. groups[g].name \in Names
    BY <2>1, Zenon DEF DirInv, DirTypeOK, GroupRows
  <2>3. q \in PatchStates /\ q.name \in Names
    BY <2>2, Zenon DEF PatchStates, NoPatch, Or
  <2> HIDE DEF q
  <2>. QED BY <2>1, <2>3, PatchChanged, Zenon
<1>3. CASE PatchUserWrite(p)
  <2>1. patches[p] \in PatchStates
    BY Zenon DEF DirInv, DirTypeOK
  <2>2. patches[p].login \in Logins \cup {None} /\ patches[p].status \in Statuses \cup {None}
    BY <2>1, Zenon DEF PatchStates
  <2>3. /\ patches[p].id \in UserIds /\ UNCHANGED <<groups, members, known>>
        /\ UpdateRow(patches[p].tenant, patches[p].id, patches[p].login, None, patches[p].status)
        /\ patches' = [patches EXCEPT ![p] = NoPatch]
    BY <1>3, Zenon DEF PatchUserWrite
  <2>. QED BY <2>2, <2>3, PatchDone, UserUpdated, Zenon
<1>4. CASE PatchGroupWrite(p)
  <2> DEFINE i == patches[p].id
             row == [groups[i] EXCEPT !.name = patches[p].name]
  <2>1. /\ i \in GroupIds /\ patches' = [patches EXCEPT ![p] = NoPatch] /\ UNCHANGED <<users, members, known>>
        /\ groups' = groups \/ (groups[i] # None /\ groups' = [groups EXCEPT ![i] = row])
    BY <1>4, Zenon DEF PatchGroupWrite, GroupIn
  <2>2. patches[p].name \in Names
    BY <2>1, Zenon DEF DirInv, IdsGivenOut
  <2>3. groups[i] # None => row \in GroupRows /\ row.tenant = groups[i].tenant
    BY <2>1, <2>2 DEF DirInv, DirTypeOK, GroupRows
  <2> HIDE DEF row
  <2>4. /\ groups' \in [GroupIds -> GroupRows \cup {None}]
        /\ \A h \in GroupIds : groups[h] # None => groups'[h] # None /\ groups'[h].tenant = groups[h].tenant
        /\ \A h \in GroupIds : groups'[h] # None => groups[h] # None
    BY <2>1, <2>3 DEF DirInv, DirTypeOK
  <2>5. DirTypeOK'
    BY <2>1, <2>4, PatchDone, Zenon DEF DirInv, DirTypeOK
  <2>6. ASSUME NEW m \in members' PROVE UserIn(m.tenant, m.user) /\ GroupIn(m.tenant, m.group)'
    <3>1. m.group \in GroupIds /\ UserIn(m.tenant, m.user) /\ GroupIn(m.tenant, m.group)
      BY <2>1 DEF DirInv, DirTypeOK, Memberships, MembershipWithinTenant
    <3>. QED BY <2>4, <3>1, Zenon DEF GroupIn
  <2>7. \A g \in GroupIds : groups'[g] # None => g \in known'
    BY <2>1, <2>4, Zenon DEF DirInv, IdsGivenOut
  <2>. QED BY <2>1, <2>5, <2>6, <2>7, PatchDone, UsersUntouched, Zenon
<1>. QED BY <1>1, <1>2, <1>3, <1>4, Zenon

\* UpdateUser, and PUT of SCIM.
LEMMA UpdateKeeps ==
  ASSUME DirInv, NEW t \in Tenants, NEW u \in UserIds, NEW l \in Logins \cup {None}, NEW w \in Passwords,
         NEW st \in Statuses, UpdateUser(t, u, l, w, st) \/ ScimReplaceUser(t, u, l, st)
  PROVE  DirInv' /\ UsersStay
<1>1. PICK y \in Passwords \cup {None} : UpdateRow(t, u, l, y, st) /\ UNCHANGED <<groups, members, patches, known>>
  BY Zenon DEF UpdateUser, ScimReplaceUser
<1>2. /\ patches' \in [Patchers -> PatchStates]
      /\ \A p \in Patchers : patches'[p].id \in GroupIds => patches'[p].name \in Names
  BY <1>1, Zenon DEF DirInv, DirTypeOK, IdsGivenOut
<1>. QED BY <1>1, <1>2, UserUpdated, Zenon

\* Every operation of the directory but the deletion of users.
LEMMA DirStepKeeps == ASSUME DirInv, DirStep PROVE DirInv' /\ UsersStay
<1>1. CASE UserStep
  BY <1>1, CreationKeeps, UpdateKeeps, Zenon DEF UserStep
<1>2. CASE GroupStep
  BY <1>2, GroupStepKeeps, Zenon
<1>3. CASE ScimUserStep
  BY <1>3, CreationKeeps, UpdateKeeps, PatchKeeps, DirectoryAssumption, Zenon DEF ScimUserStep
<1>4. CASE ScimGroupStep
  BY <1>4, PatchKeeps, Zenon DEF ScimGroupStep
<1>. QED BY <1>1, <1>2, <1>3, <1>4, Zenon DEF DirStep

-----------------------------------------------------------------------------
(* Access requests *)

\* A request for a group names a group.  An approval under way has a request
\* that is there; where dirsvc is called next it is for a group, and where the
\* status is written next dirsvc has acknowledged the membership.
ApprovalsOnTrack ==
  /\ \A q \in RequestIds : requests[q] # None /\ requests[q].type = "group" => requests[q].resource \in GroupIds
  /\ \A a \in Approvals :
       LET q == approvals[a].id IN
       /\ approvals[a].pc # "idle" => q \in RequestIds /\ requests[q] # None
       /\ approvals[a].pc = "provision" => requests[q].type = "group"
       /\ approvals[a].pc = "update" /\ requests[q].type = "group" => q \in provisioned

AccessTyped ==
  /\ requests \in [RequestIds -> Rows \cup {None}]
  /\ approvals \in [Approvals -> ApprovalStates]
  /\ refused \in BOOLEAN /\ provisioned \subseteq RequestIds

RequestInv == AccessTyped /\ ApprovalsOnTrack /\ ApprovedWasProvisioned

AccessInv == DirInv /\ RequestInv

LEMMA AccessInvInit == Init => AccessInv
<1> SUFFICES ASSUME Init PROVE RequestInv
  BY DirInvInit, Zenon DEF Init, AccessInv
<1>1. Idle \in ApprovalStates /\ Idle.pc = "idle"
  BY Zenon DEF Idle, ApprovalStates
<1>. QED BY <1>1, Zenon DEF Init, RequestInv, AccessTyped, ApprovalsOnTrack, ApprovedWasProvisioned

LEMMA RequestsUntouched == RequestInv /\ UNCHANGED <<requests, approvals, refused, provisioned>> => RequestInv'
  BY Zenon DEF RequestInv, AccessTyped, ApprovalsOnTrack, ApprovedWasProvisioned

\* A new row: pending, and for a group only if the resource is one.
LEMMA RequestInserted ==
  ASSUME RequestInv, NEW t \in Tenants, NEW who \in UserIds, NEW type \in {"group", "app"},
         NEW res \in GroupIds \cup AppIds, type = "group" => res \in GroupIds,
         NEW q \in RequestIds, requests[q] = None, InsertRequest(q, t, who, type, res),
         UNCHANGED <<approvals, provisioned>>, refused' \in BOOLEAN
  PROVE  RequestInv'
<1> USE RequestsAssumption
<1> DEFINE row == [tenant |-> t, requester |-> who, type |-> type, resource |-> res, status |-> "pending"]
<1>1. row \in Rows /\ row.type = type /\ row.resource = res /\ row.status = "pending"
  BY Zenon DEF Rows
<1>2. requests' = [requests EXCEPT ![q] = row]
  BY Zenon DEF InsertRequest
<1> HIDE DEF row
<1>3. requests'[q] = row /\ \A x \in RequestIds : x # q => requests'[x] = requests[x]
  BY <1>2, Zenon DEF RequestInv, AccessTyped
<1>4. AccessTyped'
  BY <1>1, <1>2, Zenon DEF RequestInv, AccessTyped
<1>5. ApprovalsOnTrack'
  BY <1>1, <1>3, Zenon DEF RequestInv, ApprovalsOnTrack
<1>6. ApprovedWasProvisioned'
  BY <1>1, <1>3, Zenon DEF RequestInv, ApprovedWasProvisioned
<1>. QED BY <1>4, <1>5, <1>6, Zenon DEF RequestInv

\* A status is written: only an approved one has to be provisioned.
LEMMA StatusWritten ==
  ASSUME RequestInv, NEW q \in RequestIds, requests[q] # None, NEW st \in {"approved", "rejected"},
         requests' = [requests EXCEPT ![q].status = st], UNCHANGED <<refused, provisioned>>,
         st = "approved" /\ requests[q].type = "group" => q \in provisioned,
         approvals' \in [Approvals -> ApprovalStates],
         \A a \in Approvals : approvals'[a] = approvals[a] \/ approvals'[a].pc = "idle"
  PROVE  RequestInv'
<1> USE RequestsAssumption
<1> DEFINE row == [requests[q] EXCEPT !.status = st]
<1>1. /\ row \in Rows /\ row.type = requests[q].type /\ row.resource = requests[q].resource
      /\ row.status = st
  BY Zenon DEF RequestInv, AccessTyped, Rows
<1>2. requests' = [requests EXCEPT ![q] = row]
  BY Zenon
<1> HIDE DEF row
<1>3. /\ requests'[q] = row /\ requests'[q] # None
      /\ \A x \in RequestIds : x # q => requests'[x] = requests[x]
  BY <1>1, <1>2 DEF RequestInv, AccessTyped
<1>4. AccessTyped'
  BY <1>1, <1>2, Zenon DEF RequestInv, AccessTyped
<1>5. ApprovalsOnTrack'
  <2>1. \A x \in RequestIds : requests'[x] # None /\ requests'[x].type = "group" => requests'[x].resource \in GroupIds
    BY <1>1, <1>3 DEF RequestInv, ApprovalsOnTrack
  <2>2. \A x \in RequestIds : requests[x] # None => requests'[x] # None /\ requests'[x].type = requests[x].type
    BY <1>1, <1>3, Zenon
  <2>. QED BY <2>1, <2>2 DEF RequestInv, ApprovalsOnTrack
<1>6. ApprovedWasProvisioned'
  BY <1>1, <1>3, Zenon DEF RequestInv, ApprovedWasProvisioned
<1>. QED BY <1>4, <1>5, <1>6, Zenon DEF RequestInv

\* An approval moves on, or ends; the requests stay as they are.
LEMMA ApprovalMoves ==
  ASSUME RequestInv, NEW a \in Approvals, NEW x \in ApprovalStates, approvals' = [approvals EXCEPT ![a] = x],
         UNCHANGED <<requests, refused>>, provisioned \subseteq provisioned', provisioned' \subseteq RequestIds,
         x.pc # "idle" => x.id \in RequestIds /\ requests[x.id] # None,
         x.pc = "provision" => requests[x.id].type = "group",
         x.pc = "update" /\ requests[x.id].type = "group" => x.id \in provisioned'
  PROVE  RequestInv'
<1>1. approvals'[a] = x /\ \A b \in Approvals : b # a => approvals'[b] = approvals[b]
  BY Zenon DEF RequestInv, AccessTyped
<1>2. AccessTyped'
  BY Zenon DEF RequestInv, AccessTyped
<1>3. ApprovalsOnTrack'
  BY <1>1 DEF RequestInv, ApprovalsOnTrack
<1>4. ApprovedWasProvisioned'
  BY Zenon DEF RequestInv, ApprovedWasProvisioned
<1>. QED BY <1>2, <1>3, <1>4, Zenon DEF RequestInv

\* The state an approval ends in.
LEMMA FinishState ==
  ASSUME NEW resp \in {"approved", "error"}
  PROVE  [Idle EXCEPT !.resp = resp] \in ApprovalStates /\ [Idle EXCEPT !.resp = resp].pc = "idle"
  BY Zenon DEF Idle, ApprovalStates

\* ApproveAccessRequest: reading, provisioning and the update.
LEMMA ApprovalKeeps ==
  ASSUME AccessInv, NEW a \in Approvals,
         ApproveStep(a) \/ \E t \in Tenants, q \in RequestIds : ApproveRead(a, t, q)
  PROVE  AccessInv' /\ UsersStay
<1> USE RequestsAssumption
<1>1. ASSUME NEW t \in Tenants, NEW q \in RequestIds, ApproveRead(a, t, q) PROVE AccessInv' /\ UsersStay
  <2>1. UNCHANGED <<dirVars, requests, refused, provisioned>>
    BY <1>1, Zenon DEF ApproveRead
  <2>2. CASE requests[q] # None /\ requests[q].tenant = t /\ Allowed(Approver, requests[q].requester)
    <3> DEFINE x == [Idle EXCEPT !.pc = IF requests[q].type = "group" THEN "provision" ELSE "update", !.id = q]
    <3>1. approvals' = [approvals EXCEPT ![a] = x]
      BY <1>1, <2>2, Zenon DEF ApproveRead
    <3>2. /\ x \in ApprovalStates /\ x.id = q
          /\ x.pc = IF requests[q].type = "group" THEN "provision" ELSE "update"
      BY Zenon DEF Idle, ApprovalStates
    <3> HIDE DEF x
    <3>. QED BY <2>1, <2>2, <3>1, <3>2, ApprovalMoves, DirUntouched, Zenon DEF AccessInv, RequestInv, AccessTyped
  <2>3. CASE ~(requests[q] # None /\ requests[q].tenant = t /\ Allowed(Approver, requests[q].requester))
    <3>1. approvals' = [approvals EXCEPT ![a] = [Idle EXCEPT !.resp = "error"]]
      BY <1>1, <2>3, Zenon DEF ApproveRead
    <3>. QED BY <2>1, <3>1, FinishState, ApprovalMoves, DirUntouched, Zenon DEF AccessInv, RequestInv, AccessTyped
  <2>. QED BY <2>2, <2>3, Zenon
<1>2. CASE ApproveProvision(a)
  <2> DEFINE q == approvals[a].id
             x == [approvals[a] EXCEPT !.pc = "update"]
  <2>1. q \in RequestIds /\ requests[q] # None /\ requests[q].type = "group" /\ requests[q].resource \in GroupIds
    BY <1>2, Zenon DEF ApproveProvision, AccessInv, RequestInv, ApprovalsOnTrack
  <2>2. requests[q].tenant \in Tenants /\ requests[q].requester \in UserIds
    BY <2>1, Zenon DEF AccessInv, RequestInv, AccessTyped, Rows
  <2>3. /\ UNCHANGED <<users, groups, patches, known, requests, refused>>
        /\ \/ Finish(a, "error") /\ UNCHANGED <<members, provisioned>>
           \/ /\ InsertMember(requests[q].tenant, requests[q].requester, requests[q].resource)
              /\ \/ approvals' = [approvals EXCEPT ![a] = x] /\ provisioned' = provisioned \cup {q}
                 \/ Finish(a, "error") /\ UNCHANGED provisioned
    BY <1>2, Zenon DEF ApproveProvision
  <2>4. DirInv' /\ UsersStay
    BY <2>1, <2>2, <2>3, MemberInserted, DirUntouched, Zenon DEF dirVars, AccessInv
  <2>5. x \in ApprovalStates /\ x.pc = "update" /\ x.id = q
    BY Zenon DEF AccessInv, RequestInv, AccessTyped, ApprovalStates
  <2> HIDE DEF x, q
  <2>6. CASE Finish(a, "error") /\ UNCHANGED provisioned
    BY <2>3, <2>4, <2>6, FinishState, ApprovalMoves, Zenon DEF Finish, AccessInv, RequestInv, AccessTyped
  <2>7. CASE approvals' = [approvals EXCEPT ![a] = x] /\ provisioned' = provisioned \cup {q}
    BY <2>1, <2>3, <2>4, <2>5, <2>7, ApprovalMoves, Zenon DEF AccessInv, RequestInv, AccessTyped
  <2>. QED BY <2>3, <2>6, <2>7, Zenon
<1>3. CASE ApproveUpdate(a)
  <2> DEFINE q == approvals[a].id
  <2>1. q \in RequestIds /\ requests[q] # None /\ (requests[q].type = "group" => q \in provisioned)
    BY <1>3, Zenon DEF ApproveUpdate, AccessInv, RequestInv, ApprovalsOnTrack
  <2>2. /\ UNCHANGED <<dirVars, refused, provisioned>>
        /\ \/ requests' = [requests EXCEPT ![q].status = "approved"] /\ Finish(a, "approved")
           \/ Finish(a, "error") /\ UNCHANGED requests
    BY <1>3, Zenon DEF ApproveUpdate
  <2>3. CASE Finish(a, "error") /\ UNCHANGED requests
    BY <2>2, <2>3, FinishState, ApprovalMoves, DirUntouched, Zenon DEF Finish, AccessInv, RequestInv, AccessTyped
  <2>4. CASE requests' = [requests EXCEPT ![q].status = "approved"] /\ Finish(a, "approved")
    <3>1. /\ approvals' \in [Approvals -> ApprovalStates]
          /\ \A b \in Approvals : approvals'[b] = approvals[b] \/ approvals'[b].pc = "idle"
      BY <2>4, FinishState, Zenon DEF Finish, AccessInv, RequestInv, AccessTyped
    <3>. QED BY <2>1, <2>2, <2>4, <3>1, StatusWritten, DirUntouched, Zenon DEF AccessInv
  <2>. QED BY <2>2, <2>3, <2>4, Zenon
<1>. QED BY <1>1, <1>2, <1>3, Zenon DEF ApproveStep

\* What every step does for users: the deleted ones stay deleted.
NoReturn == \A u \in UserIds : users[u] = None /\ u \in known => users'[u] = None

\* Every step of the directory and of govsvc keeps the invariant.
LEMMA AccessInvStep == AccessInv /\ [Next]_vars => AccessInv' /\ NoReturn
<1> SUFFICES ASSUME AccessInv, [Next]_vars PROVE AccessInv' /\ NoReturn
  BY Zenon
<1>1. CASE DirectoryStep
  <2>1. RequestInv'
    BY <1>1, RequestsUntouched, Zenon DEF DirectoryStep, AccessInv
  <2>. QED BY <1>1, <2>1, DirStepKeeps, UserDeleted, Zenon DEF DirectoryStep, AccessInv, UsersStay, NoReturn
<1>2. ASSUME NEW t \in Tenants, NEW type \in {"group", "app"}, NEW res \in GroupIds \cup AppIds,
             CreateAccessRequest(t, type, res)
      PROVE  AccessInv' /\ NoReturn
  <2>1. UNCHANGED <<dirVars, requests, approvals, provisioned>> /\ refused' = TRUE
    BY <1>2, PlaceholderAssumption, Zenon DEF CreateAccessRequest
  <2>. QED BY <2>1, DirUntouched, Zenon
          DEF AccessInv, RequestInv, AccessTyped, ApprovalsOnTrack, ApprovedWasProvisioned,
              NoReturn, dirVars
<1>3. ASSUME NEW t \in Tenants, NEW type \in {"group", "app"}, NEW res \in GroupIds \cup AppIds, NEW who \in UserIds,
             type = "group" => res \in GroupIds, ImportRequest(t, who, type, res)
      PROVE  AccessInv' /\ NoReturn
  <2>1. PICK q \in RequestIds : requests[q] = None /\ InsertRequest(q, t, who, type, res)
    BY <1>3, Zenon DEF ImportRequest
  <2>2. UNCHANGED <<dirVars, approvals, refused, provisioned>>
    BY <1>3, Zenon DEF ImportRequest
  <2>3. RequestInv'
    BY <1>3, <2>1, <2>2, RequestInserted, Zenon DEF AccessInv, RequestInv, AccessTyped
  <2>. QED BY <2>2, <2>3, DirUntouched, Zenon DEF AccessInv, NoReturn, dirVars
<1>4. ASSUME NEW a \in Approvals, ApproveStep(a) \/ \E t \in Tenants, q \in RequestIds : ApproveRead(a, t, q)
      PROVE  AccessInv' /\ NoReturn
  BY <1>4, ApprovalKeeps, Zenon DEF UsersStay, NoReturn
<1>5. ASSUME NEW q \in RequestIds, RejectAccessRequest(q) PROVE AccessInv' /\ NoReturn
  <2>1. /\ requests[q] # None /\ requests' = [requests EXCEPT ![q].status = "rejected"]
        /\ UNCHANGED <<dirVars, approvals, refused, provisioned>>
    BY <1>5, Zenon DEF RejectAccessRequest
  <2>2. approvals' \in [Approvals -> ApprovalStates]
    BY <2>1, Zenon DEF AccessInv, RequestInv, AccessTyped
  <2>3. RequestInv'
    BY <2>1, <2>2, StatusWritten, Zenon DEF AccessInv
  <2>. QED BY <2>1, <2>3, DirUntouched, Zenon DEF AccessInv, NoReturn, dirVars
<1>6. CASE Restart
  <2>1. approvals' = [a \in Approvals |-> Idle] /\ UNCHANGED <<dirVars, requests, refused, provisioned>>
    BY <1>6, Zenon DEF Restart
  <2>2. Idle \in ApprovalStates /\ Idle.pc = "idle"
    BY Zenon DEF Idle, ApprovalStates
  <2>3. RequestInv'
    BY <2>1, <2>2, Zenon DEF AccessInv, RequestInv, AccessTyped, ApprovalsOnTrack, ApprovedWasProvisioned
  <2>. QED BY <2>1, <2>3, DirUntouched, Zenon DEF AccessInv, NoReturn, dirVars
<1>7. CASE UNCHANGED vars
  <2>1. UNCHANGED dirVars /\ UNCHANGED <<requests, approvals, refused, provisioned>>
    BY <1>7, Zenon DEF vars
  <2>. QED BY <2>1, DirUntouched, RequestsUntouched, Zenon DEF AccessInv, NoReturn, dirVars
<1>. QED BY <1>1, <1>2, <1>3, <1>4, <1>5, <1>6, <1>7, Zenon DEF Next
-----------------------------------------------------------------------------
(* Federated sign-in *)

\* A social login knows tenant and profile.  The user it is to be linked with
\* was given out, and belongs to its tenant unless deleted meanwhile.
LoginHolds(s) ==
  LET q == social[s] IN
  /\ q.pc # "idle" => /\ q.tenant \in Tenants /\ q.provider \in Providers
                      /\ q.ext \in Subjects /\ q.email \in Logins
  /\ q.pc = "link" => /\ q.user \in UserIds \cap known
                      /\ users[q.user] # None => users[q.user].tenant = q.tenant

FedTyped ==
  /\ providers \subseteq Tenants \X Providers
  /\ links \subseteq Links
  /\ social \in [Socials -> SocialStates]

FedOnly == FedTyped /\ LinkedWithinTenant /\ \A s \in Socials : LoginHolds(s)

FedInv == DirInv /\ FedOnly

LEMMA NoSocialState == NoSocial \in SocialStates /\ NoSocial.pc = "idle"
  BY Zenon DEF NoSocial, SocialStates

LEMMA FedInvInit == FedInit => FedInv
<1> SUFFICES ASSUME FedInit PROVE FedOnly
  BY DirInvInit, Zenon DEF FedInit, FedInv
<1>. QED BY NoSocialState, Zenon DEF FedInit, FedOnly, FedTyped, LinkedWithinTenant, LoginHolds

\* Users that stay keep links and logins where they belong.
LEMMA LinksStay ==
  ASSUME FedInv, UsersStay, UNCHANGED links
  PROVE  /\ LinkedWithinTenant'
         /\ \A s \in Socials : social'[s] = social[s] => LoginHolds(s)'
<1>1. LinkedWithinTenant'
  <2> SUFFICES ASSUME NEW k \in links PROVE UserIn(k.tenant, k.user)' /\ LinksOf(k)' = {k}
    BY Zenon DEF LinkedWithinTenant
  <2>1. k.user \in UserIds /\ UserIn(k.tenant, k.user) /\ LinksOf(k) = {k}
    BY Zenon DEF FedInv, FedOnly, FedTyped, Links, LinkedWithinTenant
  <2>. QED BY <2>1, Zenon DEF UsersStay, UserIn, LinksOf
<1>2. ASSUME NEW s \in Socials, social'[s] = social[s] PROVE LoginHolds(s)'
  BY <1>2, Zenon DEF FedInv, FedOnly, LoginHolds, UsersStay
<1>. QED BY <1>1, <1>2, Zenon

\* A social login moves on, with the links as they are.
LEMMA LoginMoves ==
  ASSUME FedInv, DirInv', UsersStay, UNCHANGED <<providers, links>>, NEW s \in Socials, NEW x \in SocialStates,
         social' = [social EXCEPT ![s] = x],
         x.pc # "idle" => /\ x.tenant \in Tenants /\ x.provider \in Providers
                          /\ x.ext \in Subjects /\ x.email \in Logins,
         x.pc = "link" => /\ x.user \in UserIds \cap known'
                          /\ users'[x.user] # None => users'[x.user].tenant = x.tenant
  PROVE  FedInv'
<1>1. social'[s] = x /\ \A r \in Socials : r # s => social'[r] = social[r]
  BY Zenon DEF FedInv, FedOnly, FedTyped
<1>2. FedTyped'
  BY Zenon DEF FedInv, FedOnly, FedTyped
<1>3. \A r \in Socials : LoginHolds(r)'
  <2>1. LoginHolds(s)'
    BY <1>1, Zenon DEF LoginHolds
  <2>. QED BY <1>1, <2>1, LinksStay, Zenon
<1>. QED BY <1>2, <1>3, LinksStay, Zenon DEF FedInv, FedOnly

\* A login goes on with another user or none, and tenant and profile as before.
LEMMA GotoState ==
  ASSUME FedInv, NEW s \in Socials, social[s].pc # "idle", NEW pc \in {"find", "provision", "link"},
         NEW u \in UserIds \cup {None}, Goto(s, pc, u)
  PROVE  \E x \in SocialStates :
           /\ social' = [social EXCEPT ![s] = x] /\ x.pc = pc /\ x.user = u /\ x.tenant = social[s].tenant
           /\ x.tenant \in Tenants /\ x.provider \in Providers /\ x.ext \in Subjects /\ x.email \in Logins
<1> DEFINE x == [social[s] EXCEPT !.pc = pc, !.user = u]
<1>1. social[s] \in SocialStates
  BY Zenon DEF FedInv, FedOnly, FedTyped
<1>2. /\ x \in SocialStates /\ x.pc = pc /\ x.user = u /\ x.tenant = social[s].tenant
      /\ x.provider = social[s].provider /\ x.ext = social[s].ext /\ x.email = social[s].email
  BY <1>1, Zenon DEF SocialStates
<1>3. social' = [social EXCEPT ![s] = x]
  BY <1>1, Zenon DEF Goto, SocialStates, FedInv, FedOnly, FedTyped
<1> HIDE DEF x
<1>. QED BY <1>2, <1>3, Zenon DEF FedInv, FedOnly, LoginHolds

\* The same, for the step on to the link with user u.
LEMMA LinkState ==
  ASSUME FedInv, NEW s \in Socials, social[s].pc # "idle", NEW u \in UserIds, Goto(s, "link", u)
  PROVE  \E x \in SocialStates :
           /\ social' = [social EXCEPT ![s] = x] /\ x.pc = "link" /\ x.user = u /\ x.tenant = social[s].tenant
           /\ x.tenant \in Tenants /\ x.provider \in Providers /\ x.ext \in Subjects /\ x.email \in Logins
<1>1. "link" \in {"find", "provision", "link"} /\ u \in UserIds \cup {None}
  BY Zenon
<1>. QED BY <1>1, GotoState

\* The tokens or an error are sent.
LEMMA AnswerKeeps ==
  ASSUME FedInv, DirInv', UsersStay, UNCHANGED <<providers, links>>, NEW s \in Socials, Answer(s)
  PROVE  FedInv'
  BY NoSocialState, LoginMoves, Zenon DEF Answer

\* A user created for a login is of its tenant.
LEMMA CreatedInTenant ==
  ASSUME DirInv, NEW t \in Tenants, NEW l \in Logins, ScimCreateUser(t, l), NEW u \in known' \ known
  PROVE  u \in UserIds /\ users'[u].tenant = t
<1>1. PICK v \in UserIds \ known :
        /\ users' = [users EXCEPT ![v] = [tenant |-> t, login |-> l, password |-> DefaultPassword,
                                          status |-> "active"]]
        /\ known' = known \cup {v}
  BY Zenon DEF ScimCreateUser
<1>. QED BY <1>1, Zenon DEF DirInv, DirTypeOK

\* The link is stored only for a user who is there, and a subject without one.
LEMMA LinkKeeps ==
  ASSUME FedInv, NEW s \in Socials, SocialLink(s)
  PROVE  FedInv' /\ UsersStay
<1> DEFINE q == social[s]
           n == [tenant |-> q.tenant, provider |-> q.provider, ext |-> q.ext, user |-> q.user, email |-> q.email]
<1>1. UNCHANGED <<dirVars, providers>> /\ q.pc = "link" /\ social' = [social EXCEPT ![s] = NoSocial]
  BY Zenon DEF SocialLink, Answer
<1>2. UNCHANGED users /\ DirInv' /\ UsersStay
  BY <1>1, DirUntouched, Zenon DEF FedInv, dirVars
<1>3. /\ q.tenant \in Tenants /\ q.provider \in Providers /\ q.ext \in Subjects /\ q.email \in Logins
      /\ q.user \in UserIds /\ (users[q.user] # None => users[q.user].tenant = q.tenant)
  BY <1>1, Zenon DEF FedInv, FedOnly, LoginHolds
<1>4. /\ n \in Links /\ n.tenant = q.tenant /\ n.provider = q.provider /\ n.ext = q.ext /\ n.user = q.user
  BY <1>3, Zenon DEF Links
<1>5. links' = links \/ (users[q.user] # None /\ LinksOf(q) = {} /\ links' = links \cup {n})
  BY Zenon DEF SocialLink, Insert
<1>6. CASE links' = links
  BY <1>1, <1>2, <1>6, AnswerKeeps, Zenon DEF SocialLink
<1>7. CASE users[q.user] # None /\ LinksOf(q) = {} /\ links' = links \cup {n}
  <2> HIDE DEF n
  <2>1. FedTyped'
    BY <1>1, <1>4, <1>7, NoSocialState, Zenon DEF FedInv, FedOnly, FedTyped
  <2>2. ASSUME NEW k \in links' PROVE UserIn(k.tenant, k.user)' /\ LinksOf(k)' = {k}
    <3>1. CASE k \in links
      <4>1. UserIn(k.tenant, k.user) /\ LinksOf(k) = {k}
        BY <3>1, Zenon DEF FedInv, FedOnly, LinkedWithinTenant
      <4>2. ~(n.tenant = k.tenant /\ n.provider = k.provider /\ n.ext = k.ext)
        BY <1>4, <1>7, <3>1, Zenon DEF LinksOf
      <4>. QED BY <1>2, <1>7, <4>1, <4>2, Zenon DEF UserIn, LinksOf
    <3>2. CASE k = n
      BY <1>2, <1>3, <1>4, <1>7, <3>2 DEF UserIn, LinksOf
    <3>. QED BY <1>7, <3>1, <3>2, Zenon
  <2>3. ASSUME NEW r \in Socials PROVE LoginHolds(r)'
    BY <1>1, <1>2, NoSocialState, Zenon DEF FedInv, FedOnly, FedTyped, LoginHolds, UsersStay
  <2>. QED BY <1>2, <2>1, <2>2, <2>3, Zenon DEF FedInv, FedOnly, LinkedWithinTenant
<1>. QED BY <1>5, <1>6, <1>7, Zenon

\* SocialLogin: every step of it, with whatever happened in between.
LEMMA SocialKeeps == ASSUME FedInv, SocialStep PROVE FedInv' /\ UsersStay
<1> USE DirectoryAssumption
<1> PICK s \in Socials :
      \/ \E t \in Tenants, p \in Providers, x \in Subjects, email \in Logins : SocialStart(s, t, p, x, email)
      \/ SocialLookup(s) \/ SocialFind(s) \/ SocialProvision(s) \/ SocialLink(s)
  BY Zenon DEF SocialStep
<1>1. ASSUME NEW t \in Tenants, NEW p \in Providers, NEW x \in Subjects, NEW email \in Logins,
             SocialStart(s, t, p, x, email)
      PROVE  FedInv' /\ UsersStay
  <2> DEFINE y == [NoSocial EXCEPT !.pc = "lookup", !.tenant = t, !.provider = p, !.ext = x, !.email = email]
  <2>1. social' = [social EXCEPT ![s] = y] /\ UNCHANGED <<dirVars, providers, links>>
    BY <1>1, Zenon DEF SocialStart
  <2>2. /\ y \in SocialStates /\ y.pc = "lookup" /\ y.tenant = t /\ y.provider = p /\ y.ext = x
        /\ y.email = email
    BY Zenon DEF NoSocial, SocialStates
  <2> HIDE DEF y
  <2>. QED BY <2>1, <2>2, LoginMoves, DirUntouched, Zenon DEF FedInv
<1>2. CASE SocialLookup(s)
  <2>1. /\ UNCHANGED <<dirVars, providers, links>> /\ social[s].pc # "idle"
        /\ Answer(s) \/ Goto(s, "find", None)
    BY <1>2, Zenon DEF SocialLookup
  <2>2. CASE Answer(s)
    BY <2>1, <2>2, AnswerKeeps, DirUntouched, Zenon DEF FedInv
  <2>3. CASE Goto(s, "find", None)
    <3>1. PICK x \in SocialStates :
            /\ social' = [social EXCEPT ![s] = x] /\ x.pc = "find"
            /\ x.tenant \in Tenants /\ x.provider \in Providers /\ x.ext \in Subjects /\ x.email \in Logins
      BY <2>1, <2>3, GotoState, Zenon
    <3>. QED BY <2>1, <3>1, LoginMoves, DirUntouched, Zenon DEF FedInv
  <2>. QED BY <2>1, <2>2, <2>3, Zenon
<1>3. CASE SocialFind(s)
  <2>1. /\ UNCHANGED <<dirVars, providers, links>> /\ social[s].pc # "idle" /\ social[s].pc = "find"
        /\ \/ \E u \in UserIds : UserIn(social[s].tenant, u) /\ Goto(s, "link", u)
           \/ Goto(s, "provision", None) \/ Answer(s)
    BY <1>3, Zenon DEF SocialFind, FindUserByEmail
  <2>2. CASE Answer(s)
    BY <2>1, <2>2, AnswerKeeps, DirUntouched, Zenon DEF FedInv
  <2>3. CASE Goto(s, "provision", None)
    <3>1. PICK x \in SocialStates :
            /\ social' = [social EXCEPT ![s] = x] /\ x.pc = "provision"
            /\ x.tenant \in Tenants /\ x.provider \in Providers /\ x.ext \in Subjects /\ x.email \in Logins
      BY <2>1, <2>3, GotoState, Zenon
    <3>. QED BY <2>1, <3>1, LoginMoves, DirUntouched, Zenon DEF FedInv
  <2>4. ASSUME NEW u \in UserIds, UserIn(social[s].tenant, u), Goto(s, "link", u) PROVE FedInv' /\ UsersStay
    <3>1. PICK x \in SocialStates :
            /\ social' = [social EXCEPT ![s] = x] /\ x.pc = "link" /\ x.user = u /\ x.tenant = social[s].tenant
            /\ x.tenant \in Tenants /\ x.provider \in Providers /\ x.ext \in Subjects /\ x.email \in Logins
      BY <2>1, <2>4, LinkState, ZenonT(30)
    <3>2. u \in known /\ users[u].tenant = x.tenant /\ users' = users /\ known' = known
      BY <2>1, <2>4, <3>1, Zenon DEF FedInv, DirInv, IdsGivenOut, UserIn, dirVars
    <3>. QED BY <2>1, <3>1, <3>2, LoginMoves, DirUntouched, Zenon DEF FedInv
  <2>. QED BY <2>1, <2>2, <2>3, <2>4, Zenon
<1>4. CASE SocialProvision(s)
  <2>1. /\ UNCHANGED <<providers, links>> /\ social[s].pc # "idle" /\ social[s].pc = "provision"
        /\ \/ /\ ScimCreateUser(social[s].tenant, social[s].email)
              /\ (\E u \in known' \ known : Goto(s, "link", u)) \/ Answer(s)
           \/ Answer(s) /\ UNCHANGED dirVars
    BY <1>4, Zenon DEF SocialProvision
  <2>2. social[s].tenant \in Tenants /\ social[s].email \in Logins
    BY <2>1, Zenon DEF FedInv, FedOnly, LoginHolds
  <2>3. DirInv' /\ UsersStay
    BY <2>1, <2>2, CreationKeeps, DirUntouched, Zenon DEF FedInv
  <2>4. CASE Answer(s)
    BY <2>1, <2>3, <2>4, AnswerKeeps, Zenon
  <2>5. ASSUME NEW u \in known' \ known, ScimCreateUser(social[s].tenant, social[s].email), Goto(s, "link", u)
        PROVE  FedInv' /\ UsersStay
    <3>1. u \in UserIds /\ users'[u].tenant = social[s].tenant
      BY <2>2, <2>5, CreatedInTenant, Zenon DEF FedInv
    <3>2. PICK x \in SocialStates :
            /\ social' = [social EXCEPT ![s] = x] /\ x.pc = "link" /\ x.user = u /\ x.tenant = social[s].tenant
            /\ x.tenant \in Tenants /\ x.provider \in Providers /\ x.ext \in Subjects /\ x.email \in Logins
      BY <2>1, <2>5, <3>1, LinkState, Zenon
    <3>. QED BY <2>1, <2>3, <3>1, <3>2, LoginMoves, Zenon
  <2>. QED BY <2>1, <2>4, <2>5, Zenon
<1>5. CASE SocialLink(s)
  BY <1>5, LinkKeeps, Zenon
<1>. QED BY <1>1, <1>2, <1>3, <1>4, <1>5, Zenon

\* Every step of the directory, of authsvc and of the providers' administration.
LEMMA FedInvStep == FedInv /\ [FedNext]_federationVars => FedInv' /\ NoReturn
<1> SUFFICES ASSUME FedInv, [FedNext]_federationVars PROVE FedInv' /\ NoReturn
  BY Zenon
<1>1. CASE SocialStep
  BY <1>1, SocialKeeps, Zenon DEF UsersStay, NoReturn
<1>2. CASE ProviderStep
  <2>1. UNCHANGED <<dirVars, links, social>>
    BY <1>2, Zenon DEF ProviderStep
  <2>2. DirInv' /\ UsersStay
    BY <2>1, DirUntouched, Zenon DEF FedInv
  <2>3. providers' \subseteq Tenants \X Providers
    BY <1>2 DEF ProviderStep, CreateProvider, DeleteProvider, ToggleProvider, SetEnabled, FedInv, FedOnly, FedTyped
  <2>4. FedTyped'
    BY <2>1, <2>3, Zenon DEF FedInv, FedOnly, FedTyped
  <2>. QED BY <2>1, <2>2, <2>4, LinksStay, Zenon DEF FedInv, FedOnly, UsersStay, NoReturn
<1>3. ASSUME DirInv', UsersStay, UNCHANGED fedVars PROVE FedInv' /\ NoReturn
  <2>1. FedTyped'
    BY <1>3, Zenon DEF FedInv, FedOnly, FedTyped, fedVars
  <2>. QED BY <1>3, <2>1, LinksStay, Zenon DEF FedInv, FedOnly, UsersStay, NoReturn, fedVars
<1>4. ASSUME NEW l \in Logins, NEW w \in Passwords, SignUp(l, w) PROVE FedInv' /\ NoReturn
  BY <1>3, <1>4, CreationKeeps, Zenon DEF SignUp, FedInv
<1>5. CASE DirStep /\ UNCHANGED fedVars
  BY <1>3, <1>5, DirStepKeeps, Zenon DEF FedInv
<1>6. ASSUME NEW t \in Tenants, NEW u \in UserIds, RemoveUser(t, u) PROVE FedInv' /\ NoReturn
  <2>1. /\ DirInv' /\ known' = known /\ users'[u] = None
        /\ \A v \in UserIds : v # u => users'[v] = users[v]
    BY <1>6, UserDeleted, Zenon DEF RemoveUser, FedInv
  <2>2. links' = {k \in links : k.user # u} /\ UNCHANGED <<providers, social>>
    BY <1>6, Zenon DEF RemoveUser
  <2>3. FedTyped'
    BY <2>2, Zenon DEF FedInv, FedOnly, FedTyped
  <2>4. ASSUME NEW k \in links' PROVE UserIn(k.tenant, k.user)' /\ LinksOf(k)' = {k}
    <3>1. k \in links /\ k.user # u /\ k.user \in UserIds /\ UserIn(k.tenant, k.user) /\ LinksOf(k) = {k}
      BY <2>2, Zenon DEF FedInv, FedOnly, FedTyped, Links, LinkedWithinTenant
    <3>. QED BY <2>1, <2>2, <3>1, Zenon DEF UserIn, LinksOf
  <2>5. ASSUME NEW r \in Socials PROVE LoginHolds(r)'
    BY <2>1, <2>2, Zenon DEF FedInv, FedOnly, LoginHolds
  <2>. QED BY <2>1, <2>3, <2>4, <2>5, Zenon DEF FedInv, FedOnly, LinkedWithinTenant, NoReturn
<1>7. CASE AuthRestart
  <2>1. social' = [s \in Socials |-> NoSocial] /\ UNCHANGED <<dirVars, providers, links>>
    BY <1>7, Zenon DEF AuthRestart
  <2>2. DirInv' /\ UsersStay
    BY <2>1, DirUntouched, Zenon DEF FedInv
  <2>3. FedTyped' /\ \A s \in Socials : LoginHolds(s)'
    BY <2>1, NoSocialState, Zenon DEF FedInv, FedOnly, FedTyped, LoginHolds
  <2>. QED BY <2>1, <2>2, <2>3, LinksStay, Zenon DEF FedInv, FedOnly, UsersStay, NoReturn
<1>8. CASE UNCHANGED federationVars
  BY <1>3, <1>8, DirUntouched, Zenon DEF FedInv, federationVars
<1>. QED BY <1>1, <1>2, <1>4, <1>5, <1>6, <1>7, <1>8, Zenon DEF FedNext
-----------------------------------------------------------------------------
(* Theorems: the directory with govsvc (Spec) and with authsvc (FedSpec) *)

\* The inductive invariant of directory and access requests.
THEOREM AccessInvariance == Spec => []AccessInv
  BY AccessInvInit, AccessInvStep, PTL DEF Spec

\* The inductive invariant of directory and federated sign-in.
THEOREM FederationInvariance == FedSpec => []FedInv
  BY FedInvInit, FedInvStep, PTL DEF FedSpec

\* Directory tables, access requests and approvals keep their shape.
THEOREM DirectoryTypes == Spec => []TypeOK
<1>1. AccessInv => TypeOK
  BY Zenon DEF AccessInv, DirInv, RequestInv, AccessTyped, TypeOK
<1>. QED BY <1>1, AccessInvariance, PTL

\* So do providers, links and the social logins under way (social_login.go).
THEOREM FederationTypes == FedSpec => []FedTypeOK
<1>1. FedInv => FedTypeOK
  BY Zenon DEF FedInv, DirInv, FedOnly, FedTyped, FedTypeOK
<1>. QED BY <1>1, FederationInvariance, PTL

\* A membership joins a user and a group that exist and are of its tenant,
\* whoever adds and deletes (AddUserToGroup, DeleteUser, DeleteGroup).
THEOREM MembersWithinTenant == (Spec => []MembershipWithinTenant) /\ (FedSpec => []MembershipWithinTenant)
<1>1. (AccessInv => MembershipWithinTenant) /\ (FedInv => MembershipWithinTenant)
  BY Zenon DEF AccessInv, FedInv, DirInv
<1>. QED BY <1>1, AccessInvariance, FederationInvariance, PTL

\* A deleted user stays deleted, whatever PATCH had read the row (PatchUser).
THEOREM DeletedStays == (Spec => DeletedForGood) /\ (FedSpec => DeletedForGood)
<1>1. AccessInv /\ [Next]_vars => [NoReturn]_dirVars
  BY AccessInvStep, Zenon
<1>2. FedInv /\ [FedNext]_federationVars => [NoReturn]_dirVars
  BY FedInvStep, Zenon
<1>3. Spec => [][NoReturn]_dirVars
  BY <1>1, AccessInvariance, PTL DEF Spec
<1>4. FedSpec => [][NoReturn]_dirVars
  BY <1>2, FederationInvariance, PTL DEF FedSpec
<1>. QED BY <1>3, <1>4, Zenon DEF DeletedForGood, NoReturn

\* A request for a group is approved only after dirsvc acknowledged the
\* membership, with parallel approvals, lost answers and restarts
\* (ApproveAccessRequest).
THEOREM ApprovedIsProvisioned == Spec => []ApprovedWasProvisioned
<1>1. AccessInv => ApprovedWasProvisioned
  BY Zenon DEF AccessInv, RequestInv
<1>. QED BY <1>1, AccessInvariance, PTL

\* A federated identity stands for one user, who exists and is of the tenant the
\* login came in for (SocialLogin).
THEOREM LinksWithinTenant == FedSpec => []LinkedWithinTenant
<1>1. FedInv => LinkedWithinTenant
  BY Zenon DEF FedInv, FedOnly
<1>. QED BY <1>1, FederationInvariance, PTL
-----------------------------------------------------------------------------
(* Campaigns *)

\* An active or completed campaign was activated, and so was the campaign that
\* a goroutine is about to complete.
StartedBefore ==
  /\ \A c \in CampaignIds :
       campaigns[c] # None /\ campaigns[c].status \in {"active", "completed"} => c \in started
  /\ \A w \in Workers :
       workers[w] # WorkerIdle /\ workers[w].status = "completed" => workers[w].id \in started

CampaignInv == CampaignTypeOK /\ StartedBefore /\ ItemsHaveCampaign

\* Nothing exists at the start.
LEMMA CampaignInvInit == CampaignInit => CampaignInv
  BY Zenon DEF CampaignInit, CampaignInv, CampaignTypeOK, StartedBefore, ItemsHaveCampaign, WorkerIdle

\* Every variable of the campaigns keeps its type in every step.
LEMMA CampaignTypeStep == CampaignTypeOK /\ [CampaignNext]_campaignVars => CampaignTypeOK'
<1> SUFFICES ASSUME CampaignTypeOK, [CampaignNext]_campaignVars PROVE CampaignTypeOK'
  BY Zenon
<1> USE DEF CampaignTypeOK, CampaignRows, CampaignStatuses
<1>1. ASSUME NEW t \in Tenants, NEW r \in Reviewers, CreateCampaign(t, r) PROVE CampaignTypeOK'
  BY <1>1 DEF CreateCampaign
<1>2. ASSUME NEW t \in Tenants, NEW c \in CampaignIds, DeleteCampaign(t, c) PROVE CampaignTypeOK'
  BY <1>2, Zenon DEF DeleteCampaign
<1>3. ASSUME NEW t \in Tenants, NEW c \in CampaignIds, AddReviewItem(t, c) PROVE CampaignTypeOK'
  BY <1>3 DEF AddReviewItem
<1>4. ASSUME NEW w \in Workers, NEW t \in Tenants, NEW c \in CampaignIds,
             NEW s \in {"active", "completed"}, NEW req, Checked(w, t, c, req, s) PROVE CampaignTypeOK'
  BY <1>4, Zenon DEF Checked
<1>5. ASSUME NEW c \in CampaignIds, CancelCampaign(c) PROVE CampaignTypeOK'
  BY <1>5 DEF CancelCampaign, SetStatus
<1>6. ASSUME NEW w \in Workers, UpdateCampaignStatus(w) PROVE CampaignTypeOK'
  <2>1. workers[w] \in [status : {"active", "completed"}, id : CampaignIds]
    BY <1>6, Zenon DEF UpdateCampaignStatus
  <2>2. campaigns' \in [CampaignIds -> CampaignRows \cup {None}]
    BY <1>6, <2>1 DEF UpdateCampaignStatus, SetStatus, CampaignRows
  <2>3. started' \subseteq CampaignIds
    BY <1>6, <2>1, Zenon DEF UpdateCampaignStatus
  <2>. QED BY <1>6, <2>2, <2>3, Zenon DEF UpdateCampaignStatus
<1>7. ASSUME NEW i \in ItemIds, NEW d \in Decisions, Decide(i, d) PROVE CampaignTypeOK'
  BY <1>7, Zenon DEF Decide
<1>8. CASE UNCHANGED campaignVars
  BY <1>8, Zenon DEF campaignVars
<1>. QED
  BY <1>1, <1>2, <1>3, <1>4, <1>5, <1>6, <1>7, <1>8, Zenon
  DEF CampaignNext, StartCampaign, CompleteCampaign, ApproveItem, RevokeItem, Decisions

\* The check of a completion finds an active campaign, and started only grows.
LEMMA StartedStep == CampaignInv /\ [CampaignNext]_campaignVars => StartedBefore'
<1> SUFFICES ASSUME CampaignInv, [CampaignNext]_campaignVars PROVE StartedBefore'
  BY Zenon
<1> USE DEF CampaignInv, CampaignTypeOK, CampaignRows, StartedBefore
<1>1. ASSUME NEW t \in Tenants, NEW r \in Reviewers, CreateCampaign(t, r) PROVE StartedBefore'
  BY <1>1 DEF CreateCampaign
<1>2. ASSUME NEW t \in Tenants, NEW c \in CampaignIds, DeleteCampaign(t, c) PROVE StartedBefore'
  BY <1>2, Zenon DEF DeleteCampaign
<1>3. ASSUME NEW t \in Tenants, NEW c \in CampaignIds, AddReviewItem(t, c) PROVE StartedBefore'
  BY <1>3, Zenon DEF AddReviewItem
<1>4. ASSUME NEW w \in Workers, NEW t \in Tenants, NEW c \in CampaignIds, StartCampaign(w, t, c)
      PROVE StartedBefore'
  BY <1>4, Zenon DEF StartCampaign, Checked, WorkerIdle
<1>5. ASSUME NEW w \in Workers, NEW t \in Tenants, NEW c \in CampaignIds, CompleteCampaign(w, t, c)
      PROVE StartedBefore'
  <2>1. c \in started
    BY <1>5, Zenon DEF CompleteCampaign, Checked, GetCampaign
  <2>. QED BY <1>5, <2>1, Zenon DEF CompleteCampaign, Checked, WorkerIdle
<1>6. ASSUME NEW c \in CampaignIds, CancelCampaign(c) PROVE StartedBefore'
  BY <1>6, Zenon DEF CancelCampaign, SetStatus
<1>7. ASSUME NEW w \in Workers, UpdateCampaignStatus(w) PROVE StartedBefore'
  <2>1. workers[w] \in [status : {"active", "completed"}, id : CampaignIds]
    BY <1>7, Zenon DEF UpdateCampaignStatus
  <2>2. started \subseteq started'
    BY <1>7, Zenon DEF UpdateCampaignStatus
  <2>3. campaigns[workers[w].id] # None => workers[w].id \in started'
    BY <1>7, <2>1, Zenon DEF UpdateCampaignStatus
  <2>4. ASSUME NEW c \in CampaignIds, campaigns'[c] # None, campaigns'[c].status \in {"active", "completed"}
        PROVE c \in started'
    BY <1>7, <2>1, <2>2, <2>3, <2>4, Zenon DEF UpdateCampaignStatus, SetStatus
  <2>5. ASSUME NEW v \in Workers, workers'[v] # WorkerIdle, workers'[v].status = "completed"
        PROVE workers'[v].id \in started'
    BY <1>7, <2>2, <2>5, Zenon DEF UpdateCampaignStatus
  <2>. QED BY <2>4, <2>5, Zenon
<1>8. ASSUME NEW i \in ItemIds, NEW d \in Decisions, Decide(i, d) PROVE StartedBefore'
  BY <1>8, Zenon DEF Decide
<1>9. CASE UNCHANGED campaignVars
  BY <1>9, Zenon DEF campaignVars
<1>. QED
  BY <1>1, <1>2, <1>3, <1>4, <1>5, <1>6, <1>7, <1>8, <1>9, Zenon
  DEF CampaignNext, ApproveItem, RevokeItem, Decisions

\* Only a deletion takes a campaign away, and its items with it.
LEMMA ItemsStep == CampaignInv /\ [CampaignNext]_campaignVars => ItemsHaveCampaign'
<1> SUFFICES ASSUME CampaignInv, [CampaignNext]_campaignVars PROVE ItemsHaveCampaign'
  BY Zenon
<1> USE DEF CampaignInv, CampaignTypeOK, ItemsHaveCampaign
<1>a. ASSUME NEW c \in CampaignIds, NEW s \in CampaignStatuses, SetStatus(c, s), items' = items
      PROVE ItemsHaveCampaign'
  <2>1. ASSUME NEW d \in CampaignIds, campaigns[d] # None PROVE campaigns'[d] # None
    BY <1>a, <2>1, CampaignAssumption DEF SetStatus, CampaignRows
  <2>. QED BY <1>a, <2>1, Zenon
<1>1. ASSUME NEW t \in Tenants, NEW r \in Reviewers, CreateCampaign(t, r) PROVE ItemsHaveCampaign'
  BY <1>1, CampaignAssumption DEF CreateCampaign, CampaignRows, CampaignStatuses
<1>2. ASSUME NEW t \in Tenants, NEW c \in CampaignIds, DeleteCampaign(t, c) PROVE ItemsHaveCampaign'
  BY <1>2, Zenon DEF DeleteCampaign
<1>3. ASSUME NEW t \in Tenants, NEW c \in CampaignIds, AddReviewItem(t, c) PROVE ItemsHaveCampaign'
  BY <1>3 DEF AddReviewItem
<1>4. ASSUME NEW w \in Workers, NEW t \in Tenants, NEW c \in CampaignIds, NEW s, NEW req, Checked(w, t, c, req, s)
      PROVE ItemsHaveCampaign'
  BY <1>4, Zenon DEF Checked
<1>5. ASSUME NEW c \in CampaignIds, CancelCampaign(c) PROVE ItemsHaveCampaign'
  BY <1>5, <1>a, Zenon DEF CancelCampaign, CampaignStatuses
<1>6. ASSUME NEW w \in Workers, UpdateCampaignStatus(w) PROVE ItemsHaveCampaign'
  <2>1. workers[w].id \in CampaignIds /\ workers[w].status \in CampaignStatuses
    BY <1>6, Zenon DEF UpdateCampaignStatus, CampaignStatuses
  <2>. QED BY <1>6, <1>a, <2>1, Zenon DEF UpdateCampaignStatus
<1>7. ASSUME NEW i \in ItemIds, NEW d \in Decisions, Decide(i, d) PROVE ItemsHaveCampaign'
  BY <1>7, Zenon DEF Decide
<1>8. CASE UNCHANGED campaignVars
  BY <1>8, Zenon DEF campaignVars
<1>. QED
  BY <1>1, <1>2, <1>3, <1>4, <1>5, <1>6, <1>7, <1>8, Zenon
  DEF CampaignNext, StartCampaign, CompleteCampaign, ApproveItem, RevokeItem, Decisions

\* The inductive invariant of the campaigns (campaign_service.go,
\* campaign_store.go) holds in every reachable state.
THEOREM CampaignInvariance == CampaignSpec => []CampaignInv
<1>1. CampaignInv /\ [CampaignNext]_campaignVars => CampaignInv'
  BY CampaignTypeStep, StartedStep, ItemsStep, Zenon DEF CampaignInv
<1>. QED BY <1>1, CampaignInvInit, PTL DEF CampaignSpec

\* A completed campaign was started before, however starts, completions and
\* cancellations interleave (StartCampaign, CompleteCampaign).
THEOREM CompletionAfterStart == CampaignSpec => []CompletionFollowsStart
<1>1. CampaignInv => CompletionFollowsStart
  BY Zenon DEF CampaignInv, StartedBefore, CompletionFollowsStart
<1>. QED BY <1>1, CampaignInvariance, PTL

\* Review items belong to a campaign that exists (DeleteCampaign, AddReviewItem).
THEOREM ItemsBelong == CampaignSpec => []ItemsHaveCampaign
<1>1. CampaignInv => ItemsHaveCampaign
  BY Zenon DEF CampaignInv
<1>. QED BY <1>1, CampaignInvariance, PTL
=============================================================================
