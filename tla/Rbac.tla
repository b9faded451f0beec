-------------------------------- MODULE Rbac --------------------------------
(***************************************************************************)
(* Roles and permissions of govsvc (internal/rbac): roles, permissions,    *)
(* their assignment to each other and of roles to users, and HasPermission *)
(* over the four tables.  Every operation is one statement; UpdateRole and *)
(* the assignments go by id, whatever the tenant of the request.           *)
(***************************************************************************)
EXTENDS Tenancy

CONSTANTS
  UserIds,
  RoleIds, PermissionIds,  \* random UUIDs
  RoleNames,                   \* role names
  Resources, Actions       \* what a permission is for

VARIABLES
  roles,            \* roles: id -> row or None
  permissions,      \* permissions: id -> row or None
  rolePermissions,  \* role_permissions
  userRoles,        \* user_roles; user_id refers to no table
  knownIds          \* history: ids ever given out

rbacVars == <<roles, permissions, rolePermissions, userRoles, knownIds>>

\* None is the empty name, which only an update can give.
RoleRows == [tenant : Tenants, name : RoleNames \cup {None}]

PermissionRows == [tenant : Tenants, resource : Resources, action : Actions]

ASSUME RbacAssumption == None \notin RoleRows \cup PermissionRows

UserRoles == [user : UserIds, role : RoleIds, tenant : Tenants]

RbacTypeOK ==
  /\ roles \in [RoleIds -> RoleRows \cup {None}]
  /\ permissions \in [PermissionIds -> PermissionRows \cup {None}]
  /\ rolePermissions \subseteq RoleIds \X PermissionIds
  /\ userRoles \subseteq UserRoles
  /\ knownIds \subseteq RoleIds \cup PermissionIds

RbacInit ==
  /\ roles = [r \in RoleIds |-> None]
  /\ permissions = [p \in PermissionIds |-> None]
  /\ rolePermissions = {} /\ userRoles = {} /\ knownIds = {}

-----------------------------------------------------------------------------
(* Roles *)

\* UNIQUE (tenant_id, name), for the row of role r
NameFree(t, n, r) ==
  \A x \in RoleIds \ {r} : roles[x] # None => roles[x] # [tenant |-> t, name |-> n]

CreateRole(t, n) ==
  /\ \E r \in RoleIds \ knownIds :
       /\ NameFree(t, n, r)
       /\ roles' = [roles EXCEPT ![r] = [tenant |-> t, name |-> n]]
       /\ knownIds' = knownIds \cup {r}
  /\ UNCHANGED <<permissions, rolePermissions, userRoles>>

\* The name changes also when the tenant of the request has no such role and
\* gets an error from the read that follows.
UpdateRole(r, n) ==
  /\ roles[r] # None /\ NameFree(roles[r].tenant, n, r)
  /\ roles' = [roles EXCEPT ![r].name = n]
  /\ UNCHANGED <<permissions, rolePermissions, userRoles, knownIds>>

\* Mutant: the assignments stay behind.
DeleteRoleOnly(t, r) ==
  /\ roles[r] # None /\ roles[r].tenant = t
  /\ roles' = [roles EXCEPT ![r] = None]
  /\ UNCHANGED <<permissions, rolePermissions, userRoles, knownIds>>

\* ON DELETE CASCADE takes both kinds of assignments along.
DeleteRole(t, r) ==
  /\ roles[r] # None /\ roles[r].tenant = t
  /\ roles' = [roles EXCEPT ![r] = None]
  /\ rolePermissions' = {x \in rolePermissions : x[1] # r}
  /\ userRoles' = {x \in userRoles : x.role # r}
  /\ UNCHANGED <<permissions, knownIds>>

-----------------------------------------------------------------------------
(* Permissions *)

\* Mutant: a permission of the tenant is overwritten.
CreatePermissionUpsert(t, res, act) ==
  /\ \E p \in PermissionIds :
       /\ p \in knownIds => permissions[p].tenant = t
       /\ permissions' = [permissions EXCEPT ![p] = [tenant |-> t, resource |-> res, action |-> act]]
       /\ knownIds' = knownIds \cup {p}
  /\ UNCHANGED <<roles, rolePermissions, userRoles>>

\* UNIQUE (tenant_id, resource, action); nothing changes or deletes a permission.
CreatePermission(t, res, act) ==
  LET row == [tenant |-> t, resource |-> res, action |-> act] IN
  /\ \A p \in PermissionIds : permissions[p] # None => permissions[p] # row
  /\ \E p \in PermissionIds \ knownIds :
       /\ permissions' = [permissions EXCEPT ![p] = row]
       /\ knownIds' = knownIds \cup {p}
  /\ UNCHANGED <<roles, rolePermissions, userRoles>>

-----------------------------------------------------------------------------
(* Assignments *)

\* ON CONFLICT DO NOTHING; the tenants of the two are not compared.
AssignPermissionToRole(r, p) ==
  /\ roles[r] # None /\ permissions[p] # None
  /\ rolePermissions' = rolePermissions \cup {<<r, p>>}
  /\ UNCHANGED <<roles, permissions, userRoles, knownIds>>

RemovePermissionFromRole(r, p) ==
  /\ rolePermissions' = rolePermissions \ {<<r, p>>}
  /\ UNCHANGED <<roles, permissions, userRoles, knownIds>>

Assigned(u, r) == \E x \in userRoles : x.user = u /\ x.role = r

\* The primary key is (user_id, role_id): a second assignment of the role is
\* dropped, that of another tenant too.
AssignRoleToUser(t, u, r) ==
  /\ roles[r] # None
  /\ userRoles' = IF Assigned(u, r) THEN userRoles
                  ELSE userRoles \cup {[user |-> u, role |-> r, tenant |-> t]}
  /\ UNCHANGED <<roles, permissions, rolePermissions, knownIds>>

RemoveRoleFromUser(u, r) ==
  /\ userRoles' = {x \in userRoles : x.user # u \/ x.role # r}
  /\ UNCHANGED <<roles, permissions, rolePermissions, knownIds>>

-----------------------------------------------------------------------------
\* GetUserPermissions: the join of the three tables
GetUserPermissions(t, u) ==
  {permissions[p] : p \in {q \in PermissionIds :
     \E x \in userRoles : x.user = u /\ x.tenant = t /\ <<x.role, q>> \in rolePermissions}}

\* HasPermission: exact, or a wildcard; "admin" stands for every action.
HasPermission(t, u, res, act) ==
  \E p \in GetUserPermissions(t, u) : p.resource \in {res, "*"} /\ p.action \in {act, "*", "admin"}

RoleStep ==
  \/ \E t \in Tenants :
       \E n \in RoleNames, r \in RoleIds : CreateRole(t, n) \/ DeleteRole(t, r)
  \/ \E r \in RoleIds :
       \/ \E n \in RoleNames \cup {None} : UpdateRole(r, n)
       \/ \E p \in PermissionIds : AssignPermissionToRole(r, p) \/ RemovePermissionFromRole(r, p)

PermissionStep == \E t \in Tenants, res \in Resources, act \in Actions : CreatePermission(t, res, act)

UserRoleStep ==
  \E u \in UserIds, r \in RoleIds :
    RemoveRoleFromUser(u, r) \/ \E t \in Tenants : AssignRoleToUser(t, u, r)

RbacNext == RoleStep \/ PermissionStep \/ UserRoleStep

RbacSpec == RbacInit /\ [][RbacNext]_rbacVars

-----------------------------------------------------------------------------
(* Properties *)

\* What HasPermission joins exists: no assignment outlives its role, so a role
\* of the same name created later starts with none (DeleteRole).
AssignmentsResolve ==
  /\ \A x \in rolePermissions : roles[x[1]] # None /\ permissions[x[2]] # None
  /\ \A x \in userRoles : roles[x.role] # None

GrantStep ==
  \A t \in Tenants, u \in UserIds, res \in Resources, act \in Actions :
    ~HasPermission(t, u, res, act) /\ HasPermission(t, u, res, act)' =>
      \E x \in userRoles' :
        /\ x.user = u /\ x.tenant = t
        /\ x \notin userRoles \/ \E p \in PermissionIds : <<x.role, p>> \in rolePermissions' \ rolePermissions

\* Nobody comes to hold a permission but by being given a role, or by a
\* permission given to a role they have: creating, renaming, deleting and
\* removing never widen what HasPermission grants.
GrantedByAssignment == [][GrantStep]_rbacVars
====
