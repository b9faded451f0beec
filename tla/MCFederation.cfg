\* Two tenants; administrators, a SCIM PATCH and two social logins work on the same users.
CONSTANTS
  t1 = t1 t2 = t2 u1 = u1 u2 = u2 g1 = g1 l1 = l1 l2 = l2 w1 = w1 n1 = n1 p1 = p1
  idp = idp x1 = x1 s1 = s1 s2 = s2
  None = None
  Tenants = {t1, t2}
  UserIds = {u1, u2}
  GroupIds = {}
  Logins = {l1, l2}
  Passwords = {w1}
  Names = {n1}
  DefaultPassword = w1
  Patchers = {p1}
  DirCalls = {"users", "scim", "scim.create"}
  Providers = {idp}
  Subjects = {x1}
  Socials = {s1, s2}
SPECIFICATION FedSpec
SYMMETRY Symmetry
INVARIANTS FedTypeOK LinkedWithinTenant
PROPERTIES DeletedForGood
