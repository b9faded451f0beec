\* A social login into a tenant whose user has another address.
CONSTANTS
  t1 = t1 t2 = t2 u1 = u1 u2 = u2 g1 = g1 l1 = l1 l2 = l2 w1 = w1 n1 = n1 p1 = p1
  idp = idp x1 = x1 s1 = s1 s2 = s2
  None = None
  Tenants = {t1}
  UserIds = {u1}
  GroupIds = {}
  Logins = {l1, l2}
  Passwords = {w1}
  Names = {n1}
  DefaultPassword = w1
  Patchers = {}
  DirCalls = {"users", "scim.create"}
  Providers = {idp}
  Subjects = {x1}
  Socials = {s1}
SPECIFICATION FedSpec
PROPERTY LinkedByEmail
