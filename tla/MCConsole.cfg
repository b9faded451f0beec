\* Two of everything that can interfere; what a part draws is not symmetric.
CONSTANTS
  t1 = t1
  t2 = t2
  a1 = a1
  a2 = a2
  g1 = g1
  g2 = g2
  x1 = x1
  x2 = x2
  x3 = x3
  x4 = x4
  None = None
  Tenants = {t1, t2}
  Reviewers = {x1}
  CampaignIds = {a1, a2}
  ItemIds = {x1}
  Workers = {g1, g2}
  UserIds = {x1}
  RoleIds = {a1, a2}
  PermissionIds = {x1, x2}
  RoleNames = {g1, g2}
  Resources = {"users", "*"}
  Actions = {"read", "admin"}
  AppIds = {x1}
  AppSecrets = {x1, x2, x3, x4}
  RedirectUris = {a1, a2}
  PortalCalls = {g1, g2}
  PasskeyUsers = {t1, t2}
  Authenticators = {a1, a2}
  Challenges = {x1, x2, x3}
  Ceremonies = {g1, g2}
  MaxSignatures = 3
  MaxReplies = 3
  Entries = {x1, x2, x3}
  AuditReaders = {g1, g2}
  MaxLogTenants = 1
  Filters = {0, 2, 7}
  QueryLimits = {0}
  PageLimit = 2
  DefaultLimit = 1
  MaxLimit = 2
  ExportLimit = 3
  Addresses = {a1, a2}
  Requests = {g1, g2}
  Limiters = {x1, x2, x3, x4}
  Refill = 1
  Burst = 2
  MaxIps = 1
  MaxTime = 2
  MaxResets = 1
SPECIFICATION ConsoleSpec
SYMMETRY Symmetry
INVARIANTS
  ConsoleTypeOK
  CompletionFollowsStart
  ItemsHaveCampaign
  AssignmentsResolve
  EndedCredentialsStayDead
  ShownSecretWorks
  ReplayRefused
  TokensProven
  PagingComplete
  ExportComplete
  RefusedOnlyAtTen
  RateBounded
PROPERTIES
  GrantedByAssignment
  CounterRegressesOnlyOvertaken
