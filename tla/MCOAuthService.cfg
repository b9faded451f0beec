\* Administrators change a client while its grants are in flight.
CONSTANTS
  t1 = t1 t2 = t2 c1 = c1 c2 = c2 u1 = u1 u2 = u2 s1 = s1 s2 = s2 v1 = v1 v2 = v2 k1 = k1 k2 = k2
  a1 = a1 a2 = a2 f1 = f1 f2 = f2 f3 = f3 f4 = f4 r1 = r1 r2 = r2 sec1 = sec1
  None = None
  Tenants = {t1, t2}
  Clients = {c1}
  Uris = {u1}
  Scopes = {s1, s2}
  Secrets = {sec1}
  Verifiers = {v1}
  Challenges = {k1}
  S256 <- MCS256
  CodeIds = {a1}
  TokenIds = {f1, f2}
  Requests = {r1}
  Registrations <- OnePublic
  Updates <- Secure
  Calls = {"admin", "authorize", "code", "refresh", "client_credentials", "signal", "introspect"}
  CodeTTL = 1
  AccessTTL = 1
  RefreshTTL = 2
  TicksPerSecond = 1
  MaxTime = 0
  MaxEpoch = 0
SPECIFICATION Spec
INVARIANTS TypeOK TokensTraceToAuthorization
PROPERTIES ImplementsLedger
