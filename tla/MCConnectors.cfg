\* Two tenants, two calls and two workers at a time, one connector and one task.
CONSTANTS
  t1 = t1 t2 = t2 n1 = n1 i1 = i1 i2 = i2 r1 = r1 r2 = r2 k1 = k1 w1 = w1 w2 = w2
  None = None
  Tenants = {t1, t2}
  Names = {n1}
  Ids = {i1}
  Unsaved = "unsaved"
  Types = {"scim", "azure-ad", "unknown"}
  Requests = {r1, r2}
  Tasks = {k1}
  Ops = {"create_user", "add_to_group", "unknown"}
  Workers = {w1, w2}
  MaxRetries = 1
SPECIFICATION Spec
SYMMETRY Symmetry
INVARIANTS TypeOK RegistryBacked CompletedWasApplied RetriesBounded
