CONSTANTS
  t1 = t1
  t2 = t2
  h1 = h1
  h2 = h2
  e1 = e1
  e2 = e2
  created = created
  deleted = deleted
  None = None
  Tenants = {t1, t2}
  Hooks = {h1, h2}
  Events = {e1, e2}
  EventTypes = {created, deleted}
  Wishes = {{}, {created}, {created, deleted}}
SPECIFICATION WebhookSpec
INVARIANTS WebhookTypeOK DeliveredWhereAsked
PROPERTIES OwedIsTried
