\* An approver who keeps trying; calls never fail.
CONSTANTS
  t1 = t1 t2 = t2 u1 = u1 u2 = u2 g1 = g1 g2 = g2 l1 = l1 w1 = w1 n1 = n1 n2 = n2 p1 = p1
  q1 = q1 q2 = q2 app1 = app1 a1 = a1 a2 = a2
  None = None
  Tenants = {t1}
  UserIds = {u1}
  GroupIds = {g1}
  Logins = {l1}
  Passwords = {w1}
  Names = {n1}
  DefaultPassword = w1
  Patchers = {}
  DirCalls = {"users", "groups", "members"}
  RequestIds = {q1}
  Placeholder = "todo-user-id"
  Approver = "todo-admin-id"
  AppIds = {}
  Approvals = {a1}
  Failures = FALSE
SPECIFICATION FairSpec
PROPERTY ApprovalSucceeds
