\* One login at a time; enrolments, devices, events and failing queries in between.
CONSTANTS
  Accounts = {alice}
  Requests = {r1}
  Verdicts = {"ok"}
  MaxFailedAttempts = 1
  Window = 0
  LockoutDuration = 0
  DeviceIds = {d1, d2}
  Identifiers = {laptop}
  RiskScores = {30}
  TotpSecrets = {s1, s2}
  Faults = TRUE
  Calls = {"login", "mfa", "totp", "device", "signal"}
  MaxTime = 1
  MaxAttempts = 1
  None = None
SPECIFICATION Spec
INVARIANTS CodeAskedFor VerifiedRowProven RiskyDeviceRefused
SYMMETRY Symmetry
