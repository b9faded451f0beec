\* Attempts that all fail, two at a time, over several windows.
CONSTANTS
  Accounts = {alice}
  Requests = {r1, r2}
  Verdicts = {"bad"}
  MaxFailedAttempts = 2
  Window = 2
  LockoutDuration = 2
  DeviceIds = {}
  Identifiers = {}
  RiskScores = {0}
  TotpSecrets = {}
  Faults = FALSE
  Calls = {"login"}
  MaxTime = 6
  MaxAttempts = 7
  None = None
SPECIFICATION Spec
INVARIANTS TypeOK GuessesBounded
SYMMETRY Symmetry
CHECK_DEADLOCK FALSE
