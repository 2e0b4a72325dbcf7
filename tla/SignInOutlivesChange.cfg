SPECIFICATION Spec
CONSTANTS
  Users = {alice}
  Secrets = {s1}
  Keys = {k1, k2}
  Requests = {r1, r2}
  None = none
  BatchSize = 1
  MaxPasswords = 2
  MaxBatches = 3
  MaxChallenges = 2
  MaxSessions = 3
  MaxServed = 3
  MaxRestarts = 1
INVARIANTS
  PasswordChangeClosesSessions
SYMMETRY Symmetry
CHECK_DEADLOCK FALSE
