SPECIFICATION FairSpec
CONSTANTS
  Tokens = {s1, s2}
  Requests = {r1, r2}
  Idle = 1
  SessionMax = 2
  ConfirmWindow = 1
  MaxPasswords = 2
  None = none
INVARIANTS
  TypeOK
  LapsesInTime
  ConfirmedByItsPassword
PROPERTIES
  EverySessionEnds
