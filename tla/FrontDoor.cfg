\* Three attempts, one slot and room for one to wait.
CONSTANTS
  Attempts = {t1, t2, t3}
  Slots = 1
  Seats = 2
  throttleForget = 16
  MaxLate = 1
  MaxFailures = 60
SPECIFICATION FairSpec
INVARIANTS TypeOK LockoutDoubles
PROPERTIES LockoutIsServed LockoutEnds
