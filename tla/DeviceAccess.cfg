\* One device and one person, over two secrets and two addresses.
CONSTANTS
  a1 = a1  a2 = a2  n1 = n1  n2 = n2  p1 = p1  p2 = p2
  Names = {n1, n2}
  Tokens = {t1}
  Addresses = {a1, a2}
  Calls = {c1}
  People = {p1}
  MaxRows = 2
  MaxActs = 4
SPECIFICATION Spec
SYMMETRY Symmetric
INVARIANTS TypeOK ServedWasAllowed ReachOnlyAsked
CHECK_DEADLOCK FALSE
