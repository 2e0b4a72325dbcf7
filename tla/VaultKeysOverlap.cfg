\* Two vaults, two processes, everything overlapping at every statement.
CONSTANTS
  web1 = web1  web2 = web2  cli = cli  server = server  shell = shell
  None = None
  Vaults = {v1, v2}
  Names = {n1}
  Values = {x1, x2}
  Keys = {k1, k2, k3}
  Ids = {i1, i2}
  Clients = {web1, cli}
  Procs = {server, shell}
  Home <- MCHomeSmall
  MaxVersion = 2
  RotationAlone = FALSE
SPECIFICATION Spec
SYMMETRY Symmetry
INVARIANTS TypeOK HistoryHasNoHole SealedInPlace
PROPERTIES NothingReadableIsLost HistoryIsImmutable
