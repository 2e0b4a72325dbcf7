\* A write overlaps a rotation: the version it stores.
CONSTANTS
  web1 = web1  web2 = web2  cli = cli  server = server  shell = shell
  None = None
  Vaults = {v1}
  Names = {n1}
  Values = {x1}
  Keys = {k1, k2}
  Ids = {i1}
  Clients = {web1, cli}
  Procs = {server, shell}
  Home <- MCHomeSmall
  MaxVersion = 2
  RotationAlone = FALSE
SPECIFICATION Spec
INVARIANTS EveryVersionReadable
