\* Two requests of one server, rotations only while nothing else uses the vault.
CONSTANTS
  web1 = web1  web2 = web2  cli = cli  server = server  shell = shell
  None = None
  Vaults = {v1}
  Names = {n1}
  Values = {x1, x2}
  Keys = {k1, k2, k3}
  Ids = {i1, i2}
  Clients = {web1, web2}
  Procs = {server}
  Home <- MCHomeServer
  MaxVersion = 2
  RotationAlone = TRUE
SPECIFICATION FairSpec
INVARIANTS ReadersAreServed
PROPERTIES KeepsPromise SealCompletes
