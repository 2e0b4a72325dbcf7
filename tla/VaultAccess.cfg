\* A request of the web server and a command of the shell, overlapping anywhere.
CONSTANTS
  None = None
  Users = {u1, u2, u3}
  Vaults = {v1}
  Secrets = {s1}
  Clients = {web, shell}
  Shells = {shell}
SPECIFICATION Spec
SYMMETRY Symmetry
INVARIANTS TypeOK NoDanglingGrant OneRootAccount
PROPERTIES CheckedRemovalIsSafe DestroyedByItsOwner
