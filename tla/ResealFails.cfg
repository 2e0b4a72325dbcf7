\* A reseal that fails after the key file was replaced.
CONSTANTS
  shell = shell  server = server
  None = None
  Procs = {shell, server}
  Runs <- MCOneShell
  Roots = {r1, r2}
  Wraps = {w1, w2, w3, w4}
  Codes = {c1, c2}
  Hosts = {h1, h2}
  Interrupted = {"reseal"}
SPECIFICATION Spec
PROPERTIES FailedResealChangesNothing
