\* A shell, one command at a time, beside the server; recoveries are not interrupted.
CONSTANTS
  shell = shell  server = server
  None = None
  Procs = {shell, server}
  Runs <- MCOneShell
  Roots = {r1, r2}
  Wraps = {w1, w2, w3, w4}
  Codes = {c1, c2}
  Hosts = {h1, h2}
  Interrupted = {"init", "reseal", "serve"}
SPECIFICATION FairSpec
INVARIANTS TypeOK PrintedCodeOpens SuccessOpensNextStart
PROPERTIES RootIsForever RecoverySucceeds
