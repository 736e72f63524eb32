SPECIFICATION Spec
CONSTANTS
  c1 = c1
  c2 = c2
  r = r
  p = p
  q = q
  h1 = h1
  old = old
  Calls = {c1, c2}
  Readers = {}
  Procs = {p, q}
  Hosts = {h1, old}
  EditOf <- MCEditOf
  ProcOf <- MCProcOf
  NoFile = NoFile
  None = None
INVARIANTS AcknowledgedKept
CHECK_DEADLOCK FALSE
