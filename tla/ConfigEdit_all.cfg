SPECIFICATION FairSpec
CONSTANTS
  c1 = c1
  c2 = c2
  r = r
  p = p
  q = q
  h1 = h1
  old = old
  Calls = {c1, c2}
  Readers = {r}
  Procs = {p, q}
  Hosts = {h1, old}
  EditOf <- MCEditOf
  ProcOf <- MCProcOf
  NoFile = NoFile
  None = None
INVARIANTS CacheHonest AcknowledgedUntilStray
PROPERTIES ImplementsEditedFile EditEnds
CHECK_DEADLOCK FALSE
