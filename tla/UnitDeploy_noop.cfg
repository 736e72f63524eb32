SPECIFICATION Spec
CONSTANTS
  Calls = {c1, c2}
  Original = Original
  None = None
  Other = Other
  Installs = {}
  Oneshots = {c2}
  MaxRetained = 1
  Left = 0
  ClockSteps = FALSE
  Meddling = FALSE
INVARIANTS LedgerNamesLaunched
