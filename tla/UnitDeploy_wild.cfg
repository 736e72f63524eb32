SPECIFICATION FairSpec
CONSTANTS
  Calls = {c1, c2}
  Original = Original
  None = None
  Other = Other
  Installs = {c1}
  Oneshots = {c2}
  MaxRetained = 1
  Left = 0
  ClockSteps = TRUE
  Meddling = TRUE
PROPERTIES ImplementsAtomicDeploy CallEnds
