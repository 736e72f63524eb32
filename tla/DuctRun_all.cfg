SPECIFICATION FairSpec
CONSTANTS
  PipeSize = 1
  MaxOutput = 2
  Grandchildren = TRUE
  Cap = 1
  Payloads = {0, 2}
INVARIANTS RetainedWithinCap BreachNotMislabelled OkLosesOnlyHeldStreams
PROPERTIES ImplementsContract Answered BreachEndsRun
