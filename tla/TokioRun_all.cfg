SPECIFICATION FairSpec
CONSTANTS
  PipeSize = 2
  MaxOutput = 3
  Grandchildren = TRUE
  Cap = 2
  Payloads = {0, 1, 3}
INVARIANTS OkComplete
PROPERTIES ImplementsContract FedAnswered BreachEndsRun
