SPECIFICATION FairSpec
CONSTANTS
  PipeSize = 2
  MaxOutput = 3
  Grandchildren = TRUE
  Cap = 2
  Payloads = {0, 3}
  ChannelSize = 2
INVARIANTS OkComplete SinkWithinCap NoTaskLeft
PROPERTIES ImplementsContract FedAnswered BreachEndsRun
