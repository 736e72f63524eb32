SPECIFICATION FairSpec
CONSTANTS
  PipeSize = 1
  MaxOutput = 1
  Grandchildren = FALSE
  Cap = 1
  Payloads = {2}
PROPERTIES Answered
