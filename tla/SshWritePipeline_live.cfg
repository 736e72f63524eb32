\* A panic stands for a reverting error too: it may or may not have reached the
\* disk, and the loop treats the two alike.
SPECIFICATION FairSpec
CONSTANTS
  MaxOps = 2
  MaxBatch = 2
  GraceTicks = 0
  Faults = {"transient", "panic"}
  keys = keys
  hosts = hosts
  Parts = {keys}
  PartOf <- MCOnePart
PROPERTIES RevertServed QueuedOpsStart ViewConverges
