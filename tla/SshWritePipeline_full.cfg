\* A panic stands for a reverting error too: it may or may not have reached the
\* disk, and the loop treats the two alike.
SPECIFICATION Spec
CONSTANTS
  MaxOps = 2
  MaxBatch = 2
  GraceTicks = 1
  Faults = {"transient", "panic"}
  keys = keys
  hosts = hosts
  Parts = {keys, hosts}
  PartOf <- MCPartOf
INVARIANTS RevertHasBatch InFlightExact WriteTaskTracked
PROPERTIES NoOverwriteDuringWrite OverwriteIsFresh ImplementsOpQueue
