SPECIFICATION Spec
CONSTANTS
  Graphs <- Retried
  People = {a}
  MaxEvents = 1
  MaxDrops = 1
  Tails = {"walk"}
  Cancels = FALSE
INVARIANTS LiveIsMerged
CHECK_DEADLOCK FALSE
