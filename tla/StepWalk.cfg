SPECIFICATION FairSpec
CONSTANTS
  Graphs <- Small
  People = {a, b}
  MaxEvents = 2
  MaxDrops = 1
  Tails = {"walk", "hand_back"}
  Cancels = TRUE
INVARIANTS Whole OneWinner OneFront EndedIsSettled Budgeted
PROPERTIES Rests IsPhaseRun
CHECK_DEADLOCK FALSE
