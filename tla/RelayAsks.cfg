SPECIFICATION Spec
CONSTANTS
  Process = {p, q}
  Mortal = {p}
  Nobody = Nobody
  Session = {s, j}
  Judges = {j}
  Asking = {s, j}
  FollowUp = {}
  Cancels = FALSE
  Faults = FALSE
  Late = TRUE
INVARIANTS GhostsWereLent
PROPERTIES AskingIsKept
CHECK_DEADLOCK FALSE
