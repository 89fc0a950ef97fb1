SPECIFICATION FairSpec
CONSTANTS
  Process = {p, q}
  Mortal = {p}
  Nobody = Nobody
  Session = {s}
  Judges = {}
  Asking = {}
  FollowUp = {f}
  Cancels = TRUE
  Faults = FALSE
  Late = TRUE
INVARIANTS OverIsQuiet
PROPERTIES Settles Cancelled
CHECK_DEADLOCK FALSE
