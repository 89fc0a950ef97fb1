SPECIFICATION Spec
CONSTANTS
  Process = {p, q}
  Mortal = {}
  Nobody = Nobody
  Session = {s}
  Judges = {}
  Asking = {}
  FollowUp = {f}
  Cancels = FALSE
  Faults = TRUE
  Late = TRUE
INVARIANTS TypeOK ClosedIsQuiet
PROPERTIES RefusedIsNotSent
CHECK_DEADLOCK FALSE
