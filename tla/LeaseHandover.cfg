SPECIFICATION Spec
CONSTANTS
  p1 = p1
  p2 = p2
  r1 = r1
  Procs = {p1, p2}
  Runs = {r1}
  Nobody = Nobody
  TTL = 3
  Refresh = 1
  Lag = 0
  Executors = {p1, p2}
  Commanders = {p2}
  Mortal = {p1}
  Suspends = FALSE
  BacksOff = {}
  Stops = FALSE
  Faulty = TRUE
INVARIANTS TypeOK OneWalk LeaseInv ClockIsSafe
PROPERTIES OnlyOwnerRests
CHECK_DEADLOCK FALSE
