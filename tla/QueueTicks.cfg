SPECIFICATION Spec
CONSTANTS
  repo = repo
  i1 = i1  i2 = i2
  b1 = b1
  p1 = p1  p2 = p2  u1 = u1
  Items = {i1, i2}
  MaxRuns = 2
  Batches = {b1}
  None = None
  Runners = {p1}
  Users = {}
  Scopes <- MCScopes
  Limit = 1
  Stops = TRUE
  Refusals = TRUE
SYMMETRY Alike
INVARIANTS TypeOK OncePerBatch SlotsByClaim NoOverlap
CHECK_DEADLOCK FALSE
