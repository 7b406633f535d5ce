\* Two requests of one name; the first times out.
CONSTANTS
  None = None
  Request = {r1, r2}
  Name = {reset}
  Raw = {}
  Attempts = 1
SPECIFICATION Spec
INVARIANT ZeroMeansRan
CHECK_DEADLOCK FALSE
