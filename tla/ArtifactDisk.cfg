\* Two uploads that may overlap, with and without a length; the cap lies beyond
\* what may go unchecked.
CONSTANTS
  None = None
  Upload = {u1, u2}
  MaxBytes = 6
  MaxChunk = 2
  Interval = 2
  InitialFree = 5
  Floor = 12
  MaxTaken = 2
SPECIFICATION Spec
INVARIANTS TypeOK FloorCrossing FloorHeldAlone
CHECK_DEADLOCK FALSE
