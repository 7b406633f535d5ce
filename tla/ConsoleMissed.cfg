\* The owner first asks for the console when the board has booted.
CONSTANTS
  None = None
  Job = {j1}
  Board = {b1}
  Proxyable = {b1}
  Call = {c1}
  MaxLosses = 0
SPECIFICATION Spec
INVARIANT ReadyMeansWritable
CHECK_DEADLOCK FALSE
