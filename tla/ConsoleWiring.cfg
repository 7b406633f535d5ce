\* A job whose tunnel or console connection drops twice, two concurrent calls.
CONSTANTS
  None = None
  Job = {j1}
  Board = {b1, b2, b3}
  Proxyable = {b1, b2}
  Call = {c1, c2}
  MaxLosses = 2
SPECIFICATION FairSpec
INVARIANTS InputOnlyWhenReady OwnConsole SentinelSeen
PROPERTY PollingConnects
CHECK_DEADLOCK FALSE
