\* Two opens that can fill the pool, one with a console, another tool, one dial-in.
CONSTANTS
  None = None
  Foreign = Foreign
  Open = {o1, o2}
  Console = {o1}
  Plain = {p1}
  Dial = {d1}
  Threads = 2
  Attempt = {n1, n2}
  MaxSlow = 1
  MaxStops = 1
SPECIFICATION FairSpec
INVARIANTS PoolGoesOn LoopListens BridgedToOwn NoSecondListener
PROPERTY EveryJobServed
CHECK_DEADLOCK FALSE
