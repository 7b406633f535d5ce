\* Two requests and a raw signal of two names, a supervisor that may exit.
CONSTANTS
  None = None
  Request = {r1, r2}
  Name = {reset, off}
  Raw = {x1}
  Attempts = 1
SPECIFICATION FairSpec
INVARIANTS ZeroIsAccounted
PROPERTIES AnswersOnce EveryRequestAnswered
CHECK_DEADLOCK FALSE
