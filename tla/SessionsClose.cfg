\* Closing: attach, run and check calls under way while a session is closed.
CONSTANTS
  None = None
  Session = {s1, s2}
  User = {alice}
  Port = {p1}
  Conn = {k1}
  Call = {c1, c2}
  Answer = {"ok", "no_id", "lost"}
  MaxRestarts = 0
SPECIFICATION FairSpec
PROPERTIES CloseFreesBoard AccessContract
CHECK_DEADLOCK FALSE
