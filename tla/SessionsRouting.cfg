\* Routing: a board session and a console, tunnels that drop and redial.
CONSTANTS
  None = None
  Session = {s1, s2}
  User = {alice}
  Port = {p1, p2}
  Conn = {k1, k2, k3}
  Call = {c1}
  Answer = {"ok"}
  MaxRestarts = 1
SYMMETRY Symmetry
SPECIFICATION Spec
INVARIANTS TypeOK BoundByOwnAgent RoutedUnlessShared
PROPERTY AccessContract
CHECK_DEADLOCK FALSE
