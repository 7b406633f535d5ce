\* One artifact, three PUTs and a GET that may overlap, two users, every answer of
\* LAVA, one crash.
CONSTANTS
  None = None
  Artifact = {a1}
  Upload = {u1, u2, u3}
  Fetch = {g1}
  User = {alice, bob}
  MaxBytes = 2
  MaxCrashes = 1
SYMMETRY Symmetry
SPECIFICATION Spec
INVARIANTS TypeOK NoResurrection AckedIsDurable IntactUnlessRaced ServedIsComplete NoOrphanFiles NameResolves TokenAccounted
PROPERTY StoreContract
CHECK_DEADLOCK FALSE
