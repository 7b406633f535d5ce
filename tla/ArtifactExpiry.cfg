\* Expiry under the server's own steps: whether it removes what expired although no
\* user calls.
CONSTANTS
  None = None
  Artifact = {a1}
  Upload = {u1}
  Fetch = {g1}
  User = {alice}
  MaxBytes = 1
  MaxCrashes = 1
SPECIFICATION ServerSpec
PROPERTY ExpiredRemoved
CHECK_DEADLOCK FALSE
