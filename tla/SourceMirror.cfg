\* Upgrades, failing and killed checkouts, a restart, reads and listings.
CONSTANTS
  None = None
  v1 = v1
  v2 = v2
  common = common
  old = old
  new = new
  Ref = {v1, v2}
  File = {common, old, new}
  Tracked <- TwoVersions
  Pinned = None
  MaxUpgrades = 2
  MaxFailures = 1
  MaxKills = 1
  MaxRestarts = 1
SPECIFICATION FairSpec
INVARIANTS ServedWhole
PROPERTIES ServesVersions CallReturns FollowsDeployed
CHECK_DEADLOCK FALSE
