\* Three downloads over colliding labels, three devices, a page shorter than that.
CONSTANTS
  None = None
  Device = {d1, d2, d3}
  Stem <- MCStem
  DefaultStem <- MCDefaultStem
  Basename <- MCBasename
  MaxItems = 3
  PageSize = 2
  MaxChanges = 1
SYMMETRY MCSymmetry
SPECIFICATION Spec
INVARIANTS EveryDownloadKept NamespacesAgree SubmittedCanRun RefusedCouldNotRun ReportedExists
CHECK_DEADLOCK FALSE
