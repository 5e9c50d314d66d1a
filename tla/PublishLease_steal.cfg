\* Three publish runs; one of them crashes.
SPECIFICATION Spec
CONSTANTS
  Proc = {p1, p2, p3}
  NoProc = NoProc
  Platform = {1, 2}
  MaxRuns = 3
  Faults = TRUE
PROPERTIES
  LiveLeaseNotStolen
