\* Three publish runs without faults.  The bound on the runs stops the system.
SPECIFICATION FairSpec
CONSTANTS
  Proc = {p1, p2, p3}
  NoProc = NoProc
  Platform = {1, 2}
  MaxRuns = 3
  Faults = FALSE
CHECK_DEADLOCK FALSE
INVARIANTS
  NoStandoff
PROPERTIES
  SomebodyPublishes
