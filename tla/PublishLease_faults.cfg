\* Three publish runs that may be killed, whose pids may be reused and whose
\* releases may fail.
SPECIFICATION Spec
CONSTANTS
  Proc = {p1, p2, p3}
  NoProc = NoProc
  Platform = {1, 2}
  MaxRuns = 3
  Faults = TRUE
SYMMETRY Pids
INVARIANTS
  TypeOK
  PublishersApart
