\* A run of two rows with one target, its resume, the dashboard and the reconciler.
\* It may stop: the runs and their resumes are over, and so is the reconciler.
CHECK_DEADLOCK FALSE
SPECIFICATION FairSpec
CONSTANTS
  u1 = u1
  t1 = t1
  r1 = r1
  Run = {r1}
  Item = {1, 2}
  Barred = {2}
  Target = {t1}
  Live = {u1}
  RunOf <- MCRunOf
  TargetOf <- MCTargetOf
  NoUrl = NoUrl
  NoTarget = NoTarget
  NoItem = NoItem
  NoRun = NoRun
  NoClaim = NoClaim
  Dashboard = Dashboard
  c1 = c1
  Reconciler = {c1}
  MaxResumes = 1
INVARIANTS
  TypeOK
  CursorTellsTheTruth
  FlushedRunIsLogged
  DoneHasLanded
PROPERTIES
  ImplementsLedger
  BackstopProjects
