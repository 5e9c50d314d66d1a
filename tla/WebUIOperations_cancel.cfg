\* Operations that are created, cancelled and lost in a crash.
SPECIFICATION AttendedSpec
CONSTANTS
  Op = {o1, o2}
  Publishing = {o1, o2}
  Target = {t1, t2}
  o1 = o1
  t1 = t1
  Rows <- MCRows
  Threads = 2
  MaxCrashes = 2
INVARIANTS
  TypeOK
  OutcomeIsHonest
PROPERTIES
  ImplementsSlot
  EveryOperationEnds
