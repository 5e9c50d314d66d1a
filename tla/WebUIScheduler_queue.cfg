\* Two tasks, a draft, a crash and a fault of the store.
SPECIFICATION FairSpec
CONSTANTS
  Task = {1, 2}
  Draft = {d1}
  Adder = {a1, a2}
  NoJob = NoJob
  MaxCrashes = 1
  MaxFaults = 1
INVARIANTS
  TypeOK
  ClaimHolds
  NothingStranded
  PublishedOnce
PROPERTIES
  TasksKept
  TaskSettles
  DraftFires
