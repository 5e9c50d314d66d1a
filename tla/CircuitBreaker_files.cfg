\* Two workers on two platforms; all but the health store may go wrong.
SPECIFICATION Spec
CONSTANTS
  Worker = {w1, w2}
  NoWorker = NoWorker
  Platform = {x1, x2}
  Enforced = {x1}
  AuthThreshold = 1
  ErrorThreshold = 1
  Faults = {"crash", "timeout", "reset", "garbled", "foreign"}
SYMMETRY Workers
INVARIANTS
  TypeOK
PROPERTIES
  ImplementsCircuits
