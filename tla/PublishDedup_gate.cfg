\* An observe run and an enforce thread in one process, an enforce run in another.
SPECIFICATION FairSpec
CONSTANTS
  r1 = r1
  r2 = r2
  r3 = r3
  p1 = p1
  p2 = p2
  Run = {r1, r2, r3}
  Pid = {p1, p2}
  PidOf <- MCPidOf
  NoRun = NoRun
  Key = {k1}
  NoKey = NoKey
  Observing = {r1}
  MaxPosts = 3
  Overrides = {"force", "forget"}
  MaxOverrides = 1
INVARIANTS
  TypeOK
  AtMostOnePost
  RepublishableIsNotLive
  DoneIsLive
  SingleFlight
PROPERTIES
  DoneIsFinal
  HeldUntilAdjudicated
  ImplementsBudget
  ClaimsEnd
