\* A fresh run of two rows with one key, in observe mode, and the enforce runs that
\* resume it on a day that may reject its rows.
SPECIFICATION RunSpec
CONSTANTS
  fresh = fresh
  resume = resume
  p1 = p1
  p2 = p2
  k1 = k1
  k2 = k2
  Run = {fresh, resume}
  Pid = {p1, p2}
  PidOf <- MCPidOf
  NoRun = NoRun
  Key = {k1}
  NoKey = NoKey
  Observing = {fresh}
  MaxPosts = 2
  Overrides = {}
  MaxOverrides = 0
  Fresh = fresh
  Item = {1, 2}
  NoItem = NoItem
  KeyOf <- MCOneKey
  Overlap = FALSE
  Outdated = {1, 2}
  Verdicts = {TRUE, FALSE}
INVARIANTS
  RunTypeOK
  DoneItemIsLive
  CompleteMeansSettled
  ExitZeroMeansComplete
