\* A fresh run of two rows with one key, and its resumes.
SPECIFICATION RunFairSpec
CONSTANTS
  fresh = fresh
  resume = resume
  p1 = p1
  p2 = p2
  k1 = k1
  k2 = k2
  Run = {fresh, resume}
  Pid = {p1, p2}
  PidOf <- MCPidOf
  NoRun = NoRun
  Key = {k1}
  NoKey = NoKey
  Observing = {}
  MaxPosts = 1
  Overrides = {}
  MaxOverrides = 0
  Fresh = fresh
  Item = {1, 2}
  NoItem = NoItem
  KeyOf <- MCOneKey
  Overlap = FALSE
  Outdated = {2}
  Verdicts = {TRUE, FALSE}
PROPERTIES
  DoneItemStaysDone
  RunCompletes
