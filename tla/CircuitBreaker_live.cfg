\* Two workers on an enforced platform that do not crash.
SPECIFICATION FairSpec
CONSTANTS
  Worker = {w1, w2}
  NoWorker = NoWorker
  Platform = {x1}
  Enforced = {x1}
  AuthThreshold = 1
  ErrorThreshold = 2
  Faults = {"timeout", "reset", "health", "events", "garbled", "foreign", "undecodable"}
INVARIANTS
  TrippedMeansAlerted
PROPERTIES
  ChannelRecovers
