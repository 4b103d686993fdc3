\* Two sessions, one after the other or at the same time.
CONSTANTS
  NodeCount = 3
  QueueCap = 12
  Lossy = FALSE
  CommitteeSize = 3
  Threshold = 2
  Coordinator = 0
  KeyOf <- OneKey
  AlreadyReady = {0, 1, 2}
  Session = {s1, s2}
  Message = {m1}
  Submitted = {m1}
  Manual = {}
  Override = {}
  MayCrash = {}
  MaxRequests = 2
  MaxOverrides = 0
  None = None
SPECIFICATION Spec
CHECK_DEADLOCK FALSE
PROPERTIES
  LatestResultMovesForward
