\* Two members, both needed, and two requests, for one session or two.
CONSTANTS
  NodeCount = 2
  QueueCap = 12
  Lossy = FALSE
  CommitteeSize = 2
  Threshold = 2
  Coordinator = 0
  KeyOf <- OneKey
  AlreadyReady = {0, 1}
  Session = {s1, s2}
  Message = {m1, m2}
  Submitted = {m1, m2, None}
  Manual = {}
  Override = {}
  MayCrash = {}
  MaxRequests = 2
  MaxOverrides = 0
  None = None
SPECIFICATION FairSpec
CHECK_DEADLOCK FALSE
PROPERTIES
  SubmittedRequestIsSigned
