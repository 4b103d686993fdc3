\* Reliable connections, a session submitted twice, an operator who signs, and a
\* coordinator that may end.
CONSTANTS
  NodeCount = 3
  QueueCap = 12
  Lossy = FALSE
  CommitteeSize = 3
  Threshold = 2
  Coordinator = 0
  KeyOf <- OneKey
  AlreadyReady = {0, 1, 2}
  Session = {s1}
  Message = {m1}
  Submitted = {m1}
  Manual = {1}
  Override = {None}
  MayCrash = {0}
  MaxRequests = 2
  MaxOverrides = 0
  None = None
SPECIFICATION Spec
CHECK_DEADLOCK FALSE
INVARIANTS
  OneResultPerRequest
  NoRequestIsForgotten
  QuietCoordinatorIsCurrent
PROPERTIES
  ImplementsSigningRound
