\* Loss, overflow, a crash of the coordinator, an override, and a member whose
\* share belongs to another committee key.
CONSTANTS
  NodeCount = 3
  QueueCap = 1
  Lossy = TRUE
  CommitteeSize = 3
  Threshold = 2
  Coordinator = 0
  KeyOf <- SplitKey
  AlreadyReady = {0, 1}
  Session = {s1}
  Message = {m1, m2}
  Submitted = {m1}
  Manual = {1}
  Override = {m2, None}
  MayCrash = {0}
  MaxRequests = 2
  MaxOverrides = 1
  None = None
SPECIFICATION Spec
CHECK_DEADLOCK FALSE
INVARIANTS
  TypeOK
  ResultsAreRequestedAndSigned
