\* The node that restarts while the key generation is going on.
CONSTANTS
  NodeCount = 2
  QueueCap = 3
  Lossy = FALSE
  CommitteeSize = 2
  Threshold = 2
  MayCrash <- FirstCrashes
  MaxStarts = 2
SPECIFICATION Spec
CHECK_DEADLOCK FALSE
INVARIANTS
  FixedCommitteeKey
