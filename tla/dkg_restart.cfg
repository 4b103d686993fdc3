\* A lossy network, short inbound channels, and a dealer that may restart.
CONSTANTS
  NodeCount = 3
  QueueCap = 1
  Lossy = TRUE
  CommitteeSize = 3
  Threshold = 2
  MayCrash <- FirstCrashes
  MaxStarts = 2
SPECIFICATION Spec
CHECK_DEADLOCK FALSE
INVARIANTS
  TypeOK
  SigningKeyMatchesCommitteeKey
  OnlyRestartedDealerSplitsKey
PROPERTIES
  AcceptedIsFinal
