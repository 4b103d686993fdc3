CONSTANTS
  NodeCount = 3
  QueueCap = 12
  Lossy = FALSE
  CommitteeSize = 3
  Threshold = 2
  Coordinator = 0
  Session = {s1}
  Message = {m1}
  Submitted = {m1}
  MayCrash = {2}
  MaxRequests = 1
  None = None
SPECIFICATION FairSpec
CHECK_DEADLOCK FALSE
INVARIANTS
  OnlyUnreadyMembersMissRequests
  ReadyCommitteeHasSigned
PROPERTIES
  ImplementsSigning
  KeyGenerationCompletes
  ImplementsCommitteeKey
