\* Two nodes without envelopes.
CONSTANTS
  NodeCount = 2
  Dials <- Everybody
  QueueCap = 1
  MayStop = {0, 1}
  MayCrash = {1}
  MaxStarts = 2
  MaxConns = 2
  MaxPublished = 0
  MayPublish = {}
SPECIFICATION FairSpec
CHECK_DEADLOCK FALSE
INVARIANTS
  OpenConnIsWatched
  NoLoopSendsOnClosedChannel
PROPERTIES
  EverybodyStops
  Reconnects
