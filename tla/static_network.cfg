\* Two nodes that publish, stop, crash and restart in any order.
CONSTANTS
  NodeCount = 2
  Dials <- OneWay
  QueueCap = 1
  MayStop = {0, 1}
  MayCrash = {1}
  MaxStarts = 2
  MaxConns = 2
  MaxPublished = 2
  MayPublish = {0}
SPECIFICATION Spec
CHECK_DEADLOCK FALSE
INVARIANTS
  TypeOK
PROPERTIES
  ImplementsTransport
