\* A request of the process itself, a request by command and a signature by hand,
\* and a channel that is full with one envelope.
CONSTANTS
  Conn = {1, 2}
  Action <- Commands
  SubmitAtStart = TRUE
  QueueCap = 1
SPECIFICATION FairSpec
CHECK_DEADLOCK FALSE
INVARIANTS
  ReportsAreTrue
PROPERTIES
  InterruptedProcessEnds
  AutoRequestIsSubmitted
