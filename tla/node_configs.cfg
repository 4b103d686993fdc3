\* Two files and a stale one, an add-peer command for all, one for one file, and
\* the script.
CONSTANTS
  Generated <- TwoMembers
  Stale <- ThreeMembers
  Threshold = 2
  NoAddr = "none"
  OwnAddr = "own"
  Command <- Overlapping
  All = All
  MaxKills = 1
  Empty = Empty
  Garbage = Garbage
  Missing = Missing
  NotRunning = NotRunning
SPECIFICATION Spec
CHECK_DEADLOCK FALSE
INVARIANTS
  MembersAgree
  DecodableFilesAreValid
  OrderlyCommandsAdd
