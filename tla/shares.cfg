\* Three members, each a dealer, over the field of five elements, and bitmaps of
\* two bytes.
CONSTANTS
  P = 5
  CommitteeSize = 3
  Threshold = 2
  BitsPerByte = 2
SPECIFICATION Spec
CHECK_DEADLOCK FALSE
INVARIANTS
  AnyThresholdCombines
  ForeignShareIsNoticed
  FewerSharesHideTheSecret
  RecoverIsExact
  BitmapNamesSigners
