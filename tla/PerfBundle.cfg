CONSTANTS
  NEvents = 2
  BufSize = 4
  SampleSizes = {1, 3}
  LostSize = 1
  MaxStamp = 2
SPECIFICATION Spec
INVARIANTS
  TypeOK
  NeverWraps
PROPERTIES
  ProcessEnds
  DeliversAll
CHECK_DEADLOCK FALSE
