SPECIFICATION Spec
CONSTANTS
  Readings <- MCReadingsFromZero
  MaxFail = 2
INVARIANTS
  TypeOK
  SampleWhole
  OwnValue
  StaleOnlyByFailure
