SPECIFICATION Spec
CONSTANTS
  Readings <- MCReadingsFromZero
  MaxFail = 1
INVARIANTS
  NoForeignBytes
