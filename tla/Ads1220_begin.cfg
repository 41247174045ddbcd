SPECIFICATION Spec
CONSTANTS
  MaxFail = 1
  Garbage = {255}
  DataRates = {0, 1, 2, 3, 4, 5, 6}
  Gains = {0, 1, 2, 3, 4, 5, 6, 7}
  MuxChannels = {0, 3, 6, 11}
INVARIANT RegistersVerified
