SPECIFICATION FairSpec
CONSTANTS
  NumSensors = 2
  SpiResults = {"ok"}
  NotifyResults = {"ok", "fail"}
  TimerResults = {"ok"}
  StrayOutcomes = {"benign"}
PROPERTY EveryRoundTransmitted
