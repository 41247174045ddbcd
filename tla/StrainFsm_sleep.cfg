SPECIFICATION FairSpec
CONSTANTS
  NumSensors = 2
  SpiResults = {"ok"}
  NotifyResults = {"ok"}
  TimerResults = {"ok"}
  StrayOutcomes = {"fault"}
PROPERTY SleepFollowsClosing
