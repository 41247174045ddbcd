SPECIFICATION Spec
CONSTANTS
  NumSensors = 2
  SpiResults = {"ok"}
  NotifyResults = {"ok"}
  TimerResults = {"ok"}
  StrayOutcomes = {"benign"}
PROPERTY PinWakeIsContinuous
