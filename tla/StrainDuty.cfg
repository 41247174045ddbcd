SPECIFICATION Spec
CONSTANTS
  NumSensors = 1
  SpiResults = {"ok", "fail"}
  NotifyResults = {"ok", "fail"}
  TimerResults = {"ok", "fail"}
  StrayOutcomes = {"fault", "benign"}
PROPERTIES ImplementsDutyCycle
