SPECIFICATION SysFairSpec
CONSTANTS
  NumSensors = 1
  SpiResults = {"ok"}
  NotifyResults = {"ok", "fail"}
  TimerResults = {"ok"}
  StrayOutcomes = {"fault", "benign"}
  TableSize = 1
  Padding = 1
  Handles = {1}
  Statuses = {"ok", "fail"}
  MaxSessions = 2
  BootTurns = 5
INVARIANTS SysTypeOK UsedAfterInit ClocksRun PinsApart LinesServed NoCommandBeforeBoot
PROPERTIES MeetsClients FoundWhileRunning
