SPECIFICATION FairSpec
CONSTANTS
  TableSize = 3
  Padding = 1
  Handles = {1, 2}
  Statuses = {"ok", "fail"}
  MaxSessions = 7
INVARIANTS TypeOK OneClient Reachable OpenIsRecorded
PROPERTIES NoStartRefused FoundAgain
