SPECIFICATION FairSpec
CONSTANTS
  NumSensors = 4
  SpiResults = {"ok"}
  NotifyResults = {"ok", "fail"}
  TimerResults = {"ok", "fail"}
  StrayOutcomes = {"fault", "benign"}
INVARIANTS TypeOK RoundFresh SentMeansPublished NoLostReady
PROPERTIES TimerWakeIsSlow DeadRows EveryRoundEnds ReportIsActedOn LingerEnds
