SPECIFICATION FairSpec
CONSTANTS
  Runs = {1, 2, 3}
  Sources = {ledger, payroll}
  SourceOf <- TwoSources
  Workers = {w1}
  Verdicts <- AllVerdicts
  FaultKinds <- AnsweredFaults
  MaxFaults = 3
  NoRun = NoRun
  NoWorker = NoWorker
  w1 = w1  w2 = w2  ledger = ledger  payroll = payroll
PROPERTIES
  EndedStaysEnded
  EveryRunEnds
CHECK_DEADLOCK FALSE
