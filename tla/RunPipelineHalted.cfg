SPECIFICATION Spec
CONSTANTS
  Runs = {1}
  Sources = {ledger, payroll}
  SourceOf <- TwoSources
  Workers = {w1}
  Verdicts <- AllVerdicts
  FaultKinds <- AllFaults
  MaxFaults = 1
  NoRun = NoRun
  NoWorker = NoWorker
  w1 = w1  w2 = w2  ledger = ledger  payroll = payroll
INVARIANTS
  HaltedCommitsNothing
CHECK_DEADLOCK FALSE
