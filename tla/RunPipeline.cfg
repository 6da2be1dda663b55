SPECIFICATION Spec
CONSTANTS
  Runs = {1, 3}
  Sources = {ledger, payroll}
  SourceOf <- TwoSources
  Workers = {w1, w2}
  Verdicts <- AllVerdicts
  FaultKinds <- AllFaults
  MaxFaults = 2
  NoRun = NoRun
  NoWorker = NoWorker
  w1 = w1  w2 = w2  ledger = ledger  payroll = payroll
INVARIANTS
  TypeOK
  OneTransactionPerSource
  EvidenceOnce
  CompletedHasEvidence
CHECK_DEADLOCK FALSE
