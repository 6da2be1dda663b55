---------------------------- MODULE MCRunPipeline ----------------------------
(***************************************************************************)
(* Instances of RunPipeline small enough for TLC.                          *)
(***************************************************************************)
EXTENDS RunPipeline, TLC

CONSTANTS w1, w2, ledger, payroll

\* The second run is of the other source, or of the same one.
TwoSources == [r \in Runs |-> IF r = 2 THEN payroll ELSE ledger]

AllVerdicts == {"completed"} \cup Failures
AllFaults == {"crash", "connection", "error", "reply", "record"}
AnsweredFaults == AllFaults \ {"reply"}
=============================================================================
