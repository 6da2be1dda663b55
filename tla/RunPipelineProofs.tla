-------------------------- MODULE RunPipelineProofs --------------------------
(***************************************************************************)
(* Proofs about RunPipeline, for any number of runs, sources, workers and  *)
(* faults.                                                                 *)
(*                                                                         *)
(* That a run's evidence is committed once rests on two facts about the    *)
(* worker that holds a source: it is the only one with a transaction on    *)
(* the source (OneTransactionPerSource), and once past the insertion of    *)
(* the snapshot, no evidence of its run was committed before (WorkerOK).   *)
(***************************************************************************)
EXTENDS RunPipeline, TLAPS

\* What a worker has learnt by the stage it has announced.
Learnt(r, stage, connected) ==
    /\ stage >= 1 => verdict[r] # "failed"
    /\ stage >= 3 => verdict[r] # "tieout_failed"
    /\ stage >= 7 => verdict[r] # "ceiling_exceeded"
    /\ connected = TRUE /\ stage >= 4 => commits[r] = 0

WorkerOK(w) ==
    /\ worker[w].pc = "picked" => worker[w].stage = 0
    /\ worker[w].pc = "working" =>
         Learnt(worker[w].run, worker[w].stage, worker[w].connected)

IInv ==
    /\ TypeOK
    /\ OneTransactionPerSource
    /\ EvidenceOnce
    /\ CompletedHasEvidence
    /\ \A w \in Workers : WorkerOK(w)

-----------------------------------------------------------------------------
(***************************************************************************)
(* Stages and failures.                                                    *)
(***************************************************************************)

\* The positions of the stages that may fail with a code of their own.
LEMMA StagePositions ==
    /\ Len(Stages) = 7
    /\ At("tie_out") = 2 /\ At("snapshot") = 3 /\ At("score") = 6
<1>1. /\ Len(Stages) = 7 /\ DOMAIN Stages = 1 .. 7
      /\ Stages[1] = "extract" /\ Stages[2] = "tie_out" /\ Stages[3] = "snapshot"
      /\ Stages[4] = "transform" /\ Stages[5] = "analyse" /\ Stages[6] = "score"
      /\ Stages[7] = "reconcile"
  BY DEF Stages
<1>2. \A i \in 1 .. 7 : i = 1 \/ i = 2 \/ i = 3 \/ i = 4 \/ i = 5 \/ i = 6 \/ i = 7
  OBVIOUS
<1>3. \A i \in DOMAIN Stages :
        /\ Stages[i] = "tie_out" => i = 2
        /\ Stages[i] = "snapshot" => i = 3
        /\ Stages[i] = "score" => i = 6
  BY <1>1, <1>2
<1>4. At("tie_out") = 2
  BY <1>1, <1>3 DEF At
<1>5. At("snapshot") = 3
  BY <1>1, <1>3 DEF At
<1>6. At("score") = 6
  BY <1>1, <1>3 DEF At
<1> QED BY <1>1, <1>4, <1>5, <1>6

\* A stage that fails fails with a code.
LEMMA FailureHasCode ==
    ASSUME NEW w \in Workers, StageFailure(w) # ""
    PROVE  StageFailure(w) \in Failures
BY DEF StageFailure, Failures

\* What a worker learns from a stage that does not fail.
LEMMA StagePassed ==
    ASSUME NEW w \in Workers, StageFailure(w) = ""
    PROVE  /\ worker[w].stage = 0 => verdict[worker[w].run] # "failed"
           /\ worker[w].stage = 2 => verdict[worker[w].run] # "tieout_failed"
           /\ worker[w].stage >= 3 => worker[w].connected
           /\ worker[w].stage = 3 => ~(commits[worker[w].run] > 0)
           /\ worker[w].stage = 6 => verdict[worker[w].run] # "ceiling_exceeded"
BY StagePositions DEF StageFailure

-----------------------------------------------------------------------------
(***************************************************************************)
(* The invariant is inductive.                                             *)
(***************************************************************************)

LEMMA InitIInv == Init => IInv
<1> SUFFICES ASSUME Init PROVE IInv
  OBVIOUS
<1>1. TypeOK
  <2>1. Idle \in WorkerRow
    BY StagePositions DEF Idle, WorkerRow
  <2>2. MaxFaults \in Nat
    BY ConstantsAssumption
  <2>3. worker \in [Workers -> WorkerRow] /\ \A w \in Workers : worker[w] = Idle
    BY <2>1 DEF Init
  <2>4. /\ status \in [Runs -> {"none", "completed"} \cup Unfinished \cup Failures]
        /\ verdict \in [Runs -> Verdicts]
        /\ commits \in [Runs -> Nat]
        /\ watermark \in [Sources -> Runs \cup {NoRun}]
        /\ lock \in [Sources -> Workers \cup {NoWorker}]
    BY DEF Init
  <2>5. faults \in 0 .. MaxFaults
    BY <2>2 DEF Init
  <2>6. \A w \in Workers : worker[w].pc = "idle" /\ ~worker[w].connected
    <3>1. Idle.pc = "idle" /\ ~Idle.connected
      BY DEF Idle
    <3> QED BY <3>1, <2>3
  <2> QED BY <2>3, <2>4, <2>5, <2>6 DEF TypeOK
<1>2. OneTransactionPerSource
  BY ConstantsAssumption DEF Init, OneTransactionPerSource, Idle
<1>3. EvidenceOnce
  BY DEF Init, EvidenceOnce
<1>4. CompletedHasEvidence
  BY DEF Init, CompletedHasEvidence
<1>5. \A w \in Workers : WorkerOK(w)
  BY DEF Init, WorkerOK, Idle
<1> QED BY <1>1, <1>2, <1>3, <1>4, <1>5 DEF IInv

\* A worker about to commit is connected, its run deserves the commit, and
\* nobody has committed it.
LEMMA ReadyToCommit ==
    ASSUME IInv, NEW w \in Workers, Finishing(w)
    PROVE  /\ worker[w].run \in Runs /\ worker[w].connected
           /\ verdict[worker[w].run] = "completed"
           /\ commits[worker[w].run] = 0
<1>1. /\ worker[w] \in WorkerRow /\ worker[w].run \in Runs /\ worker[w].stage = 7
      /\ worker[w].pc = "working" /\ StageFailure(w) = ""
  BY StagePositions DEF IInv, TypeOK, Finishing
<1>2. worker[w].connected
  <2>1. 7 >= 3
    OBVIOUS
  <2> QED BY <1>1, <2>1, StagePassed
<1>3. Learnt(worker[w].run, 7, TRUE)
  BY <1>1, <1>2 DEF IInv, WorkerOK, TypeOK, WorkerRow
<1>4. verdict[worker[w].run] \in {"completed"} \cup Failures
  BY <1>1, ConstantsAssumption DEF IInv, TypeOK
<1>5. /\ verdict[worker[w].run] # "failed" /\ verdict[worker[w].run] # "tieout_failed"
      /\ verdict[worker[w].run] # "ceiling_exceeded" /\ commits[worker[w].run] = 0
  BY <1>3 DEF Learnt
<1> QED BY <1>1, <1>2, <1>4, <1>5 DEF Failures

\* Two workers with transactions open on one source are one worker.
LEMMA OneHolder ==
    ASSUME IInv, NEW w \in Workers, NEW v \in Workers,
           worker[w].connected, worker[v].connected,
           SourceOf[worker[w].run] = SourceOf[worker[v].run]
    PROVE  v = w
<1>1. worker[w].run \in Runs /\ worker[v].run \in Runs
  BY DEF IInv, TypeOK
<1>2. SourceOf[worker[w].run] \in Sources
  BY <1>1, ConstantsAssumption
<1>3. lock[SourceOf[worker[w].run]] = w /\ lock[SourceOf[worker[w].run]] = v
  BY <1>2 DEF IInv, OneTransactionPerSource
<1> QED BY <1>3

LEMMA SubmitIInv == ASSUME IInv, NEW r \in Runs, Submit(r) PROVE IInv'
<1>1. TypeOK'
  BY DEF IInv, TypeOK, Submit, Unfinished
<1>2. OneTransactionPerSource' /\ EvidenceOnce'
  BY DEF IInv, OneTransactionPerSource, EvidenceOnce, Submit
<1>3. CompletedHasEvidence'
  BY DEF IInv, CompletedHasEvidence, TypeOK, Submit
<1>4. \A w \in Workers : WorkerOK(w)'
  BY DEF IInv, WorkerOK, Learnt, Submit
<1> QED BY <1>1, <1>2, <1>3, <1>4 DEF IInv

\* One worker turns to a new row.
Row(pc, run, stage, connected, failure) ==
    [pc |-> pc, run |-> run, stage |-> stage, connected |-> connected, failure |-> failure]

Turns(w, row) == worker' = [worker EXCEPT ![w] = row]

Typed(row) ==
    /\ row \in WorkerRow
    /\ row.pc # "idle" => row.run \in Runs
    /\ row.pc = "halted" => row.failure \in Failures
    /\ row.connected => row.pc = "working"

\* The actions as turns of one worker.
LEMMA Turned ==
    ASSUME TypeOK, NEW w \in Workers, NEW failure
    PROVE  /\ Pick(w) => \E r \in Pending : Turns(w, Row("picked", r, 0, FALSE, ""))
           /\ Claim(w) => Turns(w, Row("working", worker[w].run, worker[w].stage,
                                       TRUE, worker[w].failure))
           /\ Progress(w) => Turns(w, Row("working", worker[w].run, worker[w].stage + 1,
                                          worker[w].connected, worker[w].failure))
           /\ RollBack(w, failure) => Turns(w, Row("halted", worker[w].run, worker[w].stage,
                                                   FALSE, failure))
           /\ CommitUnanswered(w) => Turns(w, Row("halted", worker[w].run, worker[w].stage,
                                                  FALSE, "failed"))
           /\ LoseConnection(w) => Turns(w, Row(worker[w].pc, worker[w].run, worker[w].stage,
                                                FALSE, worker[w].failure))
<1> USE DEF Row, Turns
<1>1. worker[w] \in WorkerRow /\ worker \in [Workers -> WorkerRow]
  BY DEF TypeOK
<1>2. worker[w] = Row(worker[w].pc, worker[w].run, worker[w].stage,
                      worker[w].connected, worker[w].failure)
  BY <1>1 DEF WorkerRow
<1>3. Pick(w) => \E r \in Pending : Turns(w, Row("picked", r, 0, FALSE, ""))
  BY DEF Pick, Idle
<1>4. Claim(w) => Turns(w, Row("working", worker[w].run, worker[w].stage,
                               TRUE, worker[w].failure))
  BY <1>1, <1>2 DEF Claim
<1>5. Progress(w) => Turns(w, Row("working", worker[w].run, worker[w].stage + 1,
                                  worker[w].connected, worker[w].failure))
  BY <1>1, <1>2 DEF Progress
<1>6. RollBack(w, failure) => Turns(w, Row("halted", worker[w].run, worker[w].stage,
                                           FALSE, failure))
  BY <1>1, <1>2 DEF RollBack
<1>7. CommitUnanswered(w) => Turns(w, Row("halted", worker[w].run, worker[w].stage,
                                          FALSE, "failed"))
  BY <1>1, <1>2 DEF CommitUnanswered
<1>8. LoseConnection(w) => Turns(w, Row(worker[w].pc, worker[w].run, worker[w].stage,
                                        FALSE, worker[w].failure))
  BY <1>1, <1>2 DEF LoseConnection
<1> QED BY <1>3, <1>4, <1>5, <1>6, <1>7, <1>8

\* The workers keep their types when one of them turns to a typed row.
LEMMA TurnTyped ==
    ASSUME TypeOK, NEW w \in Workers, NEW row, Typed(row), Turns(w, row)
    PROVE  /\ worker' \in [Workers -> WorkerRow]
           /\ \A v \in Workers :
                /\ worker'[v].pc # "idle" => worker'[v].run \in Runs
                /\ worker'[v].pc = "halted" => worker'[v].failure \in Failures
                /\ worker'[v].connected => worker'[v].pc = "working"
<1>1. /\ worker' \in [Workers -> WorkerRow]
      /\ worker'[w] = row /\ \A v \in Workers \ {w} : worker'[v] = worker[v]
  BY DEF TypeOK, Typed, Turns
<1>2. ASSUME NEW v \in Workers
      PROVE  /\ worker'[v].pc # "idle" => worker'[v].run \in Runs
             /\ worker'[v].pc = "halted" => worker'[v].failure \in Failures
             /\ worker'[v].connected => worker'[v].pc = "working"
  <2>1. CASE v = w
    BY <2>1, <1>1 DEF Typed
  <2>2. CASE v # w
    BY <2>2, <1>1 DEF TypeOK
  <2> QED BY <2>1, <2>2
<1> QED BY <1>1, <1>2

\* Locks agree with transactions when a worker keeps its transaction ...
LEMMA LockKept ==
    ASSUME IInv, NEW w \in Workers, NEW row, Turns(w, row), UNCHANGED lock,
           row.connected <=> worker[w].connected,
           row.connected => row.run = worker[w].run
    PROVE  OneTransactionPerSource'
<1>1. worker'[w] = row /\ \A v \in Workers \ {w} : worker'[v] = worker[v]
  BY DEF IInv, TypeOK, Turns
<1>2. ASSUME NEW v \in Workers, NEW s \in Sources
      PROVE  lock'[s] = v <=> worker'[v].connected /\ SourceOf[worker'[v].run] = s
  <2>1. lock[s] = v <=> worker[v].connected /\ SourceOf[worker[v].run] = s
    BY DEF IInv, OneTransactionPerSource
  <2>2. CASE v = w
    BY <2>1, <2>2, <1>1
  <2>3. CASE v # w
    BY <2>1, <2>3, <1>1
  <2> QED BY <2>2, <2>3
<1> QED BY <1>2 DEF OneTransactionPerSource

\* ... and when its transaction ends and takes its lock with it.
LEMMA LockReleased ==
    ASSUME IInv, NEW w \in Workers, NEW row, Turns(w, row), Release(w), ~row.connected
    PROVE  /\ OneTransactionPerSource'
           /\ lock' \in [Sources -> Workers \cup {NoWorker}]
<1>1. worker'[w] = row /\ \A v \in Workers \ {w} : worker'[v] = worker[v]
  BY DEF IInv, TypeOK, Turns
<1>2. NoWorker \notin Workers
  BY ConstantsAssumption
<1>3. \A s \in Sources : lock'[s] = IF lock[s] = w THEN NoWorker ELSE lock[s]
  BY DEF Release
<1>4. ASSUME NEW v \in Workers, NEW s \in Sources
      PROVE  lock'[s] = v <=> worker'[v].connected /\ SourceOf[worker'[v].run] = s
  <2>1. lock[s] = v <=> worker[v].connected /\ SourceOf[worker[v].run] = s
    BY DEF IInv, OneTransactionPerSource
  <2>2. CASE v = w
    <3>1. lock'[s] # w
      BY <1>2, <1>3
    <3> QED BY <3>1, <2>2, <1>1
  <2>3. CASE v # w
    <3>1. lock'[s] = v <=> lock[s] = v
      BY <2>3, <1>2, <1>3
    <3> QED BY <3>1, <2>1, <2>3, <1>1
  <2> QED BY <2>2, <2>3
<1>5. lock' \in [Sources -> Workers \cup {NoWorker}]
  BY DEF IInv, TypeOK, Release
<1> QED BY <1>4, <1>5 DEF OneTransactionPerSource

\* Every worker knows what it should when one turns to such a row and no
\* evidence is committed.
RowOK(row) ==
    /\ row.pc = "picked" => row.stage = 0
    /\ row.pc = "working" => Learnt(row.run, row.stage, row.connected)

LEMMA TurnLearnt ==
    ASSUME IInv, NEW w \in Workers, NEW row, Turns(w, row), RowOK(row),
           UNCHANGED <<verdict, commits>>
    PROVE  \A v \in Workers : WorkerOK(v)'
<1>1. worker'[w] = row /\ \A v \in Workers \ {w} : worker'[v] = worker[v]
  BY DEF IInv, TypeOK, Turns
<1>2. ASSUME NEW v \in Workers PROVE WorkerOK(v)'
  <2>1. CASE v = w
    BY <2>1, <1>1 DEF RowOK, WorkerOK, Learnt
  <2>2. CASE v # w
    BY <2>2, <1>1 DEF IInv, WorkerOK, Learnt
  <2> QED BY <2>1, <2>2
<1> QED BY <1>2

Status == [Runs -> {"none", "completed"} \cup Unfinished \cup Failures]

\* A worker's step that commits no evidence and completes no run.
LEMMA QuietTurn ==
    ASSUME IInv, NEW w \in Workers, NEW row,
           Turns(w, row), Typed(row), RowOK(row),
           UNCHANGED <<verdict, commits, watermark>>,
           status' \in Status,
           \A r \in Runs : status'[r] = "completed" => status[r] = "completed",
           faults' \in 0 .. MaxFaults,
           \/ /\ UNCHANGED lock /\ (row.connected <=> worker[w].connected)
              /\ row.connected => row.run = worker[w].run
           \/ Release(w) /\ ~row.connected
    PROVE  IInv'
<1>1. /\ OneTransactionPerSource'
      /\ lock' \in [Sources -> Workers \cup {NoWorker}]
  <2>1. CASE /\ UNCHANGED lock /\ (row.connected <=> worker[w].connected)
             /\ row.connected => row.run = worker[w].run
    BY <2>1, LockKept DEF IInv, TypeOK
  <2>2. CASE Release(w) /\ ~row.connected
    BY <2>2, LockReleased
  <2> QED BY <2>1, <2>2
<1>2. TypeOK'
  <2>1. /\ worker' \in [Workers -> WorkerRow]
        /\ \A v \in Workers :
             /\ worker'[v].pc # "idle" => worker'[v].run \in Runs
             /\ worker'[v].pc = "halted" => worker'[v].failure \in Failures
             /\ worker'[v].connected => worker'[v].pc = "working"
    BY TurnTyped DEF IInv
  <2> QED BY <1>1, <2>1 DEF IInv, TypeOK, Status
<1>3. EvidenceOnce' /\ CompletedHasEvidence'
  BY DEF IInv, EvidenceOnce, CompletedHasEvidence
<1>4. \A v \in Workers : WorkerOK(v)'
  BY TurnLearnt
<1> QED BY <1>1, <1>2, <1>3, <1>4 DEF IInv

LEMMA IdleRow == Typed(Idle) /\ RowOK(Idle) /\ ~Idle.connected
BY StagePositions DEF Idle, Typed, RowOK, WorkerRow

LEMMA PickIInv == ASSUME IInv, NEW w \in Workers, Pick(w) PROVE IInv'
<1>1. PICK r \in Pending : Turns(w, Row("picked", r, 0, FALSE, ""))
  BY Turned DEF IInv
<1> DEFINE row == Row("picked", r, 0, FALSE, "")
<1>2. Typed(row) /\ RowOK(row) /\ ~row.connected
  BY StagePositions DEF Typed, RowOK, Row, WorkerRow, Pending
<1>3. ~worker[w].connected
  BY DEF IInv, TypeOK, Pick
<1>4. /\ UNCHANGED <<verdict, commits, watermark, status, lock, faults>>
      /\ status' \in Status /\ faults' \in 0 .. MaxFaults
  BY DEF IInv, TypeOK, Pick, Status
<1> HIDE DEF row
<1> QED BY <1>1, <1>2, <1>3, <1>4, QuietTurn DEF row

LEMMA DeclineIInv == ASSUME IInv, NEW w \in Workers, Decline(w) PROVE IInv'
<1>1. Turns(w, Idle)
  BY DEF Decline, Turns
<1>2. ~worker[w].connected
  BY DEF IInv, TypeOK, Decline
<1>3. /\ UNCHANGED <<verdict, commits, watermark, status, lock, faults>>
      /\ status' \in Status /\ faults' \in 0 .. MaxFaults
  BY DEF IInv, TypeOK, Decline, Status
<1> QED BY <1>1, <1>2, <1>3, IdleRow, QuietTurn

LEMMA RecordIInv == ASSUME IInv, NEW w \in Workers, Record(w) PROVE IInv'
<1>1. Turns(w, Idle)
  BY DEF Record, Turns
<1>2. ~worker[w].connected
  BY DEF IInv, TypeOK, Record
<1>3. worker[w].failure \in Failures
  BY DEF IInv, TypeOK, Record
<1>4. /\ UNCHANGED <<verdict, commits, watermark, lock, faults>>
      /\ status' \in Status /\ faults' \in 0 .. MaxFaults
  BY <1>3 DEF IInv, TypeOK, Record, Status
<1>5. \A r \in Runs : status'[r] = "completed" => status[r] = "completed"
  BY <1>3 DEF IInv, TypeOK, Record, Failures
<1> QED BY <1>1, <1>2, <1>4, <1>5, IdleRow, QuietTurn

\* The count of faults stays within its bound.
LEMMA FaultCounted ==
    ASSUME IInv, NEW kind, Fault(kind) PROVE faults' \in 0 .. MaxFaults
<1>1. MaxFaults \in Nat /\ faults \in Nat
  BY ConstantsAssumption DEF IInv, TypeOK
<1> QED BY <1>1 DEF Fault, IInv, TypeOK

LEMMA CrashIInv == ASSUME IInv, NEW w \in Workers, Crash(w) PROVE IInv'
<1>1. Turns(w, Idle) /\ Release(w)
  BY DEF Crash, Turns
<1>2. /\ UNCHANGED <<verdict, commits, watermark, status>>
      /\ status' \in Status
  BY DEF IInv, TypeOK, Crash, Status
<1>3. faults' \in 0 .. MaxFaults
  BY FaultCounted DEF Crash
<1> QED BY <1>1, <1>2, <1>3, IdleRow, QuietTurn

LEMMA RecordLostIInv == ASSUME IInv, NEW w \in Workers, RecordLost(w) PROVE IInv'
<1>1. Turns(w, Idle)
  BY DEF RecordLost, Turns
<1>2. ~worker[w].connected
  BY DEF IInv, TypeOK, RecordLost
<1>3. /\ UNCHANGED <<verdict, commits, watermark, status, lock>>
      /\ status' \in Status
  BY DEF IInv, TypeOK, RecordLost, Status
<1>4. faults' \in 0 .. MaxFaults
  BY FaultCounted DEF RecordLost
<1> QED BY <1>1, <1>2, <1>3, <1>4, IdleRow, QuietTurn

\* The transaction of a working worker is rolled back.
LEMMA RollBackIInv ==
    ASSUME IInv, NEW w \in Workers, NEW failure \in Failures,
           worker[w].pc = "working", RollBack(w, failure), faults' \in 0 .. MaxFaults
    PROVE  IInv'
<1> DEFINE row == Row("halted", worker[w].run, worker[w].stage, FALSE, failure)
<1>1. Turns(w, row)
  BY Turned DEF IInv
<1>2. worker[w].run \in Runs /\ worker[w].stage \in 0 .. Len(Stages)
  BY DEF IInv, TypeOK, WorkerRow
<1>3. Typed(row) /\ RowOK(row) /\ ~row.connected
  BY <1>2 DEF Typed, RowOK, Row, WorkerRow
<1>4. /\ UNCHANGED <<verdict, commits, watermark, status>>
      /\ status' \in Status /\ Release(w)
  BY DEF IInv, TypeOK, RollBack, Status
<1> HIDE DEF row
<1> QED BY <1>1, <1>3, <1>4, QuietTurn

LEMMA HaltIInv == ASSUME IInv, NEW w \in Workers, Halt(w) PROVE IInv'
<1>1. StageFailure(w) \in Failures
  BY FailureHasCode DEF Halt
<1>2. faults' \in 0 .. MaxFaults
  BY DEF IInv, TypeOK, Halt
<1> QED BY <1>1, <1>2, RollBackIInv DEF Halt

LEMMA FailIInv == ASSUME IInv, NEW w \in Workers, Fail(w) PROVE IInv'
<1>1. faults' \in 0 .. MaxFaults
  BY FaultCounted DEF Fail
<1> QED BY <1>1, RollBackIInv DEF Fail, Failures

LEMMA LoseConnectionIInv ==
    ASSUME IInv, NEW w \in Workers, LoseConnection(w) PROVE IInv'
<1> DEFINE row == Row(worker[w].pc, worker[w].run, worker[w].stage, FALSE, worker[w].failure)
<1>1. Turns(w, row)
  BY Turned DEF IInv
<1>2. /\ worker[w] \in WorkerRow /\ worker[w].pc = "working" /\ worker[w].run \in Runs
      /\ Learnt(worker[w].run, worker[w].stage, worker[w].connected)
  BY DEF IInv, TypeOK, LoseConnection, WorkerOK
<1>3. Learnt(worker[w].run, worker[w].stage, FALSE)
  BY <1>2 DEF Learnt
<1>4. Typed(row) /\ RowOK(row) /\ ~row.connected
  BY <1>2, <1>3 DEF Typed, RowOK, Row, WorkerRow
<1>5. /\ UNCHANGED <<verdict, commits, watermark, status>>
      /\ status' \in Status /\ Release(w)
  BY DEF IInv, TypeOK, LoseConnection, Status
<1>6. faults' \in 0 .. MaxFaults
  BY FaultCounted DEF LoseConnection
<1> HIDE DEF row
<1> QED BY <1>1, <1>4, <1>5, <1>6, QuietTurn

\* A stage that does not fail adds what it tells to what was learnt before.
LEMMA LearntMore ==
    ASSUME NEW r, NEW stage \in 0 .. 6, NEW connected,
           Learnt(r, stage, connected), commits[r] \in Nat,
           stage = 0 => verdict[r] # "failed",
           stage = 2 => verdict[r] # "tieout_failed",
           stage = 3 => ~(commits[r] > 0),
           stage = 6 => verdict[r] # "ceiling_exceeded"
    PROVE  Learnt(r, stage + 1, connected)
<1>1. stage + 1 >= 1 => verdict[r] # "failed"
  BY DEF Learnt
<1>2. stage + 1 >= 3 => verdict[r] # "tieout_failed"
  BY DEF Learnt
<1>3. stage + 1 >= 7 => verdict[r] # "ceiling_exceeded"
  BY DEF Learnt
<1>4. ASSUME connected = TRUE, stage + 1 >= 4 PROVE commits[r] = 0
  <2>1. CASE stage = 3
    BY <2>1
  <2>2. CASE stage # 3
    <3>1. stage >= 4
      BY <1>4, <2>2
    <3> QED BY <3>1, <1>4 DEF Learnt
  <2> QED BY <2>1, <2>2
<1> QED BY <1>1, <1>2, <1>3, <1>4 DEF Learnt

\* A worker that announces a stage has learnt what the stage before told.
LEMMA ProgressIInv == ASSUME IInv, NEW w \in Workers, Progress(w) PROVE IInv'
<1> DEFINE row == Row("working", worker[w].run, worker[w].stage + 1,
                      worker[w].connected, worker[w].failure)
<1>1. Turns(w, row)
  BY Turned DEF IInv
<1>2. /\ worker[w] \in WorkerRow /\ worker[w].pc = "working" /\ StageFailure(w) = ""
      /\ worker[w].run \in Runs /\ commits[worker[w].run] \in Nat
  BY DEF IInv, TypeOK, Progress
<1>3. worker[w].stage \in 0 .. 6
  <2>1. worker[w].stage \in 0 .. 7 /\ worker[w].stage < 7
    BY <1>2, StagePositions DEF Progress, WorkerRow
  <2> QED BY <2>1
<1>4. Learnt(worker[w].run, worker[w].stage + 1, worker[w].connected)
  <2>1. Learnt(worker[w].run, worker[w].stage, worker[w].connected)
    BY <1>2 DEF IInv, WorkerOK
  <2> QED BY <2>1, <1>2, <1>3, StagePassed, LearntMore
<1>5. Typed(row) /\ RowOK(row)
  <2>1. worker[w].stage + 1 \in 0 .. Len(Stages)
    BY <1>3, StagePositions
  <2>2. row \in WorkerRow
    BY <1>2, <2>1 DEF Row, WorkerRow
  <2>3. row.pc = "working" /\ row.run = worker[w].run
    BY DEF Row
  <2>4. RowOK(row)
    BY <1>4 DEF RowOK, Row
  <2> QED BY <1>2, <2>2, <2>3, <2>4 DEF Typed
<1>6. (row.connected <=> worker[w].connected) /\ row.run = worker[w].run
  BY DEF Row
<1>7. /\ UNCHANGED <<verdict, commits, watermark, lock, faults>>
      /\ status' \in Status /\ faults' \in 0 .. MaxFaults
  BY DEF IInv, TypeOK, Progress, Status, Unfinished
<1>8. \A r \in Runs : status'[r] = "completed" => status[r] = "completed"
  BY DEF IInv, TypeOK, Progress
<1> HIDE DEF row
<1> QED BY <1>1, <1>5, <1>6, <1>7, <1>8, QuietTurn

\* The worker that claims a run is the only one with a transaction on its source.
LEMMA ClaimIInv == ASSUME IInv, NEW w \in Workers, Claim(w) PROVE IInv'
<1> DEFINE row == Row("working", worker[w].run, worker[w].stage, TRUE, worker[w].failure)
           source == SourceOf[worker[w].run]
<1>1. Turns(w, row)
  BY Turned DEF IInv
<1>2. /\ worker[w] \in WorkerRow /\ worker[w].pc = "picked" /\ worker[w].run \in Runs
      /\ worker[w].stage = 0 /\ ~worker[w].connected
  BY DEF IInv, TypeOK, Claim, WorkerOK
<1>3. Typed(row)
  BY <1>2, StagePositions DEF Typed, Row, WorkerRow
<1>4. RowOK(row)
  BY <1>2 DEF RowOK, Row, Learnt
<1>5. row.connected /\ row.run = worker[w].run
  BY DEF Row
<1>6. source \in Sources /\ NoWorker \notin Workers
  BY <1>2, ConstantsAssumption
<1>7. /\ lock[source] = NoWorker /\ lock'[source] = w
      /\ \A s \in Sources \ {source} : lock'[s] = lock[s]
      /\ lock' \in [Sources -> Workers \cup {NoWorker}]
  BY <1>6 DEF IInv, TypeOK, Claim, Claimable
<1>8. UNCHANGED <<status, verdict, commits, watermark, faults>>
  BY DEF Claim
<1> HIDE DEF row, source
<1>9. worker'[w] = row /\ \A v \in Workers \ {w} : worker'[v] = worker[v]
  BY <1>1 DEF IInv, TypeOK, Turns
<1>10. ASSUME NEW v \in Workers, NEW s \in Sources
       PROVE  lock'[s] = v <=> worker'[v].connected /\ SourceOf[worker'[v].run] = s
  <2>1. lock[s] = v <=> worker[v].connected /\ SourceOf[worker[v].run] = s
    BY DEF IInv, OneTransactionPerSource
  <2>2. CASE v = w
    <3>1. lock'[s] = w <=> s = source
      <4>1. lock[s] # w
        BY <2>1, <2>2, <1>2
      <4> QED BY <4>1, <1>7
    <3>2. worker'[w].connected /\ SourceOf[worker'[w].run] = source
      BY <1>5, <1>9 DEF source
    <3> QED BY <3>1, <3>2, <2>2
  <2>3. CASE v # w
    <3>1. lock'[s] = v <=> lock[s] = v
      BY <2>3, <1>6, <1>7
    <3> QED BY <3>1, <2>1, <2>3, <1>9
  <2> QED BY <2>2, <2>3
<1>11. OneTransactionPerSource'
  BY <1>10 DEF OneTransactionPerSource
<1>12. TypeOK'
  <2>1. /\ worker' \in [Workers -> WorkerRow]
        /\ \A v \in Workers :
             /\ worker'[v].pc # "idle" => worker'[v].run \in Runs
             /\ worker'[v].pc = "halted" => worker'[v].failure \in Failures
             /\ worker'[v].connected => worker'[v].pc = "working"
    BY <1>1, <1>3, TurnTyped DEF IInv
  <2> QED BY <1>7, <1>8, <2>1 DEF IInv, TypeOK
<1>13. EvidenceOnce' /\ CompletedHasEvidence'
  BY <1>8 DEF IInv, EvidenceOnce, CompletedHasEvidence
<1>14. \A v \in Workers : WorkerOK(v)'
  BY <1>1, <1>4, <1>8, TurnLearnt
<1> QED BY <1>11, <1>12, <1>13, <1>14 DEF IInv

\* The transaction of a run commits: its evidence was not there, and whoever
\* else works on the run has lost the connection that could add it again.
LEMMA Committed ==
    ASSUME IInv, NEW w \in Workers, Finishing(w), Reconciled(worker[w].run), Release(w),
           NEW row, Turns(w, row), Typed(row), row.pc # "working", RowOK(row),
           verdict' = verdict, faults' \in 0 .. MaxFaults
    PROVE  IInv'
<1> DEFINE r == worker[w].run
<1>1. /\ r \in Runs /\ worker[w].connected
      /\ verdict[r] = "completed" /\ commits[r] = 0
  BY ReadyToCommit
<1>2. ~row.connected
  BY DEF Typed
<1>3. SourceOf[r] \in Sources
  BY <1>1, ConstantsAssumption
<1>4. /\ commits' = [commits EXCEPT ![r] = @ + 1]
      /\ watermark' = [watermark EXCEPT ![SourceOf[r]] = r]
      /\ status' = [status EXCEPT ![r] = "completed"]
  BY DEF Reconciled
<1>5. /\ commits \in [Runs -> Nat] /\ watermark \in [Sources -> Runs \cup {NoRun}]
      /\ status \in Status
  BY DEF IInv, TypeOK, Status
<1>6. /\ commits' \in [Runs -> Nat] /\ watermark' \in [Sources -> Runs \cup {NoRun}]
      /\ status' \in Status
      /\ commits'[r] = 1 /\ \A other \in Runs \ {r} : commits'[other] = commits[other]
  BY <1>1, <1>3, <1>4, <1>5 DEF Status
<1>7. OneTransactionPerSource' /\ lock' \in [Sources -> Workers \cup {NoWorker}]
  BY <1>2, LockReleased
<1>8. TypeOK'
  <2>1. /\ worker' \in [Workers -> WorkerRow]
        /\ \A v \in Workers :
             /\ worker'[v].pc # "idle" => worker'[v].run \in Runs
             /\ worker'[v].pc = "halted" => worker'[v].failure \in Failures
             /\ worker'[v].connected => worker'[v].pc = "working"
    BY TurnTyped DEF IInv
  <2> QED BY <1>6, <1>7, <2>1 DEF IInv, TypeOK, Status
<1>9. EvidenceOnce'
  BY <1>1, <1>6 DEF IInv, EvidenceOnce
<1>10. CompletedHasEvidence'
  <2>1. ASSUME NEW other \in Runs, status'[other] = "completed" PROVE commits'[other] = 1
    <3>1. CASE other = r
      BY <3>1, <1>6
    <3>2. CASE other # r
      <4>1. status[other] = "completed"
        BY <2>1, <3>2, <1>4, <1>5 DEF Status
      <4> QED BY <4>1, <3>2, <1>6 DEF IInv, CompletedHasEvidence
    <3> QED BY <3>1, <3>2
  <2>2. ASSUME NEW s \in Sources, watermark'[s] # NoRun PROVE commits'[watermark'[s]] = 1
    <3>1. CASE s = SourceOf[r]
      BY <3>1, <1>4, <1>5, <1>6
    <3>2. CASE s # SourceOf[r]
      <4>1. watermark'[s] = watermark[s] /\ watermark[s] \in Runs
        BY <2>2, <3>2, <1>4, <1>5
      <4>2. commits[watermark[s]] = 1
        BY <4>1, <2>2 DEF IInv, CompletedHasEvidence
      <4> QED BY <4>1, <4>2, <1>6
    <3> QED BY <3>1, <3>2
  <2> QED BY <2>1, <2>2 DEF CompletedHasEvidence
<1> HIDE DEF r
<1>11. ASSUME NEW v \in Workers PROVE WorkerOK(v)'
  <2>1. worker'[w] = row /\ \A x \in Workers \ {w} : worker'[x] = worker[x]
    BY DEF IInv, TypeOK, Turns
  <2>2. CASE v = w
    <3>1. worker'[v] = row
      BY <2>1, <2>2
    <3> QED BY <3>1 DEF WorkerOK, RowOK
  <2>3. CASE v # w
    <3>1. worker'[v] = worker[v] /\ WorkerOK(v)
      BY <2>1, <2>3 DEF IInv
    <3>2. worker[v].connected => worker[v].run # r
      BY <1>1, <2>3, OneHolder DEF r
    <3>3. worker[v].pc = "working" => worker[v].run \in Runs
      BY DEF IInv, TypeOK
    <3>4. worker[v].pc = "working" =>
            Learnt(worker[v].run, worker[v].stage, worker[v].connected)'
      BY <3>1, <3>2, <3>3, <1>6 DEF WorkerOK, Learnt
    <3> QED BY <3>1, <3>4 DEF WorkerOK
  <2> QED BY <2>2, <2>3
<1> QED BY <1>7, <1>8, <1>9, <1>10, <1>11 DEF IInv

LEMMA CommitIInv == ASSUME IInv, NEW w \in Workers, Commit(w) PROVE IInv'
<1>1. Turns(w, Idle) /\ Idle.pc # "working"
  BY DEF Commit, Turns, Idle
<1>2. faults' \in 0 .. MaxFaults /\ verdict' = verdict
  BY DEF IInv, TypeOK, Commit
<1> QED BY <1>1, <1>2, IdleRow, Committed DEF Commit

LEMMA CommitUnansweredIInv ==
    ASSUME IInv, NEW w \in Workers, CommitUnanswered(w) PROVE IInv'
<1> DEFINE row == Row("halted", worker[w].run, worker[w].stage, FALSE, "failed")
<1>1. Turns(w, row)
  BY Turned DEF IInv
<1>2. worker[w].run \in Runs /\ worker[w].stage \in 0 .. Len(Stages)
  BY DEF IInv, TypeOK, WorkerRow, CommitUnanswered, Finishing
<1>3. Typed(row) /\ RowOK(row) /\ row.pc # "working"
  BY <1>2 DEF Typed, RowOK, Row, WorkerRow, Failures
<1>4. faults' \in 0 .. MaxFaults /\ verdict' = verdict
  BY FaultCounted DEF CommitUnanswered
<1> HIDE DEF row
<1> QED BY <1>1, <1>3, <1>4, Committed DEF CommitUnanswered

LEMMA StepIInv == IInv /\ [Next]_vars => IInv'
<1> SUFFICES ASSUME IInv, [Next]_vars PROVE IInv'
  OBVIOUS
<1>1. ASSUME NEW r \in Runs, Submit(r) PROVE IInv'
  BY <1>1, SubmitIInv
<1>2. ASSUME NEW w \in Workers, Work(w) PROVE IInv'
  BY <1>2, PickIInv, ClaimIInv, DeclineIInv, ProgressIInv, HaltIInv, CommitIInv, RecordIInv
  DEF Work
<1>3. ASSUME NEW w \in Workers, GoWrong(w) PROVE IInv'
  BY <1>3, CrashIInv, LoseConnectionIInv, FailIInv, CommitUnansweredIInv, RecordLostIInv
  DEF GoWrong
<1>4. CASE UNCHANGED vars
  BY <1>4 DEF vars, IInv, TypeOK, OneTransactionPerSource, EvidenceOnce,
              CompletedHasEvidence, WorkerOK, Learnt
<1> QED BY <1>1, <1>2, <1>3, <1>4 DEF Next

LEMMA Invariance == Spec => []IInv
<1> QED BY InitIInv, StepIInv, PTL DEF Spec

\* Every value keeps its type, and only a worker with an open transaction is
\* connected, whatever workers and faults do to the queue (ProcessNext).
THEOREM TypeCorrect == Spec => []TypeOK
<1>1. IInv => TypeOK
  BY DEF IInv
<1> QED BY <1>1, Invariance, PTL

\* The advisory lock serialises the transactions of a source: a source's lock
\* is a worker's exactly while its transaction is open on a run of the source.
THEOREM SourceSerialised == Spec => []OneTransactionPerSource
<1>1. IInv => OneTransactionPerSource
  BY DEF IInv
<1> QED BY <1>1, Invariance, PTL

\* However many workers crash, lose connections and take runs up again, the
\* evidence of a run is committed once at most, and only for a run whose input
\* passes tie-out and stays below the ceiling.
THEOREM EvidenceAtMostOnce == Spec => []EvidenceOnce
<1>1. IInv => EvidenceOnce
  BY DEF IInv
<1> QED BY <1>1, Invariance, PTL

\* A run reported as completed, or as its source's watermark, has evidence.
THEOREM CompletedBacked == Spec => []CompletedHasEvidence
<1>1. IInv => CompletedHasEvidence
  BY DEF IInv
<1> QED BY <1>1, Invariance, PTL

-----------------------------------------------------------------------------
(***************************************************************************)
(* One worker whose commits are answered.  With two, the one that has lost *)
(* its connection may record the failure of a run the other has completed. *)
(***************************************************************************)

OneWorkerAnswered == (\A w, v \in Workers : w = v) /\ "reply" \notin FaultKinds

Ended == Failures \cup {"completed"}

\* The run in hand has not ended, and evidence is never without its report.
Reported ==
    /\ \A w \in Workers : worker[w].pc # "idle" => status[worker[w].run] \in Unfinished
    /\ \A r \in Runs : commits[r] # 0 => status[r] = "completed"

LEMMA InitReported == Init => Reported
<1> SUFFICES ASSUME Init PROVE Reported
  OBVIOUS
<1>1. \A w \in Workers : worker[w].pc = "idle"
  BY DEF Init, Idle
<1>2. \A r \in Runs : commits[r] = 0
  BY DEF Init
<1> QED BY <1>1, <1>2 DEF Reported

\* What a step of the only worker does to its run and to the others.
LEMMA StepReported ==
    ASSUME OneWorkerAnswered, IInv, Reported, [Next]_vars
    PROVE  /\ Reported'
           /\ \A r \in Runs : status[r] \in Ended => status'[r] = status[r]
<1> DEFINE Goal == /\ Reported'
                   /\ \A r \in Runs : status[r] \in Ended => status'[r] = status[r]
<1> USE DEF Reported, Ended, Unfinished, Failures
<1>1. ASSUME NEW r \in Runs, Submit(r) PROVE Goal
  BY <1>1 DEF Submit, IInv, TypeOK
<1>2. ASSUME NEW w \in Workers, Work(w) \/ GoWrong(w) PROVE Goal
  <2>1. Workers = {w}
    BY DEF OneWorkerAnswered
  <2>2. /\ worker \in [Workers -> WorkerRow] /\ status \in Status /\ commits \in [Runs -> Nat]
        /\ worker[w].pc # "idle" => worker[w].run \in Runs
    BY DEF IInv, TypeOK, Status
  <2> USE DEF Status
  <2>3. ASSUME Pick(w) PROVE Goal
    BY <2>1, <2>2, <2>3 DEF Pick, Idle, Pending
  <2>4. ASSUME worker' = [worker EXCEPT ![w] = Idle], UNCHANGED <<status, commits>>
        PROVE  Goal
    BY <2>1, <2>2, <2>4 DEF Idle
  <2>5. ASSUME Claim(w) PROVE Goal
    BY <2>1, <2>2, <2>5 DEF Claim
  <2>6. ASSUME Progress(w) PROVE Goal
    <3>1. /\ worker[w].pc = "working" /\ worker'[w].pc = worker[w].pc
          /\ worker'[w].run = worker[w].run /\ worker[w].run \in Runs
          /\ status' = [status EXCEPT ![worker[w].run] = "running"] /\ commits' = commits
      <4>1. Turns(w, Row("working", worker[w].run, worker[w].stage + 1,
                         worker[w].connected, worker[w].failure))
        BY <2>6, Turned DEF IInv
      <4>2. worker'[w].pc = "working" /\ worker'[w].run = worker[w].run
        BY <2>2, <4>1 DEF Turns, Row
      <4> QED BY <2>2, <2>6, <4>2 DEF Progress
    <3>2. status[worker[w].run] \in Unfinished
      BY <3>1
    <3>3. /\ status'[worker[w].run] = "running"
          /\ \A r \in Runs \ {worker[w].run} : status'[r] = status[r]
      BY <2>2, <3>1
    <3> QED BY <2>1, <3>1, <3>2, <3>3
  <2>7. ASSUME NEW failure, worker[w].pc = "working", RollBack(w, failure) PROVE Goal
    BY <2>1, <2>2, <2>7 DEF RollBack
  <2>8. ASSUME Commit(w) PROVE Goal
    BY <2>1, <2>2, <2>8 DEF Commit, Finishing, Reconciled, Idle
  <2>9. ASSUME Record(w) PROVE Goal
    BY <2>1, <2>2, <2>9 DEF Record, Idle
  <2>10. ASSUME LoseConnection(w) PROVE Goal
    BY <2>1, <2>2, <2>10 DEF LoseConnection
  <2>11. ~CommitUnanswered(w)
    BY DEF CommitUnanswered, Fault, OneWorkerAnswered
  <2> HIDE DEF Goal
  <2>12. CASE Work(w)
    BY <2>3, <2>4, <2>5, <2>6, <2>7, <2>8, <2>9, <2>12 DEF Work, Decline, Halt
  <2>13. CASE GoWrong(w)
    BY <2>4, <2>7, <2>10, <2>11, <2>13 DEF GoWrong, Crash, Fail, RecordLost
  <2> QED BY <1>2, <2>12, <2>13
<1>3. ASSUME UNCHANGED vars PROVE Goal
  BY <1>3 DEF vars
<1> HIDE DEF Goal
<1>4. Goal
  <2>1. Next \/ UNCHANGED vars
    OBVIOUS
  <2>2. CASE Next
    BY <2>2, <1>1, <1>2 DEF Next
  <2> QED BY <2>1, <2>2, <1>3
<1> QED BY <1>4 DEF Goal

LEMMA ReportedInvariance == ASSUME OneWorkerAnswered PROVE Spec => [](IInv /\ Reported)
<1>1. IInv /\ Reported /\ [Next]_vars => (IInv /\ Reported)'
  BY StepIInv, StepReported
<1> QED BY <1>1, InitIInv, InitReported, PTL DEF Spec

\* A worker alone, whose commits are answered, reports truthfully: a run that is
\* shown as failed has committed nothing (ProcessNext and its failure record).
THEOREM HaltedTruthful == ASSUME OneWorkerAnswered PROVE Spec => []HaltedCommitsNothing
<1>1. IInv /\ Reported => HaltedCommitsNothing
  BY DEF Reported, HaltedCommitsNothing, Failures
<1> QED BY <1>1, ReportedInvariance, PTL

\* And it never takes up a run that has ended, so no report is ever replaced.
THEOREM ReportsStand == ASSUME OneWorkerAnswered PROVE Spec => EndedStaysEnded
<1>1. IInv /\ Reported /\ [Next]_vars =>
        [\A r \in Runs : status[r] \in Ended => status'[r] = status[r]]_vars
  BY StepReported
<1>2. Spec => [][\A r \in Runs : status[r] \in Ended => status'[r] = status[r]]_vars
  BY <1>1, ReportedInvariance, PTL DEF Spec
<1> QED BY <1>2 DEF EndedStaysEnded, Ended

=============================================================================
