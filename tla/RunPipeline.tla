----------------------------- MODULE RunPipeline -----------------------------
(***************************************************************************)
(* The worker's run queue: ProcessNext and the loop around it.             *)
(*                                                                         *)
(* A worker claims the oldest unfinished run under an advisory lock on the *)
(* run's source and does all of it in one transaction, which the lock      *)
(* belongs to.  Two kinds of statements are outside of that transaction,   *)
(* on connections of their own: the announcement of each stage (progress), *)
(* and, once the transaction is rolled back and its lock gone, the record  *)
(* of a failure.  Neither looks at the status it overwrites.               *)
(*                                                                         *)
(* What a run finds is a function of its frozen input, so its verdict is   *)
(* chosen when it is submitted.  What the transaction writes is one fact:  *)
(* the run's evidence is committed.  (Module Review models the findings.)  *)
(***************************************************************************)
EXTENDS Naturals, Sequences, FiniteSets

CONSTANTS
    Runs,         \* runs, numbered in the order of (created_at, id)
    Sources,      \* sources
    SourceOf,     \* the source of each run
    Workers,      \* worker processes
    Verdicts,     \* what a run can find out about its input
    FaultKinds,   \* what can go wrong
    MaxFaults,    \* bound on how often it does
    NoRun, NoWorker

Stages == << "extract", "tie_out", "snapshot", "transform", "analyse", "score", "reconcile" >>
At(stage) == CHOOSE i \in DOMAIN Stages : Stages[i] = stage

Failures == {"failed", "tieout_failed", "ceiling_exceeded"}

\* Slip: failed runs are retried.
Unfinished_RetriesFailed == {"queued", "running", "failed"}

Unfinished == {"queued", "running"}

ASSUME ConstantsAssumption ==
    /\ Runs \subseteq Nat /\ NoRun \notin Runs
    /\ SourceOf \in [Runs -> Sources]
    /\ NoWorker \notin Workers
    /\ Verdicts \subseteq {"completed"} \cup Failures
    /\ MaxFaults \in Nat

VARIABLES
    status,      \* audit_run.status, or "none" before the run is submitted
    verdict,     \* the outcome that the run's input determines
    commits,     \* how many transactions committed the run's evidence
    watermark,   \* source.watermark: the source's last reconciled run
    lock,        \* the advisory lock of each source
    worker,      \* what each worker is doing
    faults       \* faults so far

vars == <<status, verdict, commits, watermark, lock, worker, faults>>

Idle == [pc |-> "idle", run |-> NoRun, stage |-> 0, connected |-> FALSE, failure |-> ""]

Init ==
    /\ status = [r \in Runs |-> "none"]
    /\ verdict \in [Runs -> Verdicts]
    /\ commits = [r \in Runs |-> 0]
    /\ watermark = [s \in Sources |-> NoRun]
    /\ lock = [s \in Sources |-> NoWorker]
    /\ worker = [w \in Workers |-> Idle]
    /\ faults = 0

\* Faults happen, but not for ever.
Fault(kind) ==
    /\ kind \in FaultKinds
    /\ faults < MaxFaults
    /\ faults' = faults + 1

\* The lock is the transaction's: it is gone when the transaction is.
Release(w) == lock' = [s \in Sources |-> IF lock[s] = w THEN NoWorker ELSE lock[s]]

-----------------------------------------------------------------------------

\* A run is queued (submit).  Its created_at is the time its transaction
\* began, so runs need not become visible in their order.
Submit(r) ==
    /\ status[r] = "none"
    /\ status' = [status EXCEPT ![r] = "queued"]
    /\ UNCHANGED <<verdict, commits, watermark, lock, worker, faults>>

\* Slip: interrupted runs are not taken up again.
Pending_QueuedOnly == {r \in Runs : status[r] = "queued"}

Pending == {r \in Runs : status[r] \in Unfinished}

\* The oldest unfinished run.
Pick(w) ==
    /\ worker[w].pc = "idle"
    /\ \E r \in Pending :
         /\ \A other \in Pending : r <= other
         /\ worker' = [worker EXCEPT ![w] = [Idle EXCEPT !.pc = "picked", !.run = r]]
    /\ UNCHANGED <<status, verdict, commits, watermark, lock, faults>>

\* Slip: the worker does not wait for the lock.
Claimable_NoLock(w) == status[worker[w].run] \in Unfinished

\* The lock is free and, under it, the run is still unfinished.
Claimable(w) ==
    /\ lock[SourceOf[worker[w].run]] = NoWorker
    /\ status[worker[w].run] \in Unfinished

Claim(w) ==
    /\ worker[w].pc = "picked"
    /\ Claimable(w)
    /\ lock' = [lock EXCEPT ![SourceOf[worker[w].run]] = w]
    /\ worker' = [worker EXCEPT ![w].pc = "working", ![w].connected = TRUE]
    /\ UNCHANGED <<status, verdict, commits, watermark, faults>>

\* Another worker has the source, or has finished the run: look again later.
Decline(w) ==
    /\ worker[w].pc = "picked"
    /\ ~Claimable(w)
    /\ worker' = [worker EXCEPT ![w] = Idle]
    /\ UNCHANGED <<status, verdict, commits, watermark, lock, faults>>

\* Slip: a snapshot may be inserted for a run that has one.
StageFailure_NoKey(w) ==
    LET r == worker[w].run
        stage == worker[w].stage
    IN  CASE stage = 0 /\ verdict[r] = "failed" -> "failed"
          [] stage = At("tie_out") /\ verdict[r] = "tieout_failed" -> "tieout_failed"
          [] stage >= At("snapshot") /\ ~worker[w].connected -> "failed"
          [] stage = At("score") /\ verdict[r] = "ceiling_exceeded" -> "ceiling_exceeded"
          [] OTHER -> ""

\* The error of the work that follows the stage last announced, or "": bad
\* parameters, a tie-out difference, a statement on a dead connection, a
\* second snapshot of the run, the ceiling.
StageFailure(w) ==
    LET r == worker[w].run
        stage == worker[w].stage
    IN  CASE stage = 0 /\ verdict[r] = "failed" -> "failed"
          [] stage = At("tie_out") /\ verdict[r] = "tieout_failed" -> "tieout_failed"
          [] stage >= At("snapshot") /\ ~worker[w].connected -> "failed"
          [] stage = At("snapshot") /\ commits[r] > 0 -> "failed"
          [] stage = At("score") /\ verdict[r] = "ceiling_exceeded" -> "ceiling_exceeded"
          [] OTHER -> ""

\* Slip: the last announcement completes the run.
Progress_Completes(w) ==
    /\ worker[w].pc = "working"
    /\ worker[w].stage < Len(Stages)
    /\ StageFailure(w) = ""
    /\ status' = [status EXCEPT ![worker[w].run] =
                    IF worker[w].stage + 1 = Len(Stages) THEN "completed" ELSE "running"]
    /\ worker' = [worker EXCEPT ![w].stage = @ + 1]
    /\ UNCHANGED <<verdict, commits, watermark, lock, faults>>

\* progress: announce the next stage, in a transaction of its own.
Progress(w) ==
    /\ worker[w].pc = "working"
    /\ worker[w].stage < Len(Stages)
    /\ StageFailure(w) = ""
    /\ status' = [status EXCEPT ![worker[w].run] = "running"]
    /\ worker' = [worker EXCEPT ![w].stage = @ + 1]
    /\ UNCHANGED <<verdict, commits, watermark, lock, faults>>

\* The transaction is rolled back and its lock released.
RollBack(w, failure) ==
    /\ Release(w)
    /\ worker' = [worker EXCEPT ![w].pc = "halted", ![w].failure = failure, ![w].connected = FALSE]
    /\ UNCHANGED <<status, verdict, commits, watermark>>

Halt(w) ==
    /\ worker[w].pc = "working"
    /\ StageFailure(w) # ""
    /\ RollBack(w, StageFailure(w))
    /\ UNCHANGED faults

\* Evidence, watermark and status become visible together.
Reconciled(r) ==
    /\ commits' = [commits EXCEPT ![r] = @ + 1]
    /\ watermark' = [watermark EXCEPT ![SourceOf[r]] = r]
    /\ status' = [status EXCEPT ![r] = "completed"]

Finishing(w) ==
    /\ worker[w].pc = "working"
    /\ worker[w].stage = Len(Stages)
    /\ StageFailure(w) = ""

Commit(w) ==
    /\ Finishing(w)
    /\ Reconciled(worker[w].run)
    /\ Release(w)
    /\ worker' = [worker EXCEPT ![w] = Idle]
    /\ UNCHANGED <<verdict, faults>>

\* The failure is recorded, whatever the run's status is by now.
Record(w) ==
    /\ worker[w].pc = "halted"
    /\ status' = [status EXCEPT ![worker[w].run] = worker[w].failure]
    /\ worker' = [worker EXCEPT ![w] = Idle]
    /\ UNCHANGED <<verdict, commits, watermark, lock, faults>>

-----------------------------------------------------------------------------
(***************************************************************************)
(* Faults.                                                                 *)
(***************************************************************************)

\* The worker stops anywhere, or is asked to, and is started again.
Crash(w) ==
    /\ Fault("crash")
    /\ worker[w].pc # "idle"
    /\ worker' = [worker EXCEPT ![w] = Idle]
    /\ Release(w)
    /\ UNCHANGED <<status, verdict, commits, watermark>>

\* The connection of the transaction breaks: the server rolls it back at once,
\* the worker notices at its next statement.
LoseConnection(w) ==
    /\ Fault("connection")
    /\ worker[w].pc = "working" /\ worker[w].connected
    /\ worker' = [worker EXCEPT ![w].connected = FALSE]
    /\ Release(w)
    /\ UNCHANGED <<status, verdict, commits, watermark>>

\* Slip: an error without a code of its own is recorded without one.
Fail_NoCode(w) ==
    /\ Fault("error")
    /\ worker[w].pc = "working"
    /\ RollBack(w, "")

\* Any other error of a statement or of the snapshot volume.
Fail(w) ==
    /\ Fault("error")
    /\ worker[w].pc = "working"
    /\ RollBack(w, "failed")

\* The transaction commits, but the worker is not told.
CommitUnanswered(w) ==
    /\ Fault("reply")
    /\ Finishing(w)
    /\ Reconciled(worker[w].run)
    /\ Release(w)
    /\ worker' = [worker EXCEPT ![w].pc = "halted", ![w].failure = "failed", ![w].connected = FALSE]
    /\ UNCHANGED verdict

\* The failure cannot be recorded; the run stays as it is.
RecordLost(w) ==
    /\ Fault("record")
    /\ worker[w].pc = "halted"
    /\ worker' = [worker EXCEPT ![w] = Idle]
    /\ UNCHANGED <<status, verdict, commits, watermark, lock>>

-----------------------------------------------------------------------------

Work(w) ==
    \/ Pick(w)
    \/ Claim(w)
    \/ Decline(w)
    \/ Progress(w)
    \/ Halt(w)
    \/ Commit(w)
    \/ Record(w)

GoWrong(w) ==
    \/ Crash(w)
    \/ LoseConnection(w)
    \/ Fail(w)
    \/ CommitUnanswered(w)
    \/ RecordLost(w)

Next ==
    \/ \E r \in Runs : Submit(r)
    \/ \E w \in Workers : Work(w) \/ GoWrong(w)

Spec == Init /\ [][Next]_vars

\* The loop of cmd/audit keeps every worker going, and the supervisor starts a
\* stopped one again.
FairSpec == Spec /\ \A w \in Workers : WF_vars(Work(w))

-----------------------------------------------------------------------------
(***************************************************************************)
(* Properties.                                                             *)
(***************************************************************************)

WorkerRow == [pc : {"idle", "picked", "working", "halted"}, run : Runs \cup {NoRun},
              stage : 0 .. Len(Stages), connected : BOOLEAN, failure : Failures \cup {""}]

\* Every value has its type, and the worker that has a source's lock is the one
\* whose transaction is open on a run of that source.
TypeOK ==
    /\ status \in [Runs -> {"none", "completed"} \cup Unfinished \cup Failures]
    /\ verdict \in [Runs -> Verdicts]
    /\ commits \in [Runs -> Nat]
    /\ watermark \in [Sources -> Runs \cup {NoRun}]
    /\ worker \in [Workers -> WorkerRow]
    /\ faults \in 0 .. MaxFaults
    /\ lock \in [Sources -> Workers \cup {NoWorker}]
    /\ \A w \in Workers :
         /\ worker[w].pc # "idle" => worker[w].run \in Runs
         /\ worker[w].pc = "halted" => worker[w].failure \in Failures
         /\ worker[w].connected => worker[w].pc = "working"

\* At most one worker has a transaction open on a source, and it has the lock.
OneTransactionPerSource ==
    \A w \in Workers, s \in Sources :
        lock[s] = w <=> worker[w].connected /\ SourceOf[worker[w].run] = s

\* A run's evidence is committed once at most, however often the run is
\* reclaimed, and only if its input deserves it.
EvidenceOnce ==
    \A r \in Runs : commits[r] <= 1 /\ (commits[r] = 1 => verdict[r] = "completed")

\* A run reported as completed has its evidence, and so has the run that a
\* source's freshness is measured from.
CompletedHasEvidence ==
    /\ \A r \in Runs : status[r] = "completed" => commits[r] = 1
    /\ \A s \in Sources : watermark[s] # NoRun => commits[watermark[s]] = 1

\* docs/runbooks/run-failed.md: "No findings or source-resolution changes are
\* committed from a halted run."
HaltedCommitsNothing ==
    \A r \in Runs : status[r] \in Failures => commits[r] = 0

\* A run that ended stays as it ended.
EndedStaysEnded ==
    [][\A r \in Runs : status[r] \in Failures \cup {"completed"}
                          => status'[r] = status[r]]_vars

\* Every submitted run ends: a run that was interrupted is reclaimed, and no
\* run keeps the ones after it waiting for ever.  (With a second worker this is
\* not so: between the two of them a run that fails can be reclaimed by the one
\* before the other has recorded its failure, and so on for ever.)
EveryRunEnds ==
    \A r \in Runs : status[r] = "queued" ~> [](status[r] \in Failures \cup {"completed"})

=============================================================================
