------------------------------ MODULE ReviewSteps ------------------------------
(***************************************************************************)
(* The action properties of Review, for every value of the constants.      *)
(*                                                                         *)
(* Moves tells all that a step can do to the rows of one finding; that     *)
(* every step does no more is one theorem of cases over the actions, and   *)
(* each property follows from Moves alone.                                 *)
(***************************************************************************)
EXTENDS ReviewLife

-----------------------------------------------------------------------------
(***************************************************************************)
(* What a step can do to the rows of one finding.                          *)
(***************************************************************************)

RunEnds == run.open /\ ~run'.open

Untouched(k) == finding'[k] = finding[k] /\ cases'[k] = cases[k]

\* The run flagged the finding: its staged rows are committed.
Observed(k) ==
    /\ RunEnds /\ Locked(k) /\ StagedFrom(k)
    /\ finding'[k] = staged[k].finding
    /\ cases'[k] = staged[k].case
    /\ trail'[k] = staged[k].trail

\* The run missed the finding.
Missed(k) ==
    /\ RunEnds /\ finding[k].state \in Active
    /\ finding'[k] = NewRow(finding[k], "resolved_in_source", finding[k].hash, finding[k].expiry)
    /\ cases'[k] = cases[k]
    /\ trail'[k] = Event(System, finding[k].state, "resolved_in_source")

\* A workflow is published with the finding in it.
Published(k) ==
    /\ finding'[k] = finding[k]
    /\ finding[k].state # ""
    /\ cases[k] = NoCase /\ \E r : cases'[k] = NewCase(r)

\* A person decides: without a case, by its last step, or by reopening it.
Decided(k, u, to, expiry) ==
    /\ ~RunEnds /\ finding[k].state # ""
    /\ finding'[k] = NewRow(finding[k], to, finding[k].hash, expiry)
    /\ trail'[k] = Event(u, finding[k].state, to)

Disposed(k) ==
    /\ cases[k].status = "none" /\ cases'[k] = cases[k]
    /\ \E u \in Users : \E to, expiry :
         Decided(k, u, to, expiry) /\ Transition(finding[k].state, to, expiry, now)

Stepped(k, from, to) ==
    /\ cases[k].status = from /\ cases'[k].status = to
    /\ cases'[k].revision = cases[k].revision + 1

Closed(k) ==
    /\ Stepped(k, "active", "closed")
    /\ \E u \in Users, resolution \in Settled : Decided(k, u, resolution, NoExpiry)

Reopened(k) ==
    /\ Stepped(k, "closed", "active")
    /\ \E u \in Users : /\ HasRole(u, Manager)
                        /\ Decided(k, u, "in_review", finding[k].expiry)

Worked(k) == Stepped(k, "active", "active") /\ finding'[k] = finding[k]

Moves(k) ==
    \/ Untouched(k) \/ Observed(k) \/ Missed(k) \/ Published(k)
    \/ Disposed(k) \/ Worked(k) \/ Closed(k) \/ Reopened(k)

-----------------------------------------------------------------------------

LEMMA UntouchedRows ==
  ASSUME UNCHANGED <<finding, cases>>, NEW k \in Keys
  PROVE  Moves(k)
  BY DEF Moves, Untouched

LEMMA CompleteRunMoves ==
  ASSUME IInv, CompleteRun, NEW k \in Keys
  PROVE  Moves(k)
  <1>0. RunEnds
    BY DEF CompleteRun, RunEnds, NoRun
  <1>1. CASE Locked(k)
    <2>1. Observed(k)
      BY <1>0, <1>1 DEF CompleteRun, Observed, IInv, StagedOnCommitted, Locked
    <2> QED
      BY <2>1 DEF Moves
  <1>2. CASE ~Locked(k) /\ k \in Absent
    <2>1. finding[k].state \in Active /\ ReconcileAbsent(finding[k].state) = "resolved_in_source"
      BY <1>2 DEF Absent, ReconcileAbsent
    <2>2. Missed(k)
      BY <1>0, <1>2, <2>1 DEF CompleteRun, Missed
    <2> QED
      BY <2>2 DEF Moves
  <1>3. CASE ~Locked(k) /\ k \notin Absent
    BY <1>3 DEF CompleteRun, Moves, Untouched
  <1> QED
    BY <1>1, <1>2, <1>3

LEMMA CommitWorkflowMoves ==
  ASSUME FullInv, CommitWorkflow, NEW k \in Keys
  PROVE  Moves(k)
  <1>1. CASE k \in publication.keys /\ ~Managed(k)
    <2>1. cases[k] = NoCase
      BY <1>1 DEF FullInv, IInv, TypeOK, CasesTyped, Managed
    <2>2. finding[k].state # ""
      BY <1>1 DEF FullInv, PublicationUndecided, CommitWorkflow, Active
    <2>3. cases'[k] = NewCase(Len(workflows) + 1) /\ finding'[k] = finding[k]
      BY <1>1 DEF CommitWorkflow
    <2> QED
      BY <2>1, <2>2, <2>3 DEF Moves, Published
  <1>2. CASE ~(k \in publication.keys /\ ~Managed(k))
    BY <1>2 DEF CommitWorkflow, Moves, Untouched
  <1> QED
    BY <1>1, <1>2

\* SetState on one finding, as Decided.
LEMMA SetStateDecides ==
  ASSUME IInv, NEW k \in Keys, NEW u \in Users, NEW to, NEW expiry,
         SetState(k, u, to, expiry), Free(k), run' = run
  PROVE  /\ Decided(k, u, to, expiry)
         /\ \A j \in Keys \ {k} : finding'[j] = finding[j]
  <1>1. /\ finding' = [finding EXCEPT ![k] = NewRow(finding[k], to, finding[k].hash, expiry)]
        /\ trail' = [trail EXCEPT ![k] = Event(u, finding[k].state, to)]
    BY DEF SetState
  <1>2. /\ finding'[k] = NewRow(finding[k], to, finding[k].hash, expiry)
        /\ trail'[k] = Event(u, finding[k].state, to)
        /\ \A j \in Keys \ {k} : finding'[j] = finding[j]
    BY <1>1, RowsOK DEF Tables
  <1>3. ~RunEnds /\ finding[k].state # ""
    BY DEF RunEnds, Free
  <1> QED
    BY <1>2, <1>3 DEF Decided

\* NewStep on one case, as Stepped.
LEMMA NewStepSteps ==
  ASSUME IInv, NEW k \in Keys, NEW status, NEW step, NEW assignee, NEW last,
         cases' = [cases EXCEPT ![k] = NewStep(cases[k], status, step, assignee, last)]
  PROVE  /\ Stepped(k, cases[k].status, status)
         /\ \A j \in Keys \ {k} : cases'[j] = cases[j]
  <1>1. /\ cases'[k] = NewStep(cases[k], status, step, assignee, last)
        /\ \A j \in Keys \ {k} : cases'[j] = cases[j]
    BY RowsOK DEF Tables
  <1> QED
    BY <1>1 DEF Stepped, NewStep

LEMMA RequestMoves ==
  ASSUME IInv, NEW k \in Keys, NEW u \in Users, Request(k, u), NEW j \in Keys
  PROVE  Moves(j)
  <1>1. CASE Comment(k, u)
    BY <1>1, UntouchedRows DEF Comment
  <1>2. ASSUME NEW to, NEW expiry, NEW revision, Dispose(k, u, to, expiry, revision)
        PROVE  Moves(j)
    <2>1. /\ SetState(k, u, to, expiry) /\ Free(k) /\ run' = run /\ cases' = cases
          /\ cases[k].status = "none" /\ Transition(finding[k].state, to, expiry, now)
      BY <1>2 DEF Dispose, Disposable, Managed
    <2>2. /\ Decided(k, u, to, expiry) /\ \A i \in Keys \ {k} : finding'[i] = finding[i]
      BY <2>1, SetStateDecides
    <2>3. CASE j = k
      BY <2>1, <2>2, <2>3 DEF Moves, Disposed
    <2>4. CASE j # k
      BY <2>1, <2>2, <2>4 DEF Moves, Untouched
    <2> QED
      BY <2>3, <2>4
  <1>3. ASSUME NEW revision, ReopenCase(k, u, revision) PROVE Moves(j)
    <2>1. /\ cases' = [cases EXCEPT ![k] = NewStep(cases[k], "active", 0, NoUser, NoUser)]
          /\ SetState(k, u, "in_review", finding[k].expiry) /\ Free(k) /\ run' = run
          /\ cases[k].status = "closed" /\ HasRole(u, Manager)
      BY <1>3 DEF ReopenCase, MayAct, MayReopen, Restarted
    <2>2. Stepped(k, "closed", "active") /\ \A i \in Keys \ {k} : cases'[i] = cases[i]
      BY <2>1, NewStepSteps
    <2>3. /\ Decided(k, u, "in_review", finding[k].expiry)
          /\ \A i \in Keys \ {k} : finding'[i] = finding[i]
      BY <2>1, SetStateDecides
    <2>4. CASE j = k
      BY <2>1, <2>2, <2>3, <2>4 DEF Moves, Reopened
    <2>5. CASE j # k
      BY <2>2, <2>3, <2>5 DEF Moves, Untouched
    <2> QED
      BY <2>4, <2>5
  <1>4. ASSUME NEW resolution \in Settled, NEW revision, CloseCase(k, u, resolution, revision)
        PROVE  Moves(j)
    <2>1. /\ cases' = [cases EXCEPT ![k] = NewStep(cases[k], "closed", cases[k].step, NoUser, u)]
          /\ SetState(k, u, resolution, NoExpiry) /\ Free(k) /\ run' = run
          /\ cases[k].status = "active"
      BY <1>4 DEF CloseCase, MayAct, MayAdvance, MayWork
    <2>2. Stepped(k, "active", "closed") /\ \A i \in Keys \ {k} : cases'[i] = cases[i]
      BY <2>1, NewStepSteps
    <2>3. /\ Decided(k, u, resolution, NoExpiry)
          /\ \A i \in Keys \ {k} : finding'[i] = finding[i]
      BY <2>1, SetStateDecides
    <2>4. CASE j = k
      BY <2>2, <2>3, <2>4 DEF Moves, Closed
    <2>5. CASE j # k
      BY <2>2, <2>3, <2>5 DEF Moves, Untouched
    <2> QED
      BY <2>4, <2>5
  <1>5. ASSUME NEW step, NEW assignee, NEW last,
               cases' = [cases EXCEPT ![k] = NewStep(cases[k], "active", step, assignee, last)],
               cases[k].status = "active", finding' = finding
        PROVE  Moves(j)
    <2>1. Stepped(k, "active", "active") /\ \A i \in Keys \ {k} : cases'[i] = cases[i]
      BY <1>5, NewStepSteps
    <2> QED
      BY <2>1, <1>5 DEF Moves, Worked, Untouched
  <1>6. ASSUME NEW assignee, NEW revision, AssignCase(k, u, assignee, revision) PROVE Moves(j)
    BY <1>5, <1>6 DEF AssignCase
  <1>7. ASSUME NEW revision, ReturnCase(k, u, revision) PROVE Moves(j)
    BY <1>5, <1>7 DEF ReturnCase, MayWork
  <1>8. ASSUME NEW revision, AdvanceCase(k, u, revision) PROVE Moves(j)
    BY <1>5, <1>8 DEF AdvanceCase, MayAdvance, MayWork
  <1> QED
    BY <1>1, <1>2, <1>3, <1>4, <1>6, <1>7, <1>8 DEF Request, ActOnCase

\* Every step moves every finding in one of these ways.
LEMMA StepMoves ==
  ASSUME FullInv, [Next]_vars, NEW k \in Keys
  PROVE  Moves(k)
  <1> USE DEF rows
  <1>1. IInv
    BY DEF FullInv
  <1>2. ASSUME NEW scope, NEW flagged, BeginReconcile(scope, flagged) PROVE Moves(k)
    BY <1>2, UntouchedRows DEF BeginReconcile
  <1>3. ASSUME NEW j, Observe(j) PROVE Moves(k)
    BY <1>3, UntouchedRows DEF Observe
  <1>4. ASSUME NEW draft, NEW revision, SaveWorkflow(draft, revision) PROVE Moves(k)
    BY <1>4, UntouchedRows DEF SaveWorkflow
  <1>5. ASSUME AbortRun \/ AbortWorkflow \/ Tick \/ UNCHANGED vars PROVE Moves(k)
    BY <1>5, UntouchedRows DEF AbortRun, AbortWorkflow, Tick, vars
  <1>6. ASSUME NEW j \in Keys, NEW u \in Users, Request(j, u) PROVE Moves(k)
    BY <1>1, <1>6, RequestMoves
  <1>7. ASSUME CompleteRun PROVE Moves(k)
    BY <1>1, <1>7, CompleteRunMoves
  <1>8. ASSUME CommitWorkflow PROVE Moves(k)
    BY <1>8, CommitWorkflowMoves
  <1>9. Next \/ UNCHANGED vars
    OBVIOUS
  <1> QED
    BY <1>2, <1>3, <1>4, <1>5, <1>6, <1>7, <1>8, <1>9 DEF Next

-----------------------------------------------------------------------------
(***************************************************************************)
(* What the properties need to know of the rows besides the moves.         *)
(***************************************************************************)

\* Only findings that were seen have a case.
CaseHasFinding == \A k \in Keys : Managed(k) => finding[k].state # ""

\* The state a run has staged is the one Reconcile gives for the committed row.
ReconciledAs(k) ==
    LET old == finding[k]
        hash == run.flagged[k]
    IN  staged[k].finding.state
            = ReconcilePresent(old.state, hash # old.hash, old.expiry, run.at)

StagedReconciled == \A k \in DOMAIN staged : ReconciledAs(k)

StepsInv == FullInv /\ CaseHasFinding /\ StagedReconciled

LEMMA RowFacts ==
  ASSUME FullInv, NEW k \in Keys
  PROVE  /\ finding[k].revision \in Nat /\ cases[k].revision \in Nat
         /\ finding[k] \in FindingRow /\ cases[k] \in CaseRow
         /\ cases[k].status = "none" => cases[k] = NoCase
         /\ cases[k].status = "closed" => finding[k].state \in Settled
  <1>1. RowOK(finding[k], cases[k], trail[k])
    BY RowsOK DEF FullInv
  <1>2. finding[k].revision \in Revisions /\ cases[k].revision \in Revisions
    BY <1>1 DEF RowOK, FindingRow, CaseRow
  <1> QED
    BY <1>1, <1>2, RevisionsNat DEF RowOK

LEMMA CaseFields ==
  /\ NoCase.status = "none" /\ NoCase.revision = 0
  /\ \A r : NewCase(r).status = "active" /\ NewCase(r).revision = 1
  BY DEF NoCase, NewCase

\* An observed finding keeps its state, or appears, or reopens.
LEMMA ObservedState ==
  ASSUME NEW k \in Keys, Observed(k)
  PROVE  /\ finding'[k].hash = run.flagged[k]
         /\ finding'[k].revision = finding[k].revision + 1
         /\ \/ finding'[k].state = finding[k].state /\ finding[k].state # ""
            \/ /\ \/ finding[k].state = "" /\ finding'[k].state = "open"
                  \/ finding[k].state \in {"suppressed", "resolved_in_source"}
                     /\ finding'[k].state = "reopened"
               /\ trail'[k] = Event(System, finding[k].state, finding'[k].state)
         /\ \/ cases'[k] = cases[k]
            \/ cases[k] = NoCase /\ \E r : cases'[k] = NewCase(r)
  <1>1. /\ StagedFrom(k) /\ finding'[k] = staged[k].finding /\ cases'[k] = staged[k].case
        /\ trail'[k] = staged[k].trail
    BY DEF Observed, Locked
  <1>2. finding'[k] = NewRow(finding[k], finding'[k].state, run.flagged[k], finding[k].expiry)
    BY <1>1 DEF StagedFrom
  <1>3. finding'[k].hash = run.flagged[k] /\ finding'[k].revision = finding[k].revision + 1
    BY <1>2 DEF NewRow
  <1> QED
    BY <1>1, <1>3 DEF StagedFrom

\* A decided finding takes the decided state, and keeps what was consumed.
LEMMA DecidedState ==
  ASSUME NEW k, NEW u, NEW to, NEW expiry, Decided(k, u, to, expiry)
  PROVE  /\ ~RunEnds /\ finding[k].state # ""
         /\ finding'[k].state = to /\ finding'[k].hash = finding[k].hash
         /\ finding'[k].revision = finding[k].revision + 1
         /\ trail'[k] = Event(u, finding[k].state, to)
  <1>1. finding'[k] = NewRow(finding[k], to, finding[k].hash, expiry)
    BY DEF Decided
  <1>2. /\ finding'[k].state = to /\ finding'[k].hash = finding[k].hash
        /\ finding'[k].revision = finding[k].revision + 1
    BY <1>1 DEF NewRow
  <1> QED
    BY <1>2 DEF Decided

LEMMA DisposedState ==
  ASSUME NEW k, Disposed(k)
  PROVE  /\ ~RunEnds /\ finding[k].state \in {"open", "reopened", "in_review"}
         /\ cases[k].status = "none" /\ cases'[k] = cases[k]
         /\ finding'[k].hash = finding[k].hash
         /\ finding'[k].revision = finding[k].revision + 1
         /\ \E u \in Users : trail'[k] = Event(u, finding[k].state, finding'[k].state)
  <1>1. PICK u \in Users : \E to, expiry :
          Decided(k, u, to, expiry) /\ Transition(finding[k].state, to, expiry, now)
    BY DEF Disposed
  <1>2. PICK to, expiry :
          Decided(k, u, to, expiry) /\ Transition(finding[k].state, to, expiry, now)
    BY <1>1
  <1>3. /\ ~RunEnds /\ finding'[k].state = to /\ finding'[k].hash = finding[k].hash
        /\ finding'[k].revision = finding[k].revision + 1
        /\ trail'[k] = Event(u, finding[k].state, to)
    BY <1>2, DecidedState
  <1> QED
    BY <1>2, <1>3 DEF Disposed, Transition

LEMMA ClosedState ==
  ASSUME NEW k, Closed(k)
  PROVE  /\ ~RunEnds /\ finding'[k].state \in Settled
         /\ cases[k].status = "active" /\ cases'[k].status = "closed"
         /\ cases'[k].revision = cases[k].revision + 1
         /\ finding'[k].hash = finding[k].hash
         /\ finding'[k].revision = finding[k].revision + 1
         /\ \E u \in Users : trail'[k] = Event(u, finding[k].state, finding'[k].state)
  <1>1. PICK u \in Users, resolution \in Settled : Decided(k, u, resolution, NoExpiry)
    BY DEF Closed
  <1>2. /\ ~RunEnds /\ finding'[k].state = resolution /\ finding'[k].hash = finding[k].hash
        /\ finding'[k].revision = finding[k].revision + 1
        /\ trail'[k] = Event(u, finding[k].state, resolution)
    BY <1>1, DecidedState
  <1> QED
    BY <1>2 DEF Closed, Stepped

LEMMA ReopenedState ==
  ASSUME NEW k, Reopened(k)
  PROVE  /\ ~RunEnds /\ finding'[k].state = "in_review"
         /\ cases[k].status = "closed" /\ cases'[k].status = "active"
         /\ cases'[k].revision = cases[k].revision + 1
         /\ finding'[k].hash = finding[k].hash
         /\ finding'[k].revision = finding[k].revision + 1
         /\ \E u \in Users : /\ HasRole(u, Manager)
                             /\ trail'[k] = Event(u, finding[k].state, finding'[k].state)
  <1>1. PICK u \in Users : HasRole(u, Manager) /\ Decided(k, u, "in_review", finding[k].expiry)
    BY DEF Reopened
  <1>2. /\ ~RunEnds /\ finding'[k].state = "in_review" /\ finding'[k].hash = finding[k].hash
        /\ finding'[k].revision = finding[k].revision + 1
        /\ trail'[k] = Event(u, finding[k].state, "in_review")
    BY <1>1, DecidedState
  <1> QED
    BY <1>1, <1>2 DEF Reopened, Stepped

LEMMA CaseHasFindingStep ==
  ASSUME FullInv, CaseHasFinding, [Next]_vars
  PROVE  CaseHasFinding'
  <1> SUFFICES ASSUME NEW k \in Keys, cases'[k].status # "none"
               PROVE  finding'[k].state # ""
    BY DEF CaseHasFinding, Managed
  <1>1. cases[k].status # "none" => finding[k].state # ""
    BY DEF CaseHasFinding, Managed
  <1>2. CASE Untouched(k)
    BY <1>1, <1>2 DEF Untouched
  <1>3. CASE Observed(k)
    BY <1>3, ObservedState
  <1>4. CASE Missed(k)
    BY <1>4 DEF Missed, NewRow
  <1>5. CASE Published(k)
    BY <1>5 DEF Published
  <1>6. CASE Disposed(k)
    BY <1>6 DEF Disposed
  <1>7. CASE Worked(k)
    BY <1>1, <1>7 DEF Worked, Stepped
  <1>8. CASE Closed(k)
    BY <1>8, ClosedState DEF Settled
  <1>9. CASE Reopened(k)
    BY <1>9, ReopenedState
  <1> QED
    BY <1>2, <1>3, <1>4, <1>5, <1>6, <1>7, <1>8, <1>9, StepMoves DEF Moves

\* StagedReconciled survives whatever leaves the staged rows and the findings
\* they were read from alone.
LEMMA ReconciledKept ==
  ASSUME StagedReconciled, UNCHANGED <<staged, run>>,
         \A k \in DOMAIN staged : finding'[k] = finding[k]
  PROVE  StagedReconciled'
  BY DEF StagedReconciled, ReconciledAs

LEMMA ReconciledStep ==
  ASSUME FullInv, StagedReconciled, [Next]_vars
  PROVE  StagedReconciled'
  <1> USE DEF rows
  <1>0. IInv
    BY DEF FullInv
  <1>1. ASSUME staged' = << >> PROVE StagedReconciled'
    BY <1>1 DEF StagedReconciled
  <1>2. ASSUME NEW scope, NEW flagged, BeginReconcile(scope, flagged)
        PROVE  StagedReconciled'
    <2>1. DOMAIN staged = {} /\ staged' = staged
      BY <1>0, <1>2 DEF BeginReconcile, IInv, StagedOnCommitted
    <2> QED
      BY <2>1 DEF StagedReconciled
  <1>3. ASSUME NEW k \in Keys, Observe(k) PROVE StagedReconciled'
    <2> DEFINE old == finding[k]
               state == ReconcilePresent(old.state, run.flagged[k] # old.hash, old.expiry, run.at)
    <2>1. UNCHANGED <<finding, run>> /\ k \notin DOMAIN staged
      BY <1>3 DEF Observe, Locked
    <2>2. /\ DOMAIN staged' = DOMAIN staged \cup {k}
          /\ \A j \in DOMAIN staged : staged'[j] = staged[j]
          /\ staged'[k].finding = NewRow(old, state, run.flagged[k], old.expiry)
      BY <1>3, <2>1 DEF Observe, With
    <2>3. ReconciledAs(k)'
      BY <2>1, <2>2 DEF ReconciledAs, NewRow
    <2>4. ASSUME NEW j \in DOMAIN staged PROVE ReconciledAs(j)'
      BY <2>1, <2>2 DEF ReconciledAs, StagedReconciled
    <2> QED
      BY <2>2, <2>3, <2>4 DEF StagedReconciled
  <1>4. ASSUME NEW k \in Keys, NEW u \in Users, Request(k, u) PROVE StagedReconciled'
    <2>1. ASSUME NEW to, NEW expiry, SetState(k, u, to, expiry), Free(k),
                 UNCHANGED <<staged, run>>
          PROVE  StagedReconciled'
      <3>1. k \notin DOMAIN staged /\ DOMAIN staged \subseteq Keys
        BY <1>0, <2>1, StagedRowOK DEF Free, Locked
      <3>2. \A j \in Keys \ {k} : finding'[j] = finding[j]
        BY <1>0, <2>1, Decides
      <3> QED
        BY <2>1, <3>1, <3>2, ReconciledKept
    <2>2. ASSUME UNCHANGED <<finding, staged, run>> PROVE StagedReconciled'
      BY <2>2, ReconciledKept
    <2>3. CASE Comment(k, u)
      BY <2>2, <2>3 DEF Comment
    <2>4. ASSUME NEW to, NEW expiry, NEW revision, Dispose(k, u, to, expiry, revision)
          PROVE  StagedReconciled'
      BY <2>1, <2>4 DEF Dispose
    <2>5. ASSUME NEW revision, ActOnCase(k, u, revision) PROVE StagedReconciled'
      BY <2>1, <2>2, <2>5
      DEF ActOnCase, ReopenCase, AssignCase, ReturnCase, AdvanceCase, CloseCase, MayAct
    <2> QED
      BY <1>4, <2>3, <2>4, <2>5 DEF Request
  <1>5. ASSUME NEW draft, NEW revision, SaveWorkflow(draft, revision) PROVE StagedReconciled'
    BY <1>5, ReconciledKept DEF SaveWorkflow
  <1>6. ASSUME CompleteRun \/ AbortRun PROVE StagedReconciled'
    BY <1>1, <1>6 DEF CompleteRun, AbortRun
  <1>7. ASSUME CommitWorkflow \/ AbortWorkflow \/ Tick \/ UNCHANGED vars
        PROVE  StagedReconciled'
    BY <1>7, ReconciledKept DEF CommitWorkflow, AbortWorkflow, Tick, vars
  <1>8. Next \/ UNCHANGED vars
    OBVIOUS
  <1> QED
    BY <1>2, <1>3, <1>4, <1>5, <1>6, <1>7, <1>8 DEF Next

LEMMA StepsInvStep == StepsInv /\ [Next]_vars => StepsInv'
  BY StepInv, UndecidedStep, CaseHasFindingStep, ReconciledStep DEF FullInv, StepsInv

LEMMA StepsInvariance == Spec => []StepsInv
  <1>1. Init => CaseHasFinding /\ StagedReconciled
    <2> SUFFICES ASSUME Init PROVE CaseHasFinding /\ StagedReconciled
      OBVIOUS
    <2>1. \A k \in Keys : cases[k].status = "none"
      BY CaseFields DEF Init
    <2>2. DOMAIN staged = {}
      BY EmptyTuple DEF Init
    <2> QED
      BY <2>1, <2>2 DEF CaseHasFinding, Managed, StagedReconciled
  <1> QED
    BY <1>1, StepsInvStep, FullInvariance, PTL DEF Spec, StepsInv

-----------------------------------------------------------------------------
(***************************************************************************)
(* The action properties.                                                  *)
(***************************************************************************)

LEMMA EventFields ==
  ASSUME NEW actor, NEW from, NEW to
  PROVE  /\ Event(actor, from, to).actor = actor
         /\ Event(actor, from, to).from = from /\ Event(actor, from, to).to = to
  BY DEF Event

LEMMA Persons == \A u \in Users : u # System
  BY ConstantsAssumption

\* Each change of a finding's state is in its trail, with the name of the person
\* who made it, and "system" stands there for runs only (SetState, observe, finish).
THEOREM ChangesLogged == Spec => EveryChangeLogged
  <1> DEFINE A == \A k \in Keys : finding'[k].state # finding[k].state
                    => /\ trail'[k].from = finding[k].state /\ trail'[k].to = finding'[k].state
                       /\ (trail'[k].actor = System) <=> run.open /\ ~run'.open
  <1>1. ASSUME StepsInv, [Next]_vars, NEW k \in Keys, finding'[k].state # finding[k].state
        PROVE  /\ trail'[k].from = finding[k].state /\ trail'[k].to = finding'[k].state
               /\ (trail'[k].actor = System) <=> RunEnds
    <2>1. CASE Observed(k)
      <3>1. trail'[k] = Event(System, finding[k].state, finding'[k].state) /\ RunEnds
        BY <1>1, <2>1, ObservedState DEF Observed, Locked
      <3> QED
        BY <3>1, EventFields
    <2>2. CASE Missed(k)
      <3>1. trail'[k] = Event(System, finding[k].state, finding'[k].state) /\ RunEnds
        BY <2>2 DEF Missed, NewRow
      <3> QED
        BY <3>1, EventFields
    <2>3. ASSUME Disposed(k) \/ Closed(k) \/ Reopened(k)
          PROVE  /\ trail'[k].from = finding[k].state /\ trail'[k].to = finding'[k].state
                 /\ (trail'[k].actor = System) <=> RunEnds
      <3>1. ~RunEnds /\ \E u \in Users : trail'[k] = Event(u, finding[k].state, finding'[k].state)
        BY <2>3, DisposedState, ClosedState, ReopenedState
      <3> QED
        BY <3>1, EventFields, Persons
    <2>4. ~(Untouched(k) \/ Published(k) \/ Worked(k))
      BY <1>1 DEF Untouched, Published, Worked
    <2> QED
      BY <1>1, <2>1, <2>2, <2>3, <2>4, StepMoves DEF Moves, StepsInv
  <1>2. StepsInv /\ [Next]_vars => [A]_vars
    BY <1>1 DEF RunEnds
  <1>3. Spec => [][A]_vars
    BY <1>2, StepsInvariance, PTL DEF Spec
  <1> QED
    BY <1>3 DEF EveryChangeLogged

\* What a person has decided is undone by a person only, and through the case:
\* no run reopens or resolves an accepted or dismissed finding (Reconcile).
THEOREM DecisionsKept == Spec => RunsKeepDecisions
  <1> DEFINE A == \A k \in Keys :
                    finding[k].state \in Settled /\ finding'[k].state # finding[k].state
                      => trail'[k].actor # System /\ cases'[k].revision > cases[k].revision
  <1>1. ASSUME StepsInv, [Next]_vars, NEW k \in Keys,
               finding[k].state \in Settled, finding'[k].state # finding[k].state
        PROVE  trail'[k].actor # System /\ cases'[k].revision > cases[k].revision
    <2> USE DEF Settled, Active
    <2>1. ~Observed(k)
      BY <1>1, ObservedState
    <2>2. ~(Missed(k) \/ Disposed(k) \/ Untouched(k) \/ Published(k) \/ Worked(k))
      BY <1>1, DisposedState DEF Missed, Untouched, Published, Worked
    <2>3. ASSUME Closed(k) \/ Reopened(k)
          PROVE  trail'[k].actor # System /\ cases'[k].revision > cases[k].revision
      <3>1. /\ \E u \in Users : trail'[k] = Event(u, finding[k].state, finding'[k].state)
            /\ cases'[k].revision = cases[k].revision + 1
        BY <2>3, ClosedState, ReopenedState
      <3>2. cases[k].revision \in Nat
        BY <1>1, RowFacts DEF StepsInv
      <3> QED
        BY <3>1, <3>2, EventFields, Persons
    <2> QED
      BY <1>1, <2>1, <2>2, <2>3, StepMoves DEF Moves, StepsInv
  <1>2. StepsInv /\ [Next]_vars => [A]_vars
    BY <1>1
  <1>3. Spec => [][A]_vars
    BY <1>2, StepsInvariance, PTL DEF Spec
  <1> QED
    BY <1>3 DEF RunsKeepDecisions

\* A finding with a case changes with its case, or by a run that reopens or
\* resolves it: a disposition never goes around the workflow (Disposition).
THEOREM WorkflowNotBypassed == Spec => NoBypass
  <1> DEFINE A == \A k \in Keys : Managed(k) /\ finding'[k].state # finding[k].state
                    => \/ cases'[k].revision > cases[k].revision
                       \/ finding'[k].state \in {"reopened", "resolved_in_source"}
  <1>1. ASSUME StepsInv, [Next]_vars, NEW k \in Keys,
               Managed(k), finding'[k].state # finding[k].state
        PROVE  \/ cases'[k].revision > cases[k].revision
               \/ finding'[k].state \in {"reopened", "resolved_in_source"}
    <2>0. finding[k].state # ""
      BY <1>1 DEF StepsInv, CaseHasFinding
    <2>1. CASE Observed(k)
      BY <1>1, <2>0, <2>1, ObservedState
    <2>2. CASE Missed(k)
      BY <2>2 DEF Missed, NewRow
    <2>3. ~(Disposed(k) \/ Untouched(k) \/ Published(k) \/ Worked(k))
      BY <1>1, DisposedState DEF Managed, Untouched, Published, Worked
    <2>4. ASSUME Closed(k) \/ Reopened(k) PROVE cases'[k].revision > cases[k].revision
      <3>1. cases'[k].revision = cases[k].revision + 1
        BY <2>4, ClosedState, ReopenedState
      <3>2. cases[k].revision \in Nat
        BY <1>1, RowFacts DEF StepsInv
      <3> QED
        BY <3>1, <3>2
    <2> QED
      BY <1>1, <2>1, <2>2, <2>3, <2>4, StepMoves DEF Moves, StepsInv
  <1>2. StepsInv /\ [Next]_vars => [A]_vars
    BY <1>1
  <1>3. Spec => [][A]_vars
    BY <1>2, StepsInvariance, PTL DEF Spec
  <1> QED
    BY <1>3 DEF NoBypass

\* A row that changes has the next revision.
LEMMA RevisionsStep ==
  ASSUME StepsInv, [Next]_vars, NEW k \in Keys
  PROVE  /\ finding[k].revision \in Nat /\ cases[k].revision \in Nat
         /\ finding'[k] = finding[k] \/ finding'[k].revision = finding[k].revision + 1
         /\ cases'[k] = cases[k] \/ cases'[k].revision = cases[k].revision + 1
  <1> DEFINE n == finding[k].revision
             m == cases[k].revision
  <1>0. n \in Nat /\ m \in Nat
    BY RowFacts DEF StepsInv
  <1>1. finding'[k] = finding[k] \/ finding'[k].revision = n + 1
    <2>1. CASE Missed(k)
      BY <2>1 DEF Missed, NewRow
    <2> QED
      BY <2>1, StepMoves, ObservedState, DisposedState, ClosedState, ReopenedState
      DEF Moves, StepsInv, Untouched, Published, Worked
  <1>2. cases'[k] = cases[k] \/ cases'[k].revision = m + 1
    <2>1. CASE cases[k] = NoCase /\ \E r : cases'[k] = NewCase(r)
      <3>1. m = 0 /\ cases'[k].revision = 1
        BY <2>1, CaseFields
      <3> QED
        BY <3>1
    <2>2. cases'[k] = cases[k] \/ cases'[k].revision = m + 1
              \/ (cases[k] = NoCase /\ \E r : cases'[k] = NewCase(r))
      BY StepMoves, ObservedState, DisposedState, ClosedState, ReopenedState
      DEF Moves, StepsInv, Untouched, Missed, Published, Worked, Stepped
    <2> QED
      BY <2>1, <2>2
  <1> QED
    BY <1>0, <1>1, <1>2

\* Whoever acts on a row acts on what they were shown: a row never changes under
\* the same revision (the revision checks of Disposition and ActOnCase).
THEOREM RevisionsCover == Spec => RevisionsCoverChanges
  <1> DEFINE A == \A k \in Keys :
                    /\ finding'[k] # finding[k] => finding'[k].revision > finding[k].revision
                    /\ cases'[k] # cases[k] => cases'[k].revision > cases[k].revision
  <1>1. ASSUME StepsInv, [Next]_vars, NEW k \in Keys
        PROVE  /\ finding'[k] # finding[k] => finding'[k].revision > finding[k].revision
               /\ cases'[k] # cases[k] => cases'[k].revision > cases[k].revision
    BY <1>1, RevisionsStep
  <1>2. StepsInv /\ [Next]_vars => [A]_vars
    BY <1>1
  <1>3. Spec => [][A]_vars
    BY <1>2, StepsInvariance, PTL DEF Spec
  <1> QED
    BY <1>3 DEF RevisionsCoverChanges

\* A suppression ends only when its evidence changes, its date passes or a case
\* decides its finding, and it ends when the evidence changes (Reconcile).
THEOREM SuppressionsHonoured == Spec => SuppressionHonoured
  <1> DEFINE Kept(k) == IF finding'[k].state = "suppressed"
                        THEN finding'[k].hash = finding[k].hash
                        ELSE \/ finding'[k].hash # finding[k].hash
                             \/ finding[k].expiry <= now
                             \/ cases'[k].status = "closed"
             A == \A k \in Keys : finding[k].state = "suppressed" => Kept(k)
  <1>1. ASSUME StepsInv, [Next]_vars, NEW k \in Keys, finding[k].state = "suppressed"
        PROVE  Kept(k)
    <2> USE DEF Settled, Active
    <2>1. CASE Observed(k)
      <3> DEFINE changed == run.flagged[k] # finding[k].hash
                 ends == changed \/ finding[k].expiry <= run.at
      <3>1. finding'[k].hash = run.flagged[k] /\ finding'[k] = staged[k].finding
        BY <2>1, ObservedState DEF Observed, Locked
      <3>2. k \in DOMAIN staged
        BY <2>1 DEF Observed, Locked
      <3>3. finding'[k].state = IF ends THEN "reopened" ELSE "suppressed"
        BY <1>1, <3>1, <3>2 DEF StepsInv, StagedReconciled, ReconciledAs, ReconcilePresent, Unsuppress
      <3>4. ends => changed \/ finding[k].expiry <= now
        <4>1. run.at \in Nat /\ now \in Nat /\ run.at <= now /\ finding[k].expiry \in Nat
          <5>1. run.at \in 0 .. now /\ now \in 0 .. MaxTime /\ finding[k] \in FindingRow
            BY <1>1, RowsOK, RowFacts DEF StepsInv, FullInv, RunTyped, Time
          <5>2. finding[k].expiry \in 0 .. MaxTime
            BY <5>1, FindingFields DEF Time
          <5> QED
            BY <5>1, <5>2, Bounds
        <4> QED
          BY <4>1
      <3> HIDE DEF ends
      <3> QED
        BY <3>1, <3>3, <3>4 DEF ends
    <2>2. ~Missed(k) /\ ~Disposed(k)
      BY <1>1, DisposedState DEF Missed
    <2>3. CASE Untouched(k) \/ Published(k) \/ Worked(k)
      BY <1>1, <2>3 DEF Untouched, Published, Worked
    <2>4. CASE Closed(k)
      BY <2>4, ClosedState
    <2>5. ~Reopened(k)
      BY <1>1, ReopenedState, RowFacts DEF StepsInv
    <2> QED
      BY <1>1, <2>1, <2>2, <2>3, <2>4, <2>5, StepMoves DEF Moves, StepsInv
  <1>2. StepsInv /\ [Next]_vars => [A]_vars
    BY <1>1
  <1>3. Spec => [][A]_vars
    BY <1>2, StepsInvariance, PTL DEF Spec
  <1> QED
    BY <1>3 DEF SuppressionHonoured

\* Only a manager's reopening takes a case out of "closed", and its finding back
\* into review (ActOnCase).
THEOREM ManagersReopen == Spec => OnlyManagersReopen
  <1> DEFINE A == \A k \in Keys : cases[k].status = "closed" /\ cases'[k] # cases[k]
                    => /\ cases'[k].status = "active" /\ finding'[k].state = "in_review"
                       /\ trail'[k].actor \in Users /\ HasRole(trail'[k].actor, Manager)
  <1>1. ASSUME StepsInv, [Next]_vars, NEW k \in Keys,
               cases[k].status = "closed", cases'[k] # cases[k]
        PROVE  /\ cases'[k].status = "active" /\ finding'[k].state = "in_review"
               /\ trail'[k].actor \in Users /\ HasRole(trail'[k].actor, Manager)
    <2>1. ~Observed(k)
      BY <1>1, ObservedState, CaseFields
    <2>2. ~(Untouched(k) \/ Missed(k) \/ Published(k) \/ Disposed(k) \/ Worked(k) \/ Closed(k))
      BY <1>1, CaseFields, ClosedState
      DEF Untouched, Missed, Published, Disposed, Worked, Stepped
    <2>3. CASE Reopened(k)
      BY <2>3, ReopenedState, EventFields
    <2> QED
      BY <1>1, <2>1, <2>2, <2>3, StepMoves DEF Moves, StepsInv
  <1>2. StepsInv /\ [Next]_vars => [A]_vars
    BY <1>1
  <1>3. Spec => [][A]_vars
    BY <1>2, StepsInvariance, PTL DEF Spec
  <1> QED
    BY <1>3 DEF OnlyManagersReopen

\* A completed run accounts for the whole of what it tested and touches nothing
\* else: an active finding of a tested rule was seen by it, with the evidence it
\* saw, and findings of other rules stay as they were (finish).
THEOREM ScopesAccounted == Spec => RunsAccountForScope
  <1> DEFINE Accounted(k) == IF RuleOf[k] \in run.scope
                             THEN finding'[k].state \in Active
                                    => k \in DOMAIN run.flagged /\ finding'[k].hash = run.flagged[k]
                             ELSE finding'[k] = finding[k]
             A == run.open /\ ~run'.open /\ finding' # finding => \A k \in Keys : Accounted(k)
  <1>1. ASSUME StepsInv, [Next]_vars, run.open, ~run'.open, finding' # finding
        PROVE  CompleteRun
    <2> USE DEF rows
    <2>1. ASSUME NEW k \in Keys, NEW u \in Users, Request(k, u) PROVE run' = run
      <3>1. ASSUME NEW revision, ActOnCase(k, u, revision) PROVE run' = run
        BY <3>1 DEF ActOnCase, ReopenCase, AssignCase, ReturnCase, AdvanceCase, CloseCase
      <3> QED
        BY <2>1, <3>1 DEF Request, Comment, Dispose
    <2>2. ASSUME NEW scope, NEW flagged, BeginReconcile(scope, flagged) PROVE FALSE
      BY <1>1, <2>2 DEF BeginReconcile
    <2>3. ASSUME NEW k, Observe(k) PROVE FALSE
      BY <1>1, <2>3 DEF Observe
    <2>4. ASSUME NEW draft, NEW revision, SaveWorkflow(draft, revision) PROVE FALSE
      BY <1>1, <2>4 DEF SaveWorkflow
    <2>5. ~(AbortRun \/ CommitWorkflow \/ AbortWorkflow \/ Tick \/ UNCHANGED vars)
      BY <1>1 DEF AbortRun, CommitWorkflow, AbortWorkflow, Tick, vars
    <2>6. Next \/ UNCHANGED vars
      BY <1>1
    <2> QED
      BY <1>1, <2>1, <2>2, <2>3, <2>4, <2>5, <2>6 DEF Next
  <1>2. ASSUME StepsInv, CompleteRun, NEW k \in Keys PROVE Accounted(k)
    <2>1. IInv
      BY <1>2 DEF StepsInv, FullInv
    <2>2. CASE Locked(k)
      <3>1. k \in DOMAIN run.flagged /\ RuleOf[k] \in run.scope /\ StagedFrom(k)
        BY <2>1, <2>2, RowsOK DEF StagedOnCommitted, RunTyped, Locked
      <3>2. finding'[k] = NewRow(finding[k], finding'[k].state, run.flagged[k], finding[k].expiry)
        BY <1>2, <2>2, <3>1 DEF CompleteRun, StagedFrom
      <3>3. finding'[k].hash = run.flagged[k]
        BY <3>2 DEF NewRow
      <3> QED
        BY <3>1, <3>3
    <2>3. CASE ~Locked(k) /\ k \in Absent
      <3>1. /\ finding'[k] = NewRow(finding[k], ReconcileAbsent(finding[k].state),
                                    finding[k].hash, finding[k].expiry)
            /\ RuleOf[k] \in run.scope /\ finding[k].state \in Active
        BY <1>2, <2>3 DEF CompleteRun, Absent
      <3>2. finding'[k].state = "resolved_in_source"
        BY <3>1 DEF NewRow, ReconcileAbsent
      <3> QED
        BY <3>1, <3>2 DEF Active
    <2>4. CASE ~Locked(k) /\ k \notin Absent
      <3>1. finding'[k] = finding[k] /\ k \notin DOMAIN run.flagged
        BY <1>2, <2>4 DEF CompleteRun, Locked
      <3> QED
        BY <2>4, <3>1 DEF Absent
    <2> QED
      BY <2>2, <2>3, <2>4
  <1>3. StepsInv /\ [Next]_vars => [A]_vars
    BY <1>1, <1>2
  <1>4. Spec => [][A]_vars
    BY <1>3, StepsInvariance, PTL DEF Spec
  <1> QED
    BY <1>4 DEF RunsAccountForScope
=============================================================================
