------------------------------ MODULE ReviewLife ------------------------------
(***************************************************************************)
(* Review implements FindingLife, for every value of the constants.  The   *)
(* invariant of ReviewProofs tells what a run's commit does to each        *)
(* finding; PublicationUndecided tells which findings a publication enrols.*)
(***************************************************************************)
EXTENDS ReviewProofs

FullInv == IInv /\ PublicationUndecided

-----------------------------------------------------------------------------
(***************************************************************************)
(* What the steps do to the rows of one finding.                           *)
(***************************************************************************)

\* A completed run moves each finding as FindingLife allows, and enrols only
\* findings that it saw and that had no case.
LEMMA CompleteMoves ==
  ASSUME IInv, CompleteRun, NEW k \in Keys
  PROVE  /\ Life!Reconciled(finding[k].state, finding'[k].state)
         /\ Life!Enrolled(cases[k].status, cases'[k].status)
         /\ cases'[k].status # cases[k].status => finding'[k].state # ""
  <1> USE DEF Life!Reconciled, Life!Enrolled, Life!Active
  <1>1. CASE Locked(k)
    <2>1. StagedFrom(k)
      BY <1>1 DEF IInv, StagedOnCommitted, Locked
    <2>2. finding'[k] = staged[k].finding /\ cases'[k] = staged[k].case
      BY <1>1 DEF CompleteRun
    <2>3. \/ finding'[k].state = finding[k].state /\ finding[k].state # ""
          \/ finding[k].state = "" /\ finding'[k].state = "open"
          \/ finding[k].state \in {"suppressed", "resolved_in_source"}
             /\ finding'[k].state = "reopened"
      BY <2>1, <2>2 DEF StagedFrom
    <2>4. \/ cases'[k] = cases[k]
          \/ cases[k] = NoCase /\ \E r \in DOMAIN workflows : cases'[k] = NewCase(r)
      BY <2>1, <2>2 DEF StagedFrom
    <2>5. cases'[k].status = cases[k].status
          \/ (cases[k].status = "none" /\ cases'[k].status = "active")
      <3>1. NoCase.status = "none" /\ \A r : NewCase(r).status = "active"
        BY DEF NoCase, NewCase
      <3> QED
        BY <2>4, <3>1
    <2> QED
      BY <2>3, <2>5
  <1>2. CASE ~Locked(k) /\ k \in Absent
    <2>1. /\ finding'[k] = NewRow(finding[k], ReconcileAbsent(finding[k].state),
                                  finding[k].hash, finding[k].expiry)
          /\ cases'[k] = cases[k]
      BY <1>2 DEF CompleteRun
    <2>2. finding[k].state \in Active /\ finding'[k].state = "resolved_in_source"
      BY <1>2, <2>1 DEF Absent, NewRow, ReconcileAbsent
    <2> QED
      BY <2>1, <2>2 DEF Active
  <1>3. CASE ~Locked(k) /\ k \notin Absent
    BY <1>3 DEF CompleteRun
  <1> QED
    BY <1>1, <1>2, <1>3

\* A publication enrols what it chose and what has no case yet.
LEMMA PublicationMoves ==
  ASSUME FullInv, CommitWorkflow, NEW k \in Keys
  PROVE  /\ Life!Enrolled(cases[k].status, cases'[k].status)
         /\ cases'[k].status # cases[k].status
              => finding[k].state \in Active \cup {"resolved_in_source"}
  <1>1. CASE k \in publication.keys /\ ~Managed(k)
    <2>1. cases'[k] = NewCase(Len(workflows) + 1) /\ cases[k].status = "none"
      BY <1>1 DEF CommitWorkflow, Managed
    <2>2. finding[k].state \in Active \cup {"resolved_in_source"}
      BY <1>1 DEF FullInv, PublicationUndecided, CommitWorkflow
    <2> QED
      BY <2>1, <2>2 DEF Life!Enrolled, NewCase
  <1>2. CASE ~(k \in publication.keys /\ ~Managed(k))
    BY <1>2 DEF CommitWorkflow, Life!Enrolled
  <1> QED
    BY <1>1, <1>2

\* A decision changes the state of one finding, and of no other.
LEMMA Decides ==
  ASSUME IInv, NEW k \in Keys, NEW u, NEW state, NEW expiry, SetState(k, u, state, expiry)
  PROVE  /\ finding'[k].state = state
         /\ \A j \in Keys \ {k} : finding'[j] = finding[j]
  BY RowsOK DEF Tables, SetState, NewRow

\* A case action changes the case of one finding, and of no other.
LEMMA CaseMoves ==
  ASSUME IInv, NEW k \in Keys, NEW new, cases' = [cases EXCEPT ![k] = new]
  PROVE  /\ cases'[k] = new
         /\ \A j \in Keys \ {k} : cases'[j] = cases[j]
  BY RowsOK DEF Tables

-----------------------------------------------------------------------------
(***************************************************************************)
(* A publication meets no decision between its choice and its commit.      *)
(***************************************************************************)

LEMMA UndecidedKept ==
  ASSUME PublicationUndecided, UNCHANGED <<finding, publication>>
  PROVE  PublicationUndecided'
  BY DEF PublicationUndecided

LEMMA UndecidedStep == FullInv /\ [Next]_vars => PublicationUndecided'
  <1> SUFFICES ASSUME FullInv, [Next]_vars PROVE PublicationUndecided'
    OBVIOUS
  <1> USE DEF rows
  <1>1. ASSUME NEW scope \in SUBSET Rules, NEW present \in SUBSET Keys,
               NEW flagged \in [present -> Hashes], BeginReconcile(scope, flagged)
        PROVE  PublicationUndecided'
    BY <1>1, UndecidedKept DEF FullInv, BeginReconcile
  <1>2. ASSUME NEW k \in Keys, Observe(k) PROVE PublicationUndecided'
    BY <1>2, UndecidedKept DEF FullInv, Observe
  <1>3. CASE CompleteRun
    <2>1. publication' = publication /\ publication.keys \subseteq Keys
      BY <1>3, RowsOK DEF FullInv, CompleteRun, PublicationTyped
    <2>2. ASSUME publication.open, NEW k \in publication.keys
          PROVE  finding'[k].state \in Active \cup {"resolved_in_source"}
      <3>1. finding[k].state \in Active \cup {"resolved_in_source"}
        BY <2>2 DEF FullInv, PublicationUndecided
      <3>2. Life!Reconciled(finding[k].state, finding'[k].state)
        BY <1>3, <2>1, CompleteMoves DEF FullInv
      <3> QED
        BY <3>1, <3>2 DEF Active, Life!Reconciled, Life!Active
    <2> QED
      BY <2>1, <2>2 DEF PublicationUndecided
  <1>4. CASE AbortRun
    BY <1>4, UndecidedKept DEF FullInv, AbortRun
  <1>5. ASSUME NEW draft \in Drafts, NEW revision, SaveWorkflow(draft, revision)
        PROVE  PublicationUndecided'
    BY <1>5 DEF SaveWorkflow, PublicationUndecided
  <1>6. CASE CommitWorkflow \/ AbortWorkflow
    BY <1>6 DEF CommitWorkflow, AbortWorkflow, NoPublication, PublicationUndecided
  <1>7. ASSUME NEW k \in Keys, NEW u \in Users, Request(k, u) PROVE PublicationUndecided'
    <2>1. CASE Comment(k, u)
      BY <2>1, UndecidedKept DEF FullInv, Comment
    <2>2. ASSUME NEW to, NEW expiry, NEW revision, Dispose(k, u, to, expiry, revision)
          PROVE  PublicationUndecided'
      BY <2>2 DEF Dispose, Auditable, PublicationUndecided
    <2>3. ASSUME NEW revision, ActOnCase(k, u, revision) PROVE PublicationUndecided'
      BY <2>3 DEF ActOnCase, ReopenCase, AssignCase, ReturnCase, AdvanceCase, CloseCase,
                  MayAct, Auditable, PublicationUndecided
    <2> QED
      BY <1>7, <2>1, <2>2, <2>3 DEF Request
  <1>8. CASE Tick
    BY <1>8, UndecidedKept DEF FullInv, Tick
  <1>9. CASE UNCHANGED vars
    BY <1>9, UndecidedKept DEF FullInv, vars
  <1> QED
    BY <1>1, <1>2, <1>3, <1>4, <1>5, <1>6, <1>7, <1>8, <1>9 DEF Next

LEMMA FullInvariance == Spec => []FullInv
  <1>1. Init => PublicationUndecided
    <2> SUFFICES ASSUME Init PROVE ~publication.open
      BY DEF PublicationUndecided
    <2>1. publication.open = FALSE
      BY DEF Init, NoPublication
    <2> QED
      BY <2>1
  <1>2. FullInv /\ [Next]_vars => FullInv'
    BY StepInv, UndecidedStep DEF FullInv
  <1>3. Init => FullInv
    BY <1>1, InitInv DEF FullInv
  <1> QED
    BY <1>2, <1>3, PTL DEF Spec

\* No finding is decided between the moment a publication chooses it and the
\* moment its case appears (SaveWorkflow holds the tenant row, which the audit
\* event of every decision needs).
THEOREM PublishesUndecided == Spec => []PublicationUndecided
  <1>1. FullInv => PublicationUndecided
    BY DEF FullInv
  <1> QED
    BY <1>1, FullInvariance, PTL

-----------------------------------------------------------------------------
(***************************************************************************)
(* Every step is a step of a finding's life, or no step at all.            *)
(***************************************************************************)

\* Steps that change no state and no case's status are invisible.
LEMMA Invisible ==
  ASSUME \A k \in Keys : finding'[k].state = finding[k].state /\ cases'[k].status = cases[k].status
  PROVE  UNCHANGED Life!life
  BY DEF Life!life

LEMMA InvisibleRows ==
  ASSUME UNCHANGED <<finding, cases>>
  PROVE  UNCHANGED Life!life
  BY Invisible

\* A step of one finding, in the terms of FindingLife.
LEMMA OneFinding ==
  ASSUME NEW k \in Keys, NEW state, NEW status,
         finding'[k].state = state, cases'[k].status = status,
         \A j \in Keys \ {k} : finding'[j].state = finding[j].state
                               /\ cases'[j].status = cases[j].status
  PROVE  /\ [j \in Keys |-> finding[j].state]'
              = Life!Set([j \in Keys |-> finding[j].state], k, state)
         /\ [j \in Keys |-> cases[j].status]'
              = Life!Set([j \in Keys |-> cases[j].status], k, status)
  BY DEF Life!Set

LEMMA CompleteLife ==
  ASSUME IInv, CompleteRun
  PROVE  Life!Run
  <1>1. IInv'
    BY CompleteInv
  <1>2. \A k \in Keys : /\ finding'[k].state \in States \cup {""}
                        /\ cases'[k].status \in {"none", "active", "closed"}
    BY <1>1, RowsOK DEF IInv, TypeOK, FindingsTyped, CasesTyped, FindingRow, CaseRow
  <1>3. \A k \in Keys :
          /\ Life!Reconciled(finding[k].state, finding'[k].state)
          /\ Life!Enrolled(cases[k].status, cases'[k].status)
          /\ cases'[k].status # cases[k].status => finding'[k].state # ""
    BY CompleteMoves
  <1> QED
    BY <1>2, <1>3 DEF Life!Run, Life!States, Life!Active, Life!Settled, States, Active, Settled

LEMMA PublishLife ==
  ASSUME FullInv, CommitWorkflow
  PROVE  Life!Publish
  <1>1. IInv'
    BY CommitWorkflowInv DEF FullInv
  <1>2. \A k \in Keys : cases'[k].status \in {"none", "active", "closed"}
    BY <1>1 DEF IInv, TypeOK, CasesTyped, CaseRow
  <1>3. \A k \in Keys :
          /\ Life!Enrolled(cases[k].status, cases'[k].status)
          /\ cases'[k].status # cases[k].status
               => finding[k].state \in Active \cup {"resolved_in_source"}
    BY PublicationMoves
  <1>4. finding' = finding
    BY DEF CommitWorkflow
  <1> QED
    BY <1>2, <1>3, <1>4 DEF Life!Publish, Life!Active, Active

LEMMA DisposeLife ==
  ASSUME IInv, NEW k \in Keys, NEW u, NEW to \in States, NEW expiry, NEW revision,
         Dispose(k, u, to, expiry, revision)
  PROVE  Life!Dispose(k, to)
  <1>1. /\ finding'[k].state = to /\ \A j \in Keys \ {k} : finding'[j] = finding[j]
        /\ cases' = cases /\ cases[k].status = "none"
        /\ Transition(finding[k].state, to, expiry, now)
    BY Decides DEF Dispose, Disposable, Managed
  <1>2. /\ [j \in Keys |-> finding[j].state]'
             = Life!Set([j \in Keys |-> finding[j].state], k, to)
        /\ [j \in Keys |-> cases[j].status]' = [j \in Keys |-> cases[j].status]
    BY <1>1, OneFinding
  <1> QED
    BY <1>1, <1>2 DEF Life!Dispose, Life!Settled, Transition, Settled

LEMMA CloseLife ==
  ASSUME IInv, NEW k \in Keys, NEW u, NEW resolution, NEW revision,
         CloseCase(k, u, resolution, revision)
  PROVE  Life!Close(k, resolution)
  <1>1. /\ cases' = [cases EXCEPT ![k] = NewStep(cases[k], "closed", cases[k].step, NoUser, u)]
        /\ cases[k].status = "active" /\ finding[k].state # ""
        /\ SetState(k, u, resolution, NoExpiry)
    BY DEF CloseCase, MayAct, MayAdvance, MayWork, Free
  <1>2. /\ cases'[k].status = "closed" /\ \A j \in Keys \ {k} : cases'[j] = cases[j]
        /\ finding'[k].state = resolution /\ \A j \in Keys \ {k} : finding'[j] = finding[j]
    <2>1. cases'[k].status = "closed" /\ \A j \in Keys \ {k} : cases'[j] = cases[j]
      <3>1. PICK new : new.status = "closed" /\ cases' = [cases EXCEPT ![k] = new]
        BY <1>1 DEF NewStep
      <3> QED
        BY <3>1, CaseMoves
    <2>2. finding'[k].state = resolution /\ \A j \in Keys \ {k} : finding'[j] = finding[j]
      BY <1>1, Decides
    <2> QED
      BY <2>1, <2>2
  <1>3. /\ [j \in Keys |-> finding[j].state]'
             = Life!Set([j \in Keys |-> finding[j].state], k, resolution)
        /\ [j \in Keys |-> cases[j].status]'
             = Life!Set([j \in Keys |-> cases[j].status], k, "closed")
    BY <1>2, OneFinding
  <1> QED
    BY <1>1, <1>3 DEF Life!Close

LEMMA ReopenLife ==
  ASSUME IInv, NEW k \in Keys, NEW u, NEW revision, ReopenCase(k, u, revision)
  PROVE  Life!Reopen(k)
  <1>1. /\ cases' = [cases EXCEPT ![k] = NewStep(cases[k], "active", 0, NoUser, NoUser)]
        /\ cases[k].status = "closed"
        /\ SetState(k, u, "in_review", finding[k].expiry)
    BY DEF ReopenCase, MayReopen, Restarted
  <1>2. finding[k].state \in Settled
    BY <1>1 DEF IInv, ClosedIsSettled
  <1>3. /\ cases'[k].status = "active" /\ \A j \in Keys \ {k} : cases'[j] = cases[j]
        /\ finding'[k].state = "in_review" /\ \A j \in Keys \ {k} : finding'[j] = finding[j]
    <2>1. cases'[k].status = "active" /\ \A j \in Keys \ {k} : cases'[j] = cases[j]
      <3>1. PICK new : new.status = "active" /\ cases' = [cases EXCEPT ![k] = new]
        BY <1>1 DEF NewStep
      <3> QED
        BY <3>1, CaseMoves
    <2>2. finding'[k].state = "in_review" /\ \A j \in Keys \ {k} : finding'[j] = finding[j]
      BY <1>1, Decides
    <2> QED
      BY <2>1, <2>2
  <1>4. /\ [j \in Keys |-> finding[j].state]'
             = Life!Set([j \in Keys |-> finding[j].state], k, "in_review")
        /\ [j \in Keys |-> cases[j].status]'
             = Life!Set([j \in Keys |-> cases[j].status], k, "active")
    BY <1>3, OneFinding
  <1> QED
    BY <1>1, <1>2, <1>4 DEF Life!Reopen, Life!Settled, Settled

\* Assigning, returning and completing a step before the last leave the case
\* active and its finding alone.
LEMMA StepInvisible ==
  ASSUME IInv, NEW k \in Keys, NEW u, NEW revision,
         \/ \E assignee \in Users \cup {NoUser} : AssignCase(k, u, assignee, revision)
         \/ ReturnCase(k, u, revision)
         \/ AdvanceCase(k, u, revision)
  PROVE  UNCHANGED Life!life
  <1>1. PICK new : new.status = "active" /\ cases' = [cases EXCEPT ![k] = new]
    BY DEF AssignCase, ReturnCase, AdvanceCase, NewStep
  <1>2. cases[k].status = "active" /\ finding' = finding
    BY DEF AssignCase, ReturnCase, AdvanceCase, MayAdvance, MayWork
  <1>3. cases'[k].status = "active" /\ \A j \in Keys \ {k} : cases'[j] = cases[j]
    BY <1>1, CaseMoves
  <1> QED
    BY <1>2, <1>3, Invisible

LEMMA StepLife == FullInv /\ [Next]_vars => [Life!Next]_(Life!life)
  <1> SUFFICES ASSUME FullInv, [Next]_vars PROVE Life!Next \/ UNCHANGED Life!life
    OBVIOUS
  <1> USE DEF rows
  <1>0. IInv
    BY DEF FullInv
  <1>1. ASSUME NEW scope, NEW flagged, BeginReconcile(scope, flagged)
        PROVE  UNCHANGED Life!life
    BY <1>1, InvisibleRows DEF BeginReconcile
  <1>2. ASSUME NEW k \in Keys, Observe(k) PROVE UNCHANGED Life!life
    BY <1>2, InvisibleRows DEF Observe
  <1>3. CASE CompleteRun
    BY <1>0, <1>3, CompleteLife DEF Life!Next
  <1>4. ASSUME AbortRun \/ AbortWorkflow \/ Tick PROVE UNCHANGED Life!life
    BY <1>4, InvisibleRows DEF AbortRun, AbortWorkflow, Tick
  <1>5. ASSUME NEW draft, NEW revision, SaveWorkflow(draft, revision)
        PROVE  UNCHANGED Life!life
    BY <1>5, InvisibleRows DEF SaveWorkflow
  <1>6. CASE CommitWorkflow
    BY <1>6, PublishLife DEF Life!Next
  <1>7. ASSUME NEW k \in Keys, NEW u \in Users, Request(k, u)
        PROVE  Life!Next \/ UNCHANGED Life!life
    <2>1. CASE Comment(k, u)
      BY <2>1, InvisibleRows DEF Comment
    <2>2. ASSUME NEW to \in States, NEW expiry, NEW revision, Dispose(k, u, to, expiry, revision)
          PROVE  Life!Next
      <3>1. Life!Dispose(k, to) /\ to \in Life!States
        BY <1>0, <2>2, DisposeLife
        DEF Life!States, Life!Active, Life!Settled, States, Active, Settled
      <3> QED
        BY <3>1 DEF Life!Next
    <2>3. ASSUME NEW revision, NEW resolution \in Settled, CloseCase(k, u, resolution, revision)
          PROVE  Life!Next
      <3>1. Life!Close(k, resolution) /\ resolution \in Life!Settled
        BY <1>0, <2>3, CloseLife DEF Life!Settled, Settled
      <3> QED
        BY <3>1 DEF Life!Next
    <2>4. ASSUME NEW revision, ReopenCase(k, u, revision) PROVE Life!Next
      BY <1>0, <2>4, ReopenLife DEF Life!Next
    <2>5. ASSUME NEW revision, ActOnCase(k, u, revision)
          PROVE  Life!Next \/ UNCHANGED Life!life
      BY <1>0, <2>3, <2>4, <2>5, StepInvisible DEF ActOnCase
    <2> QED
      BY <1>7, <2>1, <2>2, <2>5 DEF Request
  <1>8. CASE UNCHANGED vars
    BY <1>8, InvisibleRows DEF vars
  <1> QED
    BY <1>1, <1>2, <1>3, <1>4, <1>5, <1>6, <1>7, <1>8 DEF Next

LEMMA InitLife == Init => Life!Init
  <1> SUFFICES ASSUME Init PROVE Life!Init
    OBVIOUS
  <1>1. \A k \in Keys : finding[k].state = "" /\ cases[k].status = "none"
    BY DEF Init, NoFinding, NoCase
  <1> QED
    BY <1>1 DEF Life!Init

\* The program with its locks, transactions, revisions and publications keeps
\* the promise of FindingLife: every step of it is, for whoever sees only the
\* states of findings and cases, a step of a finding's life or invisible.
THEOREM Implementation == Spec => ImplementsLife
  BY InitLife, StepLife, FullInvariance, PTL DEF Spec, ImplementsLife, Life!Spec
=============================================================================
