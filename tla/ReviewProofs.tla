----------------------------- MODULE ReviewProofs -----------------------------
(***************************************************************************)
(* Theorems about Review, for every set of keys, rules, users, workflow    *)
(* definitions and every bound.                                            *)
(*                                                                         *)
(* None of the invariants is inductive by itself.  What a run has staged   *)
(* replaces committed rows when the run completes, so each of them needs   *)
(* StagedOnCommitted, which says what staged rows look like; and that one  *)
(* needs the rows' types and ClosedIsSettled, because a run would restart  *)
(* a closed case if it could meet one whose finding it reopens.            *)
(***************************************************************************)
EXTENDS Review, TLAPS

IInv == TypeOK /\ ClosedIsSettled /\ AssigneeCanWork /\ StagedOnCommitted

-----------------------------------------------------------------------------
(***************************************************************************)
(* The invariant, one finding at a time.                                   *)
(***************************************************************************)

LEMMA EmptyTuple == DOMAIN << >> = {} /\ Len(<< >>) = 0 /\ << >> \in Seq(Drafts)
  OBVIOUS

LEMMA Bounds == MaxTime \in Nat /\ MaxRevision \in Nat /\ MaxRevision # 0 /\ MaxWorkflows \in Nat
  BY ConstantsAssumption

LEMMA FindingFields ==
  ASSUME NEW f \in FindingRow
  PROVE  /\ f.state \in States \cup {""} /\ f.hash \in Hashes \cup {NoHash}
         /\ f.expiry \in Time /\ f.revision \in Revisions
  BY DEF FindingRow

LEMMA RevisionsNat == Revisions \subseteq Nat
  BY ConstantsAssumption DEF Revisions

LEMMA NextRevision ==
  ASSUME NEW n \in Revisions, n < MaxRevision
  PROVE  n + 1 \in Revisions
  BY Bounds DEF Revisions

LEMMA EventTyped ==
  ASSUME NEW actor \in Users \cup {System},
         NEW from \in States \cup {""}, NEW to \in States \cup {""}
  PROVE  Event(actor, from, to) \in TrailRow
  BY DEF Event, TrailRow

\* The next revision of a finding, within the bound.
LEMMA NewRowTyped ==
  ASSUME NEW f \in FindingRow, NEW state \in States \cup {""}, NEW hash \in Hashes \cup {NoHash},
         NEW expiry \in Time, f.revision < MaxRevision
  PROVE  NewRow(f, state, hash, expiry) \in FindingRow
  <1>1. f.revision + 1 \in Revisions
    <2>1. f.revision \in Revisions
      BY FindingFields
    <2> QED
      BY <2>1, NextRevision
  <1> QED
    BY <1>1 DEF NewRow, FindingRow

\* What IInv says of the rows of one finding.
RowOK(f, case, event) ==
    /\ f \in FindingRow /\ event \in TrailRow
    /\ case \in CaseRow /\ CaseInRange(case)
    /\ case.status = "none" => case = NoCase
    /\ case.status = "closed" => f.state \in Settled
    /\ case.status = "active" /\ case.assignee # NoUser
         => HasRole(case.assignee, StepOf(case).role)

Tables ==
    /\ finding \in [Keys -> FindingRow] /\ trail \in [Keys -> TrailRow]
    /\ cases \in [Keys -> CaseRow] /\ DOMAIN completedBy = Keys

\* Every row satisfies its part of the invariant ...
LEMMA RowsOK ==
  ASSUME IInv
  PROVE  /\ Tables /\ WorkflowsTyped /\ PublicationTyped /\ RunTyped /\ StagedOnCommitted
         /\ \A k \in Keys : RowOK(finding[k], cases[k], trail[k])
  BY DEF IInv, TypeOK, FindingsTyped, CasesTyped, ClosedIsSettled, AssigneeCanWork,
         Tables, RowOK

\* ... and the invariant holds when they all do.
LEMMA AssembleNext ==
  ASSUME Tables', WorkflowsTyped', PublicationTyped', RunTyped', StagedOnCommitted',
         \A k \in Keys : RowOK(finding[k], cases[k], trail[k])'
  PROVE  IInv'
  BY DEF IInv, TypeOK, FindingsTyped, CasesTyped, ClosedIsSettled, AssigneeCanWork,
         Tables, RowOK

LEMMA Assemble ==
  ASSUME Tables, WorkflowsTyped, PublicationTyped, RunTyped, StagedOnCommitted,
         \A k \in Keys : RowOK(finding[k], cases[k], trail[k])
  PROVE  IInv
  BY DEF IInv, TypeOK, FindingsTyped, CasesTyped, ClosedIsSettled, AssigneeCanWork,
         Tables, RowOK

\* A case goes with any row and event of its finding that leave it settled.
LEMMA AnotherRow ==
  ASSUME NEW f, NEW case, NEW event, RowOK(f, case, event),
         NEW after \in FindingRow, NEW logged \in TrailRow,
         case.status = "closed" => after.state \in Settled
  PROVE  RowOK(after, case, logged)
  BY DEF RowOK

\* A new case is at the first step of a workflow that has one.
LEMMA NewCaseFacts ==
  ASSUME WorkflowsTyped, NEW r \in DOMAIN workflows
  PROVE  /\ NewCase(r) \in CaseRow
         /\ CaseInRange(NewCase(r))
         /\ NewCase(r).status = "active" /\ NewCase(r).assignee = NoUser
         /\ NewCase(r).revision = 1
  <1> USE ConstantsAssumption
  <1>1. r \in 1 .. MaxWorkflows /\ workflows[r] \in Seq(Step) /\ Len(workflows[r]) >= 2
    BY DEF WorkflowsTyped, Valid
  <1>2. NewCase(r) \in CaseRow
    BY <1>1 DEF NewCase, CaseRow, Revisions
  <1> QED
    BY <1>1, <1>2 DEF NewCase, CaseInRange

LEMMA NewCaseFactsNext ==
  ASSUME WorkflowsTyped', NEW r \in DOMAIN workflows'
  PROVE  /\ NewCase(r) \in CaseRow
         /\ r \in DOMAIN workflows' /\ 0 < Len(workflows'[r])
         /\ NewCase(r).workflow = r /\ NewCase(r).step = 0
         /\ NewCase(r).status = "active" /\ NewCase(r).assignee = NoUser
  <1>1. r \in 1 .. MaxWorkflows /\ workflows'[r] \in Seq(Step) /\ Len(workflows'[r]) >= 2
    BY ConstantsAssumption DEF WorkflowsTyped, Valid
  <1>2. NewCase(r) \in CaseRow
    BY <1>1, Bounds DEF NewCase, CaseRow, Revisions
  <1> QED
    BY <1>1, <1>2 DEF NewCase

\* What ReconcilePresent makes of each state.
LEMMA ReconcileFacts ==
  ASSUME NEW prior \in States \cup {""}, NEW changed, NEW expiry, NEW at
  PROVE  LET state == ReconcilePresent(prior, changed, expiry, at)
         IN  \/ state = prior /\ prior # ""
             \/ prior = "" /\ state = "open"
             \/ prior \in {"suppressed", "resolved_in_source"} /\ state = "reopened"
  BY DEF ReconcilePresent, States, Active, Settled

\* A staged row may take the place of the committed one.
LEMMA StagedRowOK ==
  ASSUME IInv, NEW k \in DOMAIN staged
  PROVE  /\ k \in Keys
         /\ RowOK(staged[k].finding, staged[k].case, staged[k].trail)
  <1> DEFINE before == finding[k]
             after == staged[k].finding
  <1>1. /\ Tables /\ WorkflowsTyped /\ RunTyped /\ StagedFrom(k)
        /\ k \in DOMAIN run.flagged /\ k \in Keys /\ run.flagged[k] \in Hashes
        /\ RowOK(before, cases[k], trail[k])
    BY RowsOK DEF StagedOnCommitted, RunTyped
  <1>2. after \in FindingRow
    <2>1. before \in FindingRow
      BY <1>1 DEF RowOK
    <2>2. after.state \in States \cup {""}
      BY <1>1, <2>1 DEF StagedFrom, FindingRow, States, Active
    <2>3. /\ after = NewRow(before, after.state, run.flagged[k], before.expiry)
          /\ after.revision <= MaxRevision
      BY <1>1 DEF StagedFrom
    <2>4. before.revision < MaxRevision
      <3>1. after.revision = before.revision + 1
        BY <2>3 DEF NewRow
      <3>2. before.revision \in Nat
        BY <2>1, FindingFields, RevisionsNat
      <3> QED
        BY <2>3, <3>1, <3>2, ConstantsAssumption
    <2>5. before.expiry \in Time
      BY <2>1, FindingFields
    <2> QED
      BY <1>1, <2>1, <2>2, <2>3, <2>4, <2>5, NewRowTyped
  <1>3. staged[k].trail \in TrailRow
    <2>1. trail[k] \in TrailRow /\ before.state \in States \cup {""}
      BY <1>1 DEF RowOK, FindingRow
    <2>2. staged[k].trail = trail[k] \/ staged[k].trail = Event(System, before.state, after.state)
      BY <1>1 DEF StagedFrom
    <2>3. after.state \in States \cup {""}
      BY <1>2 DEF FindingRow
    <2> HIDE DEF after, before
    <2> QED
      BY <2>1, <2>2, <2>3, EventTyped
  <1>4. staged[k].case = cases[k] \/ \E r \in DOMAIN workflows : staged[k].case = NewCase(r)
    BY <1>1 DEF StagedFrom
  <1>5. CASE staged[k].case = cases[k]
    <2>1. cases[k].status = "closed" => after.state \in Settled
      BY <1>1 DEF StagedFrom, RowOK, Settled
    <2>2. RowOK(after, cases[k], staged[k].trail)
      BY <1>1, <1>2, <1>3, <2>1, AnotherRow
    <2> QED
      BY <1>1, <1>5, <2>2
  <1>6. ASSUME NEW r \in DOMAIN workflows, staged[k].case = NewCase(r)
        PROVE  RowOK(staged[k].finding, staged[k].case, staged[k].trail)
    BY <1>1, <1>2, <1>3, <1>6, NewCaseFacts DEF RowOK
  <1> QED
    BY <1>1, <1>4, <1>5, <1>6

-----------------------------------------------------------------------------
(***************************************************************************)
(* Each action preserves the invariant.                                    *)
(***************************************************************************)

\* The initial state.
LEMMA InitInv == Init => IInv
  <1> SUFFICES ASSUME Init PROVE IInv
    OBVIOUS
  <1>1. NoFinding \in FindingRow
    BY ConstantsAssumption DEF NoFinding, FindingRow, Time, Revisions, NoExpiry, States
  <1>2. NoCase \in CaseRow /\ NoCase.status = "none"
    BY ConstantsAssumption DEF NoCase, CaseRow, Revisions
  <1>3. Event(System, "", "") \in TrailRow
    BY DEF Event, TrailRow
  <1>4. Tables
    BY <1>1, <1>2, <1>3 DEF Init, Tables
  <1>5. \A k \in Keys : RowOK(finding[k], cases[k], trail[k])
    BY <1>1, <1>2, <1>3 DEF Init, RowOK, CaseInRange
  <1>6. WorkflowsTyped
    <2>1. DOMAIN workflows = {} /\ workflows \in Seq(Drafts) /\ Len(workflows) = 0
      BY EmptyTuple DEF Init
    <2> QED
      BY <2>1, ConstantsAssumption DEF WorkflowsTyped
  <1>7. PublicationTyped
    BY DEF Init, PublicationTyped, NoPublication
  <1>8. RunTyped
    <2>1. now = 0 /\ run.at = 0 /\ run.open = FALSE /\ run.scope = {}
      BY DEF Init, NoRun
    <2>3. now \in Time /\ run.at \in 0 .. now
      BY <2>1, Bounds DEF Time
    <2>2. DOMAIN run.flagged = {}
      BY EmptyTuple DEF Init, NoRun
    <2> QED
      BY <2>1, <2>2, <2>3 DEF RunTyped
  <1>9. StagedOnCommitted
    BY EmptyTuple DEF Init, StagedOnCommitted
  <1> QED
    BY <1>4, <1>5, <1>6, <1>7, <1>8, <1>9, Assemble

\* A run begins: nothing is staged yet.
LEMMA BeginInv ==
  ASSUME IInv, NEW scope \in SUBSET Rules, NEW present \in SUBSET Keys,
         NEW flagged \in [present -> Hashes], BeginReconcile(scope, flagged)
  PROVE  IInv'
  <1> USE RowsOK
  <1>1. UNCHANGED <<finding, cases, trail, completedBy, workflows, publication, staged, now>>
    BY DEF BeginReconcile, rows
  <1>2. Tables' /\ WorkflowsTyped' /\ PublicationTyped'
    BY <1>1 DEF Tables, WorkflowsTyped, PublicationTyped
  <1>3. \A k \in Keys : RowOK(finding[k], cases[k], trail[k])'
    BY <1>1 DEF RowOK, CaseInRange, StepOf, Steps
  <1>4. run' = [open |-> TRUE, scope |-> scope, flagged |-> flagged, at |-> now]
        /\ \A k \in DOMAIN flagged : RuleOf[k] \in scope
    BY DEF BeginReconcile
  <1>5. RunTyped'
    <2>1. now' \in Time /\ run'.at \in 0 .. now'
      BY <1>1, <1>4, Bounds DEF RunTyped, Time
    <2> QED
      BY <1>1, <1>4, <2>1 DEF RunTyped
  <1>6. StagedOnCommitted'
    <2>1. DOMAIN staged = {}
      BY DEF StagedOnCommitted, BeginReconcile
    <2> QED
      BY <1>1, <2>1 DEF StagedOnCommitted
  <1> QED
    BY <1>2, <1>3, <1>5, <1>6, AssembleNext

\* Staging one finding touches no committed row; what it stages is built on
\* the committed row because a reopened finding never has a closed case.
LEMMA ObserveInv ==
  ASSUME IInv, NEW k \in Keys, Observe(k)
  PROVE  IInv'
  <1> USE RowsOK
  <1>1. UNCHANGED <<finding, cases, trail, completedBy, workflows, publication, run, now>>
    BY DEF Observe, rows
  <1>2. Tables' /\ WorkflowsTyped' /\ PublicationTyped' /\ RunTyped'
    BY <1>1 DEF Tables, WorkflowsTyped, PublicationTyped, RunTyped
  <1>3. \A j \in Keys : RowOK(finding[j], cases[j], trail[j])'
    BY <1>1 DEF RowOK, CaseInRange, StepOf, Steps
  <1> DEFINE old == finding[k]
             state == ReconcilePresent(old.state, run.flagged[k] # old.hash, old.expiry, run.at)
             case == SyncCase(cases[k], state)
  <1>4. /\ run.open /\ k \in DOMAIN run.flagged /\ k \notin DOMAIN staged
        /\ old.revision < MaxRevision
    BY DEF Observe, Locked
  <1>5. /\ DOMAIN staged' = DOMAIN staged \cup {k}
        /\ \A j \in DOMAIN staged : staged'[j] = staged[j]
        /\ staged'[k].finding = NewRow(old, state, run.flagged[k], old.expiry)
        /\ staged'[k].case = case
        /\ staged'[k].trail = IF state # old.state
                              THEN Event(System, old.state, state) ELSE trail[k]
    BY <1>4 DEF Observe, With
  <1>6. old \in FindingRow /\ RowOK(old, cases[k], trail[k])
    BY DEF Tables
  <1>7. \/ state = old.state /\ old.state # ""
        \/ old.state = "" /\ state = "open"
        \/ old.state \in {"suppressed", "resolved_in_source"} /\ state = "reopened"
    <2>1. old.state \in States \cup {""}
      BY <1>6, FindingFields
    <2> QED
      BY <2>1 DEF ReconcilePresent, States, Active, Settled
  <1>8. case = cases[k] \/ (cases[k] = NoCase /\ \E r \in DOMAIN workflows : case = NewCase(r))
    <2>1. CASE cases[k].status = "none" /\ Len(workflows) > 0
      <3>1. Len(workflows) \in DOMAIN workflows
        BY <2>1 DEF WorkflowsTyped
      <3>2. cases[k] = NoCase /\ NewCase(Len(workflows)).status = "active"
        BY <1>6, <2>1 DEF RowOK, NewCase
      <3>3. case = NewCase(Len(workflows))
        BY <2>1, <3>2 DEF SyncCase
      <3> QED
        BY <3>1, <3>2, <3>3
    <2>2. CASE ~(cases[k].status = "none" /\ Len(workflows) > 0)
      <3>1. ~(state = "reopened" /\ cases[k].status = "closed")
        BY <1>6, <1>7 DEF RowOK, Settled
      <3> QED
        BY <2>2, <3>1 DEF SyncCase
    <2> QED
      BY <2>1, <2>2
  <1>9. StagedFrom(k)'
    <2> DEFINE new == NewRow(old, state, run.flagged[k], old.expiry)
    <2>1. new.state = state /\ new.revision = old.revision + 1
      BY DEF NewRow
    <2>2. new.revision <= MaxRevision
      <3>1. old.revision + 1 \in Revisions
        BY <1>4, <1>6, FindingFields, NextRevision
      <3> QED
        BY <2>1, <3>1, Bounds DEF Revisions
    <2>3. staged'[k].finding = NewRow(finding'[k], staged'[k].finding.state, run'.flagged[k], finding'[k].expiry)
      BY <1>1, <1>5, <2>1
    <2>4. staged'[k].finding.state = state /\ staged'[k].finding.revision <= MaxRevision
      BY <1>5, <2>1, <2>2
    <2>5. /\ finding'[k] = old /\ trail'[k] = trail[k] /\ cases'[k] = cases[k]
          /\ workflows' = workflows
      BY <1>1
    <2>6. \/ state = old.state /\ old.state # "" /\ staged'[k].trail = trail'[k]
          \/ /\ \/ old.state = "" /\ state = "open"
                \/ old.state \in {"suppressed", "resolved_in_source"} /\ state = "reopened"
             /\ staged'[k].trail = Event(System, old.state, state)
      BY <1>5, <1>7, <2>5
    <2> HIDE DEF case, state, old, new
    <2> QED
      BY <1>5, <1>8, <2>3, <2>4, <2>5, <2>6 DEF StagedFrom
  <1>10. ASSUME NEW j \in DOMAIN staged PROVE StagedFrom(j)'
    <2>1. StagedFrom(j) /\ staged'[j] = staged[j]
      BY <1>5 DEF StagedOnCommitted
    <2>2. /\ finding'[j] = finding[j] /\ cases'[j] = cases[j] /\ trail'[j] = trail[j]
          /\ run'.flagged[j] = run.flagged[j] /\ workflows' = workflows
      BY <1>1
    <2> QED
      BY <2>1, <2>2 DEF StagedFrom
  <1>11. StagedOnCommitted'
    BY <1>1, <1>4, <1>5, <1>9, <1>10 DEF StagedOnCommitted
  <1> QED
    BY <1>2, <1>3, <1>11, AssembleNext

\* Without a run nothing is staged.
LEMMA NoRunFacts ==
  ASSUME RunTyped, now' = now, run' = NoRun, staged' = << >>
  PROVE  RunTyped' /\ StagedOnCommitted'
  <1>1. /\ run'.open = FALSE /\ run'.scope = {} /\ run'.at = 0
        /\ DOMAIN run'.flagged = {} /\ DOMAIN staged' = {}
    BY EmptyTuple DEF NoRun
  <1>2. now' \in Time /\ run'.at \in 0 .. now'
    BY <1>1, Bounds DEF RunTyped, Time
  <1> QED
    BY <1>1, <1>2 DEF RunTyped, StagedOnCommitted

\* What is resolved as absent was active, so no closed case had it.
LEMMA AbsentRowOK ==
  ASSUME NEW f, NEW case, NEW event, RowOK(f, case, event),
         f.state \in Active, f.revision < MaxRevision
  PROVE  RowOK(NewRow(f, ReconcileAbsent(f.state), f.hash, f.expiry), case,
               Event(System, f.state, ReconcileAbsent(f.state)))
  <1>1. f \in FindingRow
    BY DEF RowOK
  <1>2. ReconcileAbsent(f.state) \in States
    BY DEF ReconcileAbsent, States
  <1>3. NewRow(f, ReconcileAbsent(f.state), f.hash, f.expiry) \in FindingRow
    BY <1>1, <1>2, FindingFields, NewRowTyped
  <1>4. Event(System, f.state, ReconcileAbsent(f.state)) \in TrailRow
    BY <1>1, <1>2, FindingFields, EventTyped
  <1>5. case.status # "closed"
    BY DEF RowOK, Active, Settled
  <1> QED
    BY <1>3, <1>4, <1>5, AnotherRow

\* Committing a run puts staged rows and resolved ones in place.
LEMMA CompleteInv ==
  ASSUME IInv, CompleteRun
  PROVE  IInv'
  <1> USE RowsOK
  <1>1. /\ UNCHANGED <<workflows, publication, now>>
        /\ run' = NoRun /\ staged' = << >>
    BY DEF CompleteRun
  <1>2. ASSUME NEW k \in Keys
        PROVE  RowOK(finding'[k], cases'[k], trail'[k])
    <2>1. CASE Locked(k)
      <3>1. /\ finding'[k] = staged[k].finding /\ cases'[k] = staged[k].case
            /\ trail'[k] = staged[k].trail
        BY <2>1 DEF CompleteRun
      <3>2. RowOK(staged[k].finding, staged[k].case, staged[k].trail)
        BY <2>1, StagedRowOK DEF Locked
      <3> QED
        BY <3>1, <3>2
    <2>2. CASE ~Locked(k) /\ k \in Absent
      <3>1. /\ finding'[k] = NewRow(finding[k], ReconcileAbsent(finding[k].state),
                                    finding[k].hash, finding[k].expiry)
            /\ cases'[k] = cases[k]
            /\ trail'[k] = Event(System, finding[k].state, ReconcileAbsent(finding[k].state))
        BY <2>2 DEF CompleteRun
      <3>2. finding[k].state \in Active /\ finding[k].revision < MaxRevision
        BY <2>2 DEF CompleteRun, Absent
      <3> QED
        BY <3>1, <3>2, AbsentRowOK
    <2>3. CASE ~Locked(k) /\ k \notin Absent
      <3>1. finding'[k] = finding[k] /\ cases'[k] = cases[k] /\ trail'[k] = trail[k]
        BY <2>3 DEF CompleteRun
      <3> QED
        BY <3>1
    <2> QED
      BY <2>1, <2>2, <2>3
  <1>3. ASSUME NEW k \in Keys
        PROVE  RowOK(finding[k], cases[k], trail[k])'
    BY <1>1, <1>2 DEF RowOK, CaseInRange, StepOf, Steps
  <1>4. Tables'
    <2>1. /\ finding' = [k \in Keys |-> finding'[k]] /\ trail' = [k \in Keys |-> trail'[k]]
          /\ cases' = [k \in Keys |-> cases'[k]] /\ DOMAIN completedBy' = Keys
      BY DEF CompleteRun
    <2>2. \A k \in Keys : finding'[k] \in FindingRow /\ trail'[k] \in TrailRow /\ cases'[k] \in CaseRow
      BY <1>2 DEF RowOK
    <2> QED
      BY <2>1, <2>2 DEF Tables
  <1>5. WorkflowsTyped' /\ PublicationTyped'
    BY <1>1 DEF WorkflowsTyped, PublicationTyped
  <1>6. RunTyped' /\ StagedOnCommitted'
    BY <1>1, NoRunFacts
  <1> QED
    BY <1>3, <1>4, <1>5, <1>6, AssembleNext

\* Rolling a run back forgets what it staged.
LEMMA AbortInv ==
  ASSUME IInv, AbortRun
  PROVE  IInv'
  <1> USE RowsOK
  <1>1. UNCHANGED <<finding, cases, trail, completedBy, workflows, publication, now>>
        /\ run' = NoRun /\ staged' = << >>
    BY DEF AbortRun, rows
  <1>2. Tables' /\ WorkflowsTyped' /\ PublicationTyped'
    BY <1>1 DEF Tables, WorkflowsTyped, PublicationTyped
  <1>3. \A k \in Keys : RowOK(finding[k], cases[k], trail[k])'
    BY <1>1 DEF RowOK, CaseInRange, StepOf, Steps
  <1>4. RunTyped' /\ StagedOnCommitted'
    BY <1>1, NoRunFacts
  <1> QED
    BY <1>2, <1>3, <1>4, AssembleNext

\* Opening or rolling back a publication writes no row.
LEMMA PublicationInv ==
  ASSUME IInv, UNCHANGED <<rows, workflows, run, staged, now>>, PublicationTyped'
  PROVE  IInv'
  <1> USE RowsOK
  <1>1. UNCHANGED <<finding, cases, trail, completedBy, workflows, run, staged, now>>
    BY DEF rows
  <1>2. Tables' /\ WorkflowsTyped' /\ RunTyped'
    BY <1>1 DEF Tables, WorkflowsTyped, RunTyped
  <1>3. \A k \in Keys : RowOK(finding[k], cases[k], trail[k])'
    BY <1>1 DEF RowOK, CaseInRange, StepOf, Steps
  <1>4. StagedOnCommitted'
    <2>1. ASSUME NEW j \in DOMAIN staged PROVE StagedFrom(j)'
      <3>1. StagedFrom(j)
        BY DEF StagedOnCommitted
      <3> QED
        BY <1>1, <3>1 DEF StagedFrom
    <2> QED
      BY <1>1, <2>1 DEF StagedOnCommitted
  <1> QED
    BY <1>2, <1>3, <1>4, AssembleNext

LEMMA SaveWorkflowInv ==
  ASSUME IInv, NEW draft \in Drafts, NEW revision, SaveWorkflow(draft, revision)
  PROVE  IInv'
  <1>1. /\ publication' = [open |-> TRUE, draft |-> draft,
                           keys |-> {k \in Keys : finding[k].state \in Active}]
        /\ Valid(draft) /\ Len(workflows) < MaxWorkflows
        /\ UNCHANGED <<rows, workflows, run, staged, now>>
    BY DEF SaveWorkflow
  <1>2. PublicationTyped'
    BY <1>1 DEF PublicationTyped
  <1> QED
    BY <1>1, <1>2, PublicationInv

LEMMA AbortWorkflowInv ==
  ASSUME IInv, AbortWorkflow
  PROVE  IInv'
  <1>1. /\ publication' = NoPublication
        /\ UNCHANGED <<rows, workflows, run, staged, now>>
    BY DEF AbortWorkflow
  <1>2. PublicationTyped'
    BY <1>1 DEF PublicationTyped, NoPublication
  <1> QED
    BY <1>1, <1>2, PublicationInv

\* Publishing enrols findings the run has not staged, or whose case stands.
LEMMA CommitWorkflowInv ==
  ASSUME IInv, CommitWorkflow
  PROVE  IInv'
  <1> USE RowsOK
  <1> DEFINE last == Len(workflows) + 1
  <1>1. /\ workflows' = Append(workflows, publication.draft)
        /\ UNCHANGED <<finding, trail, completedBy, run, staged, now>>
        /\ publication' = NoPublication
    BY DEF CommitWorkflow
  <1>2. publication.draft \in Drafts /\ Valid(publication.draft) /\ Len(workflows) < MaxWorkflows
    BY DEF PublicationTyped, CommitWorkflow
  <1>3. /\ workflows \in Seq(Drafts) /\ last \in DOMAIN workflows'
        /\ Len(workflows') = last /\ last \in Nat
        /\ \A i \in DOMAIN workflows' : i = last \/ i \in DOMAIN workflows
        /\ \A i \in DOMAIN workflows : workflows'[i] = workflows[i] /\ i \in DOMAIN workflows'
        /\ workflows'[last] = publication.draft
    BY <1>1 DEF WorkflowsTyped
  <1>4. WorkflowsTyped'
    <2>1. workflows' \in Seq(Drafts)
      BY <1>1, <1>2, <1>3
    <2>2. Len(workflows') <= MaxWorkflows
      BY <1>2, <1>3, Bounds
    <2>3. ASSUME NEW i \in DOMAIN workflows' PROVE Valid(workflows'[i])
      BY <1>2, <1>3 DEF WorkflowsTyped
    <2> QED
      BY <2>1, <2>2, <2>3 DEF WorkflowsTyped
  <1>5. PublicationTyped'
    BY <1>1 DEF PublicationTyped, NoPublication
  <1>6. RunTyped'
    BY <1>1 DEF RunTyped
  <1>7. ASSUME NEW k \in Keys
        PROVE  RowOK(finding[k], cases[k], trail[k])'
    <2>1. CASE k \in publication.keys /\ ~Managed(k)
      <3>1. cases'[k] = NewCase(last)
        BY <2>1 DEF CommitWorkflow
      <3>2. finding[k] \in FindingRow /\ trail[k] \in TrailRow
        BY DEF Tables
      <3> HIDE DEF last
      <3>3. /\ NewCase(last) \in CaseRow
            /\ NewCase(last).workflow \in DOMAIN workflows'
            /\ NewCase(last).step < Len(workflows'[NewCase(last).workflow])
            /\ NewCase(last).status = "active" /\ NewCase(last).assignee = NoUser
        BY <1>3, <1>4, NewCaseFactsNext
      <3> QED
        BY <1>1, <3>1, <3>2, <3>3 DEF RowOK, CaseInRange
    <2>2. CASE ~(k \in publication.keys /\ ~Managed(k))
      <3>1. cases'[k] = cases[k] /\ finding'[k] = finding[k] /\ trail'[k] = trail[k]
        BY <1>1, <2>2 DEF CommitWorkflow
      <3>2. RowOK(finding[k], cases[k], trail[k])
        OBVIOUS
      <3> QED
        BY <1>1, <1>3, <3>1, <3>2 DEF RowOK, CaseInRange, StepOf, Steps
    <2> QED
      BY <2>1, <2>2
  <1>8. Tables'
    <2>1. cases' = [k \in Keys |-> cases'[k]]
      BY DEF CommitWorkflow
    <2>2. \A k \in Keys : cases'[k] \in CaseRow
      BY <1>7 DEF RowOK
    <2> QED
      BY <1>1, <2>1, <2>2 DEF Tables
  <1>9. ASSUME NEW j \in DOMAIN staged
        PROVE  StagedFrom(j)'
    <2>1. StagedFrom(j) /\ j \in Keys
      BY DEF StagedOnCommitted, RunTyped
    <2>2. cases'[j] = cases[j]
      BY <2>1 DEF CommitWorkflow, Locked
    <2> QED
      BY <1>1, <1>3, <2>1, <2>2 DEF StagedFrom
  <1>10. StagedOnCommitted'
    BY <1>1, <1>9 DEF StagedOnCommitted
  <1> QED
    BY <1>4, <1>5, <1>6, <1>7, <1>8, <1>10, AssembleNext

LEMMA TickInv ==
  ASSUME IInv, Tick
  PROVE  IInv'
  <1> USE RowsOK
  <1>1. /\ now' = now + 1 /\ now < MaxTime
        /\ UNCHANGED <<finding, cases, trail, completedBy, workflows, publication, run, staged>>
    BY DEF Tick, rows
  <1>2. Tables' /\ WorkflowsTyped' /\ PublicationTyped'
    BY <1>1 DEF Tables, WorkflowsTyped, PublicationTyped
  <1>3. \A k \in Keys : RowOK(finding[k], cases[k], trail[k])'
    BY <1>1 DEF RowOK, CaseInRange, StepOf, Steps
  <1>4. RunTyped'
    <2>1. now' \in Time /\ run'.at \in 0 .. now'
      BY <1>1, Bounds DEF RunTyped, Time
    <2> QED
      BY <1>1, <2>1 DEF RunTyped
  <1>5. StagedOnCommitted'
    <2>1. ASSUME NEW j \in DOMAIN staged PROVE StagedFrom(j)'
      <3>1. StagedFrom(j)
        BY DEF StagedOnCommitted
      <3> QED
        BY <1>1, <3>1 DEF StagedFrom
    <2> QED
      BY <1>1, <2>1 DEF StagedOnCommitted
  <1> QED
    BY <1>2, <1>3, <1>4, <1>5, AssembleNext

\* A request changes the rows of one finding only, and only while no run has
\* them: what the run has staged stays built on what is committed.
LEMMA RequestInv ==
  ASSUME IInv, NEW k \in Keys, Free(k),
         UNCHANGED <<workflows, publication, run, staged, now>>,
         Tables',
         RowOK(finding'[k], cases'[k], trail'[k]),
         \A j \in Keys \ {k} : /\ finding'[j] = finding[j] /\ cases'[j] = cases[j]
                               /\ trail'[j] = trail[j]
  PROVE  IInv'
  <1> USE RowsOK
  <1>1. workflows' = workflows /\ publication' = publication /\ run' = run
        /\ staged' = staged /\ now' = now
    OBVIOUS
  <1>2. WorkflowsTyped' /\ PublicationTyped' /\ RunTyped'
    BY <1>1 DEF WorkflowsTyped, PublicationTyped, RunTyped
  <1>3. ASSUME NEW j \in Keys PROVE RowOK(finding[j], cases[j], trail[j])'
    <2>1. RowOK(finding'[j], cases'[j], trail'[j])
      BY j = k \/ j \in Keys \ {k}
    <2> QED
      BY <1>1, <2>1 DEF RowOK, CaseInRange, StepOf, Steps
  <1>4. ASSUME NEW j \in DOMAIN staged PROVE StagedFrom(j)'
    <2>1. StagedFrom(j) /\ j \in Keys \ {k}
      BY DEF StagedOnCommitted, RunTyped, Free, Locked
    <2> QED
      BY <1>1, <2>1 DEF StagedFrom
  <1>5. StagedOnCommitted'
    BY <1>1, <1>4 DEF StagedOnCommitted
  <1> QED
    BY <1>2, <1>3, <1>5, AssembleNext

\* The decision of a person, as rows: SetState keeps the tables typed.
LEMMA SetStateFacts ==
  ASSUME Tables, NEW k \in Keys, NEW u \in Users, NEW state \in States, NEW expiry \in Time,
         finding[k].revision < MaxRevision, SetState(k, u, state, expiry)
  PROVE  /\ finding' \in [Keys -> FindingRow] /\ trail' \in [Keys -> TrailRow]
         /\ finding'[k] \in FindingRow /\ trail'[k] \in TrailRow
         /\ finding'[k].state = state
         /\ trail'[k] = Event(u, finding[k].state, state)
         /\ \A j \in Keys \ {k} : finding'[j] = finding[j] /\ trail'[j] = trail[j]
  <1> DEFINE new == NewRow(finding[k], state, finding[k].hash, expiry)
             event == Event(u, finding[k].state, state)
  <1>1. finding[k] \in FindingRow
    BY DEF Tables
  <1>2. new \in FindingRow
    BY <1>1, FindingFields, NewRowTyped
  <1>3. event \in TrailRow
    BY <1>1, FindingFields, EventTyped
  <1>4. new.state = state
    BY DEF NewRow
  <1>5. finding' = [finding EXCEPT ![k] = new] /\ trail' = [trail EXCEPT ![k] = event]
    BY DEF SetState
  <1> HIDE DEF new
  <1> QED
    BY <1>2, <1>3, <1>4, <1>5 DEF Tables

\* What every case action starts from.
LEMMA ActFacts ==
  ASSUME IInv, NEW k \in Keys, NEW u, NEW revision, MayAct(k, u, revision)
  PROVE  /\ Free(k) /\ cases[k] \in CaseRow /\ cases[k].revision < MaxRevision
         /\ cases[k].step \in Nat /\ cases[k].assignee \in Users \cup {NoUser}
         /\ cases[k].last \in Users \cup {NoUser}
         /\ cases[k].status \in {"active", "closed"}
         /\ cases[k].workflow \in DOMAIN workflows
         /\ cases[k].step < Len(workflows[cases[k].workflow])
         /\ Len(workflows[cases[k].workflow]) \in Nat
         /\ Len(workflows[cases[k].workflow]) >= 2
         /\ RowOK(finding[k], cases[k], trail[k]) /\ Tables
  <1> USE RowsOK
  <1>1. /\ Free(k) /\ cases[k].revision < MaxRevision /\ cases[k].status # "none"
    BY DEF MayAct, Managed
  <1>2. RowOK(finding[k], cases[k], trail[k]) /\ Tables
    OBVIOUS
  <1>3. cases[k] \in CaseRow /\ CaseInRange(cases[k])
    BY <1>2 DEF RowOK
  <1>4. /\ cases[k].step \in Nat /\ cases[k].assignee \in Users \cup {NoUser}
        /\ cases[k].last \in Users \cup {NoUser}
        /\ cases[k].status \in {"none", "active", "closed"}
    BY <1>3 DEF CaseRow
  <1>5. /\ cases[k].workflow \in DOMAIN workflows
        /\ cases[k].step < Len(workflows[cases[k].workflow])
    BY <1>1, <1>3 DEF CaseInRange
  <1>6. /\ Len(workflows[cases[k].workflow]) \in Nat
        /\ Len(workflows[cases[k].workflow]) >= 2
    <2>1. workflows[cases[k].workflow] \in Seq(Step) /\ Valid(workflows[cases[k].workflow])
      BY <1>5, ConstantsAssumption DEF WorkflowsTyped
    <2> QED
      BY <2>1 DEF Valid
  <1> QED
    BY <1>1, <1>2, <1>3, <1>4, <1>5, <1>6

\* A case action gives the case a next step of its workflow; the invariant
\* asks that this step exists, that its assignee can do it, and that a closed
\* case's finding is settled.
LEMMA CaseInv ==
  ASSUME IInv, NEW k \in Keys, NEW u \in Users, NEW revision, MayAct(k, u, revision),
         NEW status \in {"active", "closed"}, NEW step \in Nat,
         NEW assignee \in Users \cup {NoUser}, NEW last \in Users \cup {NoUser},
         cases' = [cases EXCEPT ![k] = NewStep(cases[k], status, step, assignee, last)],
         step < Len(workflows[cases[k].workflow]),
         status = "active" /\ assignee # NoUser
             => HasRole(assignee, workflows[cases[k].workflow][step + 1].role),
         finding' \in [Keys -> FindingRow], trail' \in [Keys -> TrailRow],
         DOMAIN completedBy' = Keys,
         \A j \in Keys \ {k} : finding'[j] = finding[j] /\ trail'[j] = trail[j],
         status = "closed" => finding'[k].state \in Settled,
         UNCHANGED <<workflows, publication, run, staged, now>>
  PROVE  IInv'
  <1> DEFINE new == NewStep(cases[k], status, step, assignee, last)
  <1>1. /\ Free(k) /\ cases[k] \in CaseRow /\ cases[k].revision < MaxRevision
        /\ cases[k].workflow \in DOMAIN workflows /\ Tables
    BY ActFacts
  <1>2. /\ new \in CaseRow
        /\ new.status = status /\ new.workflow = cases[k].workflow /\ new.step = step
        /\ new.assignee = assignee
    <2>1. cases[k].revision \in Revisions /\ cases[k].workflow \in 0 .. MaxWorkflows
      BY <1>1 DEF CaseRow
    <2>2. cases[k].revision + 1 \in Revisions
      BY <1>1, <2>1, NextRevision
    <2> QED
      BY <2>1, <2>2 DEF NewStep, CaseRow
  <1>3. cases' = [cases EXCEPT ![k] = new]
    OBVIOUS
  <1> HIDE DEF new
  <1>4. /\ cases' \in [Keys -> CaseRow] /\ cases'[k] = new
        /\ \A j \in Keys \ {k} : cases'[j] = cases[j]
    BY <1>1, <1>2, <1>3 DEF Tables
  <1>5. Tables'
    BY <1>4 DEF Tables
  <1>6. CaseInRange(new)
    BY <1>1, <1>2 DEF CaseInRange
  <1>7. new.status = "active" /\ new.assignee # NoUser => HasRole(new.assignee, StepOf(new).role)
    BY <1>2 DEF StepOf, Steps
  <1>8. finding'[k] \in FindingRow /\ trail'[k] \in TrailRow
    OBVIOUS
  <1>9. RowOK(finding'[k], new, trail'[k])
    BY <1>2, <1>6, <1>7, <1>8 DEF RowOK
  <1> QED
    BY <1>1, <1>4, <1>5, <1>9, RequestInv

LEMMA DisposeInv ==
  ASSUME IInv, NEW k \in Keys, NEW u \in Users, NEW to \in States,
         NEW expiry \in Time, NEW revision, Dispose(k, u, to, expiry, revision)
  PROVE  IInv'
  <1> USE RowsOK
  <1>1. /\ Free(k) /\ finding[k].revision < MaxRevision /\ cases[k].status = "none"
        /\ SetState(k, u, to, expiry)
        /\ UNCHANGED <<cases, completedBy, workflows, publication, run, staged, now>>
    BY DEF Dispose, Disposable, Managed
  <1>2. /\ finding' \in [Keys -> FindingRow] /\ trail' \in [Keys -> TrailRow]
        /\ finding'[k] \in FindingRow /\ trail'[k] \in TrailRow
        /\ \A j \in Keys \ {k} : finding'[j] = finding[j] /\ trail'[j] = trail[j]
    BY <1>1, SetStateFacts
  <1>3. Tables'
    BY <1>1, <1>2 DEF Tables
  <1>4. RowOK(finding'[k], cases[k], trail'[k])
    BY <1>1, <1>2, AnotherRow
  <1> QED
    BY <1>1, <1>2, <1>3, <1>4, RequestInv

LEMMA CommentInv ==
  ASSUME IInv, NEW k \in Keys, NEW u \in Users, Comment(k, u)
  PROVE  IInv'
  <1> USE RowsOK
  <1> DEFINE event == Event(u, finding[k].state, finding[k].state)
  <1>1. /\ Free(k) /\ trail' = [trail EXCEPT ![k] = event]
        /\ UNCHANGED <<finding, cases, completedBy, workflows, publication, run, staged, now>>
    BY DEF Comment
  <1>2. RowOK(finding[k], cases[k], trail[k]) /\ Tables
    OBVIOUS
  <1>3. finding[k] \in FindingRow
    BY <1>2 DEF Tables
  <1>4. event \in TrailRow
    BY <1>3, FindingFields, EventTyped
  <1>5. RowOK(finding[k], cases[k], event)
    BY <1>2, <1>3, <1>4, AnotherRow DEF RowOK
  <1> HIDE DEF event
  <1>6. /\ trail' \in [Keys -> TrailRow] /\ trail'[k] = event
        /\ \A j \in Keys \ {k} : trail'[j] = trail[j]
    BY <1>1, <1>2, <1>4 DEF Tables
  <1>7. Tables'
    BY <1>1, <1>2, <1>6 DEF Tables
  <1> QED
    BY <1>1, <1>5, <1>6, <1>7, RequestInv

LEMMA ReopenInv ==
  ASSUME IInv, NEW k \in Keys, NEW u \in Users, NEW revision, ReopenCase(k, u, revision)
  PROVE  IInv'
  <1>1. /\ MayAct(k, u, revision) /\ finding[k].revision < MaxRevision
        /\ cases' = [cases EXCEPT ![k] = NewStep(cases[k], "active", 0, NoUser, NoUser)]
        /\ DOMAIN completedBy' = DOMAIN completedBy
        /\ SetState(k, u, "in_review", finding[k].expiry)
        /\ UNCHANGED <<workflows, publication, run, staged, now>>
    BY DEF ReopenCase, Restarted
  <1>2. Tables /\ 0 < Len(workflows[cases[k].workflow])
    BY <1>1, ActFacts
  <1>3. finding[k].expiry \in Time
    BY <1>2, FindingFields DEF Tables
  <1>4. /\ finding' \in [Keys -> FindingRow] /\ trail' \in [Keys -> TrailRow]
        /\ \A j \in Keys \ {k} : finding'[j] = finding[j] /\ trail'[j] = trail[j]
    BY <1>1, <1>2, <1>3, SetStateFacts DEF States, Active
  <1>5. DOMAIN completedBy' = Keys
    BY <1>1, <1>2 DEF Tables
  <1> QED
    BY <1>1, <1>2, <1>4, <1>5, CaseInv

LEMMA AssignInv ==
  ASSUME IInv, NEW k \in Keys, NEW u \in Users, NEW assignee \in Users \cup {NoUser},
         NEW revision, AssignCase(k, u, assignee, revision)
  PROVE  IInv'
  <1>1. /\ MayAct(k, u, revision)
        /\ assignee # NoUser => HasRole(assignee, StepOf(cases[k]).role)
        /\ cases' = [cases EXCEPT ![k] = NewStep(cases[k], "active", cases[k].step, assignee, cases[k].last)]
        /\ UNCHANGED <<finding, trail, completedBy, workflows, publication, run, staged, now>>
    BY DEF AssignCase
  <1>2. /\ Tables /\ cases[k].step \in Nat /\ cases[k].last \in Users \cup {NoUser}
        /\ cases[k].step < Len(workflows[cases[k].workflow])
    BY <1>1, ActFacts
  <1>3. /\ finding' \in [Keys -> FindingRow] /\ trail' \in [Keys -> TrailRow]
        /\ DOMAIN completedBy' = Keys
        /\ \A j \in Keys \ {k} : finding'[j] = finding[j] /\ trail'[j] = trail[j]
    BY <1>1, <1>2 DEF Tables
  <1>4. assignee # NoUser => HasRole(assignee, workflows[cases[k].workflow][cases[k].step + 1].role)
    BY <1>1 DEF StepOf, Steps
  <1> QED
    BY <1>1, <1>2, <1>3, <1>4, CaseInv

LEMMA ReturnInv ==
  ASSUME IInv, NEW k \in Keys, NEW u \in Users, NEW revision, ReturnCase(k, u, revision)
  PROVE  IInv'
  <1>1. /\ MayAct(k, u, revision) /\ cases[k].step > 0
        /\ cases' = [cases EXCEPT ![k] = NewStep(cases[k], "active", cases[k].step - 1, NoUser, cases[k].last)]
        /\ UNCHANGED <<finding, trail, completedBy, workflows, publication, run, staged, now>>
    BY DEF ReturnCase
  <1>2. /\ Tables /\ cases[k].step \in Nat /\ cases[k].last \in Users \cup {NoUser}
        /\ cases[k].step < Len(workflows[cases[k].workflow])
        /\ Len(workflows[cases[k].workflow]) \in Nat
    BY <1>1, ActFacts
  <1>3. /\ finding' \in [Keys -> FindingRow] /\ trail' \in [Keys -> TrailRow]
        /\ DOMAIN completedBy' = Keys
        /\ \A j \in Keys \ {k} : finding'[j] = finding[j] /\ trail'[j] = trail[j]
    BY <1>1, <1>2 DEF Tables
  <1>4. cases[k].step - 1 \in Nat /\ cases[k].step - 1 < Len(workflows[cases[k].workflow])
    BY <1>1, <1>2
  <1> QED
    BY <1>1, <1>2, <1>3, <1>4, CaseInv

LEMMA AdvanceInv ==
  ASSUME IInv, NEW k \in Keys, NEW u \in Users, NEW revision, AdvanceCase(k, u, revision)
  PROVE  IInv'
  <1>1. /\ MayAct(k, u, revision) /\ ~LastStep(cases[k])
        /\ cases' = [cases EXCEPT ![k] = NewStep(cases[k], "active", cases[k].step + 1, NoUser, u)]
        /\ DOMAIN completedBy' = DOMAIN completedBy
        /\ UNCHANGED <<finding, trail, workflows, publication, run, staged, now>>
    BY DEF AdvanceCase
  <1>2. /\ Tables /\ cases[k].step \in Nat
        /\ cases[k].step < Len(workflows[cases[k].workflow])
        /\ Len(workflows[cases[k].workflow]) \in Nat
    BY <1>1, ActFacts
  <1>3. /\ finding' \in [Keys -> FindingRow] /\ trail' \in [Keys -> TrailRow]
        /\ DOMAIN completedBy' = Keys
        /\ \A j \in Keys \ {k} : finding'[j] = finding[j] /\ trail'[j] = trail[j]
    BY <1>1, <1>2 DEF Tables
  <1>4. cases[k].step + 1 \in Nat /\ cases[k].step + 1 < Len(workflows[cases[k].workflow])
    BY <1>1, <1>2 DEF LastStep, Steps
  <1> QED
    BY <1>1, <1>2, <1>3, <1>4, CaseInv

LEMMA CloseInv ==
  ASSUME IInv, NEW k \in Keys, NEW u \in Users, NEW resolution \in Settled,
         NEW revision, CloseCase(k, u, resolution, revision)
  PROVE  IInv'
  <1>1. /\ MayAct(k, u, revision) /\ finding[k].revision < MaxRevision
        /\ cases' = [cases EXCEPT ![k] = NewStep(cases[k], "closed", cases[k].step, NoUser, u)]
        /\ DOMAIN completedBy' = DOMAIN completedBy
        /\ SetState(k, u, resolution, NoExpiry)
        /\ UNCHANGED <<workflows, publication, run, staged, now>>
    BY DEF CloseCase
  <1>2. /\ Tables /\ cases[k].step \in Nat
        /\ cases[k].step < Len(workflows[cases[k].workflow])
    BY <1>1, ActFacts
  <1>3. resolution \in States /\ NoExpiry \in Time
    BY Bounds DEF States, NoExpiry, Time
  <1>4. /\ finding' \in [Keys -> FindingRow] /\ trail' \in [Keys -> TrailRow]
        /\ finding'[k].state = resolution
        /\ \A j \in Keys \ {k} : finding'[j] = finding[j] /\ trail'[j] = trail[j]
    BY <1>1, <1>2, <1>3, SetStateFacts
  <1>5. DOMAIN completedBy' = Keys
    BY <1>1, <1>2 DEF Tables
  <1> QED
    BY <1>1, <1>2, <1>4, <1>5, CaseInv

-----------------------------------------------------------------------------
(***************************************************************************)
(* The theorems.                                                           *)
(***************************************************************************)

LEMMA StepInv == IInv /\ [Next]_vars => IInv'
  <1> SUFFICES ASSUME IInv, [Next]_vars PROVE IInv'
    OBVIOUS
  <1>1. ASSUME NEW scope \in SUBSET Rules, NEW present \in SUBSET Keys,
               NEW flagged \in [present -> Hashes], BeginReconcile(scope, flagged)
        PROVE  IInv'
    BY <1>1, BeginInv
  <1>2. ASSUME NEW k \in Keys, Observe(k) PROVE IInv'
    BY <1>2, ObserveInv
  <1>3. CASE CompleteRun
    BY <1>3, CompleteInv
  <1>4. CASE AbortRun
    BY <1>4, AbortInv
  <1>5. ASSUME NEW draft \in Drafts, NEW revision \in 0 .. MaxWorkflows,
               SaveWorkflow(draft, revision)
        PROVE  IInv'
    BY <1>5, SaveWorkflowInv
  <1>6. CASE CommitWorkflow
    BY <1>6, CommitWorkflowInv
  <1>7. CASE AbortWorkflow
    BY <1>7, AbortWorkflowInv
  <1>8. ASSUME NEW k \in Keys, NEW u \in Users, Request(k, u) PROVE IInv'
    <2>1. CASE Comment(k, u)
      BY <2>1, CommentInv
    <2>2. ASSUME NEW to \in States, NEW expiry \in 0 .. MaxTime, NEW revision \in Revisions,
                 Dispose(k, u, to, expiry, revision)
          PROVE  IInv'
      BY <2>2, DisposeInv DEF Time
    <2>3. ASSUME NEW revision \in Revisions, ActOnCase(k, u, revision) PROVE IInv'
      BY <2>3, ReopenInv, AssignInv, ReturnInv, AdvanceInv, CloseInv DEF ActOnCase
    <2> QED
      BY <1>8, <2>1, <2>2, <2>3 DEF Request
  <1>9. CASE Tick
    BY <1>9, TickInv
  <1>10. CASE UNCHANGED vars
    <2>1. UNCHANGED <<rows, workflows, run, staged, now>> /\ PublicationTyped'
      BY <1>10, RowsOK DEF vars, rows, PublicationTyped
    <2> QED
      BY <2>1, PublicationInv
  <1> QED
    BY <1>1, <1>2, <1>3, <1>4, <1>5, <1>6, <1>7, <1>8, <1>9, <1>10 DEF Next

LEMMA Invariance == Spec => []IInv
  BY InitInv, StepInv, PTL DEF Spec

\* No request, run or publication leaves a row outside its type, or a case
\* beyond the steps of the workflow revision it was enrolled in: ActOnCase's
\* index check never fires on a row the program wrote.
THEOREM TypeCorrect == Spec => []TypeOK
  <1>1. IInv => TypeOK
    BY DEF IInv
  <1> QED
    BY <1>1, Invariance, PTL

\* Whatever runs, requests and publications interleave, the finding of a
\* closed case is accepted or dismissed: no case stays closed beside a finding
\* that somebody still has to look at.
THEOREM ClosedSettled == Spec => []ClosedIsSettled
  <1>1. IInv => ClosedIsSettled
    BY DEF IInv
  <1> QED
    BY <1>1, Invariance, PTL

\* A case never waits for somebody without the role of its current step, so
\* the check "assignee is the caller" never shuts everybody out by itself.
THEOREM AssigneeAble == Spec => []AssigneeCanWork
  <1>1. IInv => AssigneeCanWork
    BY DEF IInv
  <1> QED
    BY <1>1, Invariance, PTL

\* The row locks of the worker, of the requests and of the publication rule
\* out lost updates: whatever a run commits extends the rows as they are.
THEOREM NoLostUpdate == Spec => []StagedOnCommitted
  <1>1. IInv => StagedOnCommitted
    BY DEF IInv
  <1> QED
    BY <1>1, Invariance, PTL
=============================================================================
