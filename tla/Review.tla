-------------------------------- MODULE Review --------------------------------
(***************************************************************************)
(* Findings and their review cases, as the API and the worker change them  *)
(* in PostgreSQL at READ COMMITTED.                                        *)
(*                                                                         *)
(* A request of the API (Dispose, Comment, the case actions) locks the     *)
(* finding's row first and commits at once, so it is one step.  Two        *)
(* transactions are not one step, because what they read and what they     *)
(* write is seen by others at different times:                             *)
(*                                                                         *)
(*   - the worker's reconciliation locks one flagged finding after the     *)
(*     other and keeps its writes to itself ("staged") until it commits;   *)
(*   - the publication of a workflow chooses the findings to enrol when    *)
(*     its INSERT .. SELECT starts, and waits for the rows the worker      *)
(*     holds before it can commit.  It holds the tenant row meanwhile,     *)
(*     which every request that writes an audit event needs.               *)
(***************************************************************************)
EXTENDS Lifecycle, Access, Sequences

CONSTANTS
    Keys,          \* exception keys: one per (rule, entity, period)
    RuleOf,        \* the rule each key belongs to
    Hashes,        \* hashes of the source fields a finding consumed
    NoHash,        \* the hash of a finding without a row
    Users,         \* enabled local accounts
    NoUser,        \* the empty assignee or last actor
    UserRoles,     \* the roles of each account
    Drafts,        \* workflow definitions an administrator may submit
    MaxTime,       \* bound on the clock
    MaxRevision,   \* bound on every row's revision
    MaxWorkflows   \* bound on the number of published definitions

Rules == {RuleOf[k] : k \in Keys}
System == "system"   \* the actor of what a run does

Step == [role : Roles, different : BOOLEAN]

ASSUME ConstantsAssumption ==
    /\ RuleOf \in [Keys -> Rules]
    /\ UserRoles \in [Users -> SUBSET Roles]
    /\ System \notin Users
    /\ Drafts \subseteq Seq(Step)
    /\ MaxTime \in Nat /\ MaxRevision \in Nat \ {0} /\ MaxWorkflows \in Nat

VARIABLES
    finding,       \* table exception: the mutable part of each row
    cases,         \* table review_case
    trail,         \* the latest row of exception_event for each finding
    completedBy,   \* case_event: who last completed each step since the case (re)opened
    workflows,     \* table workflow_definition, in order of revision
    publication,   \* the open transaction of SaveWorkflow
    run,           \* the run the worker is reconciling
    staged,        \* rows the reconciliation has written and not committed
    now            \* the clock

rows == <<finding, cases, trail, completedBy>>
vars == <<finding, cases, trail, completedBy, workflows, publication, run, staged, now>>

-----------------------------------------------------------------------------

NoFinding == [state |-> "", hash |-> NoHash, expiry |-> NoExpiry, revision |-> 0]
NoCase == [status |-> "none", workflow |-> 0, step |-> 0,
           assignee |-> NoUser, last |-> NoUser, revision |-> 0]
NewCase(workflow) == [status |-> "active", workflow |-> workflow, step |-> 0,
                      assignee |-> NoUser, last |-> NoUser, revision |-> 1]

NoRun == [open |-> FALSE, scope |-> {}, flagged |-> << >>, at |-> 0]
NoPublication == [open |-> FALSE, draft |-> << >>, keys |-> {}]
Nobody == << >>
Event(actor, from, to) == [actor |-> actor, from |-> from, to |-> to]

Init ==
    /\ finding = [k \in Keys |-> NoFinding]
    /\ cases = [k \in Keys |-> NoCase]
    /\ trail = [k \in Keys |-> Event(System, "", "")]
    /\ completedBy = [k \in Keys |-> Nobody]
    /\ workflows = << >>
    /\ publication = NoPublication
    /\ run = NoRun
    /\ staged = << >>
    /\ now = 0

Managed(k) == cases[k].status # "none"
Locked(k) == k \in DOMAIN staged
\* The two UPDATE statements: both increment the row's revision.
NewRow(f, state, hash, expiry) ==
    [state |-> state, hash |-> hash, expiry |-> expiry, revision |-> f.revision + 1]

NewStep(case, status, step, assignee, last) ==
    [status |-> status, workflow |-> case.workflow, step |-> step,
     assignee |-> assignee, last |-> last, revision |-> case.revision + 1]

With(f, x, y) == [z \in DOMAIN f \cup {x} |-> IF z = x THEN y ELSE f[z]]

-----------------------------------------------------------------------------
(***************************************************************************)
(* The worker's reconciliation.                                            *)
(***************************************************************************)

\* Slip: the case keeps its status, so a reopened case is still closed.
Restarted_SameStatus(case) == NewStep(case, case.status, 0, NoUser, NoUser)

\* A case that starts over, at its first step and with nobody on it.
Restarted(case) == NewStep(case, "active", 0, NoUser, NoUser)

\* syncCase: enrol an observed finding in the latest workflow, and restart
\* the closed case of a finding that reopened.
SyncCase(case, state) ==
    LET enrolled == IF case.status = "none" /\ Len(workflows) > 0
                    THEN NewCase(Len(workflows)) ELSE case
    IN  IF state = "reopened" /\ enrolled.status = "closed"
        THEN Restarted(enrolled) ELSE enrolled

\* The run reaches "reconcile": its scope and the findings it flagged, with
\* the hash of what each one consumed, are known; so is the time it uses.
BeginReconcile(scope, flagged) ==
    /\ ~run.open
    /\ \A k \in DOMAIN flagged : RuleOf[k] \in scope
    /\ run' = [open |-> TRUE, scope |-> scope, flagged |-> flagged, at |-> now]
    /\ UNCHANGED <<rows, workflows, publication, staged, now>>

\* observe: lock one flagged finding, reconcile it, log the change, sync its case.
Observe(k) ==
    /\ run.open
    /\ k \in DOMAIN run.flagged /\ ~Locked(k)
    /\ finding[k].revision < MaxRevision
    /\ LET old == finding[k]
           hash == run.flagged[k]
           state == ReconcilePresent(old.state, hash # old.hash, old.expiry, run.at)
           case == SyncCase(cases[k], state)
           row == [finding |-> NewRow(old, state, hash, old.expiry),
                   case |-> case,
                   trail |-> IF state # old.state
                             THEN Event(System, old.state, state) ELSE trail[k],
                   completedBy |-> IF case.status = "active" /\ cases[k].status # "active"
                                   THEN Nobody ELSE completedBy[k]]
       IN  staged' = With(staged, k, row)
    /\ UNCHANGED <<rows, workflows, publication, run, now>>

\* Slip: a finding the run did not flag is resolved whatever its rule.
Absent_AnyRule == {k \in Keys : k \notin DOMAIN run.flagged /\ finding[k].state \in Active}

\* The active findings of the tested rules that the run did not flag.
Absent == {k \in Keys : /\ RuleOf[k] \in run.scope
                        /\ k \notin DOMAIN run.flagged
                        /\ finding[k].state \in Active}

\* Resolve what is absent, then commit everything the run wrote.
CompleteRun ==
    /\ run.open
    /\ DOMAIN run.flagged \subseteq DOMAIN staged
    /\ \A k \in Absent : finding[k].revision < MaxRevision
    /\ finding' = [k \in Keys |->
         IF Locked(k) THEN staged[k].finding
         ELSE IF k \in Absent
         THEN NewRow(finding[k], ReconcileAbsent(finding[k].state), finding[k].hash, finding[k].expiry)
         ELSE finding[k]]
    /\ trail' = [k \in Keys |->
         IF Locked(k) THEN staged[k].trail
         ELSE IF k \in Absent
         THEN Event(System, finding[k].state, ReconcileAbsent(finding[k].state))
         ELSE trail[k]]
    /\ cases' = [k \in Keys |-> IF Locked(k) THEN staged[k].case ELSE cases[k]]
    /\ completedBy' = [k \in Keys |->
         IF Locked(k) THEN staged[k].completedBy ELSE completedBy[k]]
    /\ run' = NoRun /\ staged' = << >>
    /\ UNCHANGED <<workflows, publication, now>>

\* An error, a lost worker or a deadlock rolls the reconciliation back.
AbortRun ==
    /\ run.open
    /\ run' = NoRun /\ staged' = << >>
    /\ UNCHANGED <<rows, workflows, publication, now>>

-----------------------------------------------------------------------------
(***************************************************************************)
(* Publication of a workflow: SaveWorkflow.                                *)
(***************************************************************************)

\* Workflow.Validate (the limits on names and on the number of steps are
\* properties of the submitted text and are not modelled).
Valid(draft) ==
    /\ Len(draft) >= 2 /\ ~draft[1].different
    /\ \A i \in DOMAIN draft : draft[i].role # "admin"

\* The tenant row is locked, the revision agrees, the definition is inserted
\* and the statement that enrols has taken its snapshot.
SaveWorkflow(draft, revision) ==
    /\ ~publication.open
    /\ Valid(draft)
    /\ revision = Len(workflows)
    /\ Len(workflows) < MaxWorkflows
    /\ publication' = [open |-> TRUE, draft |-> draft,
                       keys |-> {k \in Keys : finding[k].state \in Active}]
    /\ UNCHANGED <<rows, workflows, run, staged, now>>

\* Every row it enrols is free; rows that already have a case are skipped.
CommitWorkflow ==
    /\ publication.open
    /\ \A k \in publication.keys : Locked(k) => Managed(k)
    /\ workflows' = Append(workflows, publication.draft)
    /\ cases' = [k \in Keys |->
         IF k \in publication.keys /\ ~Managed(k)
         THEN NewCase(Len(workflows) + 1) ELSE cases[k]]
    /\ publication' = NoPublication
    /\ UNCHANGED <<finding, trail, completedBy, run, staged, now>>

\* A deadlock with a request or with the worker, or any other error.
AbortWorkflow ==
    /\ publication.open
    /\ publication' = NoPublication
    /\ UNCHANGED <<rows, workflows, run, staged, now>>

-----------------------------------------------------------------------------
(***************************************************************************)
(* Requests on a finding.                                                  *)
(***************************************************************************)

\* Slip: the row is read without FOR UPDATE.
Free_NoLock(k) == finding[k].state # ""

\* Nobody else holds the finding's row.
Free(k) == ~Locked(k) /\ finding[k].state # ""

\* Slip: the audit event is written by another transaction, and waits for nobody.
Auditable_Always == TRUE

\* ... and the audit event can be written.
Auditable == ~publication.open

\* Slips: no event is written; the revision is not incremented.
SetState_NoEvent(k, u, state, expiry) ==
    /\ finding' = [finding EXCEPT ![k] = NewRow(@, state, @.hash, expiry)]
    /\ UNCHANGED trail

SetState_SameRevision(k, u, state, expiry) ==
    /\ finding' = [finding EXCEPT ![k].state = state, ![k].expiry = expiry]
    /\ trail' = [trail EXCEPT ![k] = Event(u, finding[k].state, state)]

\* The finding takes a state that a person decided, and the trail says so.
SetState(k, u, state, expiry) ==
    /\ finding' = [finding EXCEPT ![k] = NewRow(@, state, @.hash, expiry)]
    /\ trail' = [trail EXCEPT ![k] = Event(u, finding[k].state, state)]

\* Slip: the finding is not looked up in review_case.
Disposable_Always(k) == TRUE

\* A finding with a case is decided through the case.
Disposable(k) == ~Managed(k)

\* Dispose: an individual disposition, for findings without a case.
Dispose(k, u, to, expiry, revision) ==
    /\ revision = finding[k].revision /\ revision < MaxRevision
    /\ Free(k) /\ Auditable
    /\ Disposable(k)
    /\ Allowed(UserRoles[u], "exceptions.write")
    /\ Transition(finding[k].state, to, expiry, now)
    /\ SetState(k, u, to, expiry)
    /\ UNCHANGED <<cases, completedBy, workflows, publication, run, staged, now>>

\* Comment: a note in the trail that changes no disposition.
Comment(k, u) ==
    /\ Allowed(UserRoles[u], "exceptions.write")
    /\ Free(k)
    /\ trail' = [trail EXCEPT ![k] = Event(u, finding[k].state, finding[k].state)]
    /\ UNCHANGED <<finding, cases, completedBy, workflows, publication, run, staged, now>>

-----------------------------------------------------------------------------
(***************************************************************************)
(* Requests on a case: ActOnCase.                                          *)
(***************************************************************************)

Steps(case) == workflows[case.workflow]
StepOf(case) == Steps(case)[case.step + 1]

\* Slip: the last step is looked for one too far.
LastStep_OffByOne(case) == case.step = Len(Steps(case))

LastStep(case) == case.step + 1 = Len(Steps(case))
HasRole(u, role) == role \in UserRoles[u]

\* What every case action checks: the caller, the locks, the case's revision.
MayAct(k, u, revision) ==
    /\ revision = cases[k].revision /\ revision < MaxRevision
    /\ Managed(k)
    /\ Free(k) /\ Auditable
    /\ Allowed(UserRoles[u], "cases.write")

\* Slip: anybody may reopen.
MayReopen_Anybody(k, u) == cases[k].status = "closed"

MayReopen(k, u) == cases[k].status = "closed" /\ HasRole(u, Manager)

\* Slip: the finding keeps its resolution.
ReopenCase_Resolved(k, u, revision) ==
    /\ MayAct(k, u, revision)
    /\ MayReopen(k, u)
    /\ cases' = [cases EXCEPT ![k] = Restarted(@)]
    /\ completedBy' = [completedBy EXCEPT ![k] = Nobody]
    /\ UNCHANGED <<finding, trail, workflows, publication, run, staged, now>>

\* A manager reopens a closed case; its finding goes back into review.
ReopenCase(k, u, revision) ==
    /\ MayAct(k, u, revision)
    /\ MayReopen(k, u)
    /\ finding[k].revision < MaxRevision
    /\ cases' = [cases EXCEPT ![k] = Restarted(@)]
    /\ completedBy' = [completedBy EXCEPT ![k] = Nobody]
    /\ SetState(k, u, "in_review", finding[k].expiry)
    /\ UNCHANGED <<workflows, publication, run, staged, now>>

\* Assignment: a manager names anybody who can act, others only themselves
\* and only when nobody else has the case.
AssignCase(k, u, assignee, revision) ==
    /\ MayAct(k, u, revision)
    /\ cases[k].status = "active"
    /\ LET role == StepOf(cases[k]).role IN
       /\ \/ HasRole(u, Manager)
          \/ HasRole(u, role) /\ assignee = u /\ cases[k].assignee \in {NoUser, u}
       /\ assignee # NoUser => HasRole(assignee, role)
    /\ cases' = [cases EXCEPT ![k] = NewStep(@, "active", @.step, assignee, @.last)]
    /\ UNCHANGED <<finding, trail, completedBy, workflows, publication, run, staged, now>>

\* Whoever completes or returns a step has its role and, if it is assigned, is
\* the assignee.
MayWork(k, u) ==
    /\ cases[k].status = "active"
    /\ HasRole(u, StepOf(cases[k]).role)
    /\ cases[k].assignee \in {NoUser, u}

\* return: back to the previous step, for corrections.
ReturnCase(k, u, revision) ==
    /\ MayAct(k, u, revision) /\ MayWork(k, u)
    /\ cases[k].step > 0
    /\ cases' = [cases EXCEPT ![k] = NewStep(@, "active", @.step - 1, NoUser, @.last)]
    /\ UNCHANGED <<finding, trail, completedBy, workflows, publication, run, staged, now>>

\* A step that asks for a different person refuses the last one to advance.
MayAdvance(k, u) ==
    /\ MayWork(k, u)
    /\ StepOf(cases[k]).different => cases[k].last # u

\* Slip: the assignee of the completed step is kept for the next.
AdvanceCase_KeepsAssignee(k, u, revision) ==
    /\ MayAct(k, u, revision) /\ MayAdvance(k, u)
    /\ ~LastStep(cases[k])
    /\ cases' = [cases EXCEPT ![k] = NewStep(@, "active", @.step + 1, @.assignee, u)]
    /\ completedBy' = [completedBy EXCEPT ![k] = With(@, cases[k].step, u)]
    /\ UNCHANGED <<finding, trail, workflows, publication, run, staged, now>>

\* advance, before the last step.
AdvanceCase(k, u, revision) ==
    /\ MayAct(k, u, revision) /\ MayAdvance(k, u)
    /\ ~LastStep(cases[k])
    /\ cases' = [cases EXCEPT ![k] = NewStep(@, "active", @.step + 1, NoUser, u)]
    /\ completedBy' = [completedBy EXCEPT ![k] = With(@, cases[k].step, u)]
    /\ UNCHANGED <<finding, trail, workflows, publication, run, staged, now>>

\* advance, at the last step: the case closes with a resolution of its finding.
CloseCase(k, u, resolution, revision) ==
    /\ MayAct(k, u, revision) /\ MayAdvance(k, u)
    /\ LastStep(cases[k])
    /\ finding[k].revision < MaxRevision
    /\ cases' = [cases EXCEPT ![k] = NewStep(@, "closed", @.step, NoUser, u)]
    /\ completedBy' = [completedBy EXCEPT ![k] = With(@, cases[k].step, u)]
    /\ SetState(k, u, resolution, NoExpiry)
    /\ UNCHANGED <<workflows, publication, run, staged, now>>

-----------------------------------------------------------------------------

Tick ==
    /\ now < MaxTime
    /\ now' = now + 1
    /\ UNCHANGED <<rows, workflows, publication, run, staged>>

Revisions == 0 .. MaxRevision

ActOnCase(k, u, revision) ==
    \/ ReopenCase(k, u, revision)
    \/ \E assignee \in Users \cup {NoUser} : AssignCase(k, u, assignee, revision)
    \/ ReturnCase(k, u, revision)
    \/ AdvanceCase(k, u, revision)
    \/ \E resolution \in Settled : CloseCase(k, u, resolution, revision)

Request(k, u) ==
    \/ Comment(k, u)
    \/ \E to \in States, expiry \in 0 .. MaxTime, revision \in Revisions :
         Dispose(k, u, to, expiry, revision)
    \/ \E revision \in Revisions : ActOnCase(k, u, revision)

Next ==
    \/ \E scope \in SUBSET Rules, present \in SUBSET Keys :
         \E flagged \in [present -> Hashes] : BeginReconcile(scope, flagged)
    \/ \E k \in Keys : Observe(k)
    \/ CompleteRun
    \/ AbortRun
    \/ \E draft \in Drafts, revision \in 0 .. MaxWorkflows : SaveWorkflow(draft, revision)
    \/ CommitWorkflow
    \/ AbortWorkflow
    \/ \E k \in Keys, u \in Users : Request(k, u)
    \/ Tick

Spec == Init /\ [][Next]_vars

-----------------------------------------------------------------------------
(***************************************************************************)
(* Properties.                                                             *)
(***************************************************************************)

Time == 0 .. MaxTime

FindingRow == [state : States \cup {""}, hash : Hashes \cup {NoHash},
               expiry : Time, revision : Revisions]
CaseRow == [status : {"none", "active", "closed"}, workflow : 0 .. MaxWorkflows,
            step : Nat, assignee : Users \cup {NoUser}, last : Users \cup {NoUser},
            revision : Revisions]
TrailRow == [actor : Users \cup {System}, from : States \cup {""}, to : States \cup {""}]

\* A case's workflow is published and its step is one of the workflow's steps.
CaseInRange(case) ==
    case.status # "none" =>
        /\ case.workflow \in DOMAIN workflows
        /\ case.step < Len(workflows[case.workflow])

FindingsTyped ==
    /\ finding \in [Keys -> FindingRow]
    /\ trail \in [Keys -> TrailRow]
    /\ DOMAIN completedBy = Keys

CasesTyped ==
    /\ cases \in [Keys -> CaseRow]
    /\ \A k \in Keys : CaseInRange(cases[k])
    /\ \A k \in Keys : cases[k].status = "none" => cases[k] = NoCase

WorkflowsTyped ==
    /\ workflows \in Seq(Drafts) /\ Len(workflows) <= MaxWorkflows
    /\ \A i \in DOMAIN workflows : Valid(workflows[i])

PublicationTyped ==
    /\ publication \in [open : BOOLEAN, draft : Drafts \cup {<< >>}, keys : SUBSET Keys]
    /\ publication.open => /\ publication.draft \in Drafts /\ Valid(publication.draft)
                           /\ Len(workflows) < MaxWorkflows

RunTyped ==
    /\ run.open \in BOOLEAN /\ run.scope \subseteq Rules /\ run.at \in 0 .. now
    /\ \A k \in DOMAIN run.flagged :
         k \in Keys /\ RuleOf[k] \in run.scope /\ run.flagged[k] \in Hashes
    /\ now \in Time

\* Every row has its type, and a case never points beyond the steps of the
\* workflow revision it was enrolled in (the index check of ActOnCase).
TypeOK ==
    FindingsTyped /\ CasesTyped /\ WorkflowsTyped /\ PublicationTyped /\ RunTyped

\* The finding of a closed case has been decided: no request, run or
\* publication leaves a closed case beside an undecided finding.
ClosedIsSettled ==
    \A k \in Keys : cases[k].status = "closed" => finding[k].state \in Settled

\* Whoever a case waits for can do the step it waits at: an assignment does
\* not outlive the step it was made for.  (While accounts keep their roles:
\* the code checks an assignee's roles when the case is assigned only.)
AssigneeCanWork ==
    \A k \in Keys :
        cases[k].status = "active" /\ cases[k].assignee # NoUser
            => HasRole(cases[k].assignee, StepOf(cases[k]).role)

\* What a run has staged for one finding: the row it locked, one revision on.
StagedFrom(k) ==
    LET before == finding[k]
        after == staged[k].finding
    IN  /\ after = NewRow(before, after.state, run.flagged[k], before.expiry)
        /\ after.revision <= MaxRevision
        /\ \/ after.state = before.state /\ before.state # ""
              /\ staged[k].trail = trail[k]
           \/ /\ \/ before.state = "" /\ after.state = "open"
                 \/ before.state \in {"suppressed", "resolved_in_source"}
                    /\ after.state = "reopened"
              /\ staged[k].trail = Event(System, before.state, after.state)
        /\ \/ staged[k].case = cases[k]
           \/ /\ cases[k] = NoCase
              /\ \E revision \in DOMAIN workflows : staged[k].case = NewCase(revision)

\* No lost update between the run and everybody else: until the run ends, the
\* rows it has staged are built on the rows that are committed, so committing
\* them overwrites nothing it has not read.
StagedOnCommitted ==
    /\ ~run.open => DOMAIN staged = {}
    /\ \A k \in DOMAIN staged : k \in DOMAIN run.flagged /\ StagedFrom(k)

\* What a publication is about to enrol is still undecided, or gone from the
\* source, although it chose its findings a while ago: no decision slips in
\* between and is put up for review again.
PublicationUndecided ==
    publication.open =>
        \A k \in publication.keys : finding[k].state \in Active \cup {"resolved_in_source"}

\* Every change of a finding's state is in its trail, whoever made it.
EveryChangeLogged ==
    [][\A k \in Keys :
         finding'[k].state # finding[k].state
             => /\ trail'[k].from = finding[k].state /\ trail'[k].to = finding'[k].state
                /\ (trail'[k].actor = System) <=> run.open /\ ~run'.open]_vars

\* A person's decision is undone by a person only, acting on the case: no run
\* reopens or resolves an accepted or dismissed finding.
RunsKeepDecisions ==
    [][\A k \in Keys :
         finding[k].state \in Settled /\ finding'[k].state # finding[k].state
             => trail'[k].actor # System /\ cases'[k].revision > cases[k].revision]_vars

\* A finding with a case is decided through the case: apart from what runs do
\* (reopen or resolve it), its state changes only with the case.
NoBypass ==
    [][\A k \in Keys :
         Managed(k) /\ finding'[k].state # finding[k].state
             => \/ cases'[k].revision > cases[k].revision
                \/ finding'[k].state \in {"reopened", "resolved_in_source"}]_vars

\* The revision a request must quote changes with every change of its row, so
\* whoever acts on a row acts on what they were shown.
RevisionsCoverChanges ==
    [][\A k \in Keys :
         /\ finding'[k] # finding[k] => finding'[k].revision > finding[k].revision
         /\ cases'[k] # cases[k] => cases'[k].revision > cases[k].revision]_vars

\* A suppression lasts as long as the evidence and the expiry it was given
\* for, unless a case decides the finding; and not when the evidence changed.
SuppressionHonoured ==
    [][\A k \in Keys : finding[k].state = "suppressed" =>
         IF finding'[k].state = "suppressed"
         THEN finding'[k].hash = finding[k].hash
         ELSE \/ finding'[k].hash # finding[k].hash
              \/ finding[k].expiry <= now
              \/ cases'[k].status = "closed"]_vars

\* A completed run accounts for the whole of what it tested and for nothing
\* else: an active finding of a tested rule was seen by it, with the evidence it
\* saw, and a finding of another rule is as it was.
RunsAccountForScope ==
    [][run.open /\ ~run'.open /\ finding' # finding =>
         \A k \in Keys :
            IF RuleOf[k] \in run.scope
            THEN finding'[k].state \in Active
                    => k \in DOMAIN run.flagged /\ finding'[k].hash = run.flagged[k]
            ELSE finding'[k] = finding[k]]_vars

\* Only a manager's reopening takes a case out of "closed".
OnlyManagersReopen ==
    [][\A k \in Keys :
         cases[k].status = "closed" /\ cases'[k] # cases[k]
             => /\ cases'[k].status = "active" /\ finding'[k].state = "in_review"
                /\ trail'[k].actor \in Users /\ HasRole(trail'[k].actor, Manager)]_vars

Life == INSTANCE FindingLife
          WITH state <- [k \in Keys |-> finding[k].state],
               case <- [k \in Keys |-> cases[k].status]

\* To whoever sees only the states of findings and cases, all of this is the
\* life that FindingLife describes, and never a step of another kind.
ImplementsLife == Life!Spec

(***************************************************************************)
(* What the documentation says and the program does not keep.              *)
(***************************************************************************)

\* The steps that stand as completed.
Completed(k, i) == i < cases[k].step \/ cases[k].status = "closed"

\* docs/user/workflows-and-sources.md: a step can require "a different person
\* from the previous step".
SeparationOfDuties ==
    \A k \in Keys : Managed(k) =>
        \A i \in DOMAIN completedBy[k] :
            /\ i > 0 /\ Completed(k, i)
            /\ Steps(cases[k])[i + 1].different
            => completedBy[k][i] # completedBy[k][i - 1]

\* docs/user/workflows-and-sources.md: "New findings enter the published workflow
\* automatically. Publishing also enrolls active findings that do not already
\* have a case."
ActiveFindingsEnrolled ==
    Len(workflows) > 0 =>
        \A k \in Keys : finding[k].state \in Active => Managed(k)

\* docs/user/workflows-and-sources.md: "Changed evidence can also reopen a closed
\* case."
ChangedEvidenceReopens ==
    [][\A k \in Keys :
         cases[k].status = "closed" /\ finding'[k].hash # finding[k].hash
             => cases'[k].status = "active"]_vars

=============================================================================
