# Autodit in TLA+

Autodit tests the whole population of an accounting period instead of a sample.
Sources deliver an extract; a *run* checks that it ties out with its control
totals, evaluates versioned rules over it, and reconciles what it flags with the
*findings* ("exceptions") of earlier runs. People then work on the findings, one
by one or through a *review workflow* with several steps. Everything is kept in
one PostgreSQL database that an API server and any number of worker processes
share; snapshots of what was tested are files in an object store. The people
see it through a browser application, whose pages work on copies of the rows.

This directory models the parts of that system in which several actors change
the same rows, or in which something can fail half-way. Each module is
translated from the code; comments in the modules use the code's own names.

- `src/` below is the root of the repository.
- "Request" is a call of the HTTP API; "run" is a row of `audit_run`.

## Inventory

Components with their state, operations, and what makes each one correct. The
last column is the module that models it; *planned* is explained under Plan. The
pages are files of `web/src/features`.

| Component | State | Operations | Correct when | Module |
|---|---|---|---|---|
| finding lifecycle (`internal/exceptions`, `internal/storage/exceptions.go`) | `exception`, `exception_event` | `Transition`, `Reconcile`, `Dispose`, `Comment` | every change of state is in the chain; suppressions hold; runs do not undo a person's decision; a stale form is refused | `Lifecycle`, `Review` |
| review workflow and cases (`internal/storage/workflows.go`) | `workflow_definition`, `review_case`, `case_event` | `SaveWorkflow`, `syncCase`, `ActOnCase` (assign, advance, return, close, reopen) | a closed case has a settled finding; assignees can work; the case is the only way to decide its finding | `Review` |
| reconciliation of a run (`internal/storage/pipeline.go`: `observe`, absent findings) | what the open transaction has written | lock and write row by row, resolve the absent ones, commit or roll back | no lost update; exactly the tested rules are accounted for | `Review` |
| run queue and worker loop (`pipeline.go`: `ProcessNext`, `progress`; `cmd/audit/main.go`) | `audit_run.status`, advisory locks, `source.watermark`, `snapshot`, each worker's place | pick, claim, announce a stage, commit, roll back, record a failure; crash, broken connection, lost reply | evidence once; one transaction per source; truthful status; every run ends | `RunPipeline` |
| access roles (`internal/auth/auth.go`: `Allowed`) | none | `Allowed` | used as the guard of each request | `Access` |
| run submission (`internal/storage/runs.go`) | `audit_run` rows, receipts | `Submit`, `SubmitInbox` | parameters and rule versions are frozen together; a receipt makes one run | arrival of runs in `RunPipeline`; *planned* `Intake` |
| inbox (`internal/ingest/inbox.go`, worker loop) | files in a directory | inspect, submit on every round | one file, one run, whatever crashes | *planned* `Intake` |
| parameters, rule releases, sources (`internal/storage/settings.go`) | `parameter_set`, `rule_version`, `source` | `SaveParameters`, `Release`, `Simulate`, `SaveSource` | a save from a stale revision is refused; a version is released once | `Releases` (without `SaveSource`) |
| workspace settings (`workspace.go`) | `workspace_setting`, versions with a revision | `SaveWorkspace` | as above, the first version included | `Releases` |
| saved analyses (`analyses.go`) | `analysis_version` | `SaveAnalysis`, `Analysis` | nobody's version is passed over | `AnalysisStudio` |
| accounts (`internal/storage/accounts.go`) | `local_user` | `BootstrapAdmin`, `SaveUser`, `ChangePassword` | there is always an enabled administrator; a reset stands | `Accounts` |
| sessions and sign-in (`internal/auth`) | sessions, sign-in attempts and OIDC states in memory | sign in, sign out, change a password, `Current` | a session has no right its account has lost; limits are kept | `Accounts` (limits and OIDC not) |
| snapshot store (`internal/storage/objectstore`) | files | `WriteSnapshot`, `ReadSnapshot` | a committed run's snapshot is readable after a crash | *planned* `Snapshots` |
| analysis studio (`internal/analysis`) | graphs; a pool of two evaluation workers | `ValidateModel`, `runWorker` | a graph without cycles is accepted, with one refused; the pool never exceeds two and no caller waits for ever | *planned* `AnalysisPool` |
| domain (`internal/domain`) | none | `TieOut`, parsing, hashing | totals and counts per control agree with their definition | *planned* `TieOut` |
| tenant transactions, migrations (`storage.go`, `migrations/`) | the database | `Tx`, `Migrate` | commit or rollback; a migration is applied once | `Tx` is in every action; migrations not modelled |
| rule evaluation (`internal/rules`, `internal/analytics`) | none | evaluate a rule graph, select candidates in SQL | — | abstracted: a run's verdict and flags |
| API routes, static files, extraction from files, workbooks and databases, configuration | none | decode, check a role, call storage | — | not modelled: no state of their own |
| analysis page (`analysis/Analysis.tsx`, `model.ts`, `sources/Preview.tsx`) | data, columns, conditions, a decision graph, results, what is unsaved | load, choose, edit, test, save, open | results belong to what is shown; "saved" is true; unsaved rules are not lost unasked | `AnalysisStudio` |
| review pages (`queue/Queue.tsx`, `cases/Cases.tsx`) | fetched rows, a selection, drawers, a request | dispose, comment, start many, work on a case | only what was shown is changed; what is offered is allowed | `ReviewDesk`, composed with `Review` |
| administration and rules pages (`admin`, `rules`) | a form or draft, the copy it was made from | edit, save, simulate, release | a save is about the version its form was made from, as far as the code promises | `Accounts` (people, password), `Releases` (the rest) |
| application shell and API client (`main.tsx`, `lib/client.ts`) | the session shown, the request token | fetch the session, sign in and out, gate the pages | a request acts for the person shown | `Accounts`, `ReviewDesk` (the pages) |
| import, runs and assurance pages | fetched rows | import a file, submit a run; the others only show | — | not modelled |
| deployment, scripts, backup | — | — | — | not modelled; the restart policy is an assumption of `RunPipeline` |

How they interact: the API and the worker never call each other. They meet in
the rows of the database, at READ COMMITTED, under row locks (`for update` on a
finding, then on its case), the tenant row (`SaveWorkflow`; every audit event
refers to it), an advisory lock per source (`ProcessNext`), and revisions that
a client quotes back (optimistic saves). A browser tab has a copy of some rows,
fetched when a page opens, when the window gets the focus, every ten seconds or
after a success; it sends what the copy said, and mostly one request at a time;
tabs of a browser share its cookie. What is hard about the system comes from
there:

- a run's reconciliation is one long transaction; requests and a publication of
  a workflow fall between its first read and its commit;
- the stage announcements and the record of a failure are *not* in that
  transaction, and overwrite a status without looking at it;
- a worker that dies, loses its connection, or never hears that its commit
  succeeded is followed by another attempt at the same run;
- long legal sequences of case actions (assign, return, complete, close, reopen)
  interleave with runs that resolve or reopen the finding;
- between the answer a page shows and the request it leads to, and between that
  request and its answer, both the rows and the page change;
- a password is derived outside of any transaction, so that an account changes
  between its verification and what is done about it.

`PROJECT.json` lists each hazard at its line with the properties about it.

## Modules

| Module | Contents |
|---|---|
| `Lifecycle` | pure decisions on a finding: `Transition`, `ReconcilePresent`, `ReconcileAbsent` |
| `Access` | roles and `Allowed` |
| `Review` | findings, cases, trail, workflow publication and one reconciliation, composed of the two above |
| `FindingLife` | what the program promises of a finding: the states it and its case go through, without locks, revisions, transactions and time |
| `MCReview` | people, rules, hashes and workflow drafts for TLC |
| `ReviewProofs` | proofs about `Review`: its invariants |
| `ReviewLife` | proof that `Review` implements `FindingLife` |
| `ReviewSteps` | proofs about `Review`: its action properties |
| `RunPipeline` | the run queue, the workers and their faults |
| `MCRunPipeline` | two sources, verdicts and faults for TLC |
| `RunPipelineProofs` | proofs about `RunPipeline` |
| `ReviewDesk`, `MCReviewDesk` | a reviewer's pages in front of `Review`, which it extends |
| `ReviewDeskProofs` | proofs about `ReviewDesk`, from those about `Review` |
| `AnalysisStudio`, `MCAnalysisStudio` | the analysis page and the saved analyses |
| `AnalysisStudioProofs` | proofs about `AnalysisStudio` |
| `Accounts`, `MCAccounts` | accounts, sessions, and the tabs people use them from |
| `AccountsProofs` | proofs about `Accounts` |
| `Releases`, `MCReleases` | settings, policy, workflow and rules, as they are edited, saved and released |
| `ReleasesProofs` | proofs about `Releases` |

Definitions with an underscore, such as `Free_NoLock`, are preceded by "Slip":
they are plausible mistakes. No specification uses them; replacing the
definition after them by one of them must make the named property fail, which
shows that the property depends on the code.

### Review

| Variable | Stands for |
|---|---|
| `finding` | the mutable columns of `exception`: state, consumed-fields hash, suppression expiry, revision. State `""` is "no row" |
| `cases` | `review_case`; status `"none"` is "no row" |
| `trail` | the last `exception_event` of each finding (the chain grows by appending; the properties relate each change to the event of that change) |
| `completedBy` | from `case_event`: who completed each step since the case was opened. No guard reads it |
| `workflows` | `workflow_definition`, in order of revision |
| `publication` | the open transaction of `SaveWorkflow`: what its `insert .. select` has seen |
| `run`, `staged` | the run that reconciles (scope, flagged hashes, its time) and its uncommitted rows; a staged row is a locked row |
| `now` | the clock |

Actions and code: `BeginReconcile`, `Observe` (`observe` with `syncCase`),
`CompleteRun` (the absent findings, commit), `AbortRun`; `SaveWorkflow`,
`CommitWorkflow`, `AbortWorkflow`; `Dispose`, `Comment`; `ReopenCase`,
`AssignCase`, `ReturnCase`, `AdvanceCase`, `CloseCase` (the branches of
`ActOnCase`); `Tick`.

What is one step, and why:

- A request takes the finding's row lock as its first statement that matters and
  commits at once; whatever it reads afterwards is protected by that lock, or is
  the account's roles, or a published workflow, which never changes. So it is
  one step, enabled while nobody has the row (`Free`).
- A request that writes an audit event needs a share of the tenant row, which a
  publication holds until it commits (`Auditable`). It waits for the publication
  or is aborted as a deadlock; either way it happens before or after, never
  between. `Comment` writes no audit event and is not held up.
- The reconciliation is many steps: it locks row after row and shows nothing
  until `CompleteRun`. The resolution of the absent findings at its end is in
  `CompleteRun`: the rows it locks are read and written by statements that
  follow each other, and a row somebody else holds merely delays it.
- The publication is two steps, because its `insert .. select` chooses rows as
  they are when the statement starts, and then waits for rows that the worker
  holds (a new case refers to its finding).
- `AbortRun` and `AbortWorkflow` may happen at any time: an error, a lost
  worker, or the deadlock PostgreSQL resolves by aborting one side.

Keys stand for the findings of one source and period; a key belongs to one rule.
Two runs of one source never reconcile at the same time (proved for
`RunPipeline`), and runs of different sources share no finding, so one `run` is
enough.

### RunPipeline

Runs are numbers in the order of (`created_at`, `id`), the order in which
`ProcessNext` looks for work. `Submit` happens in any order, because
`created_at` is the beginning of the submitting transaction. What a run will
find out about its frozen input is fixed beforehand (`verdict`): bad parameters
or an inner error (`failed`), `tieout_failed`, `ceiling_exceeded`, or
`completed`. What its transaction writes is one number, `commits`, which counts
how often the run's evidence became visible.

`worker[w].pc` is the place in `ProcessNext`: `picked` after the query for the
oldest unfinished run, `working` once the advisory lock is held and the status
was read again, `halted` between the rollback and the separate transaction that
records the failure. `connected` says whether the worker's transaction still
exists in the server. A stage number is the last stage announced; the work
between two announcements is judged at the next step (`StageFailure`): the
snapshot insert fails when the run has one already (its primary key), and any
statement fails on a lost connection. Tie-out and the writing of announcements
need no statement of the transaction, so a worker that lost its connection
walks on until "snapshot".

Faults: `Crash` (also the orderly shutdown: `ProcessNext` records nothing once
its context is cancelled), `LoseConnection` (the server rolls back and frees the
lock at once, the worker finds out later), `Fail` (any statement or the snapshot
volume), `CommitUnanswered` (the commit succeeds, its reply is lost),
`RecordLost` (the failure record itself fails).

Fairness. `FairSpec` assumes that each worker goes on: the loop in
`cmd/audit/main.go` calls `ProcessNext` again after work, after an error and
every two seconds, and the compose file restarts a stopped worker. It assumes
nothing about the faults except that they are finitely many (`MaxFaults`):
with a fault in every attempt no run could end.

### ReviewDesk

`ReviewDesk` extends `Review` with one browser: `listed` and `board` are the
tables of the two pages, `checked` the selection, `bulk` what is left of a bulk
start, `detail` and `opened` the drawers, `sent` the request of a drawer. The
actions are the handlers (`startSelected`, `dispose`, `comment`, `act`) and the
fetches; `Serve` and `BulkPost` are `Review`'s request actions with the revision
that the browser quotes, `Others` are `Review`'s actions of everybody else. A
click and the transaction it leads to are two steps; a fetch is one, since an
answer that arrives late shows what an earlier fetch showed. The guards of the
buttons (`Offered`, `CanAdvance`, ...) are the page's own, written in TypeScript;
that they agree with the server's is a property.

### AnalysisStudio

`work` is what the page shows of an analysis and the identity it will be saved
under; `dirty`, `inputRevision`, `step`, `report` and so on are the page's
variables. A column has a type, a condition refers to a column, and
a graph is either what `makeModel` makes of conditions and columns or one that no
conditions express (`simple = None`). A handler runs up to its first `await` as
one step and from the answer on as another; what it took from its render is in
the request. So `readFile` and `readAnswered`, `testRules` and `testAnswered`,
`save`, `SaveAnalysis` (the server) and `saveAnswered` are steps of their own, and edits,
a table from the database, or another tab's save fall between them. `agreed` and
`crossed` are history: which loss of rules the user agreed to, and whether the work
is a table that arrived while other work was being saved (until there is new work).
The form that reads a table from a database (`Preview.tsx`) forgets that it is busy when
the page takes it away and shows it again, so several tables can be under way (`Loads`);
everything else is one request at a time. `mounted` says whether the shell shows the page:
`main.tsx` takes it away without a question when the session, fetched again on focus, fails,
has ended, must change its password or has lost its roles (`unmount`), and shows a page
with nothing on it afterwards (`mount`). Closing or loading the page anew asks (`leave`).

### Accounts

`account` is `local_user`, `sessions` the table in the memory of `auth.Manager`,
`cookie`, `tab`, `form` and `request` the browsers. A request is admitted by its
cookie and its token (`Verified`) and carried out later. `Establish`,
`SaveUser` and `ChangePassword` are the transactions or critical sections that
finish a sign-in, a save and a change; what they read before (the row and the
password that was compared, the roles of the actor) is in the request. `Lose` is
a lost answer or a request that was refused; sessions end at any time
(`SessionEnds`: expiry, a restart).

### Releases

One module for four sections of the administration, chosen by `section`: they
have the same form of transaction (lock the row or compare the latest revision
under the tenant's row, check, insert the next) and different editors. `copy` is
what the query fetched, `opened` the rule an editor was opened with, `draft`
what is edited, `writers` whose transaction has the row. A save is sent, gets the
row (`Write`: `SaveWorkspace`, `SaveParameters`, `SaveWorkflow` and `Release`, which differ in
how they get it) and commits (`Commit`); its answer arrives later (`Answered`), or
never (`Fail`, with or without the server going on). Programs send what they
like (`program`).

Settings, a policy or a rule are values, some of which the server accepts
(`Passing`); the forms of settings and policy hold and send any of them, the editor of a
rule offers only severities and teams, which pass. A workflow has its name and the names
of its steps, typed from `Titles` and `Names`, some of which are blank or too long (not in
`Fit`); its steps are named, changed, moved, removed and added as in the editor, also
before anything is fetched, when the editor shows `proposed`. `ValidWorkflow` is
`Workflow.Validate`.

A form does not know the requests it had before it was left. So each request has a place
of its own (`request[c]`), and its `here` says what of its sender is still on the screen: the form,
or only the page (from which a rule's editor was closed), or nothing. The answer to a
release still has the page close an editor, whichever is open by then.

## What the runs check

| Run | Question | Bounds |
|---|---|---|
| `review` | type, closed cases, assignees, lost updates, logging, revisions, suppression, decisions, bypass, reopening, publication, and the refinement of `FindingLife` | one finding with two hashes, two people (one auditor who is no manager, one auditor and manager), one two-step workflow with a different approver, two instants, five revisions |
| `review_runs` | a completed run accounts for what it tested and for nothing else | two findings of two rules, one manager, no workflow, three revisions |
| `review_separation` | *violated*: separation of duties | one finding, a three-step workflow |
| `review_enrolment` | *violated*: every active finding is enrolled | one finding, one person, one publication |
| `review_reopen` | *violated*: changed evidence reopens a closed case | one finding |
| `pipeline` | evidence, locks and status under every fault | two runs of one source, two workers, two faults |
| `pipeline_single` | final reports and progress | three runs of two sources, one worker, three faults, all commits answered |
| `pipeline_halted` | *violated*: a halted run has committed nothing | one run, one worker, one fault |
| `studio` | current results, a truthful saved mark, conditions that match their graph, versions that continue each other, rules lost only after a question | one dataset of two columns of two types, one condition value for each, one graph beyond conditions, three edits, three versions of one analysis, two tables under way |
| `desk` | honest copies, offers the server accepts, changes only of what was shown | one finding, the reviewer and one other person, a two-step workflow, one run or publication at a time, three revisions; the clock stands still |
| `accounts` | the last administrator, sessions against their accounts, tabs that share a cookie, resets, saves | two accounts, two passwords, two tabs in one browser or in two, four versions of the accounts together, two sessions |
| `releases` | what is stored, in what order, what the editor of workflows can make, and that a release is made to the version its list compares with | settings, policy and a rule: two browsers, two requests under way, two contents that pass and one that does not, two saves by browsers or programs; a workflow: one browser at a time, one request, two or three steps, three names of a step (one of them empty) and two of a workflow (one of them blank), one save |

Why the bounds are enough. A finding meets others only in a run's scope, so one
finding with two hashes (changed and unchanged evidence) shows every
interleaving of the people, the publication and a run on its rows; five
revisions are enough to be observed, suppressed, enrolled, closed, reopened and
observed again. `review_runs` has the second finding and the second rule that a
scope needs. Two instants separate "expires now" from "expires later". In
`pipeline`, two workers and two faults are the first instance in which a run
that was lost is taken up while its first worker is still working; a third
worker adds nothing the proofs do not cover. A run bounded by revisions stops,
hence `CHECK_DEADLOCK FALSE`; in the pipeline everything has ended when all
runs have.

In `studio`, loading the same dataset again is new work, told apart from the old
by its `inputRevision` and its base version, so that a second dataset would add
a name and no behaviour. Three edits let one fall before a request, one under it
and one after. In `desk` one finding is on every page at once; that a bulk start
touches one finding at a time is in `BulkPost` whatever the number. Three
revisions let the row change twice under a copy. Its `VIEW` leaves out the trail,
which no guard and no property of the desk reads. In `accounts` the two
administrators are enough to remove each other, and two tabs to share a cookie
or not; a request that comes to nothing for a bound is not sent, which loses
only refusals, and those happen anyway. In `releases` two saves let two
browsers save from one revision and one of them again, and the second request of a
browser that left its form can be sent while the first is under way (`MaxSaves`, `MaxOpen`,
`MaxSent` for each section; here, too, what the bound would refuse is not sent). For a workflow the
question is what a person can make of it: three steps can be reordered and reduced to two, the empty
name cannot be published, the blank one and two equal ones can, and are refused. In the
proofs there are any number of browsers, requests and steps, and names of any kind. Nothing is bounded in the
proofs, which cover every safety property of every passing run.

### Properties

`Review`, invariants: `TypeOK`; `ClosedIsSettled`, a closed case's finding is
accepted or dismissed; `AssigneeCanWork`, an assignment does not outlive its
step; `StagedOnCommitted`, what a run will commit is built on the rows as they
are; `PublicationUndecided`, what a publication chose is still undecided when
it enrols it. Action properties: `EveryChangeLogged`, `RevisionsCoverChanges`,
`SuppressionHonoured`, `RunsKeepDecisions`, `NoBypass`, `OnlyManagersReopen`,
`RunsAccountForScope`. Refinement: `ImplementsLife`, with the state of each
finding and the status of each case as the refinement mapping.

`FindingLife` is the reader's version of `Review`: six kinds of steps over two
variables. It shows two things one would not guess from the documentation. A run
may enrol what it sees even when that is decided already, because `syncCase`
looks only for a missing case; a publication enrols undecided findings only. And
closing a case decides its finding *whatever became of it*, also when a run has
resolved it in the source meanwhile.

`RunPipeline`: `TypeOK`, `OneTransactionPerSource`, `EvidenceOnce`,
`CompletedHasEvidence`; `EndedStaysEnded` and, live, `EveryRunEnds` for one worker.
`HaltedCommitsNothing`, which the runbook promises, is proved for one worker whose commits are
answered, and refuted without that (`pipeline_halted`).

With *two* workers `EveryRunEnds` does not hold, and no fault is needed: a run
that fails is unlocked by its rollback before its failure is recorded, and the
other worker may claim it in between; its announcements set the status back to
"running" after the first worker records the failure, and then it is the other
one's turn. The two can go on like that for ever, so this is a matter of luck
with timing rather than of a guarantee.

`AnalysisStudio`: `TypeOK`; `ReportIsCurrent`, results and traced row are those
of the data, columns and logic on the page; `SavedIsShown`, what counts as saved is in the
version that is named; `BuilderMatchesGraph`, the graph that is tested and saved
is the one the visible conditions make; `VersionsContinue`, no version is passed
over; `UnsavedRulesAsked`, rules leave a page that stays saved or after somebody agreed.
The last two name the one way each in which the page's own handlers do not keep them;
`UnsavedRulesAsked` says nothing of a page that the shell takes away, which loses its rules
unasked.

`ReviewDesk`: `DeskTypeOK`; `CopiesAreHonest`, a copy with the row's revision
says what the row says, so that comparing revisions is enough; `OfferedIsAllowed`,
the guards in the page and in the server agree on a current copy;
`ActsOnWhatWasShown`, what this browser changes was on its page as it was when it
changed.

`Accounts`: `TypeOK`; `AdminRemains`, an enabled administrator is left;
`SessionsProveAccess`, an accepted session's account is enabled and has the
password the session was opened with; `ActsAsShown`, a request that is admitted acts
for the person its tab showed; `ResetsStand`, a reset is not undone by a change of the old
password under way; `SavesReplaceTheirBase`, a change replaces the version it
was based on.

`Releases`: `TypeOK`; `StoredIsAcceptable`, what is stored passes, names included,
although forms and programs send what does not, and the draft of a rule passes
whichever draft was simulated; `RefusedForNamesOnly`, a workflow made with the editor is
refused for its names or not at all; `OneAfterTheOther`, a save replaces the version
its sender had fetched; `ChangesShownAreMade`, a release that its editor sent is made to the
version the editor was opened with, against which it lists its changes.

### What the models show besides

None of this is promised otherwise by the documentation; each is a behaviour of
a model that whoever changes the code may want to know of.

- *Analysis.* A table from the database that arrives while a save is under way
  becomes the work, and the save's answer gives it the identity of the saved
  analysis: the next save makes it a version of that (`crossed`). A table that was
  asked for when nothing was unsaved replaces rules edited since, unasked. So does
  the shell, which takes the page away when the session it fetches on focus fails or has
  ended, must change its password or has lost its roles (`main.tsx:146`, `156`, `245`, `365`). Going
  on to the rules replaces the input schema of a custom graph without marking it
  unsaved (`Analysis.tsx:246-255`). An edit of the graph while the results are
  shown clears them and leaves an empty panel. A save whose answer is lost and
  which is tried again makes a second analysis.
- *Review pages.* The bar says "selected on this page" and counts the selection
  of all pages. A bulk start of findings with a case is refused at the first one,
  which ends it. After a refusal the drawer of a finding keeps its old copy until
  the window gets the focus. A note typed for one step of a case can be sent for the next,
  when the case is fetched in between.
- *Accounts.* The answer to a save clears the form that is open by then.
- *Settings, policy, workflow.* A panel quotes the revision it fetched last with
  a draft that may be older, so a change by somebody else, fetched on focus, is
  overwritten unseen (`Settings.tsx:48-88`, `WorkflowSettings.tsx:38-58`); the rule
  editor quotes what it was opened with. Edits made while a save is under way are dropped by
  its answer. A simulation answered after an edit offers the release of a draft
  that was not simulated; what the editor offers passes anyway (`StoredIsAcceptable`), and the
  server simulates again. The answer to a release whose editor was closed closes the
  editor that is open by then, with its draft (`Rules.tsx:171`). What is typed into the proposed
  workflow before the first fetch can be published over the workflow that is there, under its
  revision. The workflow editor lets two steps have the same name, or names of blanks, which
  the server refuses.

### Where the documentation and the program differ

1. *Separation of duties.* `docs/user/workflows-and-sources.md:3` promises an
   "optional requirement for a different person from the previous step".
   `ActOnCase` compares with `last_actor`, which a return does not take back.
   With three steps of which the second needs another person: Ana completes
   step 1, Ben completes step 2, Ben returns the case to step 2 and Ana, who is
   not the last actor, completes it: both steps are hers (`review_separation`).
2. *Enrolment.* The same page, line 5, says that new findings enter the workflow
   automatically and that publishing enrols active findings. A run that looked
   for a workflow before the publication, and commits after its statement
   started, leaves its new findings in neither (`review_enrolment`). A later run
   that sees them enrols them.
3. *Changed evidence.* Line 7: "Changed evidence can also reopen a closed case."
   `syncCase` reopens a closed case only when the finding becomes `reopened`,
   and `Reconcile` never makes that of an accepted or dismissed finding
   (`ClosedIsSettled` says a closed case has no other): the branch is dead
   (`review_reopen`).
4. *Halted runs.* `docs/runbooks/run-failed.md:12`: "No findings or
   source-resolution changes are committed from a halted run." When the reply to
   a commit is lost, the failure record overwrites `completed` with `failed`
   although everything is committed (`pipeline_halted`). The same happens with
   two workers when the one that lost its connection records its failure after
   the other completed the run.

## What is proved

TLAPS checks these for every value of the constants: any number of findings,
people, workflows, runs, sources, workers and faults, and any bounds. The
assumptions are `ConstantsAssumption` of `Review` and `RunPipeline`: types of the
constants, no person is called `system`, no run or worker equals its null value.
`AccountsAssumption`, `ReleasesAssumption`, the `ConstantsAssumption` of
`AnalysisStudio` and `DeskAssumption` are the same kind of statement; the last
also lets at least one workflow exist (`MaxWorkflows # 0`), since `DeskInit` may start
with a published one.

`ReviewProofs`: `TypeCorrect`, `ClosedSettled`, `AssigneeAble`, `NoLostUpdate`.
The invariant is `IInv == TypeOK /\ ClosedIsSettled /\ AssigneeCanWork /\
StagedOnCommitted`. None of the four is inductive alone: `CompleteRun` replaces
committed rows by staged ones, so `ClosedIsSettled` after it is a statement
about staged rows, which is what `StagedOnCommitted` provides; that one in turn
holds after `Observe` only because no closed case has a finding that a run would
reopen, which is `ClosedIsSettled`. The proof goes row by row (`RowOK`): a
request changes one finding's rows (`RequestInv`), a case action gives its case
a step that exists and an assignee who can do it (`CaseInv`), and each action is
a lemma that supplies these facts. `AssigneeAble` is about accounts that keep
their roles, which are a constant here.

`ReviewLife`: `PublishesUndecided`, and `Implementation`, `Spec =>
ImplementsLife`. `FullInv` adds `PublicationUndecided` to `IInv`: it holds
because no decision is made while a publication is open (`Auditable`), and a
run takes an active finding nowhere but to `resolved_in_source`. The refinement
then needs one lemma per action: a completed run moves every finding as
`Life!Run` allows (`CompleteMoves`, from `StagedOnCommitted`), a request is one
of `Life!Dispose`, `Life!Close`, `Life!Reopen`, and everything else is
invisible.

`ReviewSteps`: the seven action properties of `Review`, each for every step.
`Moves(k)` lists the eight things a step can do to the rows of one finding
(observed, missed, published, disposed, worked on, closed, reopened, untouched);
`StepMoves` proves that there is no ninth, and six of the properties follow from
`Moves` by cases. Two of them need a little more (`StepsInv`): a finding with a
case was seen before (`CaseHasFinding`, for `NoBypass`), and a staged state is
what `Reconcile` gives for the committed row (`StagedReconciled`, for
`SuppressionHonoured`). The seventh, `RunsAccountForScope`, is about all
findings at once and follows from `CompleteRun`.

`RunPipelineProofs`: `TypeCorrect`, `SourceSerialised`, `EvidenceAtMostOnce`,
`CompletedBacked`, and for one worker whose commits are answered
(`OneWorkerAnswered`) `HaltedTruthful` and `ReportsStand`. The invariant adds
`WorkerOK`, what a worker knows by the stage it has reached: past "tie_out" the
run's verdict is not a tie-out failure, and past "snapshot" a connected worker
knows that no evidence of its run was committed. A commit by anybody else cannot
take that away, since a connected worker has the source's lock and nobody else
is connected on that source (`OneHolder`). For one worker, `Reported` says that
the run in hand has not ended and that evidence always comes with its report.

`AccountsProofs`: `TypeCorrect`, `AdministratorRemains`,
`AcceptedSessionsProveAccess`, `ShownIsActor`, `ResetsAreKept` and
`NothingUnseenIsReplaced`, for any number of accounts, passwords, tabs, browsers
and sessions (`AccountsAssumption`: types, and `None` is no account).
Everything rests on copies. What a form, a request or a session has of an account
is an earlier version of it, and is the account itself if it has its revision
(`EarlierOf`); a change advances the revision, so that no copy of an earlier
version passes for the new one (`CopiesAge`). The invariant adds that a live
token belongs to the user whose page it is on (`TabOK`), which is what
`ShownIsActor` comes from, and that a request has compared what it claims to have
compared (`Compared`). `AdminRemains` is inductive by itself, because
`SaveUser` looks at all accounts in the transaction that changes one.

`ReleasesProofs`: `TypeCorrect`, `OnlyAcceptableStored`, `OnlyNamesRefused`,
`SavesFollowEachOther` and `ReleasesMakeWhatIsShown`, for any number of browsers, requests,
values, names, steps and versions (`ReleasesAssumption`: what passes is a value, the null value is
none of them, the names of `proposed` fit and the empty one does not, and a workflow may have two
steps). In the invariant, `WriterOK` says that whoever has the row has it alone, has content
that passed, and is replacing the version it quoted, which makes the
action properties follow from `Commit`; `RequestOK`, that a release whose form is there
quotes the version this form was opened with. `EditorOK` says what a form can hold (`Editable`):
any value for settings and policy, what passes for a rule, and for a workflow a list of a length
the server accepts whose first step needs nobody different (`Shaped`). That naming, changing,
moving, removing and adding steps keep that, for every length, is proved in lemmas of their own.

`AnalysisStudioProofs`: `TypeCorrect`, `ResultsAreCurrent`, `SavedIsTrue`,
`BuilderAgrees`, `VersionsFollow` and `RulesAskedFor`, for any columns, datasets,
graphs, names and analyses. None of the invariants is inductive alone, because
an answer carries what a render knew before. The invariant says what of that
still holds (`RequestOK`): while `inputRevision` is the one of the request, what was
tested or sent to be saved is what the page shows, and it is consistent
(`Consistent`: the builder's conditions and the graph agree). That gives
`ResultsAreCurrent` at once, and `SavedIsTrue` together with the version that the
reply names. The answers to `readFile`, `readSheet` and `open` do not compare revisions; for
them `Waiting` says that no rules can be reached until they arrive, so that the rules
lost then are those whose loss was asked about, which `RulesAskedFor` needs.
`BuilderAgrees` is not an invariant of all steps of the page: choosing a column
leaves the conditions behind, and `PageOK` says that `continueToRules` comes before
anything shows them. `VersionsFollow` needs that the page quotes a version it
has opened or saved, `work.base = work.revision`, unless a table crossed a save.

`ReviewDeskProofs`: `DeskUsesReview`, `DeskTypeCorrect`, `CopiesHonest`,
`OffersAllowed` and `ActsAsShown`, for any findings, users, workflows and bounds.
First, every step of the desk is a step of `Review` or leaves its variables alone
(`ServerStep`), whatever copy a request was made from; what is proved of
`Review`'s steps then holds with the browser in front of it. From there,
a row that changes has another revision (`RevisionsStep`), so that a copy which is
honest stays honest; copies move from tables to the drawer, a bulk start and a
request, and the invariant follows each (`TablesOK`, `BulkOK`, `DrawerOK`, `SentOK`).
`ActsAsShown` then needs only that the server compares revisions. The state of a
finding and whether it has a case are different: a case may come without a
revision of its finding, so `HonestDetail` does not promise `managed`.
`OffersAllowed` needs no invariant. It relates the two sets of guards, those of the
pages and those of the server, for every row they can be asked about.

Only model-checked: liveness (`EveryRunEnds`), which is beyond the prover, as is
anything about ENABLED. `EndedStaysEnded` and `HaltedCommitsNothing` are proved
for one worker only; with several they do not hold.

## What is not modelled

The text of requests (names, notes, limits on lengths; only the names in a workflow are told apart, as fitting or not and as the same or not), hashes as computed
(a hash is a value that changes when its input does, the chain is the event
that goes with each change), severity and owner role of a finding, `observation`
rows, several tenants (every table has its own key and policy for a tenant), the
database beyond what its locks and transactions do, and the components marked
*planned* or *not modelled* above.

Of the components marked with a module: sign-in by OIDC and the demo token, and
the count of attempts (a sign-in may be refused at any time); `SaveSource`;
filters, pages, statistics and exports of results, and the replay of an
observation, which change nothing that is kept; display settings and the
wording of messages. `api/schema.ts` is generated and has types only.

## Plan

What is left, in order of what matters most; each comes with its own run.

1. `Intake`: submission, the freeze of parameters and rule versions by two
   statements, receipts and the inbox, with the import page in front of it;
   composed with `RunPipeline`'s queue.
2. `Snapshots`: what a power failure leaves, against `ReadSnapshot`'s checks.
3. `AnalysisPool` and the graph checks of `ValidateModel`; the sign-in limiter.
4. `TieOut` against a reference definition.
5. `Accounts` in place of the constant `UserRoles` of `Review`: an assignee who
   loses a role.
