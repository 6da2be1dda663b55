------------------------------ MODULE ReviewDesk ------------------------------
(***************************************************************************)
(* A reviewer's browser in front of Review: the exception queue, the       *)
(* drawer with one finding, and the review cases (Queue, ExceptionDetail,  *)
(* Cases, CaseDetail).  Review is the server; other users, runs and        *)
(* publications go on as they do there.                                    *)
(*                                                                         *)
(* The pages show copies of rows, which the query cache fetches now and    *)
(* then.  A button sends what the copy said when it was clicked.  Until    *)
(* the server has the request the row, the copy, the selection and the     *)
(* page itself may change.  An answer that arrives late shows what an      *)
(* older fetch showed, so a fetch is one step.  What is typed (reasons,    *)
(* notes) is typed when it is needed.                                      *)
(***************************************************************************)
EXTENDS Review

CONSTANTS
    Me,      \* the reviewer
    None

\* There may be a workflow already (DeskInit), so there has to be room for one.
ASSUME DeskAssumption == Me \in Users /\ None \notin Keys /\ MaxWorkflows # 0

VARIABLES
    tab,       \* the page: "queue" or "cases"
    listed,    \* the findings in the queue's table
    checked,   \* the findings selected in it
    bulk,      \* what is left of a bulk start
    detail,    \* the drawer: a finding and the copy it shows
    board,     \* the cases in the table of cases
    opened,    \* the case opened in it
    sent       \* the request of the drawer or of the case

desk == <<tab, listed, checked, bulk, detail, board, opened, sent>>
all == <<vars, desk>>

views == <<tab, listed, checked, bulk, board, opened>>

\* What the bound on revisions would stop is not begun: a request that quotes the
\* last one, and a run that meets it.
Bounded(row) == row.revision < MaxRevision

\* What the queue, the drawer and the table of cases show of a row.
QueueRow(k) == [state |-> finding[k].state, revision |-> finding[k].revision]
DetailRow(k) == [state |-> finding[k].state, revision |-> finding[k].revision, managed |-> Managed(k)]
BoardRow(k) == cases[k]

\* Work in hand when the reviewer signs in: every finding is open and has a
\* case if a workflow has been published.
DeskInit ==
    /\ \E published \in {<< >>} \cup {<<d>> : d \in {d \in Drafts : Valid(d)}} :
         /\ workflows = published
         /\ cases = [k \in Keys |-> IF published = << >> THEN NoCase ELSE NewCase(1)]
    /\ \E hash \in Hashes :
         finding = [k \in Keys |-> NewRow(NoFinding, "open", hash, NoExpiry)]
    /\ trail = [k \in Keys |-> Event(System, "", "open")]
    /\ completedBy = [k \in Keys |-> Nobody]
    /\ publication = NoPublication /\ run = NoRun /\ staged = << >> /\ now = 0
    /\ tab = "queue" /\ listed = << >> /\ checked = {} /\ bulk = None
    /\ detail = None /\ board = << >> /\ opened = None /\ sent = None

-----------------------------------------------------------------------------
(* The exception queue. *)

\* Slip: the selection and the drawers outlive their page.
GoTo_KeepsSelection(t) ==
    /\ tab' = t /\ listed' = << >> /\ board' = << >>
    /\ UNCHANGED <<vars, checked, bulk, detail, opened, sent>>

\* Pages are not kept.  A page that is opened again shows its cached table
\* until it has fetched, which is what a page that was not left shows: here it
\* opens empty.
GoTo(t) ==
    /\ tab' = t /\ listed' = << >> /\ board' = << >>
    /\ checked' = {} /\ detail' = None /\ opened' = None
    /\ bulk' = IF bulk = None THEN None ELSE [bulk EXCEPT !.here = FALSE]
    /\ UNCHANGED <<vars, sent>>

\* The filters, the search, the order and the page leave any part of the findings.
Filtered == SUBSET {k \in Keys : finding[k].state # ""}

\* The table is fetched: every ten seconds, after a change of this browser's,
\* and for another page, order or filter.  Only another status clears the
\* selection, which may therefore hold findings that are not in the table.
FetchQueue ==
    /\ tab = "queue"
    /\ \E shown \in Filtered : listed' = [k \in shown |-> QueueRow(k)]
    /\ UNCHANGED <<vars, tab, checked, bulk, detail, board, opened, sent>>

ShowStatus ==
    /\ tab = "queue" /\ detail = None
    /\ checked' = {}
    /\ UNCHANGED <<vars, tab, listed, bulk, detail, board, opened, sent>>

Check(k) ==
    /\ tab = "queue" /\ detail = None
    /\ k \in DOMAIN listed
    /\ checked' = IF k \in checked THEN checked \ {k} ELSE checked \cup {k}
    /\ UNCHANGED <<vars, tab, listed, bulk, detail, board, opened, sent>>

Startable == {"open", "reopened"}

\* What "Start review" starts: the selected findings in the table, as it
\* shows them.
Starting == {k \in checked \cap DOMAIN listed : listed[k].state \in Startable}

\* The bar appears with a selection, and starts one thing at a time.
BulkBar == tab = "queue" /\ checked # {} /\ bulk = None

startSelected ==
    /\ BulkBar /\ detail = None
    /\ \A k \in Starting : Bounded(listed[k])
    /\ bulk' = [todo |-> {[key |-> k, shown |-> listed[k]] : k \in Starting}, here |-> TRUE]
    /\ UNCHANGED <<vars, tab, listed, checked, detail, board, opened, sent>>

\* One after the other: the server disposes of the next finding, and the
\* browser learns of it or not.
BulkPost ==
    /\ bulk # None
    /\ \E r \in bulk.todo :
         /\ Dispose(r.key, Me, "in_review", NoExpiry, r.shown.revision)
         /\ bulk' \in {[bulk EXCEPT !.todo = @ \ {r}], None}
    /\ UNCHANGED <<tab, listed, checked, detail, board, opened, sent>>

\* The first refusal or lost request ends the bulk start.  The selection
\* stays, what was started included.
BulkStops ==
    /\ bulk # None /\ bulk.todo # {}
    /\ bulk' = None
    /\ UNCHANGED <<vars, tab, listed, checked, detail, board, opened, sent>>

\* At the end the selection is cleared, whatever was selected meanwhile.
BulkDone ==
    /\ bulk # None /\ bulk.todo = {}
    /\ bulk' = None
    /\ checked' = IF bulk.here THEN {} ELSE checked
    /\ UNCHANGED <<vars, tab, listed, detail, board, opened, sent>>

-----------------------------------------------------------------------------
(* The drawer with one finding. *)

OpenFinding(k) ==
    /\ \/ tab = "queue" /\ k \in DOMAIN listed
       \/ tab = "cases" /\ k = opened /\ k \in DOMAIN board
    /\ detail = None
    /\ detail' = [key |-> k, shown |-> None]
    /\ UNCHANGED <<vars, views, sent>>

CloseFinding ==
    /\ detail # None
    /\ detail' = None
    /\ UNCHANGED <<vars, views, sent>>

\* Fetched when it is opened, when the window gets the focus and after a
\* success; not in intervals, and not after a refusal.
FetchDetail ==
    /\ detail # None
    /\ detail' = [detail EXCEPT !.shown = DetailRow(detail.key)]
    /\ UNCHANGED <<vars, views, sent>>

\* The buttons for a copy.
Offered(row, to) ==
    /\ ~row.managed
    /\ \/ row.state \in Startable /\ to = "in_review"
       \/ row.state = "in_review" /\ to \in {"accepted", "dismissed", "suppressed"}

Send(k, shown, action, to, assignee) ==
    /\ sent = None
    /\ sent' = [key |-> k, shown |-> shown, action |-> action, to |-> to, assignee |-> assignee]

dispose ==
    /\ detail # None /\ detail.shown # None /\ Bounded(detail.shown)
    /\ \E to \in States :
         /\ Offered(detail.shown, to)
         /\ Send(detail.key, detail.shown, "dispose", to, NoUser)
    /\ UNCHANGED <<vars, views, detail>>

comment ==
    /\ detail # None /\ detail.shown # None
    /\ Send(detail.key, None, "comment", "", NoUser)
    /\ UNCHANGED <<vars, views, detail>>

-----------------------------------------------------------------------------
(* Review cases. *)

\* A page of the cases of one status.
Queried ==
    UNION {SUBSET {k \in Keys : cases[k].status = status} : status \in {"active", "closed"}}

\* Every ten seconds, and for another page or status, which closes the case;
\* so does a case that is on no page of its status any more.
FetchCases ==
    /\ tab = "cases"
    /\ \E shown \in Queried : board' = [k \in shown |-> BoardRow(k)]
    /\ opened' \in {opened, None}
    /\ UNCHANGED <<vars, tab, listed, checked, bulk, detail, sent>>

OpenCase(k) ==
    /\ tab = "cases" /\ detail = None
    /\ k \in DOMAIN board
    /\ opened' \in {k, None}
    /\ UNCHANGED <<vars, tab, listed, checked, bulk, detail, board, sent>>

MyRole(c) == HasRole(Me, StepOf(c).role)
permitted(c) == MyRole(c) /\ c.assignee \in {NoUser, Me}
separation(c) == StepOf(c).different /\ c.last = Me

\* Slip: nobody is told to leave the step to somebody else.
CanAdvance_Alone(c) == c.status = "active" /\ permitted(c)

\* What the page offers for a copy of a case.
CanAdvance(c) == c.status = "active" /\ permitted(c) /\ ~separation(c)
CanReturn(c) == c.status = "active" /\ permitted(c) /\ c.step > 0
CanAssign(c, assignee) ==
    /\ c.status = "active"
    /\ \/ c.assignee = NoUser /\ MyRole(c) /\ assignee = Me
       \/ /\ HasRole(Me, Manager)
          /\ assignee # NoUser => HasRole(assignee, StepOf(c).role)
CanReopen(c) == c.status = "closed" /\ HasRole(Me, Manager)

\* The case in the drawer.  It is the copy in the table, which changes under
\* what the reviewer types.
act ==
    /\ tab = "cases" /\ detail = None
    /\ opened \in DOMAIN board /\ Bounded(board[opened])
    /\ LET c == board[opened] IN
         \/ /\ CanAdvance(c)
            /\ \E to \in IF LastStep(c) THEN Settled ELSE {""} :
                 Send(opened, c, "advance", to, NoUser)
         \/ CanReturn(c) /\ Send(opened, c, "return", "", NoUser)
         \/ \E assignee \in Users \cup {NoUser} :
              CanAssign(c, assignee) /\ Send(opened, c, "assign", "", assignee)
         \/ CanReopen(c) /\ Send(opened, c, "reopen", "", NoUser)
    /\ UNCHANGED <<vars, views, detail>>

-----------------------------------------------------------------------------
(* The server's side of a request, and its end. *)

\* Slip: the request is about the row as it is when it is served.
Quoted_Current(r) == IF r.action = "dispose" THEN finding[r.key].revision ELSE cases[r.key].revision

\* The revision of the copy that was on the page.
Quoted(r) == r.shown.revision

Perform(r) ==
    \/ r.action = "dispose" /\ \E expiry \in 0 .. MaxTime : Dispose(r.key, Me, r.to, expiry, Quoted(r))
    \/ r.action = "comment" /\ Comment(r.key, Me)
    \/ r.action = "advance" /\ IF r.to = "" THEN AdvanceCase(r.key, Me, Quoted(r))
                               ELSE CloseCase(r.key, Me, r.to, Quoted(r))
    \/ r.action = "return" /\ ReturnCase(r.key, Me, Quoted(r))
    \/ r.action = "assign" /\ AssignCase(r.key, Me, r.assignee, Quoted(r))
    \/ r.action = "reopen" /\ ReopenCase(r.key, Me, Quoted(r))

Serve ==
    /\ sent # None
    /\ Perform(sent)
    /\ sent' = None
    /\ UNCHANGED <<views, detail>>

\* Refused, or lost before the server had it.
Refuse ==
    /\ sent # None
    /\ sent' = None
    /\ UNCHANGED <<vars, views, detail>>

-----------------------------------------------------------------------------

\* Everybody else.  (A run that tests nothing changes nothing.)  The clock stands
\* still: suppressions begin and do not end.
Others ==
    /\ \/ /\ \A k \in Keys : Bounded(finding[k])
          /\ \E scope \in (SUBSET Rules) \ {{}}, present \in SUBSET Keys :
               \E flagged \in [present -> Hashes] : BeginReconcile(scope, flagged)
       \/ \E k \in Keys : Observe(k)
       \/ CompleteRun \/ AbortRun
       \/ \E draft \in Drafts, revision \in 0 .. MaxWorkflows : SaveWorkflow(draft, revision)
       \/ CommitWorkflow \/ AbortWorkflow
       \/ \E k \in Keys, u \in Users \ {Me} : Request(k, u)
    /\ UNCHANGED desk

Browse ==
    \/ \E t \in {"queue", "cases"} \ {tab} : GoTo(t)
    \/ FetchQueue \/ ShowStatus \/ startSelected
    \/ BulkPost \/ BulkStops \/ BulkDone
    \/ \E k \in Keys : Check(k) \/ OpenFinding(k) \/ OpenCase(k)
    \/ CloseFinding \/ FetchDetail \/ dispose \/ comment
    \/ FetchCases \/ act
    \/ Serve \/ Refuse

DeskNext == Browse \/ Others

DeskSpec == DeskInit /\ [][DeskNext]_all

-----------------------------------------------------------------------------
(* Properties. *)

QueueCopies == [state : States, revision : Revisions]

\* Everything has its type, and a selection or an open case its page.
DeskTypeOK ==
    /\ tab \in {"queue", "cases"}
    /\ DOMAIN listed \subseteq Keys /\ \A k \in DOMAIN listed : listed[k] \in QueueCopies
    /\ checked \subseteq Keys /\ (checked # {} => tab = "queue")
    /\ bulk # None => \A r \in bulk.todo : r.key \in Keys /\ r.shown \in QueueCopies
    /\ detail # None => detail.key \in Keys
    /\ DOMAIN board \subseteq Keys /\ \A k \in DOMAIN board : board[k] \in CaseRow
    /\ opened \in Keys \cup {None} /\ (opened # None => tab = "cases")
    /\ sent # None => sent.key \in Keys /\ sent.assignee \in Users \cup {NoUser}

\* A copy of a row is never newer than the row, and as old as its revision:
\* copies with the row's revision say what the row says.
CopiesAreHonest ==
    /\ \A k \in DOMAIN listed :
         /\ listed[k].revision <= finding[k].revision
         /\ listed[k].revision = finding[k].revision => listed[k] = QueueRow(k)
    /\ \A k \in DOMAIN board :
         /\ board[k].revision <= cases[k].revision
         /\ board[k].revision = cases[k].revision => board[k] = BoardRow(k)

\* Whatever this browser changes was on its page as it was when it changed,
\* through stale tables, cases that move under the form, requests that wait and
\* bulk starts that go on after their page is gone.  (A note changes nothing.)
ActsOnWhatWasShown ==
    [][/\ sent # None /\ sent' = None /\ UNCHANGED views =>
            \/ UNCHANGED <<finding, cases>>
            \/ IF sent.action = "dispose"
               THEN DetailRow(sent.key) = sent.shown /\ UNCHANGED cases
               ELSE BoardRow(sent.key) = sent.shown
       /\ bulk # bulk' /\ finding' # finding =>
            \E r \in bulk.todo : /\ QueueRow(r.key) = r.shown /\ r.shown.state \in Startable
                                 /\ \A k \in Keys \ {r.key} : finding'[k] = finding[k]
      ]_all

\* As long as a copy is current, the page offers what the server would accept:
\* two sets of guards, one in TypeScript and one in Go, agree.  (A suppression
\* depends on the date entered.)
OfferedIsAllowed ==
    /\ opened \in DOMAIN board /\ board[opened] = cases[opened] =>
         LET k == opened
             c == cases[k]
         IN  /\ CanAdvance(c) => MayAdvance(k, Me)
             /\ CanReturn(c) => MayWork(k, Me)
             /\ CanReopen(c) => MayReopen(k, Me)
    /\ detail # None /\ detail.shown # None /\ detail.shown = DetailRow(detail.key) =>
         \A to \in States \ {"suppressed"} :
            Offered(detail.shown, to)
              => Disposable(detail.key) /\ Transition(finding[detail.key].state, to, NoExpiry, now)

=============================================================================
