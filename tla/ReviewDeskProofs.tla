--------------------------- MODULE ReviewDeskProofs ---------------------------
(***************************************************************************)
(* Proofs about ReviewDesk, for any findings, users, workflows and bounds. *)
(*                                                                         *)
(* Every step of the desk is a step of Review or leaves Review alone, so   *)
(* what ReviewSteps proves of a step holds here: a row that changes has    *)
(* another revision.  A copy is honest as long as it says what the row     *)
(* said at the copy's revision; fetching makes a copy honest, and no step  *)
(* makes it otherwise.  That is so for every copy, wherever it was put:    *)
(* into a table, the drawer, a bulk start or a request.                    *)
(***************************************************************************)
EXTENDS ReviewDesk, ReviewSteps

HonestQueueRow(k, row) ==
    /\ row \in QueueCopies
    /\ row.revision <= finding[k].revision
    /\ row.revision = finding[k].revision => row = QueueRow(k)

\* Whether a finding is managed changes without its revision.
HonestDetail(k, row) ==
    /\ row = [state |-> row.state, revision |-> row.revision, managed |-> row.managed]
    /\ row.managed \in BOOLEAN
    /\ row.revision \in Nat /\ row.revision <= finding[k].revision
    /\ row.revision = finding[k].revision => row.state = finding[k].state

HonestCase(k, row) ==
    /\ row \in CaseRow
    /\ row.revision <= cases[k].revision
    /\ row.revision = cases[k].revision => row = BoardRow(k)

TablesOK ==
    /\ DOMAIN listed \subseteq Keys /\ \A k \in DOMAIN listed : HonestQueueRow(k, listed[k])
    /\ DOMAIN board \subseteq Keys /\ \A k \in DOMAIN board : HonestCase(k, board[k])

\* A selection and an open case are on their page.
SelectionOK ==
    /\ tab \in {"queue", "cases"}
    /\ checked \subseteq Keys /\ (checked # {} => tab = "queue")
    /\ opened \in Keys \cup {None} /\ (opened # None => tab = "cases")

BulkOK ==
    bulk # None =>
    /\ bulk = [todo |-> bulk.todo, here |-> bulk.here]
    /\ \A r \in bulk.todo : /\ r.key \in Keys /\ r.shown.state \in Startable
                            /\ HonestQueueRow(r.key, r.shown)

DrawerOK ==
    detail # None =>
    /\ detail = [key |-> detail.key, shown |-> detail.shown]
    /\ detail.key \in Keys
    /\ detail.shown # None => HonestDetail(detail.key, detail.shown)

\* A request carries a copy that was honest and, where the page looked at it,
\* offered what is asked.
SentOK ==
    sent # None =>
    /\ sent.key \in Keys /\ sent.assignee \in Users \cup {NoUser}
    /\ sent.action \in {"dispose", "comment", "advance", "return", "assign", "reopen"}
    /\ sent.action = "dispose" =>
         /\ sent.to \in States /\ ~sent.shown.managed
         /\ HonestDetail(sent.key, sent.shown)
    /\ sent.action \in {"advance", "return", "assign", "reopen"} =>
         /\ sent.to \in Settled \cup {""}
         /\ HonestCase(sent.key, sent.shown)

DeskInv == StepsInv /\ TablesOK /\ SelectionOK /\ BulkOK /\ DrawerOK /\ SentOK

-----------------------------------------------------------------------------
(***************************************************************************)
(* Every step of the desk is one of Review.                                *)
(***************************************************************************)

LEMMA RowsTyped ==
    ASSUME StepsInv, NEW k \in Keys
    PROVE  /\ finding[k] \in FindingRow /\ cases[k] \in CaseRow
           /\ finding[k].state \in States \cup {""}
           /\ finding[k].revision \in Nat /\ finding[k].revision \in Revisions
           /\ cases[k].revision \in Nat /\ cases[k].revision \in Revisions
<1>1. finding[k] \in FindingRow /\ cases[k] \in CaseRow
  BY DEF StepsInv, FullInv, IInv, TypeOK, FindingsTyped, CasesTyped
<1>2. cases[k].revision \in Revisions
  BY <1>1 DEF CaseRow
<1> QED BY <1>1, <1>2, FindingFields, RevisionsNat

LEMMA BulkPostIsRequest ==
    ASSUME DeskInv, BulkPost
    PROVE  \E r \in bulk.todo :
             /\ r.key \in Keys
             /\ Dispose(r.key, Me, "in_review", NoExpiry, r.shown.revision)
             /\ Request(r.key, Me)
<1>1. PICK r \in bulk.todo : Dispose(r.key, Me, "in_review", NoExpiry, r.shown.revision)
  BY DEF BulkPost
<1>2. r.key \in Keys
  BY DEF DeskInv, BulkOK, BulkPost
<1>3. r.shown.revision \in Revisions
  BY <1>1, <1>2, RowsTyped DEF Dispose, DeskInv
<1>4. "in_review" \in States /\ NoExpiry \in 0 .. MaxTime
  BY Bounds DEF States, Active, NoExpiry
<1> QED BY <1>1, <1>2, <1>3, <1>4 DEF Request

LEMMA ServeIsRequest ==
    ASSUME DeskInv, sent # None, Perform(sent)
    PROVE  sent.key \in Keys /\ Request(sent.key, Me)
<1> DEFINE k == sent.key
<1>1. k \in Keys
  BY DEF DeskInv, SentOK
<1>2. finding[k].revision \in Revisions /\ cases[k].revision \in Revisions
  BY <1>1, RowsTyped DEF DeskInv
<1>3. ASSUME NEW expiry \in 0 .. MaxTime, sent.action = "dispose",
             Dispose(k, Me, sent.to, expiry, Quoted(sent))
      PROVE  Request(k, Me)
  <2>1. Quoted(sent) \in Revisions
    BY <1>2, <1>3 DEF Dispose
  <2>2. sent.to \in States
    BY <1>3 DEF DeskInv, SentOK
  <2> QED BY <1>3, <2>1, <2>2 DEF Request
<1>4. CASE Comment(k, Me)
  BY <1>1, <1>4 DEF Request
<1>5. ASSUME sent.action \in {"advance", "return", "assign", "reopen"}, Quoted(sent) = cases[k].revision,
             \/ AdvanceCase(k, Me, Quoted(sent))
             \/ sent.to # "" /\ CloseCase(k, Me, sent.to, Quoted(sent))
             \/ ReturnCase(k, Me, Quoted(sent)) \/ ReopenCase(k, Me, Quoted(sent))
             \/ AssignCase(k, Me, sent.assignee, Quoted(sent))
      PROVE  Request(k, Me)
  <2>1. /\ Quoted(sent) \in Revisions /\ sent.assignee \in Users \cup {NoUser}
        /\ sent.to \in Settled \cup {""}
    BY <1>2, <1>5 DEF DeskInv, SentOK
  <2>2. ActOnCase(k, Me, Quoted(sent))
    BY <1>5, <2>1 DEF ActOnCase
  <2> QED BY <2>1, <2>2 DEF Request
<1>6. \A assignee, to, revision :
        \/ AdvanceCase(k, Me, revision) \/ CloseCase(k, Me, to, revision) \/ ReturnCase(k, Me, revision)
        \/ ReopenCase(k, Me, revision) \/ AssignCase(k, Me, assignee, revision)
        => revision = cases[k].revision
  BY DEF AdvanceCase, CloseCase, ReturnCase, ReopenCase, AssignCase, MayAct
<1> QED BY <1>1, <1>3, <1>4, <1>5, <1>6 DEF Perform

\* What the browser does by itself leaves the server alone.
Local ==
    \/ \E t \in {"queue", "cases"} : GoTo(t)
    \/ FetchQueue \/ ShowStatus \/ startSelected \/ BulkStops \/ BulkDone
    \/ \E k \in Keys : Check(k) \/ OpenFinding(k) \/ OpenCase(k)
    \/ CloseFinding \/ FetchDetail \/ dispose \/ comment
    \/ FetchCases \/ act \/ Refuse

LEMMA LocalSteps == Local => UNCHANGED vars
BY Zenon DEF Local, GoTo, FetchQueue, ShowStatus, startSelected, BulkStops, BulkDone, Check, OpenFinding,
             OpenCase, CloseFinding, FetchDetail, dispose, comment, FetchCases, act, Refuse

LEMMA DeskCases == DeskNext => Local \/ BulkPost \/ Serve \/ Others
BY DEF DeskNext, Browse, Local

LEMMA OthersStep == Others => Next /\ UNCHANGED desk
BY DEF Others, Next

LEMMA ServerStep == DeskInv /\ [DeskNext]_all => [Next]_vars
<1> SUFFICES ASSUME DeskInv, [DeskNext]_all PROVE [Next]_vars
  OBVIOUS
<1>1. ASSUME NEW k \in Keys, Request(k, Me) PROVE Next
  BY <1>1, DeskAssumption DEF Next
<1>2. CASE Local
  BY <1>2, LocalSteps
<1>3. CASE BulkPost
  BY <1>1, <1>3, BulkPostIsRequest
<1>4. CASE Serve
  BY <1>1, <1>4, ServeIsRequest DEF Serve
<1>5. CASE Others
  BY <1>5, OthersStep
<1>6. CASE UNCHANGED all
  BY <1>6 DEF all
<1> QED BY <1>2, <1>3, <1>4, <1>5, <1>6, DeskCases

-----------------------------------------------------------------------------
(***************************************************************************)
(* Copies stay honest where they are.                                      *)
(***************************************************************************)

\* An older revision stays older, and the same revision is the same row.
LEMMA OlderStaysOlder ==
    ASSUME StepsInv, [Next]_vars, NEW k \in Keys, NEW n \in Nat
    PROVE  /\ n <= finding[k].revision =>
                /\ n <= finding'[k].revision
                /\ n = finding'[k].revision => n = finding[k].revision /\ finding'[k] = finding[k]
           /\ n <= cases[k].revision =>
                /\ n <= cases'[k].revision
                /\ n = cases'[k].revision => n = cases[k].revision /\ cases'[k] = cases[k]
BY RevisionsStep

LEMMA HonestKept ==
    ASSUME StepsInv, [Next]_vars, NEW k \in Keys, NEW row
    PROVE  /\ HonestQueueRow(k, row) => HonestQueueRow(k, row)'
           /\ HonestDetail(k, row) => HonestDetail(k, row)'
           /\ HonestCase(k, row) => HonestCase(k, row)'
<1>1. ASSUME HonestQueueRow(k, row) PROVE HonestQueueRow(k, row)'
  <2>1. row.revision \in Nat
    BY <1>1, RevisionsNat DEF HonestQueueRow, QueueCopies
  <2> QED BY <1>1, <2>1, OlderStaysOlder DEF HonestQueueRow, QueueRow
<1>2. ASSUME HonestDetail(k, row) PROVE HonestDetail(k, row)'
  BY <1>2, OlderStaysOlder DEF HonestDetail
<1>3. ASSUME HonestCase(k, row) PROVE HonestCase(k, row)'
  <2>1. row.revision \in Nat
    BY <1>3, RevisionsNat DEF HonestCase, CaseRow
  <2> QED BY <1>3, <2>1, OlderStaysOlder DEF HonestCase, BoardRow
<1> QED BY <1>1, <1>2, <1>3

\* A bulk start has no more to do than before.
BulkGoesOn ==
    \/ bulk' = None
    \/ /\ bulk # None
       /\ bulk' = [todo |-> bulk'.todo, here |-> bulk'.here]
       /\ bulk'.todo \subseteq bulk.todo

\* What a step leaves alone stays in order.
LEMMA Kept ==
    ASSUME DeskInv, [Next]_vars
    PROVE  /\ StepsInv'
           /\ UNCHANGED <<listed, board>> => TablesOK'
           /\ UNCHANGED <<tab, checked, opened>> => SelectionOK'
           /\ BulkGoesOn => BulkOK'
           /\ detail' \in {detail, None} => DrawerOK'
           /\ sent' \in {sent, None} => SentOK'
<1> USE DEF DeskInv
<1>1. StepsInv'
  BY StepsInvStep
<1>2. ASSUME UNCHANGED <<listed, board>> PROVE TablesOK'
  <2>1. ASSUME NEW k \in DOMAIN listed PROVE HonestQueueRow(k, listed[k])'
    <3>1. k \in Keys /\ HonestQueueRow(k, listed[k])
      BY DEF TablesOK
    <3>2. \A row : HonestQueueRow(k, row) => HonestQueueRow(k, row)'
      BY <3>1, HonestKept
    <3> QED BY <1>2, <3>1, <3>2 DEF HonestQueueRow, QueueRow
  <2>2. ASSUME NEW k \in DOMAIN board PROVE HonestCase(k, board[k])'
    <3>1. k \in Keys /\ HonestCase(k, board[k])
      BY DEF TablesOK
    <3>2. \A row : HonestCase(k, row) => HonestCase(k, row)'
      BY <3>1, HonestKept
    <3> QED BY <1>2, <3>1, <3>2 DEF HonestCase, BoardRow
  <2> QED BY <1>2, <2>1, <2>2 DEF TablesOK
<1>3. ASSUME UNCHANGED <<tab, checked, opened>> PROVE SelectionOK'
  BY <1>3 DEF SelectionOK
<1>4. ASSUME BulkGoesOn, bulk' # None PROVE BulkOK'
  <2>1. ASSUME NEW r \in bulk.todo
        PROVE  r.key \in Keys /\ r.shown.state \in Startable /\ HonestQueueRow(r.key, r.shown)'
    BY <1>4, HonestKept DEF BulkOK, BulkGoesOn
  <2> QED BY <1>4, <2>1 DEF BulkOK, BulkGoesOn
<1>5. ASSUME detail' = detail, detail # None PROVE DrawerOK'
  <2>1. ASSUME detail.shown # None PROVE HonestDetail(detail.key, detail.shown)'
    <3>1. detail.key \in Keys /\ HonestDetail(detail.key, detail.shown)
      BY <1>5, <2>1 DEF DrawerOK
    <3>2. \A k \in Keys : \A row : HonestDetail(k, row) => HonestDetail(k, row)'
      BY HonestKept
    <3> QED BY <1>5, <3>1, <3>2 DEF HonestDetail
  <2> QED BY <1>5, <2>1 DEF DrawerOK
<1>6. ASSUME sent' = sent, sent # None PROVE SentOK'
  <2>1. sent.key \in Keys
    BY <1>6 DEF SentOK
  <2>2. ASSUME HonestDetail(sent.key, sent.shown) PROVE HonestDetail(sent.key, sent.shown)'
    <3>1. \A k \in Keys : \A row : HonestDetail(k, row) => HonestDetail(k, row)'
      BY HonestKept
    <3> QED BY <1>6, <2>1, <2>2, <3>1 DEF HonestDetail
  <2>3. ASSUME HonestCase(sent.key, sent.shown) PROVE HonestCase(sent.key, sent.shown)'
    <3>1. \A k \in Keys : \A row : HonestCase(k, row) => HonestCase(k, row)'
      BY HonestKept
    <3> QED BY <1>6, <2>1, <2>3, <3>1 DEF HonestCase, BoardRow
  <2> QED BY <1>6, <2>1, <2>2, <2>3 DEF SentOK
<1> QED BY <1>1, <1>2, <1>3, <1>4, <1>5, <1>6 DEF BulkOK, DrawerOK, SentOK

-----------------------------------------------------------------------------
(***************************************************************************)
(* The invariant.                                                          *)
(***************************************************************************)

LEMMA FetchedAreHonest ==
    ASSUME StepsInv, NEW k \in Keys
    PROVE  /\ finding[k].state # "" => HonestQueueRow(k, QueueRow(k))
           /\ HonestDetail(k, DetailRow(k))
           /\ HonestCase(k, BoardRow(k))
<1>1. /\ finding[k].revision \in Nat /\ finding[k].revision \in Revisions
      /\ finding[k].state \in States \cup {""} /\ cases[k] \in CaseRow /\ cases[k].revision \in Nat
  BY RowsTyped
<1>2. finding[k].revision <= finding[k].revision /\ cases[k].revision <= cases[k].revision
  <2>1. \A n \in Nat : n <= n
    OBVIOUS
  <2> QED BY <1>1, <2>1
<1>3. ASSUME finding[k].state # "" PROVE HonestQueueRow(k, QueueRow(k))
  <2>1. QueueRow(k) \in QueueCopies
    BY <1>1, <1>3 DEF QueueRow, QueueCopies
  <2> QED BY <1>2, <2>1 DEF HonestQueueRow, QueueRow
<1>4. HonestDetail(k, DetailRow(k))
  <2>1. /\ DetailRow(k).state = finding[k].state /\ DetailRow(k).revision = finding[k].revision
        /\ DetailRow(k).managed = Managed(k)
    BY DEF DetailRow
  <2>2. DetailRow(k) = [state |-> DetailRow(k).state, revision |-> DetailRow(k).revision,
                        managed |-> DetailRow(k).managed]
    BY DEF DetailRow
  <2>3. Managed(k) \in BOOLEAN
    BY DEF Managed
  <2> QED BY <1>1, <1>2, <2>1, <2>2, <2>3 DEF HonestDetail
<1>5. HonestCase(k, BoardRow(k))
  BY <1>1, <1>2 DEF HonestCase, BoardRow
<1> QED BY <1>3, <1>4, <1>5

LEMMA InitDeskInv == DeskInit => DeskInv
<1> SUFFICES ASSUME DeskInit PROVE DeskInv
  OBVIOUS
<1>1. PICK published \in {<< >>} \cup {<<d>> : d \in {d \in Drafts : Valid(d)}} :
        /\ workflows = published
        /\ cases = [k \in Keys |-> IF published = << >> THEN NoCase ELSE NewCase(1)]
  BY DEF DeskInit
<1>2. PICK hash \in Hashes : finding = [k \in Keys |-> NewRow(NoFinding, "open", hash, NoExpiry)]
  BY DEF DeskInit
<1>3. WorkflowsTyped
  <2>1. CASE published = << >>
    <3>1. DOMAIN workflows = {} /\ workflows \in Seq(Drafts) /\ Len(workflows) = 0
      BY <1>1, <2>1, EmptyTuple
    <3> QED BY <3>1, Bounds DEF WorkflowsTyped
  <2>2. ASSUME NEW d \in Drafts, Valid(d), published = <<d>> PROVE WorkflowsTyped
    <3>1. DOMAIN workflows = {1} /\ workflows \in Seq(Drafts) /\ Len(workflows) = 1 /\ workflows[1] = d
      BY <1>1, <2>2
    <3> QED BY <2>2, <3>1, Bounds, DeskAssumption DEF WorkflowsTyped
  <2> QED BY <1>1, <2>1, <2>2
<1>4. \A k \in Keys : finding[k] \in FindingRow /\ finding[k].state = "open"
  <2>1. NoFinding.revision = 0
    BY DEF NoFinding
  <2>2. NewRow(NoFinding, "open", hash, NoExpiry) \in FindingRow
    <3>1. NoExpiry \in Time /\ 1 \in Revisions /\ "open" \in States
      BY Bounds DEF NoExpiry, Time, Revisions, States, Active
    <3> QED BY <2>1, <3>1 DEF NewRow, FindingRow
  <2>3. NewRow(NoFinding, "open", hash, NoExpiry).state = "open"
    BY DEF NewRow
  <2> HIDE DEF NewRow
  <2> QED BY <1>2, <2>2, <2>3
<1>5. ASSUME NEW k \in Keys
      PROVE  /\ cases[k] \in CaseRow /\ CaseInRange(cases[k]) /\ cases[k].status # "closed"
             /\ cases[k].status = "none" => cases[k] = NoCase
             /\ cases[k].status = "active" => cases[k].assignee = NoUser
  <2>1. CASE published = << >>
    <3>1. cases[k] = NoCase
      BY <1>1, <2>1
    <3>2. NoCase \in CaseRow /\ NoCase.status = "none"
      BY Bounds DEF NoCase, CaseRow, Revisions
    <3> QED BY <3>1, <3>2 DEF CaseInRange
  <2>2. CASE published # << >>
    <3>1. cases[k] = NewCase(1) /\ 1 \in DOMAIN workflows
      BY <1>1, <2>2
    <3>2. /\ NewCase(1) \in CaseRow /\ CaseInRange(NewCase(1))
          /\ NewCase(1).status = "active" /\ NewCase(1).assignee = NoUser
      BY <1>3, <3>1, NewCaseFacts
    <3> QED BY <3>1, <3>2
  <2> QED BY <2>1, <2>2
<1>6. Event(System, "", "open") \in TrailRow
  BY EventTyped DEF States, Active
<1>7. Tables
  <2>1. DOMAIN finding = Keys /\ DOMAIN cases = Keys
    BY <1>1, <1>2
  <2>2. finding = [k \in Keys |-> finding[k]] /\ cases = [k \in Keys |-> cases[k]]
    BY <1>1, <1>2
  <2>3. finding \in [Keys -> FindingRow] /\ cases \in [Keys -> CaseRow]
    BY <1>4, <1>5, <2>2
  <2>4. trail \in [Keys -> TrailRow] /\ DOMAIN completedBy = Keys
    BY <1>6 DEF DeskInit
  <2> QED BY <2>3, <2>4 DEF Tables
<1>8. PublicationTyped /\ ~publication.open
  BY DEF DeskInit, PublicationTyped, NoPublication
<1>9. RunTyped
  <2>1. now = 0 /\ run.at = 0 /\ run.open = FALSE /\ run.scope = {}
    BY DEF DeskInit, NoRun
  <2>2. now \in Time /\ run.at \in 0 .. now
    BY <2>1, Bounds DEF Time
  <2>3. DOMAIN run.flagged = {}
    BY EmptyTuple DEF DeskInit, NoRun
  <2> QED BY <2>1, <2>2, <2>3 DEF RunTyped
<1>10. DOMAIN staged = {}
  BY EmptyTuple DEF DeskInit
<1>11. IInv
  <2>1. \A k \in Keys : RowOK(finding[k], cases[k], trail[k])
    BY <1>4, <1>5, <1>6 DEF RowOK, DeskInit
  <2>2. StagedOnCommitted
    BY <1>10 DEF StagedOnCommitted
  <2> QED BY <1>3, <1>7, <1>8, <1>9, <2>1, <2>2, Assemble
<1>12. StepsInv
  <2>1. PublicationUndecided
    BY <1>8 DEF PublicationUndecided
  <2>2. CaseHasFinding
    BY <1>4 DEF CaseHasFinding
  <2>3. StagedReconciled
    BY <1>10 DEF StagedReconciled
  <2> QED BY <1>11, <2>1, <2>2, <2>3 DEF StepsInv, FullInv
<1>13. TablesOK
  BY EmptyTuple DEF DeskInit, TablesOK
<1>14. SelectionOK /\ BulkOK /\ DrawerOK /\ SentOK
  BY DEF DeskInit, SelectionOK, BulkOK, DrawerOK, SentOK
<1> QED BY <1>12, <1>13, <1>14 DEF DeskInv

\* Fetching puts honest copies on the page.
LEMMA StepFetch == DeskInv /\ (FetchQueue \/ FetchDetail \/ FetchCases) => DeskInv'
<1> SUFFICES ASSUME DeskInv, FetchQueue \/ FetchDetail \/ FetchCases PROVE DeskInv'
  OBVIOUS
<1>1. UNCHANGED vars /\ finding' = finding /\ cases' = cases
  BY DEF FetchQueue, FetchDetail, FetchCases, vars
<1>2. [Next]_vars /\ StepsInv
  BY <1>1 DEF DeskInv
<1>3. bulk' = bulk => BulkGoesOn
  BY DEF DeskInv, BulkOK, BulkGoesOn
<1>4. CASE FetchQueue
  <2>1. PICK shown \in Filtered : listed' = [k \in shown |-> QueueRow(k)]
    BY <1>4 DEF FetchQueue
  <2>2. ASSUME NEW k \in shown PROVE k \in Keys /\ HonestQueueRow(k, QueueRow(k))
    BY <1>2, FetchedAreHonest DEF Filtered
  <2>3. DOMAIN listed' \subseteq Keys /\ \A k \in DOMAIN listed' : HonestQueueRow(k, listed[k])'
    BY <1>1, <2>1, <2>2 DEF HonestQueueRow, QueueRow
  <2>4. UNCHANGED <<tab, checked, bulk, detail, board, opened, sent>>
    BY <1>4 DEF FetchQueue
  <2>5. ASSUME NEW k \in DOMAIN board PROVE HonestCase(k, board[k])'
    BY <1>1, <2>4 DEF DeskInv, TablesOK, HonestCase, BoardRow
  <2>6. TablesOK'
    BY <2>3, <2>4, <2>5 DEF TablesOK, DeskInv
  <2> QED BY <1>2, <1>3, <2>4, <2>6, Kept DEF DeskInv
<1>5. CASE FetchDetail
  <2>1. /\ UNCHANGED <<tab, listed, checked, bulk, board, opened, sent>> /\ detail # None
        /\ detail' = [detail EXCEPT !.shown = DetailRow(detail.key)]
    BY <1>5 DEF FetchDetail, views
  <2>2. detail.key \in Keys /\ detail' = [key |-> detail.key, shown |-> DetailRow(detail.key)]
    BY <2>1 DEF DeskInv, DrawerOK
  <2>3. HonestDetail(detail.key, DetailRow(detail.key))
    BY <1>2, <2>2, FetchedAreHonest
  <2>4. HonestDetail(detail.key, detail.shown)'
    BY <1>1, <2>2, <2>3 DEF HonestDetail
  <2>5. DrawerOK'
    BY <2>2, <2>4 DEF DrawerOK
  <2> QED BY <1>2, <1>3, <2>1, <2>5, Kept DEF DeskInv
<1>6. CASE FetchCases
  <2>1. PICK shown \in Queried : board' = [k \in shown |-> BoardRow(k)]
    BY <1>6 DEF FetchCases
  <2>2. ASSUME NEW k \in shown PROVE k \in Keys /\ HonestCase(k, BoardRow(k))
    BY <1>2, FetchedAreHonest DEF Queried
  <2>3. DOMAIN board' \subseteq Keys /\ \A k \in DOMAIN board' : HonestCase(k, board[k])'
    BY <1>1, <2>1, <2>2 DEF HonestCase, BoardRow
  <2>4. UNCHANGED <<tab, listed, checked, bulk, detail, sent>> /\ opened' \in {opened, None}
    BY <1>6 DEF FetchCases
  <2>5. ASSUME NEW k \in DOMAIN listed PROVE HonestQueueRow(k, listed[k])'
    BY <1>1, <2>4 DEF DeskInv, TablesOK, HonestQueueRow, QueueRow
  <2>6. TablesOK' /\ SelectionOK'
    BY <2>3, <2>4, <2>5 DEF TablesOK, SelectionOK, DeskInv
  <2> QED BY <1>2, <1>3, <2>4, <2>6, Kept DEF DeskInv
<1> QED BY <1>4, <1>5, <1>6

\* Going from page to page, selecting and opening put no copies anywhere but
\* into a bulk start.
LEMMA StepBrowse ==
    ASSUME DeskInv,
           \/ \E t \in {"queue", "cases"} : GoTo(t)
           \/ ShowStatus \/ startSelected \/ BulkStops \/ BulkDone \/ CloseFinding
           \/ \E k \in Keys : Check(k) \/ OpenFinding(k) \/ OpenCase(k)
    PROVE  DeskInv'
<1>1. Local
  BY DEF Local
<1>2. UNCHANGED vars /\ finding' = finding /\ cases' = cases
  BY <1>1, LocalSteps DEF vars
<1>3. [Next]_vars
  BY <1>2
<1>4. bulk' = bulk => BulkGoesOn
  BY DEF DeskInv, BulkOK, BulkGoesOn
<1>5. ASSUME NEW t \in {"queue", "cases"}, GoTo(t) PROVE DeskInv'
  <2>1. TablesOK'
    BY <1>5, EmptyTuple DEF GoTo, TablesOK
  <2>2. SelectionOK'
    BY <1>5 DEF GoTo, SelectionOK
  <2>3. BulkGoesOn
    BY <1>5 DEF GoTo, DeskInv, BulkOK, BulkGoesOn
  <2>4. detail' = None /\ sent' = sent
    BY <1>5 DEF GoTo
  <2> QED BY <1>3, <2>1, <2>2, <2>3, <2>4, Kept DEF DeskInv
<1>6. CASE ShowStatus \/ BulkDone
  <2>1. /\ UNCHANGED <<tab, listed, detail, board, opened, sent>> /\ checked' \in {checked, {}}
        /\ bulk' \in {bulk, None}
    BY <1>6 DEF ShowStatus, BulkDone
  <2>2. SelectionOK'
    BY <2>1 DEF DeskInv, SelectionOK
  <2>3. BulkGoesOn
    BY <1>4, <2>1 DEF BulkGoesOn
  <2> QED BY <1>3, <2>1, <2>2, <2>3, Kept DEF DeskInv
<1>7. CASE BulkStops \/ CloseFinding
  <2>1. UNCHANGED <<tab, listed, checked, board, opened, sent>> /\ detail' \in {detail, None}
        /\ bulk' \in {bulk, None}
    BY <1>7 DEF BulkStops, CloseFinding, views
  <2>2. BulkGoesOn
    BY <1>4, <2>1 DEF BulkGoesOn
  <2> QED BY <1>3, <2>1, <2>2, Kept DEF DeskInv
<1>8. CASE startSelected
  <2>1. /\ UNCHANGED <<tab, listed, checked, detail, board, opened, sent>>
        /\ bulk' = [todo |-> {[key |-> k, shown |-> listed[k]] : k \in Starting}, here |-> TRUE]
    BY <1>8 DEF startSelected
  <2>2. ASSUME NEW k \in Starting
        PROVE  k \in Keys /\ listed[k].state \in Startable /\ HonestQueueRow(k, listed[k])
    BY DEF Starting, DeskInv, TablesOK
  <2>3. ASSUME NEW r \in bulk'.todo
        PROVE  r.key \in Keys /\ r.shown.state \in Startable /\ HonestQueueRow(r.key, r.shown)
    BY <2>1, <2>2
  <2>4. ASSUME NEW r \in bulk'.todo PROVE HonestQueueRow(r.key, r.shown)'
    BY <1>2, <2>3 DEF HonestQueueRow, QueueRow
  <2>5. BulkOK'
    BY <2>1, <2>3, <2>4 DEF BulkOK
  <2> QED BY <1>3, <2>1, <2>5, Kept DEF DeskInv
<1>9. ASSUME NEW k \in Keys, Check(k) \/ OpenCase(k) PROVE DeskInv'
  <2>1. UNCHANGED <<tab, listed, bulk, detail, board, sent>>
    BY <1>9 DEF Check, OpenCase
  <2>2. SelectionOK'
    BY <1>9 DEF Check, OpenCase, DeskInv, SelectionOK
  <2> QED BY <1>3, <1>4, <2>1, <2>2, Kept DEF DeskInv
<1>10. ASSUME NEW k \in Keys, OpenFinding(k) PROVE DeskInv'
  <2>1. UNCHANGED <<tab, listed, checked, bulk, board, opened, sent>>
    BY <1>10 DEF OpenFinding, views
  <2>2. DrawerOK'
    BY <1>10 DEF OpenFinding, DrawerOK
  <2> QED BY <1>3, <1>4, <2>1, <2>2, Kept DEF DeskInv
<1> QED BY <1>5, <1>6, <1>7, <1>8, <1>9, <1>10

\* A request takes its copy from the page.
LEMMA StepSend == DeskInv /\ (dispose \/ comment \/ act) => DeskInv'
<1> SUFFICES ASSUME DeskInv, dispose \/ comment \/ act PROVE DeskInv'
  OBVIOUS
<1>1. UNCHANGED <<vars, tab, listed, checked, bulk, board, opened, detail>>
      /\ finding' = finding /\ cases' = cases
  BY DEF dispose, comment, act, views, vars
<1>2. [Next]_vars
  BY <1>1
<1>3. BulkGoesOn
  BY <1>1 DEF DeskInv, BulkOK, BulkGoesOn
<1>4. ASSUME dispose PROVE SentOK'
  <2>1. PICK to \in States : Offered(detail.shown, to) /\ Send(detail.key, detail.shown, "dispose", to, NoUser)
    BY <1>4 DEF dispose
  <2>2. detail.key \in Keys /\ HonestDetail(detail.key, detail.shown) /\ ~detail.shown.managed
    BY <1>4, <2>1 DEF dispose, Offered, DeskInv, DrawerOK
  <2>3. sent' = [key |-> detail.key, shown |-> detail.shown, action |-> "dispose", to |-> to,
                 assignee |-> NoUser]
    BY <2>1 DEF Send
  <2>4. HonestDetail(sent.key, sent.shown)'
    BY <1>1, <2>2, <2>3 DEF HonestDetail
  <2> QED BY <2>2, <2>3, <2>4 DEF SentOK
<1>5. ASSUME comment PROVE SentOK'
  <2>1. detail.key \in Keys
    BY <1>5 DEF comment, DeskInv, DrawerOK
  <2> QED BY <1>5, <2>1 DEF comment, Send, SentOK
<1>6. ASSUME act PROVE SentOK'
  <2> DEFINE c == board[opened]
  <2>1. opened \in Keys /\ HonestCase(opened, c)
    BY <1>6 DEF act, DeskInv, TablesOK
  <2>2. PICK action \in {"advance", "return", "assign", "reopen"}, to \in Settled \cup {""},
             assignee \in Users \cup {NoUser} : Send(opened, c, action, to, assignee)
    BY <1>6, Zenon DEF act
  <2>3. sent' = [key |-> opened, shown |-> c, action |-> action, to |-> to, assignee |-> assignee]
    BY <2>2 DEF Send
  <2>4. HonestCase(sent.key, sent.shown)'
    BY <1>1, <2>1, <2>3 DEF HonestCase, BoardRow
  <2> HIDE DEF c
  <2> QED BY <2>1, <2>3, <2>4 DEF SentOK
<1>7. SentOK'
  BY <1>4, <1>5, <1>6
<1> QED BY <1>1, <1>2, <1>3, <1>7, Kept DEF DeskInv

LEMMA StepServer ==
    ASSUME DeskInv, BulkPost \/ Serve \/ Refuse \/ Others \/ UNCHANGED all
    PROVE  DeskInv'
<1>1. [Next]_vars
  <2>1. Refuse => UNCHANGED vars
    BY DEF Refuse
  <2>2. Others => DeskNext
    BY DEF DeskNext
  <2>3. BulkPost \/ Serve => DeskNext
    BY DEF DeskNext, Browse
  <2> QED BY <2>1, <2>2, <2>3, ServerStep
<1>2. UNCHANGED <<tab, listed, checked, board, opened, detail>> /\ sent' \in {sent, None}
  BY OthersStep DEF BulkPost, Serve, Refuse, views, desk, all
<1>3. BulkGoesOn
  <2>1. CASE BulkPost
    <3>1. bulk # None /\ bulk = [todo |-> bulk.todo, here |-> bulk.here]
      BY <2>1 DEF BulkPost, DeskInv, BulkOK
    <3>2. PICK r \in bulk.todo : bulk' \in {[bulk EXCEPT !.todo = @ \ {r}], None}
      BY <2>1 DEF BulkPost
    <3>3. bulk' = None \/ bulk' = [todo |-> bulk.todo \ {r}, here |-> bulk.here]
      BY <3>1, <3>2
    <3> QED BY <3>1, <3>3 DEF BulkGoesOn
  <2>2. CASE bulk' = bulk
    BY <2>2 DEF DeskInv, BulkOK, BulkGoesOn
  <2> QED BY <2>1, <2>2, OthersStep DEF Serve, Refuse, views, desk, all
<1> QED BY <1>1, <1>2, <1>3, Kept DEF DeskInv

LEMMA StepDeskInv == DeskInv /\ [DeskNext]_all => DeskInv'
<1> SUFFICES ASSUME DeskInv, [DeskNext]_all PROVE DeskInv'
  OBVIOUS
<1>1. CASE Local
  BY <1>1, StepFetch, StepBrowse, StepSend, StepServer DEF Local
<1> QED BY <1>1, StepServer, DeskCases

LEMMA DeskInvariance == DeskSpec => []DeskInv
BY InitDeskInv, StepDeskInv, PTL DEF DeskSpec

\* Whatever this browser sends, from whichever copy, the server sees requests
\* that Review knows, with revisions in range and by a user who may be any: what
\* is proved of Review's steps holds with this browser in front of it.
THEOREM DeskUsesReview == DeskSpec => [][Next]_vars /\ [](TypeOK /\ ClosedIsSettled /\ StagedOnCommitted)
<1>1. DeskInv => TypeOK /\ ClosedIsSettled /\ StagedOnCommitted
  BY DEF DeskInv, StepsInv, FullInv, IInv
<1> QED BY <1>1, ServerStep, DeskInvariance, PTL DEF DeskSpec

-----------------------------------------------------------------------------
(***************************************************************************)
(* What follows.                                                           *)
(***************************************************************************)

\* The pages and what they have sent keep their types; nothing stays selected
\* or open behind a page that was left.
THEOREM DeskTypeCorrect == DeskSpec => []DeskTypeOK
<1>1. DeskInv => DeskTypeOK
  BY DEF DeskInv, TablesOK, SelectionOK, BulkOK, DrawerOK, SentOK, HonestQueueRow, HonestCase, DeskTypeOK
<1> QED BY <1>1, DeskInvariance, PTL

\* The two tables are fetched now and then, while everybody works: what they
\* show is never ahead of the server, and what they show of the present revision
\* is what the row says.
THEOREM CopiesHonest == DeskSpec => []CopiesAreHonest
<1>1. DeskInv => CopiesAreHonest
  BY DEF DeskInv, TablesOK, HonestQueueRow, HonestCase, CopiesAreHonest
<1> QED BY <1>1, DeskInvariance, PTL

\* The guards of CaseDetail and ExceptionDetail imply those of ActOnCase and
\* Disposition as long as the copy is current: the pages offer nothing that the
\* server refuses to everybody.
THEOREM OffersAllowed == DeskSpec => []OfferedIsAllowed
<1>1. OfferedIsAllowed
  <2>1. ASSUME opened \in DOMAIN board, board[opened] = cases[opened]
        PROVE  LET k == opened
                   c == cases[k]
               IN  /\ CanAdvance(c) => MayAdvance(k, Me)
                   /\ CanReturn(c) => MayWork(k, Me)
                   /\ CanReopen(c) => MayReopen(k, Me)
    BY DEF CanAdvance, CanReturn, CanReopen, permitted, separation, MyRole, MayAdvance, MayWork, MayReopen
  <2>2. ASSUME detail.shown = DetailRow(detail.key), NEW to \in States \ {"suppressed"},
               Offered(detail.shown, to)
        PROVE  Disposable(detail.key) /\ Transition(finding[detail.key].state, to, NoExpiry, now)
    <3>1. /\ detail.shown.managed = Managed(detail.key)
          /\ detail.shown.state = finding[detail.key].state
      BY <2>2 DEF DetailRow
    <3> QED BY <2>2, <3>1 DEF Offered, Disposable, Transition, Startable, Settled
  <2> QED BY <2>1, <2>2 DEF OfferedIsAllowed
<1> QED BY <1>1, PTL

\* A disposition that is accepted was asked for on a copy that still says what
\* the finding says; so was every action on a case.
LEMMA ServedAsShown ==
    ASSUME DeskInv, sent # None, Perform(sent)
    PROVE  \/ UNCHANGED <<finding, cases>>
           \/ IF sent.action = "dispose"
              THEN DetailRow(sent.key) = sent.shown /\ UNCHANGED cases
              ELSE BoardRow(sent.key) = sent.shown
<1> DEFINE k == sent.key
           shown == sent.shown
<1>1. k \in Keys
  BY DEF DeskInv, SentOK
<1>2. ASSUME NEW expiry, sent.action = "dispose", Dispose(k, Me, sent.to, expiry, shown.revision)
      PROVE  DetailRow(k) = shown /\ UNCHANGED cases
  <2>1. shown.revision = finding[k].revision /\ ~Managed(k) /\ UNCHANGED cases
    BY <1>2 DEF Dispose, Disposable
  <2>2. HonestDetail(k, shown) /\ ~shown.managed
    BY <1>2 DEF DeskInv, SentOK
  <2>3. shown.managed = FALSE /\ Managed(k) = FALSE /\ shown.state = finding[k].state
    BY <2>1, <2>2 DEF HonestDetail, Managed
  <2>4. shown = [state |-> finding[k].state, revision |-> finding[k].revision, managed |-> Managed(k)]
    BY <2>1, <2>2, <2>3 DEF HonestDetail
  <2> QED BY <2>1, <2>4 DEF DetailRow
<1>3. ASSUME sent.action \in {"advance", "return", "assign", "reopen"}, shown.revision = cases[k].revision
      PROVE  BoardRow(k) = shown
  BY <1>3 DEF DeskInv, SentOK, HonestCase
<1>4. \A assignee, to, revision :
        \/ AdvanceCase(k, Me, revision) \/ CloseCase(k, Me, to, revision) \/ ReturnCase(k, Me, revision)
        \/ ReopenCase(k, Me, revision) \/ AssignCase(k, Me, assignee, revision)
        => revision = cases[k].revision
  BY DEF AdvanceCase, CloseCase, ReturnCase, ReopenCase, AssignCase, MayAct
<1>5. Comment(k, Me) => UNCHANGED <<finding, cases>>
  BY DEF Comment
<1> HIDE DEF k, shown
<1> QED BY <1>2, <1>3, <1>4, <1>5 DEF Perform, Quoted, k, shown

LEMMA StartedAsShown ==
    ASSUME DeskInv, BulkPost
    PROVE  \E r \in bulk.todo : /\ QueueRow(r.key) = r.shown /\ r.shown.state \in Startable
                                /\ \A k \in Keys \ {r.key} : finding'[k] = finding[k]
<1>1. PICK r \in bulk.todo :
        /\ r.key \in Keys
        /\ Dispose(r.key, Me, "in_review", NoExpiry, r.shown.revision)
  BY BulkPostIsRequest
<1>2. r.shown.state \in Startable /\ HonestQueueRow(r.key, r.shown)
  BY DEF DeskInv, BulkOK, BulkPost
<1>3. r.shown.revision = finding[r.key].revision
  BY <1>1 DEF Dispose
<1>4. \A k \in Keys \ {r.key} : finding'[k] = finding[k]
  <2>1. finding \in [Keys -> FindingRow]
    BY DEF DeskInv, StepsInv, FullInv, IInv, TypeOK, FindingsTyped
  <2> QED BY <1>1, <2>1 DEF Dispose, SetState
<1> QED BY <1>2, <1>3, <1>4 DEF HonestQueueRow

\* The revision that a request quotes is that of the copy it was made from
\* (disposition, bulk start, case actions): whatever this browser changes was
\* on its page as it was when it changed.
THEOREM ActsAsShown == DeskSpec => ActsOnWhatWasShown
<1> DEFINE A ==
             /\ sent # None /\ sent' = None /\ UNCHANGED views =>
                  \/ UNCHANGED <<finding, cases>>
                  \/ IF sent.action = "dispose"
                     THEN DetailRow(sent.key) = sent.shown /\ UNCHANGED cases
                     ELSE BoardRow(sent.key) = sent.shown
             /\ bulk # bulk' /\ finding' # finding =>
                  \E r \in bulk.todo : /\ QueueRow(r.key) = r.shown /\ r.shown.state \in Startable
                                       /\ \A k \in Keys \ {r.key} : finding'[k] = finding[k]
<1>1. DeskInv /\ [DeskNext]_all => [A]_all
  <2> SUFFICES ASSUME DeskInv, DeskNext PROVE A
    OBVIOUS
  <2>1. CASE Local
    <3>1. finding' = finding /\ cases' = cases
      BY <2>1, LocalSteps DEF vars
    <3> QED BY <3>1
  <2>2. CASE BulkPost
    BY <2>2, StartedAsShown DEF BulkPost
  <2>3. CASE Serve
    BY <2>3, ServedAsShown DEF Serve, views
  <2>4. CASE Others
    BY <2>4, OthersStep DEF desk
  <2> QED BY <2>1, <2>2, <2>3, <2>4, DeskCases
<1>2. DeskSpec => [][A]_all
  BY <1>1, DeskInvariance, PTL DEF DeskSpec
<1> QED BY <1>2 DEF ActsOnWhatWasShown

=============================================================================
