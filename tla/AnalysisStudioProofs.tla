------------------------- MODULE AnalysisStudioProofs -------------------------
(***************************************************************************)
(* Proofs about AnalysisStudio, for any columns, datasets, graphs, names,  *)
(* analyses and bounds.                                                    *)
(*                                                                         *)
(* An answer changes the page in the light of what the page was when its   *)
(* request was made.  The proofs say what of that still holds: everything, *)
(* as long as inputRevision is the one of the request (RequestOK); and     *)
(* for those answers that do not look at it, because nothing can be edited *)
(* while they are awaited but what a table replaces (Waiting).             *)
(***************************************************************************)
EXTENDS AnalysisStudio, TLAPS

Documents == [name : Names, dataset : Datasets, columns : Selections, model : Models]

Works ==
    [id : Ids \cup {None}, revision : Nat, base : Nat, name : Names,
     dataset : Datasets \cup {None}, columns : Selections, model : Models \cup {NoModel},
     conditions : SUBSET Condition, custom : BOOLEAN]

StoreOK ==
    /\ store \in [Ids -> Seq([document : Documents, base : Nat])]
    /\ \A a \in Ids : Len(store[a]) <= MaxVersions

\* The conditions of some work and its graph say the same, or there is nothing
\* that both say.
Matches(w) ==
    /\ \A c \in w.conditions : c.column \in DOMAIN w.columns
    /\ sameGraphLogic(w.model, makeModel(w.columns, w.conditions))

Consistent(w) == w.model = NoModel \/ w.custom \/ Matches(w)

\* Rules that can be tested and saved.
Ready == HasModel /\ Consistent(work)

\* Work that is a version of an analysis, or new; a model is about some data.
WorkOK ==
    /\ work \in Works
    /\ work.id = None => work.revision = 0
    /\ work.id # None => work.revision \in 1 .. Len(store[work.id])
    /\ work.base \in {0, work.revision}
    /\ ~crossed => work.base = work.revision
    /\ HasModel => HasData
    /\ work.custom => HasModel

\* Wherever the rules are shown, tested or taken for saved they are consistent:
\* only the choice of columns, which clears the results, may leave them behind.
PageOK ==
    /\ dirty \in BOOLEAN /\ graphOpen \in BOOLEAN /\ traceRow \in BOOLEAN /\ crossed \in BOOLEAN
    /\ inputRevision \in Nat /\ step \in 0 .. 3
    /\ pendingWorkbook # None => pendingWorkbook \in Datasets
    /\ Drawer => step \in {2, 3}
    /\ step \in {2, 3} => Consistent(work)
    /\ ~dirty => Consistent(work) /\ (HasData => HasModel)
    /\ report # None => Ready

\* While data or a saved analysis is awaited the rules cannot be reached: either
\* a table has replaced them, or they are those whose loss was asked about.
Waiting(asked) == HasModel => step = 0 /\ ~graphOpen /\ (dirty => asked)

RequestOK ==
    request # None =>
    /\ request = [kind |-> request.kind, at |-> request.at, of |-> request.of, reply |-> request.reply]
    /\ request.kind \in {"read", "sheet", "test", "save", "open"}
    /\ request.at \in Nat /\ request.at <= inputRevision
    /\ request.kind \in {"read", "sheet"} =>
         /\ request.of.data \in Datasets
         /\ Waiting(request.of.unsaved)
    /\ request.kind = "open" =>
         /\ request.of \in Ids /\ Len(store[request.of]) > 0
         /\ request.reply # None => request.reply \in 1 .. Len(store[request.of])
         /\ Waiting(agreed = inputRevision)
    /\ request.kind = "test" =>
         /\ request.of.tested \in Reports /\ request.of.stayInGraph \in BOOLEAN
         /\ request.at = inputRevision =>
              request.of.tested = Tested(work) /\ Ready
    /\ request.kind = "save" =>
         /\ request.of.document \in Documents
         /\ request.of.id \in Ids \cup {None}
         /\ request.of.revision \in Nat /\ request.of.base \in {0, request.of.revision}
         /\ request.of.id = None => request.of.revision = 0
         /\ ~crossed => request.of.base = request.of.revision
         /\ request.at = inputRevision =>
              request.of.document = Document(work) /\ Ready
         /\ request.reply # None =>
              /\ request.reply.id \in Ids
              /\ request.reply.revision \in 1 .. Len(store[request.reply.id])
              /\ store[request.reply.id][request.reply.revision].document = request.of.document

LoadOK ==
    /\ DOMAIN load = Loads
    /\ \A l \in Loads : load[l] # None => load[l].data \in Datasets /\ load[l].unsaved \in BOOLEAN

IInv ==
    /\ StoreOK /\ WorkOK /\ PageOK /\ RequestOK /\ LoadOK
    /\ ReportIsCurrent /\ SavedIsShown

-----------------------------------------------------------------------------
(***************************************************************************)
(* Columns, conditions and graphs.                                         *)
(***************************************************************************)

LEMMA SelectionFacts ==
    ASSUME NEW columns \in Selections
    PROVE  /\ DOMAIN columns \subseteq Columns
           /\ \A c \in DOMAIN columns : columns[c] \in Types
           /\ columns = [c \in DOMAIN columns |-> columns[c]]
BY DEF Selections

LEMMA IsSelection ==
    ASSUME NEW S \in SUBSET Columns, NEW f \in [S -> Types]
    PROVE  f \in Selections
BY DEF Selections

LEMMA NoColumns == << >> \in Selections
<1>1. << >> \in [{} -> Types]
  OBVIOUS
<1> QED BY <1>1, IsSelection

LEMMA InferredColumns == ASSUME NEW d \in Datasets PROVE TypeOf[d] \in Selections /\ DOMAIN TypeOf[d] = Columns
BY ConstantsAssumption, IsSelection

LEMMA WithColumn ==
    ASSUME NEW columns \in Selections, NEW c \in Columns, NEW t \in Types
    PROVE  With(columns, c, t) \in Selections
<1> DEFINE S == DOMAIN columns \cup {c}
<1>1. S \in SUBSET Columns
  BY SelectionFacts
<1>2. With(columns, c, t) \in [S -> Types]
  BY SelectionFacts DEF With
<1> QED BY <1>1, <1>2, IsSelection

LEMMA WithoutColumn ==
    ASSUME NEW columns \in Selections, NEW c
    PROVE  Restrict(columns, DOMAIN columns \ {c}) \in Selections
<1> DEFINE S == DOMAIN columns \ {c}
<1>1. S \in SUBSET Columns
  BY SelectionFacts
<1>2. Restrict(columns, S) \in [S -> Types]
  BY SelectionFacts DEF Restrict
<1> QED BY <1>1, <1>2, IsSelection

\* A model is something, whatever it consists of.
LEMMA ModelIsSome == ASSUME NEW m \in Models PROVE m # NoModel
<1>1. m.table \in Tables
  BY DEF Models
<1>2. m.table # None
  BY <1>1, ConstantsAssumption
<1>3. NoModel.table = None
  BY DEF NoModel
<1> QED BY <1>2, <1>3

LEMMA MadeModel ==
    ASSUME NEW columns \in Selections, NEW conditions \in SUBSET Condition,
           \A c \in conditions : c.column \in DOMAIN columns
    PROVE  makeModel(columns, conditions) \in Models
<1>1. \A c \in conditions : expression(c, columns) \in [of : Condition, as : Types]
  BY SelectionFacts DEF expression
<1>2. {expression(c, columns) : c \in conditions} \in Tables
  BY <1>1 DEF Tables
<1> QED BY <1>2 DEF makeModel, Models

\* The conditions that a graph is opened with say what it says.
LEMMA SimpleMatches ==
    ASSUME NEW m \in Models, NEW columns, simpleConditions(m, columns) # None
    PROVE  LET simple == simpleConditions(m, columns)
           IN  /\ simple \in SUBSET Condition
               /\ \A c \in simple : c.column \in DOMAIN columns
               /\ sameGraphLogic(m, makeModel(columns, simple))
BY DEF simpleConditions, Models

LEMMA BlankTyped == Blank \in Works
<1>1. << >> \in Selections
  BY NoColumns
<1> HIDE DEF Selections
<1> QED BY <1>1, ConstantsAssumption DEF Blank, Works

LEMMA TableTyped ==
    ASSUME NEW d \in Datasets
    PROVE  [Blank EXCEPT !.dataset = d, !.columns = TypeOf[d], !.name = Untitled] \in Works
BY BlankTyped, InferredColumns, ConstantsAssumption DEF Works

-----------------------------------------------------------------------------
(***************************************************************************)
(* Saved analyses only grow.                                               *)
(***************************************************************************)

Grown ==
    /\ StoreOK'
    /\ \A a \in Ids : /\ Len(store'[a]) >= Len(store[a])
                      /\ \A i \in 1 .. Len(store[a]) : store'[a][i] = store[a][i]

LEMMA StoreGrows ==
    ASSUME StoreOK, NEW a \in Ids, NEW v \in [document : Documents, base : Nat],
           Len(store[a]) < MaxVersions, store' = [store EXCEPT ![a] = Append(@, v)]
    PROVE  Grown /\ Len(store'[a]) = Len(store[a]) + 1 /\ store'[a][Len(store[a]) + 1] = v
<1> DEFINE Versions == [document : Documents, base : Nat]
<1> HIDE DEF Versions
<1>1. \A b \in Ids : store[b] \in Seq(Versions)
  BY DEF StoreOK, Versions
<1>0. v \in Versions
  BY DEF Versions
<1>2. Append(store[a], v) \in Seq(Versions)
  BY <1>0, <1>1
<1>3. /\ Len(Append(store[a], v)) = Len(store[a]) + 1
      /\ Append(store[a], v)[Len(store[a]) + 1] = v
      /\ \A i \in 1 .. Len(store[a]) : Append(store[a], v)[i] = store[a][i]
  BY <1>0, <1>1
<1>4. store'[a] = Append(store[a], v) /\ \A b \in Ids \ {a} : store'[b] = store[b]
  BY DEF StoreOK
<1>5. store' \in [Ids -> Seq(Versions)]
  BY <1>1, <1>2 DEF StoreOK
<1>6. \A b \in Ids : Len(store'[b]) <= MaxVersions
  <2>0. MaxVersions \in Nat
    BY ConstantsAssumption
  <2>1. Len(store[a]) \in Nat
    BY <1>1
  <2>2. Len(store'[a]) <= MaxVersions
    BY <1>3, <1>4, <2>0, <2>1
  <2> QED BY <1>4, <2>2 DEF StoreOK
<1>7. StoreOK'
  BY <1>5, <1>6 DEF StoreOK, Versions
<1>8. \A b \in Ids : /\ Len(store'[b]) >= Len(store[b])
                     /\ \A i \in 1 .. Len(store[b]) : store'[b][i] = store[b][i]
  <2>1. \A b \in Ids : Len(store[b]) \in Nat
    BY <1>1
  <2> QED BY <1>3, <1>4, <2>1
<1> QED BY <1>3, <1>4, <1>7, <1>8 DEF Grown

LEMMA StoreStays == ASSUME StoreOK, UNCHANGED store PROVE Grown
<1>1. \A a \in Ids : Len(store[a]) \in Nat
  BY DEF StoreOK
<1>2. StoreOK'
  BY DEF StoreOK
<1>3. \A a \in Ids : Len(store[a]) >= Len(store[a])
  BY <1>1
<1> QED BY <1>2, <1>3 DEF Grown

-----------------------------------------------------------------------------
(***************************************************************************)
(* The beginning, and what a step leaves alone.                            *)
(***************************************************************************)

LEMMA InitIInv == Init => IInv
<1> SUFFICES ASSUME Init PROVE IInv
  OBVIOUS
<1>1. StoreOK
  <2>1. << >> \in Seq([document : Documents, base : Nat]) /\ Len(<< >>) = 0
    OBVIOUS
  <2>2. MaxVersions \in Nat
    BY ConstantsAssumption
  <2> QED BY <2>1, <2>2 DEF Init, StoreOK
<1>2. WorkOK
  <2>1. work \in Works
    BY BlankTyped DEF Init
  <2> QED BY <2>1 DEF Init, WorkOK, Blank, HasModel, HasData
<1>3. ~HasModel /\ ~HasData /\ Consistent(work)
  BY DEF Init, Blank, HasModel, HasData, Consistent
<1>4. PageOK
  <2>1. /\ dirty = FALSE /\ graphOpen = FALSE /\ traceRow = FALSE /\ crossed = FALSE
        /\ inputRevision = 0 /\ step = 0 /\ pendingWorkbook = None /\ report = None
    BY DEF Init
  <2>2. step \notin {2, 3} /\ step \in 0 .. 3 /\ inputRevision \in Nat
    BY <2>1
  <2> QED BY <1>3, <2>1, <2>2, Zenon DEF PageOK, Drawer
<1>5. RequestOK /\ LoadOK /\ ReportIsCurrent /\ SavedIsShown
  BY <1>3 DEF Init, NoLoads, RequestOK, LoadOK, ReportIsCurrent, SavedIsShown
<1> QED BY <1>1, <1>2, <1>4, <1>5 DEF IInv

\* Nothing on the page changes, while analyses are saved and requests come and go.
LEMMA SamePage ==
    ASSUME IInv, Grown, UNCHANGED <<work, dirty, page, answers, crossed>>, inputRevision' \in Nat,
           pendingWorkbook' \in {None, pendingWorkbook} \cup Datasets
    PROVE  StoreOK' /\ WorkOK' /\ PageOK' /\ ReportIsCurrent' /\ SavedIsShown'
<1>1. StoreOK'
  BY DEF Grown
<1>2. WorkOK'
  <2>1. work.id # None => work.id \in Ids /\ work.revision \in 1 .. Len(store[work.id])
    BY DEF IInv, WorkOK, Works
  <2>2. \A a \in Ids : Len(store[a]) \in Nat /\ Len(store'[a]) \in Nat
    BY <1>1 DEF IInv, StoreOK
  <2>3. work.id # None => work.revision \in 1 .. Len(store'[work.id])
    BY <2>1, <2>2 DEF Grown
  <2> QED BY <2>3 DEF IInv, WorkOK, HasModel, HasData
<1>3. PageOK'
  BY DEF IInv, PageOK, page, answers, Consistent, Matches, Ready, HasModel, HasData, Drawer
<1>4. ReportIsCurrent'
  BY DEF IInv, ReportIsCurrent, answers
<1>5. SavedIsShown'
  <2> SUFFICES ASSUME ~dirty, HasModel PROVE SavedIsShown'
    BY DEF SavedIsShown, HasModel
  <2>1. work.id \in Ids /\ work.revision \in 1 .. Len(store[work.id])
    BY DEF IInv, WorkOK, Works, SavedIsShown
  <2>2. store'[work.id][work.revision] = store[work.id][work.revision]
    BY <2>1 DEF Grown
  <2> QED BY <2>2 DEF IInv, SavedIsShown, HasModel
<1> QED BY <1>1, <1>2, <1>3, <1>4, <1>5

\* A request goes on while others save.
LEMMA SameRequest ==
    ASSUME IInv, Grown,
           UNCHANGED <<work, dirty, inputRevision, page, request, agreed, crossed>>
    PROVE  RequestOK'
<1> SUFFICES ASSUME request # None PROVE RequestOK'
  BY DEF RequestOK
<1>1. \A a \in Ids : Len(store[a]) \in Nat /\ Len(store'[a]) \in Nat
  BY DEF IInv, StoreOK, Grown
<1>2. request.kind = "open" =>
         /\ Len(store'[request.of]) > 0
         /\ request.reply # None => request.reply \in 1 .. Len(store'[request.of])
  BY <1>1 DEF IInv, RequestOK, Grown
<1>3. request.kind = "save" /\ request.reply # None =>
         /\ request.reply.revision \in 1 .. Len(store'[request.reply.id])
         /\ store'[request.reply.id][request.reply.revision].document = request.of.document
  BY <1>1 DEF IInv, RequestOK, Grown
<1> QED BY <1>2, <1>3 DEF IInv, RequestOK, Waiting, Ready, Consistent, Matches, HasModel, Document,
                           Tested, page

\* The work has changed, so an answer will find another inputRevision than its
\* request's; and what is awaited is not about rules that could be edited.
LEMMA Overtaken ==
    ASSUME IInv, UNCHANGED <<store, request>>, inputRevision' = inputRevision + 1,
           Saving /\ ~crossed' => ~crossed,
           HasModel' => HasModel /\ step # 0
    PROVE  RequestOK'
<1> SUFFICES ASSUME request # None PROVE RequestOK'
  BY DEF RequestOK
<1>1. request.at \in Nat /\ inputRevision \in Nat /\ request.at <= inputRevision
  BY DEF IInv, RequestOK, PageOK
<1>2. request.at <= inputRevision' /\ request.at # inputRevision'
  BY <1>1
<1>3. \A asked : Waiting(asked) => ~HasModel'
  BY DEF Waiting
<1>4. request.kind \in {"read", "sheet", "open"} => ~HasModel'
  <2>1. request.kind \in {"read", "sheet"} => Waiting(request.of.unsaved)
    BY DEF IInv, RequestOK
  <2>2. request.kind = "open" => Waiting(agreed = inputRevision)
    BY DEF IInv, RequestOK
  <2> QED BY <2>1, <2>2 DEF Waiting
<1>5. /\ request.kind \in {"read", "sheet"} => Waiting(request.of.unsaved)'
      /\ request.kind = "open" => Waiting(agreed = inputRevision)'
  BY <1>4 DEF Waiting
<1>6. request.kind = "save" => Saving
  BY DEF Saving, Busy
<1> QED BY <1>2, <1>5, <1>6 DEF IInv, RequestOK

LEMMA NoRequest == ASSUME request' = None PROVE RequestOK'
BY DEF RequestOK

LEMMA SameLoad == ASSUME IInv, load' \in {load, NoLoads} PROVE LoadOK'
BY DEF IInv, LoadOK, NoLoads

LEMMA OneLoad ==
    ASSUME LoadOK, NEW l \in Loads, NEW t, load' = [load EXCEPT ![l] = t],
           t # None => t.data \in Datasets /\ t.unsaved \in BOOLEAN
    PROVE  LoadOK'
<1>1. DOMAIN load' = Loads /\ load'[l] = t /\ \A k \in Loads \ {l} : load'[k] = load[k]
  BY DEF LoadOK
<1> QED BY <1>1 DEF LoadOK

-----------------------------------------------------------------------------
(***************************************************************************)
(* Going from step to step.                                                *)
(***************************************************************************)

LEMMA Moves ==
    ASSUME IInv,
           UNCHANGED <<store, work, dirty, inputRevision, report, pendingWorkbook, request, load, history>>,
           step' \in 0 .. 3, graphOpen' \in BOOLEAN, traceRow' \in BOOLEAN,
           traceRow' => report # None,
           step' \in {2, 3} => Consistent(work),
           graphOpen' /\ HasModel => step' \in {2, 3},
           Busy => ~HasModel \/ step # 0
    PROVE  IInv'
<1>1. StoreOK' /\ WorkOK' /\ LoadOK'
  BY DEF IInv, StoreOK, WorkOK, LoadOK, HasModel, HasData, history
<1>2. PageOK'
  BY DEF IInv, PageOK, history, Ready, Consistent, Matches, HasModel, HasData, Drawer
<1>3. ReportIsCurrent' /\ SavedIsShown'
  BY DEF IInv, ReportIsCurrent, SavedIsShown, HasModel
<1>4. RequestOK'
  <2> SUFFICES ASSUME request # None PROVE RequestOK'
    BY DEF RequestOK
  <2>1. \A asked : Waiting(asked) => ~HasModel
    BY DEF Waiting, Busy
  <2>2. /\ request.kind \in {"read", "sheet"} => Waiting(request.of.unsaved)'
        /\ request.kind = "open" => Waiting(agreed = inputRevision)'
    BY <2>1 DEF IInv, RequestOK, Waiting, HasModel
  <2> QED BY <2>2 DEF IInv, RequestOK, Ready, Consistent, Matches, HasModel, history, Document, Tested
<1> QED BY <1>1, <1>2, <1>3, <1>4 DEF IInv

\* What the panels show, and where.
LEMMA PanelFacts ==
    ASSUME IInv
    PROVE  /\ RulesPanel => step = 2 /\ HasData /\ HasModel /\ Consistent(work)
           /\ ResultsPanel => step = 3 /\ HasData /\ Ready
           /\ Drawer => step \in {2, 3} /\ HasData /\ Ready
           /\ graphOpen \in BOOLEAN /\ traceRow \in BOOLEAN /\ step \in 0 .. 3
           /\ traceRow => report # None
           /\ report # None => Ready
BY DEF IInv, PageOK, WorkOK, RulesPanel, ResultsPanel, Drawer, Ready, ReportIsCurrent

LEMMA StepGoTo ==
    ASSUME IInv, NEW n \in 0 .. 3, GoTo(n), n \in {2, 3} => Consistent(work), ~Drawer,
           Busy => step # 0
    PROVE  IInv'
<1> USE DEF GoTo, answers
<1>1. graphOpen' /\ HasModel => step' \in {2, 3}
  BY DEF Drawer
<1> QED BY <1>1, Moves, PanelFacts

LEMMA StepBack == IInv /\ BackButton => IInv'
<1> SUFFICES ASSUME IInv, BackButton PROVE IInv'
  OBVIOUS
<1>1. CASE ColumnsPanel /\ GoTo(0)
  BY <1>1, StepGoTo DEF ColumnsPanel
<1>2. CASE RulesPanel /\ GoTo(1)
  BY <1>2, StepGoTo DEF RulesPanel
<1>3. CASE ResultsPanel /\ GoTo(2)
  <2>1. Consistent(work)
    BY <1>3, PanelFacts DEF Ready
  <2> QED BY <1>3, <2>1, StepGoTo DEF ResultsPanel
<1> QED BY <1>1, <1>2, <1>3 DEF BackButton

LEMMA StepGraph == IInv /\ (OpenGraph \/ CloseGraph) => IInv'
<1>1. ASSUME IInv, OpenGraph PROVE IInv'
  <2>1. step \in {2, 3} /\ step' = step /\ Consistent(work)
    BY <1>1, PanelFacts DEF OpenGraph, Ready
  <2>2. graphOpen' \in BOOLEAN /\ traceRow' \in BOOLEAN /\ (traceRow' => report # None)
    BY <1>1 DEF OpenGraph, ResultsPanel
  <2> QED BY <1>1, <2>1, <2>2, Moves DEF OpenGraph
<1>2. ASSUME IInv, CloseGraph PROVE IInv'
  <2>1. step \in {2, 3} /\ step' \in {2, 3} /\ Consistent(work)
    BY <1>2, PanelFacts DEF CloseGraph, Ready
  <2>2. graphOpen' = FALSE /\ traceRow' = traceRow /\ report' = report
    BY <1>2 DEF CloseGraph, answers
  <2>3. traceRow \in BOOLEAN /\ (traceRow => report # None) /\ step' \in 0 .. 3 /\ step # 0
    BY <1>2, <2>1, PanelFacts
  <2>4. UNCHANGED <<store, work, dirty, inputRevision, report, pendingWorkbook, request, load, history>>
    BY <1>2, <2>2 DEF CloseGraph
  <2> QED BY <1>2, <2>1, <2>2, <2>3, <2>4, Moves
<1> QED BY <1>1, <1>2

-----------------------------------------------------------------------------
(***************************************************************************)
(* Going on to the rules.                                                  *)
(***************************************************************************)

\* The rules become consistent with the columns, and stay what they were where
\* they are consistent already.
LEMMA ContinueFacts ==
    ASSUME IInv, continueToRules
    PROVE  /\ work' \in Works /\ HasModel' /\ Consistent(work)'
           /\ \A f \in {"id", "revision", "base", "name", "dataset", "columns", "custom"} : work'[f] = work[f]
           /\ Ready => work'.model.table = work.model.table
<1> DEFINE kept == {c \in work.conditions : c.column \in DOMAIN work.columns}
           model == makeModel(work.columns, kept)
<1>1. work \in Works /\ work.columns \in Selections /\ (HasModel => work.model \in Models)
  BY DEF IInv, WorkOK, Works, HasModel
<1>2. kept \in SUBSET Condition /\ \A c \in kept : c.column \in DOMAIN work.columns
  BY <1>1 DEF Works
<1>3. model \in Models
  BY <1>1, <1>2, MadeModel
<1>4. CASE work.custom
  <2>1. work' = [work EXCEPT !.model.schema = work.columns]
    BY <1>4 DEF continueToRules
  <2>2. work.model \in Models
    BY <1>1, <1>4 DEF IInv, WorkOK
  <2>3. /\ [work.model EXCEPT !.schema = work.columns] \in Models
        /\ [work.model EXCEPT !.schema = work.columns].table = work.model.table
    BY <1>1, <2>2 DEF Models
  <2>4. work' = [work EXCEPT !.model = [work.model EXCEPT !.schema = work.columns]]
    BY <1>1, <2>1 DEF Works
  <2>5. work' \in Works /\ work'.model \in Models /\ work'.custom /\ work'.model.table = work.model.table
    BY <1>1, <1>4, <2>3, <2>4 DEF Works
  <2>6. \A f \in {"id", "revision", "base", "name", "dataset", "columns", "custom"} : work'[f] = work[f]
    BY <1>1, <2>4 DEF Works
  <2> QED BY <2>5, <2>6, ModelIsSome DEF HasModel, Consistent
<1>5. CASE ~work.custom
  <2> DEFINE next == IF HasModel /\ sameGraphLogic(work.model, model) THEN work.model ELSE model
  <2>1. work' = [work EXCEPT !.conditions = kept, !.model = next]
    BY <1>1, <1>5 DEF continueToRules, Works
  <2>2. next \in Models /\ sameGraphLogic(next, model)
    BY <1>1, <1>3 DEF sameGraphLogic
  <2> HIDE DEF next, model, kept
  <2>3. work' \in Works /\ work'.model = next /\ work'.conditions = kept
    BY <1>1, <1>2, <2>1, <2>2 DEF Works
  <2>4. \A f \in {"id", "revision", "base", "name", "dataset", "columns", "custom"} : work'[f] = work[f]
    BY <1>1, <2>1 DEF Works
  <2>5. Matches(work)'
    BY <1>2, <2>2, <2>3, <2>4 DEF Matches, model
  <2>6. Ready => next = work.model
    <3> SUFFICES ASSUME Ready PROVE next = work.model
      OBVIOUS
    <3>1. HasModel /\ Matches(work)
      BY <1>5 DEF Ready, Consistent, HasModel
    <3>2. kept = work.conditions
      BY <3>1 DEF Matches, kept
    <3> QED BY <3>1, <3>2 DEF Matches, next, model
  <2> QED BY <2>2, <2>3, <2>4, <2>5, <2>6, ModelIsSome DEF HasModel, Consistent
<1> QED BY <1>4, <1>5

LEMMA StepContinue == IInv /\ continueToRules => IInv'
<1> SUFFICES ASSUME IInv, continueToRules PROVE IInv'
  OBVIOUS
<1>1. /\ UNCHANGED <<store, dirty, inputRevision, graphOpen, report, traceRow, pendingWorkbook,
                     request, load, agreed, crossed>>
      /\ step' = 2 /\ request = None /\ HasData
  BY DEF continueToRules, answers, history, Busy
<1>2. /\ work' \in Works /\ HasModel' /\ Consistent(work)'
      /\ work'.id = work.id /\ work'.revision = work.revision /\ work'.base = work.base
      /\ work'.name = work.name /\ work'.dataset = work.dataset /\ work'.columns = work.columns
      /\ Ready => work'.model.table = work.model.table
  BY ContinueFacts
<1>3. StoreOK' /\ LoadOK' /\ RequestOK'
  BY <1>1 DEF IInv, StoreOK, LoadOK, RequestOK
<1>4. WorkOK'
  BY <1>1, <1>2 DEF IInv, WorkOK, HasData
<1>5. PageOK'
  BY <1>1, <1>2 DEF IInv, PageOK, Ready
<1>6. ReportIsCurrent'
  BY <1>1, <1>2 DEF IInv, PageOK, ReportIsCurrent
<1>7. SavedIsShown'
  <2> SUFFICES ASSUME ~dirty PROVE SavedIsShown'
    BY <1>1 DEF SavedIsShown
  <2>1. HasModel /\ Ready
    BY <1>1 DEF IInv, PageOK, Ready
  <2> QED BY <1>1, <1>2, <2>1 DEF IInv, SavedIsShown
<1> QED BY <1>3, <1>4, <1>5, <1>6, <1>7 DEF IInv

LEMMA StepStepButton == IInv /\ StepButton => IInv'
<1> SUFFICES ASSUME IInv, StepButton PROVE IInv'
  OBVIOUS
<1>1. ~Busy /\ ~Drawer
  BY DEF StepButton
<1>2. CASE GoTo(0)
  BY <1>1, <1>2, StepGoTo
<1>3. CASE GoTo(1)
  BY <1>1, <1>3, StepGoTo
<1>4. CASE continueToRules
  BY <1>4, StepContinue
<1>5. CASE report # None /\ GoTo(3)
  <2>1. Consistent(work)
    BY <1>5, PanelFacts DEF Ready
  <2> QED BY <1>1, <1>5, <2>1, StepGoTo
<1> QED BY <1>2, <1>3, <1>4, <1>5 DEF StepButton

-----------------------------------------------------------------------------
(***************************************************************************)
(* Edits.                                                                  *)
(***************************************************************************)

LEMMA EditInv ==
    ASSUME IInv, NEW w \in Works, Edit(w), step # 0,
           w.id = work.id, w.revision = work.revision, w.base = work.base, w.dataset = work.dataset,
           w.model # NoModel => HasModel,
           w.custom => w.model # NoModel,
           step \in {2, 3} => Consistent(w)
    PROVE  IInv'
<1>1. /\ UNCHANGED <<store, step, graphOpen, pendingWorkbook, request, load, crossed>>
      /\ work' = w /\ inputRevision' = inputRevision + 1
      /\ report' = None /\ traceRow' = FALSE /\ dirty' = TRUE
  BY DEF Edit, changed, page
<1>2. HasModel' => HasModel
  BY <1>1 DEF HasModel
<1>3. StoreOK' /\ LoadOK'
  BY <1>1 DEF IInv, StoreOK, LoadOK
<1>4. WorkOK'
  BY <1>1, <1>2 DEF IInv, WorkOK, HasData, HasModel
<1>5. PageOK'
  <2>1. inputRevision' \in Nat
    BY <1>1 DEF IInv, PageOK
  <2>2. Drawer' => step' \in {2, 3}
    BY <1>1, <1>2 DEF IInv, PageOK, Drawer
  <2>3. step' \in {2, 3} => Consistent(work)'
    BY <1>1 DEF Consistent, Matches
  <2> QED BY <1>1, <2>1, <2>2, <2>3 DEF IInv, PageOK
<1>6. RequestOK'
  BY <1>1, <1>2, Overtaken
<1>7. ReportIsCurrent' /\ SavedIsShown'
  BY <1>1 DEF ReportIsCurrent, SavedIsShown
<1> QED BY <1>3, <1>4, <1>5, <1>6, <1>7 DEF IInv

LEMMA WorkFacts ==
    ASSUME IInv
    PROVE  /\ work \in Works /\ work.columns \in Selections /\ work.conditions \in SUBSET Condition
           /\ HasModel => work.model \in Models
           /\ work.custom => HasModel
BY DEF IInv, WorkOK, Works, HasModel

LEMMA StepSelectColumn == IInv /\ selectColumn => IInv'
<1> SUFFICES ASSUME IInv, selectColumn PROVE IInv'
  OBVIOUS
<1>1. PICK columns \in Selections : Edit([work EXCEPT !.columns = columns])
  <2>1. work.dataset \in Datasets /\ work.columns \in Selections /\ DOMAIN work.columns \subseteq Columns
    BY WorkFacts, SelectionFacts DEF selectColumn, ColumnsPanel, HasData, Works
  <2>2. TypeOf[work.dataset] \in Selections /\ \A c \in Columns : TypeOf[work.dataset][c] \in Types
    BY <2>1, ConstantsAssumption, InferredColumns
  <2>3. /\ \A c \in Columns, t \in Types : With(work.columns, c, t) \in Selections
        /\ \A c : Restrict(work.columns, DOMAIN work.columns \ {c}) \in Selections
    BY <2>1, WithColumn, WithoutColumn
  <2> QED BY <2>1, <2>2, <2>3, NoColumns DEF selectColumn
<1> DEFINE w == [work EXCEPT !.columns = columns]
<1>2. w \in Works /\ w.id = work.id /\ w.revision = work.revision /\ w.base = work.base
      /\ w.dataset = work.dataset /\ w.model = work.model /\ w.custom = work.custom
  BY WorkFacts DEF Works
<1>3. step = 1 /\ Edit(w)
  BY <1>1 DEF selectColumn, ColumnsPanel
<1>4. w.model # NoModel => HasModel
  BY <1>2 DEF HasModel
<1>5. w.custom => w.model # NoModel
  BY <1>2, WorkFacts DEF HasModel
<1> HIDE DEF w
<1> QED BY <1>2, <1>3, <1>4, <1>5, EditInv

\* The conditions have been edited.
LEMMA RebuiltInv ==
    ASSUME IInv, RulesPanel, NEW conditions \in SUBSET Condition,
           \A c \in conditions : c.column \in DOMAIN work.columns,
           Edit([Rebuilt(conditions) EXCEPT !.custom = FALSE])
    PROVE  IInv'
<1> DEFINE w == [Rebuilt(conditions) EXCEPT !.custom = FALSE]
           model == makeModel(work.columns, conditions)
<1>1. model \in Models
  BY MadeModel, WorkFacts
<1> HIDE DEF model
<1>2. w = [work EXCEPT !.conditions = conditions, !.model = model, !.custom = FALSE]
  BY WorkFacts DEF Rebuilt, Works, model
<1>3. w \in Works /\ w.id = work.id /\ w.revision = work.revision /\ w.base = work.base
      /\ w.dataset = work.dataset /\ w.columns = work.columns /\ w.conditions = conditions
      /\ w.model = model /\ ~w.custom
  BY <1>1, <1>2, WorkFacts DEF Works
<1>4. Consistent(w)
  BY <1>3 DEF Consistent, Matches, sameGraphLogic, model
<1>5. HasModel /\ step = 2 /\ Edit(w)
  BY DEF RulesPanel
<1> HIDE DEF w
<1> QED BY <1>3, <1>4, <1>5, EditInv

LEMMA StepConditions == IInv /\ (addCondition \/ removeCondition \/ replaceGraph) => IInv'
<1> SUFFICES ASSUME IInv, addCondition \/ removeCondition \/ replaceGraph PROVE IInv'
  OBVIOUS
<1>1. RulesPanel
  BY DEF addCondition, removeCondition, replaceGraph
<1>2. ~work.custom => \A c \in work.conditions : c.column \in DOMAIN work.columns
  BY <1>1, PanelFacts DEF Consistent, Matches, HasModel
<1>3. ASSUME NEW conditions, ~work.custom
      PROVE  Rebuilt(conditions) = [Rebuilt(conditions) EXCEPT !.custom = FALSE]
  BY <1>3, WorkFacts DEF Rebuilt, Works
<1>4. CASE addCondition
  <2>1. PICK c \in Condition : c.column \in DOMAIN work.columns /\ Edit(Rebuilt(work.conditions \cup {c}))
    BY <1>4 DEF addCondition
  <2>2. ~work.custom
    BY <1>4 DEF addCondition
  <2> QED BY <1>1, <1>2, <1>3, <2>1, <2>2, WorkFacts, RebuiltInv
<1>5. CASE removeCondition
  <2>1. PICK c \in work.conditions : Edit(Rebuilt(work.conditions \ {c}))
    BY <1>5 DEF removeCondition
  <2>2. ~work.custom
    BY <1>5 DEF removeCondition
  <2> QED BY <1>1, <1>2, <1>3, <2>1, <2>2, WorkFacts, RebuiltInv
<1>6. CASE replaceGraph
  BY <1>1, <1>6, RebuiltInv DEF replaceGraph
<1> QED BY <1>4, <1>5, <1>6

\* The work has been given a name, or its graph another look.
LEMMA RelabelInv ==
    ASSUME IInv, ~Busy, HasModel, NEW name \in Names, Relabel([work EXCEPT !.name = name])
    PROVE  IInv'
<1> DEFINE w == [work EXCEPT !.name = name]
<1>1. /\ UNCHANGED <<store, step, graphOpen, report, traceRow, pendingWorkbook, load, crossed>>
      /\ work' = w /\ inputRevision' = inputRevision + 1 /\ dirty' = TRUE /\ request' = None
  BY DEF Relabel, page, answers, Busy
<1>2. w \in Works /\ w.id = work.id /\ w.revision = work.revision /\ w.base = work.base
      /\ w.dataset = work.dataset /\ w.columns = work.columns /\ w.conditions = work.conditions
      /\ w.model = work.model /\ w.custom = work.custom
  BY WorkFacts DEF Works
<1> HIDE DEF w
<1>3. StoreOK' /\ LoadOK' /\ RequestOK' /\ SavedIsShown'
  BY <1>1 DEF IInv, StoreOK, LoadOK, RequestOK, SavedIsShown
<1>4. WorkOK'
  BY <1>1, <1>2 DEF IInv, WorkOK, HasData, HasModel
<1>5. PageOK'
  <2>1. Consistent(work)' <=> Consistent(work)
    BY <1>1, <1>2 DEF Consistent, Matches
  <2>2. inputRevision' \in Nat /\ (HasModel' <=> HasModel)
    BY <1>1, <1>2 DEF IInv, PageOK, HasModel
  <2> QED BY <1>1, <2>1, <2>2 DEF IInv, PageOK, Ready, Drawer
<1>6. ReportIsCurrent'
  BY <1>1, <1>2 DEF IInv, ReportIsCurrent
<1> QED BY <1>3, <1>4, <1>5, <1>6 DEF IInv

LEMMA StepRename == IInv /\ rename => IInv'
BY RelabelInv DEF rename, RulesPanel

LEMMA StepEditGraph == IInv /\ editGraph => IInv'
<1> SUFFICES ASSUME IInv, editGraph PROVE IInv'
  OBVIOUS
<1>1. PICK table \in Graphs \cup {work.model.table}, schema \in {work.model.schema, None} :
         LET model == [schema |-> schema, table |-> table, simple |-> None]
         IN  IF sameGraphLogic(work.model, model)
             THEN Relabel(work)
             ELSE Edit([work EXCEPT !.model = model, !.custom = TRUE, !.conditions = {}])
  BY DEF editGraph
<1>2. ~Busy /\ HasModel /\ step \in {2, 3} /\ work.model \in Models /\ work \in Works
  BY PanelFacts, WorkFacts DEF editGraph, Ready
<1> DEFINE model == [schema |-> schema, table |-> table, simple |-> None]
           w == [work EXCEPT !.model = model, !.custom = TRUE, !.conditions = {}]
<1>3. CASE Relabel(work)
  <2>1. work.name \in Names /\ work = [work EXCEPT !.name = work.name]
    BY <1>2 DEF Works
  <2> QED BY <1>2, <1>3, <2>1, RelabelInv
<1>4. CASE Edit(w)
  <2>1. model \in Models
    BY <1>2 DEF Models, Tables
  <2> HIDE DEF model
  <2>2. w \in Works /\ w.id = work.id /\ w.revision = work.revision /\ w.base = work.base
        /\ w.dataset = work.dataset /\ w.custom
    BY <1>2, <2>1 DEF Works
  <2>3. w.model # NoModel
    BY <1>2, <2>1, ModelIsSome DEF Works
  <2> HIDE DEF w
  <2>4. Consistent(w)
    BY <2>2 DEF Consistent
  <2> QED BY <1>2, <1>4, <2>2, <2>3, <2>4, EditInv
<1> QED BY <1>1, <1>3, <1>4

-----------------------------------------------------------------------------
(***************************************************************************)
(* New work.                                                               *)
(***************************************************************************)

\* Work that is no version of any analysis and has no rules yet.
Fresh(w) ==
    /\ w \in Works /\ w.id = None /\ w.revision = 0 /\ w.base = 0
    /\ w.model = NoModel /\ ~w.custom

LEMMA FreshWork ==
    /\ Fresh(Blank) /\ Blank.dataset = None
    /\ \A d \in Datasets : Fresh([Blank EXCEPT !.dataset = d, !.columns = TypeOf[d], !.name = Untitled])
<1>1. Fresh(Blank) /\ Blank.dataset = None
  BY BlankTyped DEF Blank, Fresh
<1>2. ASSUME NEW d \in Datasets
      PROVE  Fresh([Blank EXCEPT !.dataset = d, !.columns = TypeOf[d], !.name = Untitled])
  BY TableTyped DEF Blank, Fresh
<1> QED BY <1>1, <1>2

\* The page with new work on it.
LEMMA FreshPage ==
    ASSUME IInv, Fresh(work'), UNCHANGED store, inputRevision' = inputRevision + 1,
           dirty' \in BOOLEAN, HasData' => dirty', step' \in {0, 1}, graphOpen' \in BOOLEAN,
           report' = None, traceRow' = FALSE, pendingWorkbook' = None, crossed' \in BOOLEAN
    PROVE  StoreOK' /\ WorkOK' /\ PageOK' /\ ReportIsCurrent' /\ SavedIsShown' /\ ~HasModel'
<1>1. ~HasModel'
  BY DEF Fresh, HasModel
<1>2. StoreOK'
  BY DEF IInv, StoreOK
<1>3. WorkOK'
  BY <1>1 DEF Fresh, WorkOK
<1>4. PageOK'
  <2>1. inputRevision' \in Nat /\ Consistent(work)' /\ step' \in 0 .. 3
    BY DEF IInv, PageOK, Fresh, Consistent
  <2> QED BY <1>1, <2>1 DEF PageOK, Drawer
<1>5. ReportIsCurrent' /\ SavedIsShown'
  BY <1>1 DEF ReportIsCurrent, SavedIsShown
<1> QED BY <1>1, <1>2, <1>3, <1>4, <1>5

LEMMA StepReset == IInv /\ reset => IInv'
<1> SUFFICES ASSUME IInv, reset PROVE IInv'
  OBVIOUS
<1>1. /\ UNCHANGED <<store, request, load, graphOpen>> /\ request = None
      /\ work' = Blank /\ inputRevision' = inputRevision + 1 /\ dirty' = FALSE /\ step' = 0
      /\ report' = None /\ traceRow' = FALSE /\ pendingWorkbook' = None /\ crossed' = FALSE
  BY DEF reset, Replace, Busy
<1>2. Fresh(work') /\ ~HasData' /\ graphOpen \in BOOLEAN
  BY <1>1, FreshWork, PanelFacts DEF HasData
<1>3. StoreOK' /\ WorkOK' /\ PageOK' /\ ReportIsCurrent' /\ SavedIsShown'
  BY <1>1, <1>2, FreshPage
<1> QED BY <1>1, <1>3, NoRequest, SameLoad DEF IInv

\* The page is closed, loaded anew or taken away.
LEMMA StepAnew == IInv /\ Anew => IInv'
<1> SUFFICES ASSUME IInv, Anew PROVE IInv'
  OBVIOUS
<1>1. /\ UNCHANGED store /\ graphOpen' = FALSE /\ request' = None /\ load' = NoLoads
      /\ work' = Blank /\ inputRevision' = inputRevision + 1 /\ dirty' = FALSE /\ step' = 0
      /\ report' = None /\ traceRow' = FALSE /\ pendingWorkbook' = None /\ crossed' = FALSE
  BY DEF Anew
<1>2. Fresh(work') /\ ~HasData'
  BY <1>1, FreshWork DEF HasData
<1>3. StoreOK' /\ WorkOK' /\ PageOK' /\ ReportIsCurrent' /\ SavedIsShown'
  BY <1>1, <1>2, FreshPage
<1> QED BY <1>1, <1>3, NoRequest, SameLoad DEF IInv

\* A table arrives, and replaces the work or does not.
LEMMA AcceptFacts ==
    ASSUME IInv, NEW d \in Datasets, NEW asked, acceptPreview(d, asked), UNCHANGED store
    PROVE  /\ StoreOK' /\ WorkOK' /\ PageOK' /\ ReportIsCurrent' /\ SavedIsShown'
           /\ \/ UNCHANGED <<work, dirty, inputRevision, page, history>>
              \/ ~HasModel' /\ inputRevision' = inputRevision + 1 /\ crossed' = Saving
<1>1. CASE UNCHANGED <<work, dirty, inputRevision, page, answers, pendingWorkbook, history>>
  <2>1. inputRevision' \in Nat
    BY <1>1 DEF IInv, PageOK
  <2>2. Grown
    BY StoreStays DEF IInv
  <2> QED BY <1>1, <2>1, <2>2, SamePage DEF history
<1>2. CASE /\ inputRevision' = inputRevision + 1
           /\ Replace([Blank EXCEPT !.dataset = d, !.columns = TypeOf[d], !.name = Untitled], TRUE, 1)
           /\ pendingWorkbook' = None /\ crossed' = Saving
  <2>1. /\ Fresh(work') /\ dirty' = TRUE /\ step' = 1 /\ graphOpen' = graphOpen
        /\ report' = None /\ traceRow' = FALSE
    BY <1>2, FreshWork DEF Replace
  <2>2. crossed' \in BOOLEAN /\ graphOpen \in BOOLEAN
    BY <1>2, PanelFacts DEF Saving
  <2> QED BY <1>2, <2>1, <2>2, FreshPage
<1> QED BY <1>1, <1>2 DEF acceptPreview

LEMMA StepLoadAnswered == IInv /\ loadAnswered => IInv'
<1> SUFFICES ASSUME IInv, loadAnswered PROVE IInv'
  OBVIOUS
<1>0. PICK l \in Loads :
        /\ load[l] # None /\ load' = [load EXCEPT ![l] = None]
        /\ \/ UNCHANGED <<work, dirty, inputRevision, page, answers, pendingWorkbook, history>>
           \/ acceptPreview(load[l].data, load[l].unsaved)
  BY DEF loadAnswered
<1>1. load[l].data \in Datasets /\ UNCHANGED <<store, request>>
  BY <1>0 DEF IInv, LoadOK, loadAnswered
<1>2. Grown /\ LoadOK'
  BY <1>0, <1>1, StoreStays, OneLoad DEF IInv
<1>3. CASE UNCHANGED <<work, dirty, inputRevision, page, answers, pendingWorkbook, history>>
  <2>1. inputRevision' \in Nat
    BY <1>3 DEF IInv, PageOK
  <2>2. StoreOK' /\ WorkOK' /\ PageOK' /\ ReportIsCurrent' /\ SavedIsShown'
    BY <1>2, <1>3, <2>1, SamePage DEF history
  <2>3. RequestOK'
    BY <1>1, <1>2, <1>3, SameRequest DEF history
  <2> QED BY <1>2, <2>2, <2>3 DEF IInv
<1>4. CASE acceptPreview(load[l].data, load[l].unsaved)
  <2>1. StoreOK' /\ WorkOK' /\ PageOK' /\ ReportIsCurrent' /\ SavedIsShown'
    BY <1>1, <1>4, AcceptFacts
  <2>2. CASE UNCHANGED <<work, dirty, inputRevision, page, history>>
    BY <1>1, <1>2, <2>1, <2>2, SameRequest DEF IInv, history
  <2>3. CASE ~HasModel' /\ inputRevision' = inputRevision + 1 /\ crossed' = Saving
    BY <1>1, <1>2, <2>1, <2>3, Overtaken DEF IInv
  <2> QED BY <1>1, <1>4, <2>2, <2>3, AcceptFacts
<1> QED BY <1>0, <1>3, <1>4

LEMMA StepReadAnswered == IInv /\ readAnswered => IInv'
<1> SUFFICES ASSUME IInv, readAnswered PROVE IInv'
  OBVIOUS
<1>1. request.of.data \in Datasets /\ request' = None /\ UNCHANGED <<store, load>>
  BY DEF IInv, RequestOK, readAnswered, Busy
<1>2. CASE /\ pendingWorkbook' = request.of.data
           /\ UNCHANGED <<work, dirty, inputRevision, page, answers, history>>
  <2>1. inputRevision' \in Nat
    BY <1>2 DEF IInv, PageOK
  <2>2. Grown
    BY <1>1, StoreStays DEF IInv
  <2>3. StoreOK' /\ WorkOK' /\ PageOK' /\ ReportIsCurrent' /\ SavedIsShown'
    BY <1>1, <1>2, <2>1, <2>2, SamePage DEF history
  <2> QED BY <1>1, <2>3, NoRequest, SameLoad DEF IInv
<1>3. CASE acceptPreview(request.of.data, request.of.unsaved)
  <2>1. StoreOK' /\ WorkOK' /\ PageOK' /\ ReportIsCurrent' /\ SavedIsShown'
    BY <1>1, <1>3, AcceptFacts
  <2> QED BY <1>1, <2>1, NoRequest, SameLoad DEF IInv
<1> QED BY <1>2, <1>3 DEF readAnswered

-----------------------------------------------------------------------------
(***************************************************************************)
(* Requests.                                                               *)
(***************************************************************************)

\* What is asked for on the first step: the rules cannot be reached there.
LEMMA LoadPanelWaits == LoadPanel => Waiting(Unsaved)
BY DEF LoadPanel, Drawer, Unsaved, Waiting

LEMMA StepReadFile == IInv /\ readFile => IInv'
<1> SUFFICES ASSUME IInv, readFile PROVE IInv'
  OBVIOUS
<1>1. /\ UNCHANGED <<store, work, dirty, inputRevision, page, answers, load, crossed>>
      /\ pendingWorkbook' = None
  BY DEF readFile, history
<1>2. inputRevision \in Nat
  BY DEF IInv, PageOK
<1>3. Grown
  BY <1>1, StoreStays DEF IInv
<1>4. StoreOK' /\ WorkOK' /\ PageOK' /\ ReportIsCurrent' /\ SavedIsShown'
  BY <1>1, <1>2, <1>3, SamePage
<1>5. RequestOK'
  <2>1. PICK d \in Datasets : Ask("read", [data |-> d, unsaved |-> Unsaved])
    BY DEF readFile
  <2>2. request' = [kind |-> "read", at |-> inputRevision,
                    of |-> [data |-> d, unsaved |-> Unsaved], reply |-> None]
    BY <2>1 DEF Ask
  <2>3. Waiting(Unsaved)'
    BY <1>1, LoadPanelWaits DEF readFile, Waiting, HasModel, page, Unsaved
  <2>4. Waiting(request.of.unsaved)'
    BY <1>1, <2>2, <2>3 DEF Waiting, Unsaved, HasModel
  <2> QED BY <1>1, <1>2, <2>2, <2>4 DEF RequestOK
<1> QED BY <1>1, <1>4, <1>5, SameLoad DEF IInv

LEMMA StepReadSheet == IInv /\ readSheet => IInv'
<1> SUFFICES ASSUME IInv, readSheet PROVE IInv'
  OBVIOUS
<1>1. UNCHANGED <<store, work, dirty, inputRevision, page, answers, pendingWorkbook, load, crossed>>
  BY DEF readSheet, history
<1>2. inputRevision \in Nat /\ pendingWorkbook \in Datasets
  BY DEF IInv, PageOK, readSheet
<1>3. Grown
  BY <1>1, StoreStays DEF IInv
<1>4. StoreOK' /\ WorkOK' /\ PageOK' /\ ReportIsCurrent' /\ SavedIsShown'
  BY <1>1, <1>2, <1>3, SamePage
<1>5. RequestOK'
  <2>1. request' = [kind |-> "sheet", at |-> inputRevision,
                    of |-> [data |-> pendingWorkbook, unsaved |-> Unsaved], reply |-> None]
    BY DEF readSheet, Ask
  <2>2. Waiting(Unsaved)'
    BY <1>1, LoadPanelWaits DEF readSheet, Waiting, HasModel, page, Unsaved
  <2>3. Waiting(request.of.unsaved)'
    BY <1>1, <2>1, <2>2 DEF Waiting, Unsaved, HasModel
  <2> QED BY <1>1, <1>2, <2>1, <2>3 DEF RequestOK
<1> QED BY <1>1, <1>4, <1>5, SameLoad DEF IInv

LEMMA StepLoadTable == IInv /\ loadTable => IInv'
<1> SUFFICES ASSUME IInv, loadTable PROVE IInv'
  OBVIOUS
<1>1. UNCHANGED <<store, work, dirty, inputRevision, page, answers, pendingWorkbook, request,
                  agreed, crossed>>
  BY DEF loadTable, history
<1>2. Grown /\ inputRevision \in Nat /\ dirty \in BOOLEAN
  BY <1>1, StoreStays DEF IInv, PageOK
<1>3. StoreOK' /\ WorkOK' /\ PageOK' /\ ReportIsCurrent' /\ SavedIsShown'
  BY <1>1, <1>2, SamePage
<1>4. RequestOK'
  BY <1>1, <1>2, SameRequest
<1>5. LoadOK'
  <2>1. PICK l \in Loads, d \in Datasets : load' = [load EXCEPT ![l] = [data |-> d, unsaved |-> Unsaved]]
    BY DEF loadTable
  <2>2. Unsaved \in BOOLEAN
    BY <1>2 DEF Unsaved, HasModel
  <2> QED BY <2>1, <2>2, OneLoad DEF IInv
<1> QED BY <1>3, <1>4, <1>5 DEF IInv

LEMMA StepTestRules == IInv /\ testRules => IInv'
<1> SUFFICES ASSUME IInv, testRules PROVE IInv'
  OBVIOUS
<1>1. /\ UNCHANGED <<store, work, dirty, inputRevision, step, graphOpen, pendingWorkbook, load, crossed>>
      /\ report' = None /\ traceRow' = FALSE
  BY DEF testRules, history, page
<1>2. HasData /\ Ready
  BY PanelFacts DEF testRules, Ready
<1>3. StoreOK' /\ WorkOK'
  BY <1>1 DEF IInv, StoreOK, WorkOK, HasModel, HasData
<1>4. PageOK'
  BY <1>1 DEF IInv, PageOK, Consistent, Matches, HasModel, HasData, Drawer
<1>5. ReportIsCurrent' /\ SavedIsShown'
  BY <1>1 DEF IInv, ReportIsCurrent, SavedIsShown, HasModel
<1>6. RequestOK'
  <2>1. request' = [kind |-> "test", at |-> inputRevision,
                    of |-> [tested |-> Tested(work), stayInGraph |-> Drawer], reply |-> None]
    BY DEF testRules, Ask
  <2>2. Tested(work) \in Reports
    BY <1>2, WorkFacts DEF Tested, Reports, Works, HasData, Ready
  <2>3. Drawer \in BOOLEAN /\ inputRevision \in Nat
    BY DEF Drawer, HasModel, IInv, PageOK
  <2>4. Ready' /\ Tested(work)' = Tested(work)
    BY <1>1, <1>2 DEF Ready, HasModel, Consistent, Matches, Tested
  <2> QED BY <1>1, <2>1, <2>2, <2>3, <2>4 DEF RequestOK
<1> QED BY <1>1, <1>3, <1>4, <1>5, <1>6, SameLoad DEF IInv

LEMMA StepSave == IInv /\ save => IInv'
<1> SUFFICES ASSUME IInv, save PROVE IInv'
  OBVIOUS
<1>1. UNCHANGED <<store, work, dirty, inputRevision, page, answers, pendingWorkbook, load, crossed>>
  BY DEF save, history
<1>2. Grown /\ inputRevision \in Nat
  BY <1>1, StoreStays DEF IInv, PageOK
<1>3. StoreOK' /\ WorkOK' /\ PageOK' /\ ReportIsCurrent' /\ SavedIsShown'
  BY <1>1, <1>2, SamePage
<1>4. HasData /\ Ready
  BY PanelFacts DEF save, Ready
<1>5. RequestOK'
  <2>1. request' = [kind |-> "save", at |-> inputRevision,
                    of |-> [id |-> work.id, revision |-> work.revision, base |-> work.base,
                            document |-> Document(work)], reply |-> None]
    BY DEF save, Ask
  <2>2. Document(work) \in Documents
    BY <1>4, WorkFacts DEF Document, Documents, Works, HasData, Ready
  <2>3. /\ work.id \in Ids \cup {None} /\ work.revision \in Nat /\ work.base \in {0, work.revision}
        /\ work.id = None => work.revision = 0
        /\ ~crossed => work.base = work.revision
    BY DEF IInv, WorkOK, Works
  <2>4. Ready' /\ Document(work)' = Document(work)
    BY <1>1, <1>4 DEF Ready, HasModel, Consistent, Matches, Document
  <2> HIDE DEF Documents
  <2> QED BY <1>1, <1>2, <2>1, <2>2, <2>3, <2>4 DEF RequestOK
<1> QED BY <1>1, <1>3, <1>5, SameLoad DEF IInv

LEMMA StepOpen == IInv /\ open => IInv'
<1> SUFFICES ASSUME IInv, open PROVE IInv'
  OBVIOUS
<1>1. /\ UNCHANGED <<store, work, dirty, page, answers, pendingWorkbook, load, crossed>>
      /\ inputRevision' = inputRevision + 1
  BY DEF open
<1>2. Grown /\ inputRevision \in Nat /\ inputRevision' \in Nat
  BY <1>1, StoreStays DEF IInv, PageOK
<1>3. StoreOK' /\ WorkOK' /\ PageOK' /\ ReportIsCurrent' /\ SavedIsShown'
  BY <1>1, <1>2, SamePage
<1>4. RequestOK'
  <2>1. PICK a \in Saved : Ask("open", a)
    BY DEF open
  <2>2. request' = [kind |-> "open", at |-> inputRevision, of |-> a, reply |-> None]
    BY <2>1 DEF Ask
  <2>3. a \in Ids /\ store[a] \in Seq([document : Documents, base : Nat]) /\ store[a] # << >>
    BY <2>1 DEF Saved, IInv, StoreOK
  <2>4. Len(store'[a]) > 0
    BY <1>1, <2>3
  <2>5. Waiting(agreed = inputRevision)'
    BY <1>1, LoadPanelWaits DEF open, Waiting, Unsaved, HasModel, page
  <2> QED BY <1>1, <1>2, <2>2, <2>3, <2>4, <2>5 DEF RequestOK
<1> QED BY <1>1, <1>3, <1>4, SameLoad DEF IInv

-----------------------------------------------------------------------------
(***************************************************************************)
(* Answers.                                                                *)
(***************************************************************************)

LEMMA StepRequestFailed == IInv /\ requestFailed => IInv'
<1> SUFFICES ASSUME IInv, requestFailed PROVE IInv'
  OBVIOUS
<1>1. /\ UNCHANGED <<store, work, dirty, inputRevision, page, answers, pendingWorkbook, load, crossed>>
      /\ request' = None
  BY DEF requestFailed
<1>2. Grown /\ inputRevision \in Nat
  BY <1>1, StoreStays DEF IInv, PageOK
<1>3. StoreOK' /\ WorkOK' /\ PageOK' /\ ReportIsCurrent' /\ SavedIsShown'
  BY <1>1, <1>2, SamePage
<1> QED BY <1>1, <1>3, NoRequest, SameLoad DEF IInv

LEMMA StepTestAnswered == IInv /\ testAnswered => IInv'
<1> SUFFICES ASSUME IInv, testAnswered PROVE IInv'
  OBVIOUS
<1>1. /\ UNCHANGED <<store, work, dirty, inputRevision, graphOpen, pendingWorkbook, load, crossed>>
      /\ request' = None
  BY DEF testAnswered, history
<1>2. CASE Outdated
  <2>1. Grown /\ inputRevision \in Nat
    BY <1>1, StoreStays DEF IInv, PageOK
  <2>2. UNCHANGED <<page, answers>>
    BY <1>1, <1>2 DEF testAnswered, page, answers
  <2>3. StoreOK' /\ WorkOK' /\ PageOK' /\ ReportIsCurrent' /\ SavedIsShown'
    BY <1>1, <2>1, <2>2, SamePage
  <2> QED BY <1>1, <2>3, NoRequest, SameLoad DEF IInv
<1>3. CASE ~Outdated
  <2>1. /\ report' = Tested(work) /\ Tested(work) \in Reports /\ Ready
        /\ traceRow' = request.of.stayInGraph /\ request.of.stayInGraph \in BOOLEAN
        /\ step' = IF request.of.stayInGraph THEN step ELSE 3
    BY <1>3 DEF IInv, RequestOK, testAnswered, Outdated, Busy
  <2>2. StoreOK' /\ WorkOK'
    BY <1>1 DEF IInv, StoreOK, WorkOK, HasModel, HasData
  <2>3. Ready' /\ Consistent(work)'
    BY <1>1, <2>1 DEF Ready, HasModel, Consistent, Matches
  <2>4. PageOK'
    BY <1>1, <2>1, <2>3 DEF IInv, PageOK, HasModel, HasData, Drawer
  <2>5. report' # None
    BY <2>1, ConstantsAssumption
  <2>6. /\ Tested(work).dataset = work.dataset /\ Tested(work).columns = work.columns
        /\ Tested(work).model = work.model
    BY DEF Tested
  <2>7. ReportIsCurrent' /\ SavedIsShown'
    BY <1>1, <2>1, <2>5, <2>6 DEF IInv, ReportIsCurrent, SavedIsShown, HasModel
  <2> QED BY <1>1, <2>2, <2>4, <2>7, NoRequest, SameLoad DEF IInv
<1> QED BY <1>2, <1>3

\* The work becomes the version that was saved; it is still dirty if it was
\* edited, or replaced, since.
LEMMA StepSaveAnswered == IInv /\ saveAnswered => IInv'
<1> SUFFICES ASSUME IInv, saveAnswered PROVE IInv'
  OBVIOUS
<1> DEFINE id == request.reply.id
           revision == request.reply.revision
           base == IF crossed THEN 0 ELSE revision
<1>1. /\ UNCHANGED <<store, inputRevision, step, graphOpen, report, traceRow, pendingWorkbook, load,
                     crossed>>
      /\ work' = [work EXCEPT !.id = id, !.revision = revision, !.base = base]
      /\ dirty' = (request.at # inputRevision) /\ request' = None
  BY DEF saveAnswered, history, page, answers, StillDirty
<1>2. /\ id \in Ids /\ revision \in 1 .. Len(store[id])
      /\ store[id][revision].document = request.of.document
      /\ request.at = inputRevision => request.of.document = Document(work) /\ Ready
  BY DEF IInv, RequestOK, saveAnswered, Busy
<1>3. revision \in Nat /\ base \in {0, revision}
  <2>1. Len(store[id]) \in Nat
    BY <1>2 DEF IInv, StoreOK
  <2> QED BY <1>2, <2>1
<1> HIDE DEF id, revision, base
<1>4. /\ work' \in Works /\ work'.id = id /\ work'.revision = revision /\ work'.base = base
      /\ work'.name = work.name /\ work'.dataset = work.dataset /\ work'.columns = work.columns
      /\ work'.model = work.model /\ work'.conditions = work.conditions /\ work'.custom = work.custom
  <2>1. base \in Nat /\ id \in Ids \cup {None}
    BY <1>2, <1>3
  <2> QED BY <1>1, <1>3, <2>1, WorkFacts DEF Works
<1>5. StoreOK'
  BY <1>1 DEF IInv, StoreOK
<1>6. WorkOK'
  <2>1. work'.id # None
    BY <1>2, <1>4, ConstantsAssumption
  <2>2. ~crossed => base = revision
    BY DEF base
  <2> QED BY <1>1, <1>2, <1>3, <1>4, <2>1, <2>2 DEF IInv, WorkOK, HasData, HasModel
<1>7. PageOK'
  <2>1. /\ HasModel' <=> HasModel
        /\ HasData' <=> HasData
        /\ Consistent(work)' <=> Consistent(work)
    BY <1>4 DEF HasModel, HasData, Consistent, Matches
  <2> QED BY <1>1, <1>2, <2>1 DEF IInv, PageOK, Ready, Drawer
<1>8. ReportIsCurrent'
  BY <1>1, <1>4 DEF IInv, ReportIsCurrent
<1>9. SavedIsShown'
  <2> SUFFICES ASSUME ~dirty' PROVE SavedIsShown'
    BY DEF SavedIsShown
  <2>1. store[id][revision].document = Document(work)
    BY <1>1, <1>2
  <2>2. /\ Document(work).name = work.name /\ Document(work).dataset = work.dataset
        /\ Document(work).columns = work.columns /\ Document(work).model = work.model
    BY DEF Document
  <2>3. work'.id # None
    BY <1>2, <1>4, ConstantsAssumption
  <2> QED BY <1>1, <1>4, <2>1, <2>2, <2>3 DEF SavedIsShown
<1> QED BY <1>1, <1>5, <1>6, <1>7, <1>8, <1>9, NoRequest, SameLoad DEF IInv

\* What is opened is a version of an analysis, and the builder shows what its
\* graph says or leaves the graph alone.
LEMMA RestoredFacts ==
    ASSUME StoreOK, NEW a \in Ids, NEW revision \in 1 .. Len(store[a])
    PROVE  LET w == Restored(a, revision)
           IN  /\ w \in Works /\ w.id = a /\ w.revision = revision /\ w.base = revision
               /\ w.dataset \in Datasets /\ w.model \in Models
               /\ Document(w) = store[a][revision].document
               /\ Consistent(w)
<1> DEFINE document == store[a][revision].document
           simple == simpleConditions(document.model, document.columns)
           w == Restored(a, revision)
<1>1. document \in Documents /\ revision \in Nat
  <2> DEFINE Versions == [document : Documents, base : Nat]
  <2> HIDE DEF Versions
  <2>1. store[a] \in Seq(Versions)
    BY DEF StoreOK, Versions
  <2>2. store[a][revision] \in Versions /\ Len(store[a]) \in Nat
    BY <2>1
  <2> QED BY <2>2 DEF Versions
<1>2. /\ document.name \in Names /\ document.dataset \in Datasets /\ document.columns \in Selections
      /\ document.model \in Models
      /\ document = [name |-> document.name, dataset |-> document.dataset,
                     columns |-> document.columns, model |-> document.model]
  BY <1>1 DEF Documents
<1> HIDE DEF document
<1>3. w = [id |-> a, revision |-> revision, base |-> revision,
           name |-> document.name, dataset |-> document.dataset,
           columns |-> document.columns, model |-> document.model,
           conditions |-> IF simple = None THEN {} ELSE simple, custom |-> simple = None]
  BY DEF Restored, document
<1>4. simple # None =>
        /\ simple \in SUBSET Condition
        /\ \A c \in simple : c.column \in DOMAIN document.columns
        /\ sameGraphLogic(document.model, makeModel(document.columns, simple))
  BY <1>2, SimpleMatches
<1> HIDE DEF simple, w
<1>5. w \in Works
  BY <1>1, <1>2, <1>3, <1>4 DEF Works
<1>6. Consistent(w)
  BY <1>3, <1>4 DEF Consistent, Matches
<1>7. Document(w) = document
  BY <1>2, <1>3 DEF Document
<1> QED BY <1>2, <1>3, <1>5, <1>6, <1>7 DEF document, w

LEMMA StepOpenAnswered == IInv /\ openAnswered => IInv'
<1> SUFFICES ASSUME IInv, openAnswered PROVE IInv'
  OBVIOUS
<1> DEFINE a == request.of
           revision == request.reply
<1>1. a \in Ids /\ revision \in 1 .. Len(store[a])
  BY DEF IInv, RequestOK, openAnswered, Busy
<1>2. /\ UNCHANGED <<store, inputRevision, graphOpen, pendingWorkbook, load>>
      /\ work' = Restored(a, revision) /\ dirty' = FALSE /\ step' = 2
      /\ report' = None /\ traceRow' = FALSE /\ request' = None /\ crossed' = FALSE
  BY DEF openAnswered, Replace
<1> HIDE DEF a, revision
<1>3. /\ work' \in Works /\ work'.id = a /\ work'.revision = revision /\ work'.base = revision
      /\ work'.dataset \in Datasets /\ work'.model \in Models
      /\ Document(work)' = store[a][revision].document
      /\ Consistent(work)'
  <2>1. Document(work)' = Document(work') /\ (Consistent(work)' <=> Consistent(work'))
    BY DEF Document, Consistent, Matches
  <2> QED BY <1>1, <1>2, <2>1, RestoredFacts DEF IInv
<1>4. HasModel' /\ HasData' /\ work'.id # None
  BY <1>1, <1>3, ModelIsSome, ConstantsAssumption DEF HasModel, HasData
<1>5. StoreOK'
  BY <1>2 DEF IInv, StoreOK
<1>6. WorkOK'
  BY <1>1, <1>2, <1>3, <1>4 DEF WorkOK
<1>7. PageOK'
  <2>1. step' \in 0 .. 3 /\ step' \in {2, 3} /\ inputRevision' \in Nat /\ graphOpen' \in BOOLEAN
        /\ pendingWorkbook' = pendingWorkbook
    BY <1>2 DEF IInv, PageOK
  <2> QED BY <1>2, <1>3, <1>4, <2>1 DEF IInv, PageOK
<1>8. ReportIsCurrent'
  BY <1>2 DEF ReportIsCurrent
<1>9. SavedIsShown'
  <2>1. /\ Document(work)'.name = work'.name /\ Document(work)'.dataset = work'.dataset
        /\ Document(work)'.columns = work'.columns /\ Document(work)'.model = work'.model
    BY DEF Document
  <2> QED BY <1>2, <1>3, <1>4, <2>1 DEF SavedIsShown
<1> QED BY <1>2, <1>5, <1>6, <1>7, <1>8, <1>9, NoRequest, SameLoad DEF IInv

-----------------------------------------------------------------------------
(***************************************************************************)
(* The server.                                                             *)
(***************************************************************************)

LEMMA StepAnalysis == IInv /\ Analysis => IInv'
<1> SUFFICES ASSUME IInv, Analysis PROVE IInv'
  OBVIOUS
<1>1. /\ UNCHANGED <<store, work, dirty, inputRevision, page, answers, pendingWorkbook, load, agreed,
                     crossed>>
      /\ request.kind = "open" /\ request # None
      /\ request' = [request EXCEPT !.reply = Len(store[request.of])]
  BY DEF Analysis, history, Busy
<1>2. Grown /\ inputRevision \in Nat
  BY <1>1, StoreStays DEF IInv, PageOK
<1>3. StoreOK' /\ WorkOK' /\ PageOK' /\ ReportIsCurrent' /\ SavedIsShown'
  BY <1>1, <1>2, SamePage
<1>4. RequestOK'
  <2>1. /\ request = [kind |-> request.kind, at |-> request.at, of |-> request.of,
                      reply |-> request.reply]
        /\ request.at \in Nat /\ request.at <= inputRevision
        /\ request.of \in Ids /\ Len(store[request.of]) > 0
        /\ Waiting(agreed = inputRevision)
    BY <1>1 DEF IInv, RequestOK
  <2>2. request' = [kind |-> "open", at |-> request.at, of |-> request.of,
                    reply |-> Len(store[request.of])]
    BY <1>1, <2>1
  <2>3. Len(store[request.of]) \in 1 .. Len(store[request.of])
    <3>1. Len(store[request.of]) \in Nat
      BY <2>1 DEF IInv, StoreOK
    <3> QED BY <2>1, <3>1
  <2>4. Waiting(agreed = inputRevision)'
    BY <1>1, <2>1 DEF Waiting, HasModel, page
  <2> QED BY <1>1, <2>1, <2>2, <2>3, <2>4 DEF RequestOK
<1> QED BY <1>1, <1>3, <1>4, SameLoad DEF IInv

LEMMA LatestIsTyped ==
    ASSUME StoreOK, NEW a \in Ids, Len(store[a]) > 0
    PROVE  Len(store[a]) \in Nat /\ Latest(a).document \in Documents
<1> DEFINE Versions == [document : Documents, base : Nat]
<1> HIDE DEF Versions
<1>1. store[a] \in Seq(Versions)
  BY DEF StoreOK, Versions
<1>2. Len(store[a]) \in Nat /\ Latest(a) \in Versions
  BY <1>1 DEF Latest
<1> QED BY <1>2 DEF Versions

\* Another tab's version continues the latest one.
LEMMA OtherTabFacts ==
    ASSUME StoreOK, OtherTabSaves
    PROVE  /\ Grown
           /\ \A a \in Ids : Len(store'[a]) > Len(store[a]) => Latest(a)'.base = Len(store[a])
<1>1. PICK a \in Ids, n \in Names :
        /\ Len(store[a]) \in 1 .. MaxVersions - 1
        /\ store' = [store EXCEPT ![a] = Append(@, [document |-> [Latest(a).document EXCEPT !.name = n],
                                                    base |-> Len(@)])]
  BY DEF OtherTabSaves
<1> DEFINE v == [document |-> [Latest(a).document EXCEPT !.name = n], base |-> Len(store[a])]
<1>2. Len(store[a]) \in Nat /\ Latest(a).document \in Documents /\ Len(store[a]) < MaxVersions
  <2>1. Len(store[a]) \in Nat
    BY DEF StoreOK
  <2>2. MaxVersions \in Nat
    BY ConstantsAssumption
  <2> QED BY <1>1, <2>1, <2>2, LatestIsTyped
<1>3. v \in [document : Documents, base : Nat] /\ v.base = Len(store[a])
  BY <1>2 DEF Documents
<1>4. store' = [store EXCEPT ![a] = Append(@, v)]
  BY <1>1 DEF StoreOK
<1> HIDE DEF v
<1>5. Grown /\ Len(store'[a]) = Len(store[a]) + 1 /\ store'[a][Len(store[a]) + 1] = v
  BY <1>2, <1>3, <1>4, StoreGrows
<1>6. \A b \in Ids \ {a} : store'[b] = store[b]
  BY <1>4 DEF StoreOK
<1>7. \A b \in Ids : Len(store[b]) \in Nat
  BY DEF StoreOK
<1> QED BY <1>3, <1>5, <1>6, <1>7 DEF Latest

LEMMA StepOtherTabSaves == IInv /\ OtherTabSaves => IInv'
<1> SUFFICES ASSUME IInv, OtherTabSaves PROVE IInv'
  OBVIOUS
<1>1. UNCHANGED <<work, dirty, inputRevision, page, answers, pendingWorkbook, request, load,
                  agreed, crossed>>
  BY DEF OtherTabSaves, history
<1>2. Grown /\ inputRevision \in Nat
  BY OtherTabFacts DEF IInv, PageOK
<1>3. StoreOK' /\ WorkOK' /\ PageOK' /\ ReportIsCurrent' /\ SavedIsShown'
  BY <1>1, <1>2, SamePage
<1>4. RequestOK'
  BY <1>1, <1>2, SameRequest
<1> QED BY <1>1, <1>3, <1>4, SameLoad DEF IInv

\* A version is saved: with what the request says of the version it continues,
\* where the analysis still is at that version.
LEMMA SaveFacts ==
    ASSUME IInv, SaveAnalysis
    PROVE  \/ Grown /\ UNCHANGED store /\ request' = None
           \/ \E a \in Ids :
                /\ Grown
                /\ Len(store[a]) \in Nat /\ Len(store[a]) = request.of.revision
                /\ Len(store'[a]) = Len(store[a]) + 1
                /\ \A b \in Ids \ {a} : store'[b] = store[b]
                /\ store'[a][Len(store[a]) + 1] =
                     [document |-> request.of.document, base |-> request.of.base]
                /\ request' = [request EXCEPT !.reply = [id |-> a, revision |-> Len(store[a]) + 1]]
<1>1. CASE request' = None /\ UNCHANGED store
  BY <1>1, StoreStays DEF IInv
<1>2. ASSUME NEW a \in Ids,
             Current(a, request.of.revision), Len(store[a]) < MaxVersions,
             store' = [store EXCEPT ![a] = Append(@, [document |-> request.of.document,
                                                      base |-> request.of.base])],
             request' = [request EXCEPT !.reply = [id |-> a, revision |-> Len(store[a]) + 1]]
      PROVE  /\ Grown
             /\ Len(store[a]) \in Nat /\ Len(store[a]) = request.of.revision
             /\ Len(store'[a]) = Len(store[a]) + 1
             /\ \A b \in Ids \ {a} : store'[b] = store[b]
             /\ store'[a][Len(store[a]) + 1] =
                  [document |-> request.of.document, base |-> request.of.base]
  <2> DEFINE v == [document |-> request.of.document, base |-> request.of.base]
  <2>1. v \in [document : Documents, base : Nat]
    BY DEF IInv, RequestOK, SaveAnalysis, Busy
  <2> HIDE DEF v
  <2>2. StoreOK /\ store' = [store EXCEPT ![a] = Append(@, v)]
    BY <1>2 DEF IInv, v
  <2>3. Grown /\ Len(store'[a]) = Len(store[a]) + 1 /\ store'[a][Len(store[a]) + 1] = v
    BY <1>2, <2>1, <2>2, StoreGrows
  <2>4. Len(store[a]) \in Nat /\ \A b \in Ids \ {a} : store'[b] = store[b]
    BY <2>2 DEF StoreOK
  <2> QED BY <1>2, <2>3, <2>4 DEF Current, v
<1> QED BY <1>1, <1>2 DEF SaveAnalysis

LEMMA StepSaveAnalysis == IInv /\ SaveAnalysis => IInv'
<1> SUFFICES ASSUME IInv, SaveAnalysis PROVE IInv'
  OBVIOUS
<1>1. /\ UNCHANGED <<work, dirty, inputRevision, page, answers, pendingWorkbook, load, agreed, crossed>>
      /\ request.kind = "save" /\ request # None
  BY DEF SaveAnalysis, history, Busy
<1>2. Grown /\ inputRevision \in Nat
  BY SaveFacts DEF IInv, PageOK
<1>3. StoreOK' /\ WorkOK' /\ PageOK' /\ ReportIsCurrent' /\ SavedIsShown'
  BY <1>1, <1>2, SamePage
<1>4. RequestOK'
  <2>1. CASE request' = None
    BY <2>1, NoRequest
  <2>2. ASSUME NEW a \in Ids,
               Len(store[a]) \in Nat, Len(store'[a]) = Len(store[a]) + 1,
               store'[a][Len(store[a]) + 1] =
                 [document |-> request.of.document, base |-> request.of.base],
               request' = [request EXCEPT !.reply = [id |-> a, revision |-> Len(store[a]) + 1]]
        PROVE  RequestOK'
    <3>1. request = [kind |-> request.kind, at |-> request.at, of |-> request.of,
                     reply |-> request.reply]
      BY <1>1 DEF IInv, RequestOK
    <3>2. request' = [kind |-> "save", at |-> request.at, of |-> request.of,
                      reply |-> [id |-> a, revision |-> Len(store[a]) + 1]]
      BY <1>1, <2>2, <3>1
    <3>3. Len(store[a]) + 1 \in 1 .. Len(store'[a])
      BY <2>2
    <3>4. Ready' = Ready /\ Document(work)' = Document(work)
      BY <1>1 DEF Ready, HasModel, Consistent, Matches, Document
    <3>5. /\ request.at \in Nat /\ request.at <= inputRevision
          /\ request.of.document \in Documents
          /\ request.of.id \in Ids \cup {None}
          /\ request.of.revision \in Nat /\ request.of.base \in {0, request.of.revision}
          /\ request.of.id = None => request.of.revision = 0
          /\ ~crossed => request.of.base = request.of.revision
          /\ request.at = inputRevision => request.of.document = Document(work) /\ Ready
      BY <1>1 DEF IInv, RequestOK
    <3> HIDE DEF Documents
    <3>6. /\ request'.kind = "save" /\ request'.at = request.at /\ request'.of = request.of
          /\ request'.reply.id = a /\ request'.reply.revision = Len(store[a]) + 1
      BY <3>2
    <3>7. request' = [kind |-> request'.kind, at |-> request'.at, of |-> request'.of,
                      reply |-> request'.reply]
      BY <3>2
    <3> QED BY <1>1, <2>2, <3>3, <3>4, <3>5, <3>6, <3>7 DEF RequestOK
  <2> QED BY <2>1, <2>2, SaveFacts
<1> QED BY <1>1, <1>3, <1>4, SameLoad DEF IInv

-----------------------------------------------------------------------------
(***************************************************************************)
(* The invariant.                                                          *)
(***************************************************************************)

LEMMA StepIInv == IInv /\ [Next]_vars => IInv'
<1> SUFFICES ASSUME IInv, [Next]_vars PROVE IInv'
  OBVIOUS
<1>1. CASE StepButton \/ BackButton \/ OpenGraph \/ CloseGraph
  BY <1>1, StepStepButton, StepBack, StepGraph
<1>2. CASE selectColumn \/ addCondition \/ removeCondition \/ replaceGraph \/ rename \/ editGraph
  BY <1>2, StepSelectColumn, StepConditions, StepRename, StepEditGraph
<1>3. CASE reset \/ leave \/ unmount
  BY <1>3, StepReset, StepAnew DEF leave, unmount
<1>4. CASE readFile \/ readSheet \/ loadTable
  BY <1>4, StepReadFile, StepReadSheet, StepLoadTable
<1>5. CASE testRules \/ save \/ open
  BY <1>5, StepTestRules, StepSave, StepOpen
<1>6. CASE SaveAnalysis \/ Analysis \/ OtherTabSaves
  BY <1>6, StepSaveAnalysis, StepAnalysis, StepOtherTabSaves
<1>7. CASE readAnswered \/ loadAnswered \/ testAnswered
  BY <1>7, StepReadAnswered, StepLoadAnswered, StepTestAnswered
<1>8. CASE saveAnswered \/ openAnswered \/ requestFailed
  BY <1>8, StepSaveAnswered, StepOpenAnswered, StepRequestFailed
<1>9. CASE mount \/ UNCHANGED vars
  <2>1. UNCHANGED <<store, work, dirty, inputRevision, page, answers, pendingWorkbook, request, load,
                    agreed, crossed>>
    BY <1>9 DEF mount, vars, page, answers, history
  <2>2. Grown /\ inputRevision \in Nat
    BY <2>1, StoreStays DEF IInv, PageOK
  <2> QED BY <2>1, <2>2, SamePage, SameRequest, SameLoad DEF IInv
<1> QED BY <1>1, <1>2, <1>3, <1>4, <1>5, <1>6, <1>7, <1>8, <1>9 DEF Next, OnPage, Answered

LEMMA Invariance == Spec => []IInv
BY InitIInv, StepIInv, PTL DEF Spec

\* The page and the store keep their types, and a request in flight is one the
\* page made, from a state that is not later than the present one.
THEOREM TypeCorrect == Spec => []TypeOK
<1>1. IInv => TypeOK
  <2> SUFFICES ASSUME IInv PROVE TypeOK
    OBVIOUS
  <2>1. work.revision \in 0 .. MaxVersions
    <3>1. MaxVersions \in Nat
      BY ConstantsAssumption
    <3>2. CASE work.id = None
      BY <3>1, <3>2 DEF IInv, WorkOK
    <3>3. CASE work.id # None
      <4>1. work.id \in Ids /\ work.revision \in 1 .. Len(store[work.id])
        BY <3>3 DEF IInv, WorkOK, Works
      <4>2. Len(store[work.id]) \in Nat /\ Len(store[work.id]) <= MaxVersions
        BY <4>1 DEF IInv, StoreOK
      <4> QED BY <3>1, <4>1, <4>2
    <3> QED BY <3>2, <3>3
  <2>2. /\ work.id \in Ids \cup {None} /\ work.base \in {0, work.revision}
        /\ work.name \in Names /\ work.dataset \in Datasets \cup {None}
        /\ work.columns \in Selections /\ work.model \in Models \cup {NoModel}
        /\ work.conditions \in SUBSET Condition /\ work.custom \in BOOLEAN
    BY DEF IInv, WorkOK, Works
  <2>3. \A a \in Ids : Len(store[a]) <= MaxVersions
    BY DEF IInv, StoreOK
  <2>4. Busy => request.kind \in {"read", "sheet", "test", "save", "open"} /\ request.at <= inputRevision
    BY DEF IInv, RequestOK, Busy
  <2> QED BY <2>1, <2>2, <2>3, <2>4 DEF IInv, PageOK, TypeOK
<1> QED BY <1>1, Invariance, PTL

\* AnalyzeData.test shows an answer only if inputRevision is the one of the
\* request: the results on the page are those of the data, the columns and the
\* logic on the page, for any number of edits, loads and answers in between.
THEOREM ResultsAreCurrent == Spec => []ReportIsCurrent
<1>1. IInv => ReportIsCurrent
  BY DEF IInv
<1> QED BY <1>1, Invariance, PTL

\* AnalyzeData.save clears "dirty" only if nothing changed while the server
\* saved: what the page takes for saved is, field by field, the version of the
\* analysis that the page names.
THEOREM SavedIsTrue == Spec => []SavedIsShown
<1>1. IInv => SavedIsShown
  BY DEF IInv
<1> QED BY <1>1, Invariance, PTL

\* Each handler that changes the conditions rebuilds the graph, continueToRules
\* makes up for the choice of columns, which does not, and open keeps conditions
\* only if the graph consists of them: the builder shows the graph's logic.
THEOREM BuilderAgrees == Spec => []BuilderMatchesGraph
<1>1. IInv => BuilderMatchesGraph
  BY DEF IInv, PageOK, Consistent, Matches, BuilderMatchesGraph, HasModel
<1> QED BY <1>1, Invariance, PTL

-----------------------------------------------------------------------------
(***************************************************************************)
(* Versions.                                                               *)
(***************************************************************************)

LEMMA StoreChanges == Next => SaveAnalysis \/ OtherTabSaves \/ UNCHANGED store
<1> SUFFICES ASSUME Next, ~SaveAnalysis, ~OtherTabSaves PROVE UNCHANGED store
  OBVIOUS
<1>1. CASE StepButton \/ BackButton \/ OpenGraph \/ CloseGraph
  BY <1>1, Zenon DEF StepButton, BackButton, OpenGraph, CloseGraph, GoTo, continueToRules
<1>2. CASE selectColumn \/ addCondition \/ removeCondition \/ replaceGraph \/ rename \/ editGraph
  <2>1. ASSUME NEW w, Edit(w) \/ Relabel(w) PROVE UNCHANGED store
    BY <2>1 DEF Edit, Relabel
  <2> QED BY <1>2, <2>1, Zenon DEF selectColumn, addCondition, removeCondition, replaceGraph, rename,
                                   editGraph
<1>3. CASE reset \/ readFile \/ readSheet \/ loadTable \/ testRules \/ save \/ open \/ Analysis
  BY <1>3 DEF reset, readFile, readSheet, loadTable, testRules, save, open, Analysis
<1>4. CASE Answered \/ requestFailed \/ leave \/ unmount \/ mount
  BY <1>4 DEF Answered, readAnswered, loadAnswered, testAnswered, saveAnswered, openAnswered,
              requestFailed, leave, unmount, mount, Anew
<1> QED BY <1>1, <1>2, <1>3, <1>4 DEF Next, OnPage

LEMMA SaveContinues ==
    ASSUME IInv, SaveAnalysis, ~crossed, NEW a \in Ids, Len(store'[a]) > Len(store[a])
    PROVE  Latest(a)'.base = Len(store[a])
<1>1. Len(store[a]) \in Nat
  BY DEF IInv, StoreOK
<1>2. ~UNCHANGED store
  BY <1>1
<1>3. PICK b \in Ids :
        /\ Len(store[b]) \in Nat /\ Len(store[b]) = request.of.revision
        /\ Len(store'[b]) = Len(store[b]) + 1
        /\ \A c \in Ids \ {b} : store'[c] = store[c]
        /\ store'[b][Len(store[b]) + 1] = [document |-> request.of.document, base |-> request.of.base]
  BY <1>2, SaveFacts
<1>4. a = b
  BY <1>1, <1>3
<1>5. request.of.base = request.of.revision
  BY DEF IInv, RequestOK, SaveAnalysis, Busy
<1> QED BY <1>3, <1>4, <1>5 DEF Latest

\* SaveAnalysis compares the revision of the request with the latest one under
\* the row's lock, and the page sends the revision it opened or saved last: with
\* any number of tabs and of lost replies, no version passes over another one.
THEOREM VersionsFollow == Spec => VersionsContinue
<1> DEFINE Continues == \A a \in Ids : Len(store'[a]) > Len(store[a]) =>
                          \/ Latest(a)'.base = Len(store[a])
                          \/ crossed
<1>1. IInv /\ [Next]_vars => Continues \/ UNCHANGED vars
  <2> SUFFICES ASSUME IInv, Next PROVE Continues
    OBVIOUS
  <2>1. CASE SaveAnalysis
    BY <2>1, SaveContinues
  <2>2. CASE OtherTabSaves
    BY <2>2, OtherTabFacts DEF IInv
  <2>3. CASE UNCHANGED store
    <3>1. \A a \in Ids : Len(store[a]) \in Nat
      BY DEF IInv, StoreOK
    <3> QED BY <2>3, <3>1
  <2> QED BY <2>1, <2>2, <2>3, StoreChanges
<1>2. IInv /\ [Next]_vars => [Continues]_vars
  BY <1>1
<1> QED BY <1>2, Invariance, PTL DEF Spec, VersionsContinue

-----------------------------------------------------------------------------
(***************************************************************************)
(* Unsaved rules.                                                          *)
(***************************************************************************)

LEMMA EditsKeepRules ==
    ASSUME IInv, HasModel,
           selectColumn \/ addCondition \/ removeCondition \/ replaceGraph \/ rename \/ editGraph
    PROVE  HasModel' /\ dirty'
<1>1. ASSUME NEW w, Edit(w) \/ Relabel(w), w.model # NoModel PROVE HasModel' /\ dirty'
  BY <1>1 DEF Edit, Relabel, changed, HasModel
<1>2. CASE selectColumn
  <2>1. \A columns : [work EXCEPT !.columns = columns].model # NoModel
    BY WorkFacts DEF Works, HasModel
  <2> QED BY <1>1, <1>2, <2>1, Zenon DEF selectColumn
<1>3. ASSUME NEW conditions \in SUBSET Condition, \A c \in conditions : c.column \in DOMAIN work.columns
      PROVE  /\ Rebuilt(conditions).model # NoModel
             /\ [Rebuilt(conditions) EXCEPT !.custom = FALSE].model # NoModel
  <2>1. makeModel(work.columns, conditions) # NoModel
    BY <1>3, WorkFacts, MadeModel, ModelIsSome
  <2> HIDE DEF makeModel
  <2> QED BY <2>1, WorkFacts DEF Rebuilt, Works
<1>4. CASE addCondition \/ removeCondition \/ replaceGraph
  <2>1. ~work.custom => \A c \in work.conditions : c.column \in DOMAIN work.columns
    BY <1>4, PanelFacts DEF Consistent, Matches, HasModel, addCondition, removeCondition, replaceGraph
  <2>2. work.conditions \in SUBSET Condition
    BY WorkFacts
  <2>3. CASE addCondition
    <3>1. PICK c \in Condition : c.column \in DOMAIN work.columns /\ Edit(Rebuilt(work.conditions \cup {c}))
      BY <2>3 DEF addCondition
    <3> QED BY <1>1, <1>3, <2>1, <2>2, <2>3, <3>1 DEF addCondition
  <2>4. CASE removeCondition
    <3>1. PICK c \in work.conditions : Edit(Rebuilt(work.conditions \ {c}))
      BY <2>4 DEF removeCondition
    <3> QED BY <1>1, <1>3, <2>1, <2>2, <2>4, <3>1 DEF removeCondition
  <2>5. CASE replaceGraph
    BY <1>1, <1>3, <2>5 DEF replaceGraph
  <2> QED BY <1>4, <2>3, <2>4, <2>5
<1>5. CASE rename
  <2>1. \A n : [work EXCEPT !.name = n].model # NoModel
    BY WorkFacts DEF Works, HasModel
  <2> QED BY <1>1, <1>5, <2>1, Zenon DEF rename
<1>6. CASE editGraph
  <2>1. PICK table \in Graphs \cup {work.model.table}, schema \in {work.model.schema, None} :
           LET model == [schema |-> schema, table |-> table, simple |-> None]
           IN  IF sameGraphLogic(work.model, model)
               THEN Relabel(work)
               ELSE Edit([work EXCEPT !.model = model, !.custom = TRUE, !.conditions = {}])
    BY <1>6 DEF editGraph
  <2> DEFINE model == [schema |-> schema, table |-> table, simple |-> None]
  <2>2. model \in Models
    BY WorkFacts DEF Models, Tables
  <2>3. model # NoModel
    BY <2>2, ModelIsSome
  <2> HIDE DEF model
  <2>4. [work EXCEPT !.model = model, !.custom = TRUE, !.conditions = {}].model # NoModel
    BY <2>3, WorkFacts DEF Works
  <2> QED BY <1>1, <2>1, <2>4 DEF model, HasModel
<1> QED BY <1>2, <1>4, <1>5, <1>6

\* Where neither the work nor "dirty" changes.
LEMMA QuietSteps ==
    ASSUME \/ BackButton \/ OpenGraph \/ CloseGraph \/ readFile \/ readSheet \/ loadTable
           \/ testRules \/ save \/ open \/ SaveAnalysis \/ Analysis \/ OtherTabSaves
           \/ testAnswered \/ requestFailed \/ mount \/ UNCHANGED vars
    PROVE  UNCHANGED <<work, dirty>>
BY Zenon DEF BackButton, GoTo, OpenGraph, CloseGraph, readFile, readSheet, loadTable, testRules, save, open,
             SaveAnalysis, Analysis, OtherTabSaves, testAnswered, requestFailed, mount, vars

\* AnalyzeData asks before it replaces unsaved rules, at once (reset, leaving
\* the page), when the data arrives (acceptPreview) or before a saved analysis is
\* fetched (open); and whoever agreed saw the rules that are lost.  That is so of
\* all the page does, but for a table asked for before the rules were edited; it
\* is not so of the shell, which takes the page away (unmount) and asks nobody.
THEOREM RulesAskedFor == Spec => UnsavedRulesAsked
<1> DEFINE Asked ==
             \/ inputRevision \in {agreed, agreed'}
             \/ \E a \in Ids : \E i \in DOMAIN store[a] : store[a][i].document = Document(work)
             \/ \E l \in Loads : /\ load[l] # None /\ load'[l] = None
                                /\ ~load[l].unsaved /\ work'.dataset = load[l].data
<1>1. IInv /\ [Next]_vars => (mounted' /\ Unsaved /\ CanSave /\ ~Unsaved' => Asked)
  <2> SUFFICES ASSUME IInv, [Next]_vars, mounted', Unsaved, CanSave, ~Unsaved' PROVE Asked
    OBVIOUS
  <2>0. dirty /\ HasModel /\ ~(dirty' /\ HasModel') /\ ~UNCHANGED <<work, dirty>>
    BY DEF Unsaved, HasModel
  <2>1. CASE StepButton
    <3>1. ASSUME NEW n, GoTo(n) PROVE UNCHANGED <<work, dirty>>
      BY <3>1 DEF GoTo
    <3>2. continueToRules => HasModel' /\ dirty' = dirty
      BY ContinueFacts DEF continueToRules
    <3> QED BY <2>0, <2>1, <3>1, <3>2, Zenon DEF StepButton
  <2>2. CASE selectColumn \/ addCondition \/ removeCondition \/ replaceGraph \/ rename \/ editGraph
    BY <2>0, <2>2, EditsKeepRules
  <2>3. CASE reset
    BY <2>3 DEF reset, Consent
  <2>4. CASE leave
    BY <2>4 DEF leave, Consent
  <2>5. CASE readAnswered
    <3>1. Waiting(request.of.unsaved)
      BY <2>5 DEF IInv, RequestOK, readAnswered, Busy
    <3>2. request.of.unsaved
      BY <2>0, <3>1 DEF Waiting
    <3> QED BY <2>0, <2>5, <3>2 DEF readAnswered, acceptPreview, Consent
  <2>6. CASE loadAnswered
    <3>1. PICK l \in Loads :
            /\ load[l] # None /\ load' = [load EXCEPT ![l] = None]
            /\ acceptPreview(load[l].data, load[l].unsaved)
      BY <2>0, <2>6 DEF loadAnswered
    <3>2. load[l].unsaved \in BOOLEAN /\ load'[l] = None
      BY <3>1 DEF IInv, LoadOK
    <3>3. CASE load[l].unsaved
      BY <2>0, <3>1, <3>3 DEF acceptPreview, Consent
    <3>4. CASE ~load[l].unsaved
      <4>1. work'.dataset = load[l].data
        BY <3>1, <3>4 DEF acceptPreview, Replace, Blank
      <4> QED BY <3>1, <3>2, <3>4, <4>1
    <3> QED BY <3>2, <3>3, <3>4
  <2>7. CASE saveAnswered
    <3>1. request.at = inputRevision
      <4>1. HasModel'
        BY <2>0, <2>7, WorkFacts DEF saveAnswered, HasModel, Works
      <4> QED BY <2>0, <2>7, <4>1 DEF saveAnswered, StillDirty
    <3>2. /\ request.reply.id \in Ids /\ request.reply.revision \in 1 .. Len(store[request.reply.id])
          /\ store[request.reply.id][request.reply.revision].document = Document(work)
      BY <2>7, <3>1 DEF IInv, RequestOK, saveAnswered, Busy
    <3>3. DOMAIN store[request.reply.id] = 1 .. Len(store[request.reply.id])
      BY <3>2 DEF IInv, StoreOK
    <3> QED BY <3>2, <3>3
  <2>8. CASE openAnswered
    <3>1. Waiting(agreed = inputRevision)
      BY <2>8 DEF IInv, RequestOK, openAnswered, Busy
    <3> QED BY <2>0, <3>1 DEF Waiting
  <2>9. ~unmount
    BY DEF unmount
  <2> QED BY <2>0, <2>1, <2>2, <2>3, <2>4, <2>5, <2>6, <2>7, <2>8, <2>9, QuietSteps
       DEF Next, OnPage, Answered
<1>2. IInv /\ [Next]_vars => [mounted' /\ Unsaved /\ CanSave /\ ~Unsaved' => Asked]_vars
  BY <1>1
<1> QED BY <1>2, Invariance, PTL DEF Spec, UnsavedRulesAsked

=============================================================================
