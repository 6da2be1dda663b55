---------------------------- MODULE AnalysisStudio ----------------------------
(***************************************************************************)
(* The "Analyze data" page of one browser tab (AnalyzeData), the form that *)
(* loads a database table into it (DatabasePreview), and the saved         *)
(* analyses of the server, which other tabs save too.                      *)
(*                                                                         *)
(* The page has one request in flight at most: "busy" disables the         *)
(* controls that start one.  It does not disable all that edit, and the    *)
(* database form has a "busy" of its own, so the work on the page may      *)
(* change, or be replaced, while an answer is on its way.  inputRevision   *)
(* tells an answer whether it did.                                         *)
(*                                                                         *)
(* A handler runs with the state of the render it was created in.  What an *)
(* answer uses of that state is therefore part of its request.             *)
(*                                                                         *)
(* The shell around the page (App) may take it away, and does not ask.     *)
(***************************************************************************)
EXTENDS Naturals, Sequences, FiniteSets, Functions

CONSTANTS
    Columns, Types,  \* columns of a dataset, and the types a column can have
    Datasets,        \* what can be loaded
    TypeOf,          \* the types the server infers for a dataset's columns
    Values,          \* operators and values of a condition
    Graphs,          \* decision logic that no list of conditions expresses
    Names,           \* names of an analysis; "" is the empty one
    Untitled,        \* the name that a dataset suggests
    Ids,             \* saved analyses
    CanSave,         \* whether the account's roles allow saving
    Loads,           \* as many tables can be on their way
    None,
    MaxInputs,       \* bound on inputRevision
    MaxVersions      \* bound on the versions of an analysis

Condition == [column : Columns, value : Values]
Selections == UNION {[S -> Types] : S \in SUBSET Columns}

\* Decision logic: what conditions say of columns of certain types, or a graph
\* that says more; with its input schema, and the conditions it was made of.
Tables == (SUBSET [of : Condition, as : Types]) \cup Graphs
Models == [schema : Selections \cup {None}, table : Tables, simple : (SUBSET Condition) \cup {None}]
Reports == [dataset : Datasets, columns : Selections, model : Models]

ASSUME ConstantsAssumption ==
    /\ TypeOf \in [Datasets -> [Columns -> Types]]
    /\ {"", Untitled} \subseteq Names /\ Untitled # ""
    /\ None \notin Datasets \cup Ids
    /\ \A table \in Tables : table # None
    /\ \A results \in Reports : results # None
    /\ CanSave \in BOOLEAN
    /\ MaxInputs \in Nat /\ MaxVersions \in Nat

VARIABLES
    store,        \* analysis_version: the versions of each analysis
    work,         \* what the page shows of an analysis, and the analysis it is
    dirty, inputRevision, step, graphOpen, report, traceRow, pendingWorkbook,
    request,      \* the request in flight; busy while there is one
    load,         \* the table loads in flight (DatabasePreview)
    agreed,       \* history: the inputRevision whose loss was agreed to, until it is edited
    crossed,      \* history: this work is a table that came while other work was being saved
    mounted       \* whether the shell shows the page

vars == <<store, work, dirty, inputRevision, step, graphOpen, report, traceRow,
          pendingWorkbook, request, load, agreed, crossed, mounted>>

page == <<step, graphOpen>>
answers == <<report, traceRow>>
history == <<agreed, crossed>>

NoLoads == [l \in Loads |-> None]

NoModel == [schema |-> None, table |-> None, simple |-> None]

\* base: the version of analysis "id" that this work continues.
Blank == [id |-> None, revision |-> 0, base |-> 0, name |-> "", dataset |-> None,
          columns |-> << >>, model |-> NoModel, conditions |-> {}, custom |-> FALSE]

Init ==
    /\ store = [a \in Ids |-> << >>]
    /\ work = Blank
    /\ dirty = FALSE /\ inputRevision = 0
    /\ step = 0 /\ graphOpen = FALSE
    /\ report = None /\ traceRow = FALSE
    /\ pendingWorkbook = None /\ request = None /\ load = NoLoads
    /\ agreed = None /\ crossed = FALSE /\ mounted = TRUE

-----------------------------------------------------------------------------
(* Rules: a graph whose table is a list of conditions, or any other graph. *)

\* A condition is written in terms of the column's type.
expression(c, columns) == [of |-> c, as |-> columns[c.column]]

makeModel(columns, conditions) ==
    [schema |-> columns,
     table |-> {expression(c, columns) : c \in conditions},
     simple |-> conditions]

sameGraphLogic(left, right) == left.schema = right.schema /\ left.table = right.table

\* The conditions of a graph that consists of conditions only, or None.
simpleConditions(model, columns) ==
    IF /\ model.simple # None
       /\ \A c \in model.simple : c.column \in DOMAIN columns
       /\ sameGraphLogic(model, makeModel(columns, model.simple))
    THEN model.simple
    ELSE None

-----------------------------------------------------------------------------
(* What the page shows. *)

Busy == request # None
HasData == work.dataset # None
HasModel == work.model # NoModel
Unsaved == dirty /\ HasModel
Drawer == graphOpen /\ HasModel

\* The drawer covers the panel of the step.
LoadPanel == step = 0 /\ ~Drawer
ColumnsPanel == step = 1 /\ ~Drawer /\ HasData
RulesPanel == step = 2 /\ ~Drawer /\ HasData /\ HasModel
ResultsPanel == step = 3 /\ ~Drawer /\ HasData /\ report # None

\* What is saved of the work, and what a test tests.
Document(w) == [name |-> w.name, dataset |-> w.dataset, columns |-> w.columns, model |-> w.model]
Tested(w) == [dataset |-> w.dataset, columns |-> w.columns, model |-> w.model]

CanEdit == inputRevision < MaxInputs

changed ==
    /\ inputRevision' = inputRevision + 1
    /\ report' = None /\ traceRow' = FALSE
    /\ dirty' = TRUE

Edit(w) ==
    /\ CanEdit
    /\ work' = w
    /\ changed
    /\ agreed' = None
    /\ UNCHANGED <<store, page, pendingWorkbook, request, load, crossed>>

Ask(kind, payload) ==
    /\ ~Busy
    /\ request' = [kind |-> kind, at |-> inputRevision, of |-> payload, reply |-> None]

-----------------------------------------------------------------------------
(* Navigation. *)

\* Slip: the conditions on columns that are no longer selected stay.
continueToRules_KeepsConditions ==
    LET next == [work EXCEPT !.model = makeModel(work.columns,
                                  {c \in work.conditions : c.column \in DOMAIN work.columns})]
    IN  /\ ~Busy /\ HasData /\ DOMAIN work.columns # {}
        /\ work' = IF work.custom THEN [work EXCEPT !.model.schema = work.columns]
                   ELSE IF sameGraphLogic(work.model, next.model) THEN work ELSE next
        /\ step' = 2
        /\ UNCHANGED <<store, dirty, inputRevision, graphOpen, answers, pendingWorkbook,
                       request, load, history>>

\* The rules follow the columns: a list of conditions loses those on columns
\* no longer selected, any other graph gets the columns as its input schema.
\* That is no edit: neither dirty nor the results change.
continueToRules ==
    LET kept == {c \in work.conditions : c.column \in DOMAIN work.columns}
        model == makeModel(work.columns, kept)
    IN  /\ ~Busy /\ HasData /\ DOMAIN work.columns # {}
        /\ work' = IF work.custom
                   THEN [work EXCEPT !.model.schema = work.columns]
                   ELSE [work EXCEPT !.conditions = kept,
                                     !.model = IF HasModel /\ sameGraphLogic(@, model)
                                               THEN @ ELSE model]
        /\ step' = 2
        /\ UNCHANGED <<store, dirty, inputRevision, graphOpen, answers, pendingWorkbook,
                       request, load, history>>

GoTo(n) ==
    /\ step' = n
    /\ UNCHANGED <<store, work, dirty, inputRevision, graphOpen, answers, pendingWorkbook,
                   request, load, history>>

StepButton ==
    /\ ~Busy /\ ~Drawer
    /\ \/ GoTo(0)
       \/ HasData /\ GoTo(1)
       \/ continueToRules
       \/ report # None /\ GoTo(3)

\* "Change data", "Choose columns" and "Edit rules" work while the page is busy.
BackButton ==
    \/ ColumnsPanel /\ GoTo(0)
    \/ RulesPanel /\ GoTo(1)
    \/ ResultsPanel /\ GoTo(2)

\* The graph is opened for a row of the results, or for none.
OpenGraph ==
    /\ \/ RulesPanel /\ traceRow' = FALSE
       \/ ResultsPanel /\ traceRow' = TRUE
    /\ graphOpen' = TRUE
    /\ UNCHANGED <<store, work, dirty, inputRevision, step, report, pendingWorkbook,
                   request, load, history>>

CloseGraph ==
    /\ Drawer
    /\ graphOpen' = FALSE
    /\ step' \in {step} \cup (IF report # None THEN {3} ELSE {})
    /\ UNCHANGED <<store, work, dirty, inputRevision, answers, pendingWorkbook,
                   request, load, history>>

-----------------------------------------------------------------------------
(* Edits. *)

With(columns, c, t) == [x \in DOMAIN columns \cup {c} |-> IF x = c THEN t ELSE columns[x]]

\* Columns are chosen and retyped whether or not the page is busy.
selectColumn ==
    /\ ColumnsPanel
    /\ LET Select(columns) == Edit([work EXCEPT !.columns = columns])
           inferred == TypeOf[work.dataset]
       IN  \/ Select(inferred)
           \/ Select(<< >>)
           \/ \E c \in Columns \ DOMAIN work.columns : Select(With(work.columns, c, inferred[c]))
           \/ \E c \in DOMAIN work.columns :
                \/ Select(Restrict(work.columns, DOMAIN work.columns \ {c}))
                \/ \E t \in Types \ {work.columns[c]} : Select(With(work.columns, c, t))

Rebuilt(conditions) ==
    [work EXCEPT !.conditions = conditions, !.model = makeModel(work.columns, conditions)]

addCondition ==
    /\ RulesPanel /\ ~work.custom /\ ~Busy
    /\ \E c \in Condition \ work.conditions :
         /\ c.column \in DOMAIN work.columns
         /\ Edit(Rebuilt(work.conditions \cup {c}))

\* The buttons that remove conditions, or a graph, work while the page is busy.
removeCondition ==
    /\ RulesPanel /\ ~work.custom
    /\ \E c \in work.conditions : Edit(Rebuilt(work.conditions \ {c}))

replaceGraph ==
    /\ RulesPanel /\ work.custom
    /\ Edit([Rebuilt({}) EXCEPT !.custom = FALSE])

\* An edit that does not change what a test would find leaves the results.
Relabel(w) ==
    /\ CanEdit
    /\ work' = w
    /\ inputRevision' = inputRevision + 1
    /\ dirty' = TRUE
    /\ agreed' = None
    /\ UNCHANGED <<store, page, answers, pendingWorkbook, request, load, crossed>>

rename ==
    /\ RulesPanel /\ ~Busy
    /\ \E n \in Names \ {work.name} : Relabel([work EXCEPT !.name = n])

\* Any graph, with the columns or anything else as its input schema; or the
\* same graph drawn differently.
editGraph ==
    /\ Drawer /\ ~Busy
    /\ \E table \in Graphs \cup {work.model.table}, schema \in {work.model.schema, None} :
         LET model == [schema |-> schema, table |-> table, simple |-> None]
         IN  IF sameGraphLogic(work.model, model)
             THEN Relabel(work)
             ELSE Edit([work EXCEPT !.model = model, !.custom = TRUE, !.conditions = {}])

-----------------------------------------------------------------------------
(* New work. *)

Replace(w, isDirty, n) ==
    /\ work' = w
    /\ dirty' = isDirty
    /\ step' = n
    /\ report' = None /\ traceRow' = FALSE
    /\ UNCHANGED graphOpen

\* Whoever agrees looks at the work as it is.
Consent(asked) == agreed' = IF asked THEN inputRevision ELSE agreed

reset ==
    /\ CanEdit
    /\ ~Busy /\ ~Drawer /\ HasData
    /\ Consent(Unsaved)
    /\ inputRevision' = inputRevision + 1
    /\ Replace(Blank, FALSE, 0)
    /\ pendingWorkbook' = None /\ crossed' = FALSE
    /\ UNCHANGED <<store, request, load>>

Saving == Busy /\ request.kind = "save"

\* Slip: nobody is asked.
acceptPreview_Unasked(d, asked) ==
    /\ inputRevision' = inputRevision + 1
    /\ Replace([Blank EXCEPT !.dataset = d, !.columns = TypeOf[d], !.name = Untitled], TRUE, 1)
    /\ pendingWorkbook' = None /\ crossed' = Saving
    /\ UNCHANGED agreed

\* asked: whether there was unsaved work when the data was asked for.
acceptPreview(d, asked) ==
    \/ /\ asked     \* and the user declines
       /\ UNCHANGED <<work, dirty, inputRevision, page, answers, pendingWorkbook, history>>
    \/ /\ Consent(asked)
       /\ inputRevision' = inputRevision + 1
       /\ Replace([Blank EXCEPT !.dataset = d, !.columns = TypeOf[d], !.name = Untitled], TRUE, 1)
       /\ pendingWorkbook' = None /\ crossed' = Saving

readFile ==
    /\ CanEdit /\ LoadPanel
    /\ \E d \in Datasets : Ask("read", [data |-> d, unsaved |-> Unsaved])
    /\ pendingWorkbook' = None
    /\ UNCHANGED <<store, work, dirty, inputRevision, page, answers, load, history>>

readSheet ==
    /\ CanEdit /\ LoadPanel /\ pendingWorkbook # None
    /\ Ask("sheet", [data |-> pendingWorkbook, unsaved |-> Unsaved])
    /\ UNCHANGED <<store, work, dirty, inputRevision, page, answers, pendingWorkbook, load, history>>

\* A workbook has sheets to choose from, any other file is taken.
readAnswered ==
    /\ Busy /\ request.kind \in {"read", "sheet"}
    /\ request' = None
    /\ \/ /\ request.kind = "read"
          /\ pendingWorkbook' = request.of.data
          /\ UNCHANGED <<work, dirty, inputRevision, page, answers, history>>
       \/ acceptPreview(request.of.data, request.of.unsaved)
    /\ UNCHANGED <<store, load>>

\* The database form, which is not disabled while the page is busy.  It waits for
\* its own answer, but not when it was left for a file or another step and is back.
loadTable ==
    /\ CanEdit /\ LoadPanel
    /\ \E l \in Loads, d \in Datasets :
         load[l] = None /\ load' = [load EXCEPT ![l] = [data |-> d, unsaved |-> Unsaved]]
    /\ UNCHANGED <<store, work, dirty, inputRevision, page, answers, pendingWorkbook,
                   request, history>>

\* It may have failed.
loadAnswered ==
    /\ \E l \in Loads :
         /\ load[l] # None
         /\ load' = [load EXCEPT ![l] = None]
         /\ \/ UNCHANGED <<work, dirty, inputRevision, page, answers, pendingWorkbook, history>>
            \/ acceptPreview(load[l].data, load[l].unsaved)
    /\ UNCHANGED <<store, request>>

-----------------------------------------------------------------------------
(* Tests. *)

testRules ==
    /\ RulesPanel \/ Drawer
    /\ Ask("test", [tested |-> Tested(work), stayInGraph |-> Drawer])
    /\ report' = None /\ traceRow' = FALSE
    /\ UNCHANGED <<store, work, dirty, inputRevision, page, pendingWorkbook, load, history>>

\* Slip: results are shown whatever happened meanwhile.
Outdated_Never == FALSE

Outdated == request.at # inputRevision

testAnswered ==
    /\ Busy /\ request.kind = "test"
    /\ request' = None
    /\ IF Outdated
       THEN UNCHANGED <<answers, step>>
       ELSE /\ report' = request.of.tested
            /\ traceRow' = request.of.stayInGraph
            /\ step' = IF request.of.stayInGraph THEN step ELSE 3
    /\ UNCHANGED <<store, work, dirty, inputRevision, graphOpen, pendingWorkbook, load, history>>

-----------------------------------------------------------------------------
(* Saved analyses. *)

SaveControl == CanSave /\ Unsaved /\ ~Busy

save ==
    /\ RulesPanel \/ ResultsPanel \/ Drawer
    /\ SaveControl /\ work.name # ""
    /\ Ask("save", [id |-> work.id, revision |-> work.revision, base |-> work.base,
                    document |-> Document(work)])
    /\ UNCHANGED <<store, work, dirty, inputRevision, page, answers, pendingWorkbook, load, history>>

Latest(a) == store[a][Len(store[a])]

\* Slip: the revision is not compared.
Current_Any(a, revision) == TRUE

Current(a, revision) == Len(store[a]) = revision

\* The transaction of SaveAnalysis: a new analysis, the next version, or a
\* conflict.
SaveAnalysis ==
    /\ Busy /\ request.kind = "save" /\ request.reply = None
    /\ \/ \E a \in Ids :
            /\ IF request.of.id = None THEN store[a] = << >> ELSE request.of.id = a
            /\ Current(a, request.of.revision)
            /\ Len(store[a]) < MaxVersions
            /\ store' = [store EXCEPT ![a] = Append(@, [document |-> request.of.document,
                                                        base |-> request.of.base])]
            /\ request' = [request EXCEPT !.reply = [id |-> a, revision |-> Len(store[a]) + 1]]
       \/ /\ request.of.id # None
          /\ ~Current(request.of.id, request.of.revision)
          /\ request' = None
          /\ UNCHANGED store
    /\ UNCHANGED <<work, dirty, inputRevision, page, answers, pendingWorkbook, load, history>>

\* Slip: whatever is on the page counts as saved.
StillDirty_No == FALSE

StillDirty == request.at # inputRevision

\* Slip: the page keeps the revision it had.
saveAnswered_KeepsRevision ==
    /\ Busy /\ request.kind = "save" /\ request.reply # None
    /\ work' = [work EXCEPT !.id = request.reply.id,
                            !.base = IF crossed THEN 0 ELSE request.reply.revision]
    /\ dirty' = StillDirty
    /\ request' = None
    /\ UNCHANGED <<store, inputRevision, page, answers, pendingWorkbook, load, history>>

saveAnswered ==
    /\ Busy /\ request.kind = "save" /\ request.reply # None
    /\ work' = [work EXCEPT !.id = request.reply.id, !.revision = request.reply.revision,
                            !.base = IF crossed THEN 0 ELSE request.reply.revision]
    /\ dirty' = StillDirty
    /\ request' = None
    /\ UNCHANGED <<store, inputRevision, page, answers, pendingWorkbook, load, history>>

\* Another tab opened the latest version and saves it under some name.
OtherTabSaves ==
    /\ \E a \in Ids, n \in Names \ {""} :
         /\ Len(store[a]) \in 1 .. MaxVersions - 1
         /\ store' = [store EXCEPT ![a] = Append(@, [document |-> [Latest(a).document EXCEPT !.name = n],
                                                     base |-> Len(@)])]
    /\ UNCHANGED <<work, dirty, inputRevision, page, answers, pendingWorkbook, request, load, history>>

\* The cards of the saved analyses.
Saved == {a \in Ids : store[a] # << >>}

\* A saved analysis is asked for once the loss of unsaved work is agreed to.
open ==
    /\ CanEdit /\ LoadPanel
    /\ \E a \in Saved : Ask("open", a)
    /\ inputRevision' = inputRevision + 1
    /\ agreed' = IF Unsaved THEN inputRevision' ELSE agreed
    /\ UNCHANGED <<store, work, dirty, page, answers, pendingWorkbook, load, crossed>>

Analysis ==
    /\ Busy /\ request.kind = "open" /\ request.reply = None
    /\ request' = [request EXCEPT !.reply = Len(store[request.of])]
    /\ UNCHANGED <<store, work, dirty, inputRevision, page, answers, pendingWorkbook, load, history>>

Restored(a, revision) ==
    LET document == store[a][revision].document
        simple == simpleConditions(document.model, document.columns)
    IN  [id |-> a, revision |-> revision, base |-> revision,
         name |-> document.name, dataset |-> document.dataset,
         columns |-> document.columns, model |-> document.model,
         conditions |-> IF simple = None THEN {} ELSE simple, custom |-> simple = None]

openAnswered ==
    /\ Busy /\ request.kind = "open" /\ request.reply # None
    /\ Replace(Restored(request.of, request.reply), FALSE, 2)
    /\ request' = None /\ crossed' = FALSE
    /\ UNCHANGED <<store, inputRevision, pendingWorkbook, load, agreed>>

\* A request is refused, or lost, or its answer is: the page says so.
requestFailed ==
    /\ Busy
    /\ request' = None
    /\ agreed' = None
    /\ UNCHANGED <<store, work, dirty, inputRevision, page, answers, pendingWorkbook, load, crossed>>

\* A page without anything on it.  The answers to what the old one asked for go
\* nowhere; its save has come to the server by now, or never does.  (The count of
\* the new page starts anew, too; only whether two counts of one page are the
\* same ever matters.)
Anew ==
    /\ CanEdit
    /\ inputRevision' = inputRevision + 1
    /\ work' = Blank /\ dirty' = FALSE
    /\ step' = 0 /\ graphOpen' = FALSE
    /\ report' = None /\ traceRow' = FALSE
    /\ pendingWorkbook' = None /\ request' = None /\ load' = NoLoads
    /\ crossed' = FALSE
    /\ UNCHANGED store

\* The page is closed or loaded anew; the browser asks whoever would lose
\* rules they could save.
leave == Anew /\ Consent(Unsaved /\ CanSave)

\* The session is fetched again when the window gets the focus.  If that fails, or
\* says that the session has ended, has to change its password or has no role
\* with this page, the shell shows something else in its place.
unmount ==
    /\ mounted /\ mounted' = FALSE
    /\ Anew /\ agreed' = None

mount ==
    /\ ~mounted /\ mounted' = TRUE
    /\ UNCHANGED <<store, work, dirty, inputRevision, page, answers, pendingWorkbook,
                   request, load, history>>

-----------------------------------------------------------------------------

Answered == readAnswered \/ loadAnswered \/ testAnswered \/ saveAnswered \/ openAnswered

OnPage ==
    \/ StepButton \/ BackButton \/ OpenGraph \/ CloseGraph
    \/ selectColumn \/ addCondition \/ removeCondition \/ replaceGraph \/ rename \/ editGraph
    \/ reset \/ readFile \/ readSheet \/ loadTable
    \/ testRules \/ save \/ open
    \/ SaveAnalysis \/ Analysis
    \/ Answered \/ requestFailed \/ leave

Next ==
    \/ mounted /\ OnPage /\ UNCHANGED mounted
    \/ OtherTabSaves /\ UNCHANGED mounted
    \/ unmount \/ mount

Spec == Init /\ [][Next]_vars

-----------------------------------------------------------------------------
(* Properties. *)

TypeOK ==
    /\ \A a \in Ids : Len(store[a]) <= MaxVersions
    /\ work.id \in Ids \cup {None} /\ work.revision \in 0 .. MaxVersions
    /\ work.base \in {0, work.revision}
    /\ work.name \in Names /\ work.dataset \in Datasets \cup {None}
    /\ work.columns \in Selections /\ work.model \in Models \cup {NoModel}
    /\ work.conditions \in SUBSET Condition /\ work.custom \in BOOLEAN
    /\ dirty \in BOOLEAN /\ step \in 0 .. 3 /\ graphOpen \in BOOLEAN
    /\ traceRow \in BOOLEAN
    /\ Busy => request.kind \in {"read", "sheet", "test", "save", "open"} /\ request.at <= inputRevision

\* The results on the page, and the row traced in the graph, are those of the
\* data, the columns and the logic that are on the page now, whatever was
\* edited, opened or loaded while the test ran.  (Only the input schema of a
\* graph may be another: continueToRules replaces it and keeps the results.)
ReportIsCurrent ==
    /\ report # None =>
         /\ report.dataset = work.dataset /\ report.columns = work.columns
         /\ report.model.table = work.model.table
    /\ traceRow => report # None

\* Work that the page takes for saved is saved: the version it names holds
\* the name, the data, the columns and the logic that the page shows.
SavedIsShown ==
    ~dirty /\ HasModel =>
        /\ work.id # None
        /\ LET saved == store[work.id][work.revision].document
           IN  /\ saved.name = work.name /\ saved.dataset = work.dataset
               /\ saved.columns = work.columns
               /\ saved.model.table = work.model.table

\* Where conditions can be edited or their results seen, the graph that is
\* tested and saved is the one these conditions and columns make.
BuilderMatchesGraph ==
    step \in {2, 3} /\ HasModel /\ ~work.custom =>
        /\ \A c \in work.conditions : c.column \in DOMAIN work.columns
        /\ sameGraphLogic(work.model, makeModel(work.columns, work.conditions))

\* A version of an analysis continues the version before it, with several
\* tabs saving and replies lost: nobody's version is passed over.  There is
\* one way around it: a table that arrives while a save is on its way becomes
\* the work, and the save's answer then gives it the identity of the saved
\* analysis (crossed), until there is new work.
VersionsContinue ==
    [][\A a \in Ids : Len(store'[a]) > Len(store[a]) =>
          \/ Latest(a)'.base = Len(store[a])
          \/ crossed]_vars

\* Unsaved rules leave a page that stays only if they are saved, or after somebody
\* who saw exactly these rules agreed.  There is one way around it: a table that
\* was asked for when nothing was unsaved replaces what was edited since.  A
\* page that the shell takes away (unmount) takes its rules with it, unasked.
UnsavedRulesAsked ==
    [][mounted' /\ Unsaved /\ CanSave /\ ~Unsaved' =>
          \/ inputRevision \in {agreed, agreed'}
          \/ \E a \in Ids : \E i \in DOMAIN store[a] : store[a][i].document = Document(work)
          \/ \E l \in Loads : /\ load[l] # None /\ load'[l] = None
                             /\ ~load[l].unsaved /\ work'.dataset = load[l].data]_vars

=============================================================================
