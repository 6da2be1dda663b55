------------------------------- MODULE Releases -------------------------------
(***************************************************************************)
(* What administrators and managers release for everybody, each under a    *)
(* revision: the workspace settings, the audit policy, the review workflow *)
(* (SettingsPanel, WorkflowSettings) and the shipped rules (RuleEditor),   *)
(* in several browsers, and the transactions that store them (SaveWorkspace,*)
(* SaveParameters, SaveWorkflow, Release).  What a publication enrols is   *)
(* in Review.                                                              *)
(*                                                                         *)
(* The panels quote the revision that was fetched last, the rule editor    *)
(* the one it was opened with.  While a request is under way the form can  *)
(* be edited and left, the copy can be fetched again, and others save.  A  *)
(* transaction keeps its row from the comparison of the revisions until it *)
(* commits.  Programs send requests, too (docs/user/api.md).               *)
(***************************************************************************)
EXTENDS Naturals, SequencesExt

CONSTANTS
    Browsers,
    None,
    Sections,      \* what an instance is about
    Values,        \* what a form of settings or of the policy can say; what a rule can be
    Passing,       \* those that pass validation and the required fixtures
    Titles, Names, \* what can be typed for a workflow and for a step of one
    Fit,           \* those that are neither blank nor too long
    MaxSteps,      \* the longest workflow
    Programmed,    \* what programs send
    Calls,         \* as many requests can be under way
    MaxSaves,      \* bound on the versions stored, for each section
    MaxOpen,       \* bound on the browsers that have its page open
    MaxSent        \* bound on their requests under way

Panels == {"workspace", "policy", "workflow"}

\* different: someone other than the previous step's author.  The role of a step
\* is chosen from those that can have one.
Steps == [name : Names, different : BOOLEAN]
Workflows == [name : Titles, steps : UNION {[1 .. n -> Steps] : n \in 1 .. MaxSteps}]

Versions == [revision : Nat, content : Values \cup Workflows \cup {None}]

\* What is sent, by whom, and the version it was made from.  here: its form is
\* there still; or only the page is, from which a rule editor was closed.
\* done: it is stored, and the answer is on its way.
Requests == [by : Browsers, kind : {"save", "simulate"}, content : Values \cup Workflows,
             seen : Versions \cup {None}, here : {"form", "page", "gone"}, done : BOOLEAN]

\* What the form for a workflow shows when there is none.
proposed ==
    [name |-> "Review and approval",
     steps |-> << [name |-> "Review finding", different |-> FALSE],
                  [name |-> "Approve and close", different |-> TRUE] >>]

ASSUME ReleasesAssumption ==
    /\ Sections \subseteq Panels \cup {"rule"}
    /\ Passing \subseteq Values /\ None \notin Values \cup Workflows \cup Requests
    /\ proposed.name \in Titles \cap Fit
    /\ \A i \in {1, 2} : proposed.steps[i].name \in Names \cap Fit
    /\ "" \in Names \ Fit
    /\ MaxSteps \in Nat \ {0, 1} /\ MaxSaves \in [Panels \cup {"rule"} -> Nat]
    /\ MaxOpen \in [Panels \cup {"rule"} -> Nat] /\ MaxSent \in [Panels \cup {"rule"} -> Nat]

VARIABLES
    section,   \* what the browsers are about; it does not change
    stored,    \* its current version
    writers,   \* the requests whose transaction holds its row
    copy,      \* each browser's copy, as last fetched
    opened,    \* the copy a rule editor was opened with
    draft,     \* what has been edited and not saved
    simulated, \* the editor shows that the fixtures passed
    request    \* what is under way

vars == <<section, stored, writers, copy, opened, draft, simulated, request>>

forms == <<opened, draft, simulated>>

-----------------------------------------------------------------------------

Version(revision, content) == [revision |-> revision, content |-> content]

ValidWorkflow(w) ==
    /\ w.name \in Fit
    /\ Len(w.steps) \in 2 .. MaxSteps
    /\ \A i \in DOMAIN w.steps : w.steps[i].name \in Fit
    /\ \A i, j \in DOMAIN w.steps : w.steps[i].name = w.steps[j].name => i = j
    /\ ~w.steps[1].different

Contents == IF section = "workflow" THEN Workflows ELSE Values

\* Slip: the fixtures, the settings, the policy or the workflow are not checked.
Acceptable_Unchecked(content) == TRUE

\* What the server checks before it stores: the settings, the policy, the
\* workflow, or the fixtures of the rule.
Acceptable(content) ==
    IF section = "workflow" THEN ValidWorkflow(content) ELSE content \in Passing

\* The revision a section begins with.
Oldest == IF section \in {"policy", "rule"} THEN 1 ELSE 0
Bounded == stored.revision < Oldest + MaxSaves[section]

\* A workspace begins without settings and without a workflow, but with a
\* policy and the shipped rules.
Init ==
    /\ section \in Sections
    /\ \E v \in Passing :
         stored = Version(Oldest, IF Oldest = 0 THEN None ELSE v)
    /\ writers = {}
    /\ copy = [b \in Browsers |-> None]
    /\ opened = [b \in Browsers |-> None]
    /\ draft = [b \in Browsers |-> None]
    /\ simulated = [b \in Browsers |-> FALSE]
    /\ request = [c \in Calls |-> None]

-----------------------------------------------------------------------------
(* The forms. *)

\* When the page is mounted, when the window gets the focus, after a success.
Fetch(b) ==
    /\ copy' = [copy EXCEPT ![b] = stored]
    /\ UNCHANGED <<section, stored, writers, forms, request>>

\* What the form shows: the draft, or what was fetched.
Shown(b) ==
    IF draft[b] # None THEN draft[b]
    ELSE IF section = "workflow" /\ (copy[b] = None \/ copy[b].revision = 0) THEN proposed
    ELSE copy[b].content

SetDraft(b, content) ==
    /\ draft' = [draft EXCEPT ![b] = content]
    /\ UNCHANGED <<section, stored, writers, copy, opened, request>>

\* A field of the settings is changed, or one of the policy.
EditSettings(b, v) ==
    /\ section = "workspace" /\ copy[b] # None
    /\ SetDraft(b, v)
    /\ UNCHANGED simulated

EditPolicy(b, v) ==
    /\ section = "policy" /\ copy[b] # None
    /\ SetDraft(b, v)
    /\ UNCHANGED simulated

FirstByAnybody(steps) == [steps EXCEPT ![1].different = FALSE]

\* Slip: the step that has become the first may still need a different person.
Reordered_AsIs(steps) == steps

Reordered(steps) == FirstByAnybody(steps)

\* A workflow is named; or a step of it is named, changed, moved up, removed or
\* added.  The proposed one can be edited before anything is fetched.
step(b) ==
    /\ section = "workflow"
    /\ LET w == Shown(b)
           steps == w.steps
           SetSteps(s) == SetDraft(b, [w EXCEPT !.steps = s])
       IN  \/ \E title \in Titles : SetDraft(b, [w EXCEPT !.name = title])
           \/ \E i \in DOMAIN steps, n \in Names : SetSteps([steps EXCEPT ![i].name = n])
           \/ \E i \in 2 .. Len(steps) :
                \/ SetSteps([steps EXCEPT ![i].different = ~@])
                \/ SetSteps(Reordered([steps EXCEPT ![i - 1] = steps[i], ![i] = steps[i - 1]]))
           \/ /\ Len(steps) > 2
              /\ \E i \in DOMAIN steps : SetSteps(Reordered(RemoveAt(steps, i)))
           \/ /\ Len(steps) < MaxSteps
              /\ SetSteps(Append(steps, [name |-> "", different |-> FALSE]))
    /\ UNCHANGED simulated

\* The editor of a rule takes the rule as it is in the catalog at that moment.
OpenRule(b) ==
    /\ section = "rule" /\ copy[b] # None /\ opened[b] = None
    /\ opened' = [opened EXCEPT ![b] = copy[b]]
    /\ draft' = [draft EXCEPT ![b] = copy[b].content]
    /\ simulated' = [simulated EXCEPT ![b] = FALSE]
    /\ UNCHANGED <<section, stored, writers, copy, request>>

\* Severity and routing: whatever is chosen passes.
Offers == Passing

editRule(b, v) ==
    /\ opened[b] # None /\ v \in Offers
    /\ SetDraft(b, v)
    /\ simulated' = [simulated EXCEPT ![b] = FALSE]

\* Whether it is enabled is not part of what is simulated.
EnableRule(b, v) ==
    /\ opened[b] # None /\ v \in Offers
    /\ SetDraft(b, v)
    /\ UNCHANGED simulated

Forget(b) ==
    /\ draft' = [draft EXCEPT ![b] = None]
    /\ opened' = [opened EXCEPT ![b] = None]
    /\ simulated' = [simulated EXCEPT ![b] = FALSE]

\* The requests of a form that is left go on.
Left(b, places, place) ==
    [c \in Calls |-> IF request[c] # None /\ request[c].by = b /\ request[c].here \in places
                     THEN [request[c] EXCEPT !.here = place] ELSE request[c]]

CloseRule(b) ==
    /\ opened[b] # None
    /\ Forget(b)
    /\ request' = Left(b, {"form"}, "page")
    /\ UNCHANGED <<section, stored, writers, copy>>

\* What was fetched is kept for a while.
LeavePage(b) ==
    /\ Forget(b)
    /\ request' = Left(b, {"form", "page"}, "gone")
    /\ copy' \in {copy, [copy EXCEPT ![b] = None]}
    /\ UNCHANGED <<section, stored, writers>>

-----------------------------------------------------------------------------
(* Requests. *)

\* A form has one request at most; a form that was left and is back knows
\* nothing of the one it had.
Busy(b) == \E c \in Calls : request[c] # None /\ request[c].by = b /\ request[c].here = "form"

Send(b, kind, content, seen) ==
    /\ ~Busy(b)
    /\ Bounded /\ Cardinality({c \in Calls : request[c] # None}) < MaxSent[section]
    /\ \E c \in Calls :
         /\ request[c] = None
         /\ request' = [request EXCEPT ![c] =
              [by |-> b, kind |-> kind, content |-> content, seen |-> seen,
               here |-> "form", done |-> FALSE]]
    /\ UNCHANGED <<section, stored, writers, copy, forms>>

\* A draft, under the revision fetched last.
saveWorkspace(b) ==
    /\ section = "workspace" /\ copy[b] # None /\ draft[b] # None
    /\ Send(b, "save", draft[b], copy[b])

savePolicy(b) ==
    /\ section = "policy" /\ copy[b] # None /\ draft[b] # None
    /\ Send(b, "save", draft[b], copy[b])

\* The workflow that is shown, edited or not; the form asks for a text in every
\* name, and for no more.
publish(b) ==
    /\ section = "workflow" /\ copy[b] # None
    /\ Shown(b).name # "" /\ \A i \in DOMAIN Shown(b).steps : Shown(b).steps[i].name # ""
    /\ Send(b, "save", Shown(b), copy[b])

simulate(b) == opened[b] # None /\ Send(b, "simulate", draft[b], None)

Simulating(c) == request[c] # None /\ request[c].kind = "simulate"

\* Slip: the answer is shown by whatever editor there is.
Simulated_Anywhere(c) ==
    /\ Simulating(c)
    /\ request' = [request EXCEPT ![c] = None]
    /\ simulated' = [simulated EXCEPT ![request[c].by] = Acceptable(request[c].content)]
    /\ UNCHANGED <<section, stored, writers, copy, opened, draft>>

\* The answer is about the draft that was sent.  The form may show another one by
\* now, and offers its release.
Simulated(c) ==
    /\ Simulating(c)
    /\ request' = [request EXCEPT ![c] = None]
    /\ simulated' = IF request[c].here = "form"
                    THEN [simulated EXCEPT ![request[c].by] = Acceptable(request[c].content)]
                    ELSE simulated
    /\ UNCHANGED <<section, stored, writers, copy, opened, draft>>

\* "Release version" is enabled by a simulation that passed.
CanRelease(b) == opened[b] # None /\ simulated[b]

\* Slip: the revision that was fetched last, as in the panels.
release_Latest(b) ==
    /\ CanRelease(b) /\ copy[b] # None
    /\ Send(b, "save", draft[b], copy[b])

release(b) ==
    /\ CanRelease(b)
    /\ Send(b, "save", draft[b], opened[b])

-----------------------------------------------------------------------------
(* The server. *)

\* Slip: the row is read without FOR UPDATE.
Free_NoLock == TRUE

\* Nobody else's transaction has the row.
Free == writers = {}

\* A program sends what it likes, under the revision it has read.  It waits for
\* nobody, so its transaction is one step.
program ==
    /\ \E content \in Programmed \cap Contents :
         /\ Acceptable(content)
         /\ stored' = Version(stored.revision + 1, content)
    /\ Free /\ Bounded
    /\ UNCHANGED <<section, writers, copy, forms, request>>

\* What is sent passes; the transaction has the row, and its revision is the
\* quoted one.
Write(c) ==
    /\ request[c] # None /\ request[c].kind = "save" /\ ~request[c].done /\ c \notin writers
    /\ Acceptable(request[c].content)
    /\ Free /\ stored.revision = request[c].seen.revision
    /\ Bounded
    /\ writers' = writers \cup {c}
    /\ UNCHANGED <<section, stored, copy, forms, request>>

\* The statement that stores the settings compares, and waits for a row that
\* another one is writing, or inserting as the first.
SaveWorkspace(c) == section = "workspace" /\ Write(c)

\* These select the row, or that of the tenant, for update, and then compare.
SaveParameters(c) == section = "policy" /\ Write(c)
SaveWorkflow(c) == section = "workflow" /\ Write(c)
Release(c) == section = "rule" /\ Write(c)

Commit(c) ==
    /\ c \in writers
    /\ writers' = writers \ {c}
    /\ stored' = Version(stored.revision + 1, request[c].content)
    /\ request' = [request EXCEPT ![c].done = TRUE]
    /\ UNCHANGED <<section, copy, forms>>

\* The form that sent it forgets its draft, whatever is in it by now.  The editor
\* of a rule has the page close the editor that is open, be it another one.
Answered(c) ==
    /\ request[c] # None /\ request[c].done
    /\ LET b == request[c].by IN
         IF request[c].here = "gone"
         THEN /\ request' = [request EXCEPT ![c] = None]
              /\ UNCHANGED forms
         ELSE /\ request' = [Left(b, {"form"}, "page") EXCEPT ![c] = None]
              /\ Forget(b)
    /\ UNCHANGED <<section, stored, writers, copy>>

\* It is refused or fails, or its answer is lost, with or without the server
\* going on.  The form keeps its draft, unless it was to be simulated.
Fail(c) ==
    /\ request[c] # None
    /\ \/ writers' = writers \ {c} /\ request' = [request EXCEPT ![c] = None]
       \/ UNCHANGED writers /\ request' = [request EXCEPT ![c].here = "gone"]
    /\ simulated' = IF Simulating(c) /\ request[c].here = "form"
                    THEN [simulated EXCEPT ![request[c].by] = FALSE] ELSE simulated
    /\ UNCHANGED <<section, stored, copy, opened, draft>>

-----------------------------------------------------------------------------

\* b has its page open, or something under way.
Open(b) ==
    \/ copy[b] # None \/ draft[b] # None
    \/ \E c \in Calls : request[c] # None /\ request[c].by = b

InBrowser(b) ==
    \/ Fetch(b) \/ step(b) \/ OpenRule(b) \/ CloseRule(b) \/ LeavePage(b)
    \/ \E v \in Values : EditSettings(b, v) \/ EditPolicy(b, v) \/ editRule(b, v) \/ EnableRule(b, v)
    \/ saveWorkspace(b) \/ savePolicy(b) \/ publish(b) \/ simulate(b) \/ release(b)

Served(c) ==
    \/ SaveWorkspace(c) \/ SaveParameters(c) \/ SaveWorkflow(c) \/ Release(c)
    \/ Commit(c) \/ Simulated(c) \/ Answered(c) \/ Fail(c)

Next ==
    \/ program
    \/ \E b \in Browsers :
         /\ Cardinality({a \in Browsers : Open(a)} \cup {b}) <= MaxOpen[section]
         /\ InBrowser(b)
    \/ \E c \in Calls : Served(c)

Spec == Init /\ [][Next]_vars

-----------------------------------------------------------------------------
(* Properties. *)

\* Everything has its type; an editor has a draft, and only an editor has
\* something simulated.
TypeOK ==
    /\ stored.revision \in Oldest .. Oldest + MaxSaves[section] + 1
    /\ stored \in Versions /\ stored.content \in Contents \cup {None}
    /\ writers \subseteq Calls
    /\ \A b \in Browsers :
         /\ draft[b] \in Contents \cup {None}
         /\ opened[b] # None => draft[b] # None
         /\ simulated[b] => opened[b] # None
    /\ \A c \in Calls : request[c] # None => request[c] \in Requests /\ request[c].content \in Contents

\* Whatever is stored passes, whatever the forms and programs send.  So the editor
\* of a rule, which begins with what is stored and offers only what passes, never
\* releases what the fixtures refuse, although the simulation that enabled the
\* release may have been that of an earlier draft.
StoredIsAcceptable ==
    /\ stored.content # None =>
         IF section = "workflow"
         THEN ValidWorkflow(stored.content)
         ELSE stored.content \in Passing
    /\ section = "rule" => \A b \in Browsers : draft[b] # None => draft[b] \in Passing

\* However the steps of a workflow are moved, removed and added, and whatever is
\* fetched meanwhile, the server can refuse it for its names, but never for the
\* number of its steps or for a first step that needs a different person.
RefusedForNamesOnly ==
    section = "workflow" =>
      \A b \in Browsers :
        draft[b] # None => Len(draft[b].steps) \in 2 .. MaxSteps /\ ~draft[b].steps[1].different

\* Versions follow each other one at a time: what a save replaces is the version
\* its sender had fetched, also when several save from the same revision, or all
\* create the first one.
OneAfterTheOther ==
    [][stored' # stored =>
         /\ stored'.revision = stored.revision + 1
         /\ \A c \in writers \ writers' : stored = request[c].seen]_vars

\* The editor of a rule lists changes against the version it was opened with.  A
\* release that it sent is made to that very version, and to no later one.  (What
\* is edited while the release is under way is listed, and is not part of it.)
ChangesShownAreMade ==
    [][\A c \in writers \ writers' :
         LET b == request[c].by IN
         stored' # stored /\ opened[b] # None /\ request[c].here = "form" => stored = opened[b]]_vars

=============================================================================
