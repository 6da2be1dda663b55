---------------------------- MODULE ReleasesProofs ----------------------------
(***************************************************************************)
(* Proofs about Releases, for any number of browsers, requests, values,    *)
(* steps and versions.                                                     *)
(*                                                                         *)
(* What a browser has fetched is an earlier version of what is stored, and *)
(* the version itself if it has its revision (EarlierOf).  A transaction   *)
(* compares the revisions while it has the row, alone (WriterOK), so it    *)
(* replaces what was fetched.                                              *)
(***************************************************************************)
EXTENDS Releases, SequenceTheorems, TLAPS

\* A version that was fetched, when "now" is stored.
EarlierOf(now, version) ==
    /\ version \in Versions /\ version.revision <= now.revision
    /\ version.revision = now.revision => version = now

\* What the server accepts.
Good(content) == content \in Contents /\ Acceptable(content)
Stores(version) == version.revision > 0 => Good(version.content)

\* What forms may hold and send: anything in the panels, but the steps of a
\* workflow are as many as they must be, and the first one is anybody's.
Shaped(steps) == steps \in Seq(Steps) /\ Len(steps) \in 2 .. MaxSteps /\ ~steps[1].different

Editable(content) ==
    /\ content \in Contents
    /\ section = "workflow" => Shaped(content.steps)
    /\ section = "rule" => content \in Passing

StoredOK ==
    /\ section \in Panels \cup {"rule"}
    /\ stored \in Versions /\ stored.revision >= Oldest
    /\ stored.content \in Contents \cup {None}
    /\ Stores(stored)
    /\ stored.content # None => Good(stored.content)
    /\ stored.revision <= Oldest + MaxSaves[section]

CopyOK(b) ==
    copy[b] # None =>
        EarlierOf(stored, copy[b]) /\ copy[b].revision >= Oldest /\ Stores(copy[b])

EditorOK(b) ==
    /\ opened[b] # None => section = "rule" /\ draft[b] # None /\ EarlierOf(stored, opened[b])
    /\ draft[b] # None => Editable(draft[b])
    /\ simulated[b] => opened[b] # None

\* A request, and the version it was made for.
RequestOK(c) ==
    request[c] # None =>
        /\ request[c] \in Requests /\ Editable(request[c].content)
        /\ request[c].kind = "simulate" =>
             /\ ~request[c].done
             /\ request[c].here = "form" => opened[request[c].by] # None
        /\ request[c].kind = "save" =>
             /\ EarlierOf(stored, request[c].seen)
             /\ section = "rule" /\ request[c].here = "form" =>
                  opened[request[c].by] # None /\ request[c].seen = opened[request[c].by]

\* The transaction that has the row.
WriterOK(c) ==
    c \in writers =>
        /\ request[c] # None /\ request[c].kind = "save" /\ ~request[c].done
        /\ Good(request[c].content) /\ request[c].seen = stored
        /\ stored.revision < Oldest + MaxSaves[section]
        /\ writers = {c}

Shape ==
    /\ DOMAIN copy = Browsers /\ DOMAIN opened = Browsers /\ DOMAIN draft = Browsers
    /\ DOMAIN simulated = Browsers /\ DOMAIN request = Calls

IInv ==
    /\ StoredOK /\ Shape
    /\ writers \subseteq Calls
    /\ \A b \in Browsers : CopyOK(b) /\ EditorOK(b)
    /\ \A c \in Calls : RequestOK(c) /\ WriterOK(c)

-----------------------------------------------------------------------------
(***************************************************************************)
(* Workflows.                                                              *)
(***************************************************************************)

LEMMA StepsBound == MaxSteps \in Nat /\ MaxSteps >= 2
<1>1. MaxSteps \in Nat \ {0, 1}
  BY Zenon, ReleasesAssumption
<1> QED BY <1>1

LEMMA WorkflowShape ==
    ASSUME NEW w \in Workflows
    PROVE  /\ w.name \in Titles /\ w.steps \in Seq(Steps) /\ Len(w.steps) \in 1 .. MaxSteps
           /\ w = [name |-> w.name, steps |-> w.steps]
<1>1. w.name \in Titles /\ w = [name |-> w.name, steps |-> w.steps]
  BY DEF Workflows
<1>2. PICK n \in 1 .. MaxSteps : w.steps \in [1 .. n -> Steps]
  BY DEF Workflows
<1>3. n \in Nat /\ MaxSteps \in Nat
  BY <1>2, StepsBound
<1>4. w.steps \in Seq(Steps) /\ Len(w.steps) = n
  <2> HIDE DEF Steps
  <2> QED BY <1>2, <1>3
<1> QED BY <1>1, <1>4

LEMMA ShapeWorkflow ==
    ASSUME NEW title \in Titles, NEW steps \in Seq(Steps), Len(steps) \in 1 .. MaxSteps
    PROVE  [name |-> title, steps |-> steps] \in Workflows
<1>1. steps \in [1 .. Len(steps) -> Steps]
  OBVIOUS
<1> QED BY <1>1 DEF Workflows

LEMMA EditableWorkflow ==
    ASSUME section = "workflow", NEW title \in Titles, NEW steps, Shaped(steps)
    PROVE  Editable([name |-> title, steps |-> steps])
<1>1. steps \in Seq(Steps) /\ Len(steps) \in 1 .. MaxSteps
  BY StepsBound DEF Shaped
<1> QED BY <1>1, ShapeWorkflow DEF Editable, Contents

LEMMA GoodEditable == ASSUME NEW content, Good(content) PROVE Editable(content)
<1>1. CASE section = "workflow"
  <2>1. content \in Workflows /\ ValidWorkflow(content)
    BY <1>1 DEF Good, Contents, Acceptable
  <2>2. Shaped(content.steps)
    BY <2>1, WorkflowShape DEF ValidWorkflow, Shaped
  <2> QED BY <1>1, <2>1, <2>2 DEF Editable, Contents
<1>2. CASE section # "workflow"
  BY <1>2 DEF Good, Acceptable, Editable
<1> QED BY <1>1, <1>2

\* However steps are named, changed, moved, removed or added: there are enough of
\* them and not too many, and the first one is anybody's.
LEMMA EditedSteps ==
    ASSUME NEW steps, Shaped(steps)
    PROVE  /\ \A i \in DOMAIN steps, n \in Names : Shaped([steps EXCEPT ![i].name = n])
           /\ \A i \in 2 .. Len(steps) : Shaped([steps EXCEPT ![i].different = ~@])
           /\ \A i \in 2 .. Len(steps) :
                Shaped(Reordered([steps EXCEPT ![i - 1] = steps[i], ![i] = steps[i - 1]]))
           /\ Len(steps) > 2 => \A i \in DOMAIN steps : Shaped(Reordered(RemoveAt(steps, i)))
           /\ Len(steps) < MaxSteps =>
                Shaped(Append(steps, [name |-> "", different |-> FALSE]))
<1>1. /\ steps \in Seq(Steps) /\ Len(steps) \in 2 .. MaxSteps /\ ~steps[1].different
      /\ MaxSteps \in Nat /\ Len(steps) \in Nat /\ Len(steps) >= 2
      /\ DOMAIN steps = 1 .. Len(steps) /\ \A i \in 1 .. Len(steps) : steps[i] \in Steps
  BY StepsBound DEF Shaped
<1>0. ASSUME NEW s \in Steps
      PROVE  /\ \A n \in Names : [s EXCEPT !.name = n] \in Steps /\ [s EXCEPT !.name = n].different = s.different
             /\ [s EXCEPT !.different = ~@] \in Steps
             /\ [s EXCEPT !.different = FALSE] \in Steps /\ [s EXCEPT !.different = FALSE].different = FALSE
  BY DEF Steps
\* One step is replaced.
<1>2. ASSUME NEW i \in DOMAIN steps, NEW s \in Steps, i = 1 => ~s.different
      PROVE  Shaped([steps EXCEPT ![i] = s])
  <2> DEFINE new == [steps EXCEPT ![i] = s]
  <2> HIDE DEF Steps
  <2>1. new \in Seq(Steps) /\ Len(new) = Len(steps)
    BY <1>1
  <2>2. new[1] = IF i = 1 THEN s ELSE steps[1]
    BY <1>1
  <2> QED BY <1>1, <1>2, <2>1, <2>2 DEF Shaped
<1>3. ASSUME NEW new \in Seq(Steps), Len(new) \in 2 .. MaxSteps PROVE Shaped(Reordered(new))
  <2>1. new[1] \in Steps /\ 1 \in DOMAIN new /\ DOMAIN new = 1 .. Len(new)
    <3> HIDE DEF Steps
    <3> QED BY <1>1, <1>3
  <2> DEFINE s == [new[1] EXCEPT !.different = FALSE]
  <2>2. s \in Steps /\ ~s.different
    BY <1>0, <2>1
  <2>3. Reordered(new) = [new EXCEPT ![1] = s]
    BY DEF Reordered, FirstByAnybody
  <2> HIDE DEF s, Steps
  <2>4. [new EXCEPT ![1] = s] \in Seq(Steps) /\ Len([new EXCEPT ![1] = s]) = Len(new) /\ [new EXCEPT ![1] = s][1] = s
    BY <1>1, <1>3, <2>1, <2>2
  <2> QED BY <1>3, <2>2, <2>3, <2>4 DEF Shaped
<1>4. ASSUME NEW i \in DOMAIN steps, NEW n \in Names PROVE Shaped([steps EXCEPT ![i].name = n])
  <2> DEFINE s == [steps[i] EXCEPT !.name = n]
  <2>1. s \in Steps /\ s.different = steps[i].different
    BY <1>0, <1>1
  <2>2. [steps EXCEPT ![i].name = n] = [steps EXCEPT ![i] = s]
    OBVIOUS
  <2> HIDE DEF s
  <2> QED BY <1>1, <1>2, <2>1, <2>2
<1>5. ASSUME NEW i \in 2 .. Len(steps) PROVE Shaped([steps EXCEPT ![i].different = ~@])
  <2> DEFINE s == [steps[i] EXCEPT !.different = ~@]
  <2>1. i \in DOMAIN steps /\ i # 1
    BY <1>1
  <2>2. s \in Steps
    BY <1>0, <1>1, <2>1
  <2>3. [steps EXCEPT ![i].different = ~@] = [steps EXCEPT ![i] = s]
    OBVIOUS
  <2> HIDE DEF s
  <2> QED BY <1>2, <2>1, <2>2, <2>3
<1>6. ASSUME NEW i \in 2 .. Len(steps)
      PROVE  Shaped(Reordered([steps EXCEPT ![i - 1] = steps[i], ![i] = steps[i - 1]]))
  <2> DEFINE new == [steps EXCEPT ![i - 1] = steps[i], ![i] = steps[i - 1]]
  <2> HIDE DEF Steps
  <2>1. steps[i] \in Steps /\ steps[i - 1] \in Steps /\ i \in DOMAIN steps /\ i - 1 \in DOMAIN steps
    BY <1>1
  <2>2. new \in Seq(Steps) /\ Len(new) = Len(steps)
    BY <1>1, <2>1
  <2>3. Len(new) \in 2 .. MaxSteps
    BY <1>1, <2>2
  <2> HIDE DEF new
  <2>4. Shaped(Reordered(new))
    BY <1>3, <2>2, <2>3
  <2> QED BY <2>4 DEF new
<1>7. ASSUME Len(steps) > 2, NEW i \in DOMAIN steps PROVE Shaped(Reordered(RemoveAt(steps, i)))
  <2> HIDE DEF Steps
  <2>1. i \in 1 .. Len(steps)
    BY <1>1
  <2>2. /\ SubSeq(steps, 1, i - 1) \in Seq(Steps) /\ Len(SubSeq(steps, 1, i - 1)) = i - 1
        /\ SubSeq(steps, i + 1, Len(steps)) \in Seq(Steps)
        /\ Len(SubSeq(steps, i + 1, Len(steps))) = Len(steps) - i
    BY <1>1, <2>1
  <2>3. RemoveAt(steps, i) \in Seq(Steps) /\ Len(RemoveAt(steps, i)) = Len(steps) - 1
    <3> DEFINE before == SubSeq(steps, 1, i - 1)
               after == SubSeq(steps, i + 1, Len(steps))
    <3>1. RemoveAt(steps, i) = before \o after
      BY DEF RemoveAt
    <3>2. (i - 1) + (Len(steps) - i) = Len(steps) - 1
      BY <1>1, <2>1
    <3> HIDE DEF before, after
    <3>3. before \o after \in Seq(Steps) /\ Len(before \o after) = Len(before) + Len(after)
      BY <2>2, ConcatProperties DEF before, after
    <3> QED BY <2>2, <3>1, <3>2, <3>3 DEF before, after
  <2>4. Len(RemoveAt(steps, i)) \in 2 .. MaxSteps
    BY <1>1, <1>7, <2>3
  <2> QED BY <1>3, <2>3, <2>4
<1>8. ASSUME Len(steps) < MaxSteps PROVE Shaped(Append(steps, [name |-> "", different |-> FALSE]))
  <2> DEFINE s == [name |-> "", different |-> FALSE]
             new == Append(steps, s)
  <2>0. s \in Steps
    BY ReleasesAssumption DEF Steps
  <2> HIDE DEF s, Steps
  <2>1. new \in Seq(Steps) /\ Len(new) = Len(steps) + 1
    BY <1>1, <2>0
  <2>2. new[1] = steps[1]
    <3>1. 1 \in 1 .. Len(steps)
      BY <1>1
    <3>2. \A k \in 1 .. Len(steps) : Append(steps, s)[k] = steps[k]
      BY <1>1, <2>0, AppendProperties
    <3> QED BY <3>1, <3>2
  <2>3. Len(new) \in 2 .. MaxSteps
    BY <1>1, <1>8, <2>1
  <2>4. Shaped(new)
    BY <1>1, <2>1, <2>2, <2>3 DEF Shaped
  <2> QED BY <2>4 DEF s
<1> QED BY <1>4, <1>5, <1>6, <1>7, <1>8

\* What one starts from when there is no workflow yet.
LEMMA ProposedEditable == ASSUME section = "workflow" PROVE Editable(proposed)
<1>1. /\ proposed.name \in Titles /\ proposed.steps \in Seq(Steps)
      /\ Len(proposed.steps) = 2 /\ ~proposed.steps[1].different
      /\ proposed = [name |-> proposed.name, steps |-> proposed.steps]
  <2>1. proposed.steps[1] \in Steps /\ proposed.steps[2] \in Steps
    BY ReleasesAssumption DEF proposed, Steps
  <2>2. proposed.name \in Titles
    BY ReleasesAssumption
  <2>3. proposed.steps = <<proposed.steps[1], proposed.steps[2]>> /\ ~proposed.steps[1].different
    BY DEF proposed
  <2>4. proposed = [name |-> proposed.name, steps |-> proposed.steps]
    BY DEF proposed
  <2>5. ASSUME NEW S, NEW x \in S, NEW y \in S PROVE <<x, y>> \in Seq(S) /\ Len(<<x, y>>) = 2
    OBVIOUS
  <2>6. proposed.steps \in Seq(Steps) /\ Len(proposed.steps) = 2
    BY <2>1, <2>3, <2>5, Zenon
  <2> QED BY <2>2, <2>3, <2>4, <2>6
<1>2. Shaped(proposed.steps)
  BY <1>1, StepsBound DEF Shaped
<1> QED BY <1>1, <1>2, EditableWorkflow

-----------------------------------------------------------------------------
(***************************************************************************)
(* The invariant is inductive.                                             *)
(***************************************************************************)

\* What is not a workflow is accepted if it passes.
LEMMA PassingGood ==
    ASSUME section # "workflow", NEW v
    PROVE  Good(v) <=> v \in Passing
<1>1. Passing \subseteq Values
  BY Zenon, ReleasesAssumption
<1> QED BY <1>1 DEF Good, Contents, Acceptable

LEMMA SectionFacts ==
    ASSUME section \in Panels \cup {"rule"}
    PROVE  MaxSaves[section] \in Nat /\ Oldest \in {0, 1} /\ Oldest \in Nat
<1>1. MaxSaves \in [Panels \cup {"rule"} -> Nat]
  BY Zenon, ReleasesAssumption
<1>2. Oldest \in {0, 1}
  BY DEF Oldest
<1> QED BY <1>1, <1>2

LEMMA NotNone ==
    /\ \A r \in Requests : r # None
    /\ \A v \in Values \cup Workflows : v # None
BY Zenon, ReleasesAssumption

LEMMA InitIInv == Init => IInv
<1> SUFFICES ASSUME Init PROVE IInv
  OBVIOUS
<1>1. PICK v \in Passing : stored = Version(Oldest, IF Oldest = 0 THEN None ELSE v)
  BY DEF Init
<1>2. /\ section \in Panels \cup {"rule"}
      /\ Oldest = 1 => section \in {"policy", "rule"}
  <2>1. Sections \subseteq Panels \cup {"rule"}
    BY Zenon, ReleasesAssumption
  <2> QED BY <2>1 DEF Init, Oldest
<1>3. MaxSaves[section] \in Nat /\ Oldest \in {0, 1} /\ Oldest \in Nat
  BY <1>2, SectionFacts
<1>4. stored.revision = Oldest /\ stored.content = IF Oldest = 0 THEN None ELSE v
  BY <1>1 DEF Version
<1>5. Oldest = 1 => Good(v)
  BY <1>1, <1>2, PassingGood
<1>6. StoredOK
  <2>1. stored.revision <= Oldest + MaxSaves[section] /\ stored.revision >= Oldest
    BY <1>3, <1>4
  <2>2. v \in Values
    BY Zenon, <1>1, ReleasesAssumption
  <2>3. stored \in Versions
    BY <1>1, <1>3, <1>4, <2>2 DEF Version, Versions
  <2>4. Stores(stored) /\ (stored.content # None => Good(stored.content))
    BY <1>3, <1>4, <1>5 DEF Stores
  <2> QED BY <1>2, <2>1, <2>3, <2>4 DEF StoredOK, Good
<1>7. Shape /\ writers \subseteq Calls
  BY DEF Init, Shape
<1>8. \A b \in Browsers : CopyOK(b) /\ EditorOK(b)
  BY DEF Init, CopyOK, EditorOK
<1>9. \A c \in Calls : RequestOK(c) /\ WriterOK(c)
  BY DEF Init, RequestOK, WriterOK
<1> QED BY <1>6, <1>7, <1>8, <1>9 DEF IInv

\* What is good stays good: a browser is about one section.
LEMMA SectionKept ==
    ASSUME UNCHANGED section
    PROVE  /\ Contents' = Contents /\ Oldest' = Oldest
           /\ \A content : Good(content)' <=> Good(content)
           /\ \A content : Editable(content)' <=> Editable(content)
           /\ \A version : Stores(version)' <=> Stores(version)
BY DEF Contents, Oldest, Good, Acceptable, Stores, Editable

\* What browser b has is the same.
Same(b) ==
    /\ copy'[b] = copy[b] /\ opened'[b] = opened[b]
    /\ draft'[b] = draft[b] /\ simulated'[b] = simulated[b]

LEMMA SameOK ==
    ASSUME IInv, NEW b \in Browsers, Same(b), UNCHANGED <<section, stored>>
    PROVE  CopyOK(b)' /\ EditorOK(b)'
<1>1. CopyOK(b) /\ EditorOK(b)
  BY DEF IInv
<1>2. CopyOK(b)'
  BY <1>1, SectionKept DEF Same, CopyOK
<1>3. EditorOK(b)'
  BY <1>1, SectionKept DEF Same, EditorOK
<1> QED BY <1>2, <1>3

\* Request c goes on, though its form may have been left.
Onward(c) ==
    \/ request'[c] = None
    \/ /\ request[c] # None /\ request'[c] # None /\ request'[c] \in Requests
       /\ request'[c].by = request[c].by /\ request'[c].kind = request[c].kind
       /\ request'[c].content = request[c].content /\ request'[c].seen = request[c].seen
       /\ request'[c].done = request[c].done
       /\ request'[c].here = "form" =>
            request[c].here = "form" /\ opened'[request[c].by] = opened[request[c].by]

\* And those that store something go on until they have.
Serving == writers' \subseteq writers /\ \A c \in writers' : request'[c] # None

LEMMA OnwardOK ==
    ASSUME IInv, NEW c \in Calls, Onward(c), Serving, UNCHANGED <<section, stored>>
    PROVE  RequestOK(c)' /\ WriterOK(c)'
<1>1. RequestOK(c) /\ WriterOK(c)
  BY DEF IInv
<1>2. CASE request'[c] = None
  BY <1>2 DEF RequestOK, WriterOK, Serving
<1>3. CASE request'[c] # None
  <2>1. RequestOK(c)'
    BY <1>1, <1>3, SectionKept DEF Onward, RequestOK
  <2>2. WriterOK(c)'
    BY <1>1, <1>3, SectionKept DEF Onward, WriterOK, Serving
  <2> QED BY <2>1, <2>2
<1> QED BY <1>2, <1>3

LEMMA SameRequest ==
    ASSUME IInv, NEW c \in Calls, request'[c] = request[c],
           request[c] # None /\ request[c].here = "form" =>
             opened'[request[c].by] = opened[request[c].by]
    PROVE  Onward(c)
<1>1. request[c] # None => request[c] \in Requests
  BY DEF IInv, RequestOK
<1> QED BY <1>1 DEF Onward

\* A step in a browser, or the end of a request.
LEMMA Local ==
    ASSUME IInv, UNCHANGED <<section, stored>>, Shape', Serving,
           \A b \in Browsers : CopyOK(b)' /\ EditorOK(b)',
           \A c \in Calls : Onward(c)
    PROVE  IInv'
<1>1. StoredOK'
  BY SectionKept DEF IInv, StoredOK
<1>2. \A c \in Calls : RequestOK(c)' /\ WriterOK(c)'
  BY OnwardOK
<1>3. (writers \subseteq Calls)'
  BY DEF IInv, Serving
<1> QED BY <1>1, <1>2, <1>3 DEF IInv

\* A step that leaves the requests alone.
LEMMA InForm ==
    ASSUME IInv, NEW b \in Browsers, UNCHANGED <<section, stored, writers, request>>, Shape',
           \A a \in Browsers \ {b} : Same(a),
           CopyOK(b)', EditorOK(b)',
           opened'[b] # opened[b] =>
             ~\E c \in Calls : request[c] # None /\ request[c].by = b /\ request[c].here = "form"
    PROVE  IInv'
<1>1. \A a \in Browsers : CopyOK(a)' /\ EditorOK(a)'
  BY SameOK
<1>2. Serving
  BY DEF Serving, IInv, WriterOK
<1>3. \A c \in Calls : Onward(c)
  <2> TAKE c \in Calls
  <2>1. request[c] # None => request[c].by \in Browsers
    BY DEF IInv, RequestOK, Requests
  <2>2. request[c] # None /\ request[c].here = "form" =>
          opened'[request[c].by] = opened[request[c].by]
    BY <2>1 DEF Same
  <2> QED BY <2>2, SameRequest
<1> QED BY <1>1, <1>2, <1>3, Local

LEMMA StepFetch ==
    ASSUME IInv, NEW b \in Browsers, Fetch(b) PROVE IInv'
<1>1. /\ copy' = [copy EXCEPT ![b] = stored]
      /\ UNCHANGED <<section, stored, writers, opened, draft, simulated, request>>
      /\ DOMAIN copy = Browsers
  BY DEF Fetch, forms, IInv, Shape
<1>2. copy'[b] = stored /\ Shape' /\ \A a \in Browsers \ {b} : Same(a)
  BY <1>1 DEF IInv, Shape, Same
<1>3. CopyOK(b)'
  <2>1. EarlierOf(stored, stored) /\ stored.revision >= Oldest /\ Stores(stored)
    BY DEF IInv, StoredOK, EarlierOf, Versions
  <2> QED BY <1>1, <1>2, <2>1, SectionKept DEF CopyOK
<1>4. EditorOK(b)'
  <2>1. EditorOK(b)
    BY DEF IInv
  <2> QED BY <1>1, <2>1, SectionKept DEF EditorOK
<1> QED BY <1>1, <1>2, <1>3, <1>4, InForm

\* A draft in a form, or in the editor that is open.
LEMMA StepDraft ==
    ASSUME IInv, NEW b \in Browsers, NEW content, SetDraft(b, content), Editable(content),
           opened[b] # None => content # None,
           simulated' \in {simulated, [simulated EXCEPT ![b] = FALSE]}
    PROVE  IInv'
<1>1. /\ draft' = [draft EXCEPT ![b] = content]
      /\ UNCHANGED <<section, stored, writers, copy, opened, request>>
      /\ DOMAIN draft = Browsers /\ DOMAIN simulated = Browsers
  BY DEF SetDraft, IInv, Shape
<1>2. /\ draft'[b] = content /\ simulated'[b] \in {simulated[b], FALSE}
      /\ Shape' /\ \A a \in Browsers \ {b} : Same(a)
  BY <1>1 DEF IInv, Shape, Same
<1>3. CopyOK(b) /\ EditorOK(b)
  BY DEF IInv
<1>4. CopyOK(b)'
  BY <1>1, <1>3, SectionKept DEF CopyOK
<1>5. EditorOK(b)'
  BY <1>1, <1>2, <1>3, SectionKept DEF EditorOK
<1> QED BY <1>1, <1>2, <1>4, <1>5, InForm

LEMMA StepEditValue ==
    ASSUME IInv, NEW b \in Browsers, NEW v \in Values,
           EditSettings(b, v) \/ EditPolicy(b, v) \/ editRule(b, v) \/ EnableRule(b, v)
    PROVE  IInv'
<1>1. v # None
  BY NotNone
<1>2. /\ section # "workflow"
      /\ section = "rule" => v \in Passing
  BY DEF EditSettings, EditPolicy, editRule, EnableRule, Offers, IInv, EditorOK
<1>3. Editable(v)
  BY <1>2 DEF Editable, Contents
<1>4. SetDraft(b, v) /\ simulated' \in {simulated, [simulated EXCEPT ![b] = FALSE]}
  BY DEF EditSettings, EditPolicy, editRule, EnableRule
<1> QED BY <1>1, <1>3, <1>4, StepDraft

\* The workflow on the page, be it edited, fetched or proposed.
LEMMA ShownEditable ==
    ASSUME IInv, NEW b \in Browsers, section = "workflow"
    PROVE  Editable(Shown(b))
<1>1. CASE draft[b] # None
  BY <1>1 DEF IInv, EditorOK, Shown
<1>2. CASE draft[b] = None /\ (copy[b] = None \/ copy[b].revision = 0)
  BY <1>2, ProposedEditable DEF Shown
<1>3. CASE draft[b] = None /\ copy[b] # None /\ copy[b].revision # 0
  <2>1. CopyOK(b)
    BY DEF IInv
  <2>2. copy[b].revision > 0
    BY <1>3, <2>1 DEF CopyOK, EarlierOf, Versions
  <2>3. Good(copy[b].content)
    BY <1>3, <2>1, <2>2 DEF CopyOK, Stores
  <2> QED BY <1>3, <2>3, GoodEditable DEF Shown
<1> QED BY <1>1, <1>2, <1>3

LEMMA StepStep ==
    ASSUME IInv, NEW b \in Browsers, step(b) PROVE IInv'
<1> DEFINE w == Shown(b)
           SetSteps(s) == SetDraft(b, [w EXCEPT !.steps = s])
<1>1. section = "workflow" /\ UNCHANGED simulated
  BY DEF step
<1>2. Editable(w) /\ opened[b] = None
  BY <1>1, ShownEditable DEF IInv, EditorOK
<1>3. /\ Shaped(w.steps) /\ w.name \in Titles
      /\ w = [name |-> w.name, steps |-> w.steps]
  BY <1>1, <1>2, WorkflowShape DEF Editable, Contents
<1>4. ASSUME NEW s, SetSteps(s), Shaped(s)
      PROVE  \E content : SetDraft(b, content) /\ Editable(content)
  <2>1. [w EXCEPT !.steps = s] = [name |-> w.name, steps |-> s]
    BY <1>3
  <2> QED BY <1>1, <1>3, <1>4, <2>1, EditableWorkflow
<1>5. ASSUME NEW title \in Titles, SetDraft(b, [w EXCEPT !.name = title])
      PROVE  \E content : SetDraft(b, content) /\ Editable(content)
  <2>1. [w EXCEPT !.name = title] = [name |-> title, steps |-> w.steps]
    BY <1>3
  <2> QED BY <1>1, <1>3, <1>5, <2>1, EditableWorkflow
<1> HIDE DEF w
<1>6. PICK content : SetDraft(b, content) /\ Editable(content)
  <2> DEFINE steps == w.steps
  <2>1. \/ \E title \in Titles : SetDraft(b, [w EXCEPT !.name = title])
        \/ \E i \in DOMAIN steps, n \in Names : SetSteps([steps EXCEPT ![i].name = n])
        \/ \E i \in 2 .. Len(steps) :
             \/ SetSteps([steps EXCEPT ![i].different = ~@])
             \/ SetSteps(Reordered([steps EXCEPT ![i - 1] = steps[i], ![i] = steps[i - 1]]))
        \/ /\ Len(steps) > 2
           /\ \E i \in DOMAIN steps : SetSteps(Reordered(RemoveAt(steps, i)))
        \/ Len(steps) < MaxSteps /\ SetSteps(Append(steps, [name |-> "", different |-> FALSE]))
    BY Zenon DEF step, w
  <2> HIDE DEF SetSteps, steps
  <2>2. Shaped(steps)
    BY <1>3 DEF steps
  <2> QED BY <1>4, <1>5, <2>1, <2>2, EditedSteps
<1> QED BY <1>1, <1>2, <1>6, StepDraft

LEMMA StepOpenRule ==
    ASSUME IInv, NEW b \in Browsers, OpenRule(b) PROVE IInv'
<1>1. /\ section = "rule" /\ copy[b] # None /\ opened[b] = None
      /\ opened' = [opened EXCEPT ![b] = copy[b]]
      /\ draft' = [draft EXCEPT ![b] = copy[b].content]
      /\ simulated' = [simulated EXCEPT ![b] = FALSE]
      /\ UNCHANGED <<section, stored, writers, copy, request>>
  BY DEF OpenRule
<1>2. /\ opened'[b] = copy[b] /\ draft'[b] = copy[b].content /\ simulated'[b] = FALSE
      /\ Shape' /\ \A a \in Browsers \ {b} : Same(a)
  BY <1>1 DEF IInv, Shape, Same
<1>3. CopyOK(b)
  BY DEF IInv
<1>4. Good(copy[b].content) /\ copy[b].content # None
  <2>1. copy[b].revision >= 1
    BY <1>1, <1>3 DEF CopyOK, Oldest
  <2>2. copy[b].revision > 0
    BY <1>1, <1>3, <2>1 DEF CopyOK, EarlierOf, Versions
  <2>3. Good(copy[b].content)
    BY <1>1, <1>3, <2>2 DEF CopyOK, Stores
  <2> QED BY <2>3, NotNone DEF Good, Contents
<1>5. CopyOK(b)'
  BY <1>1, <1>3, SectionKept DEF CopyOK
<1>6. EditorOK(b)'
  BY <1>1, <1>2, <1>3, <1>4, GoodEditable, SectionKept DEF EditorOK, CopyOK
<1>7. \A c \in Calls : request[c] # None => ~(request[c].by = b /\ request[c].here = "form")
  <2> SUFFICES ASSUME NEW c \in Calls, request[c] # None, request[c].by = b, request[c].here = "form"
               PROVE  FALSE
    OBVIOUS
  <2>1. RequestOK(c) /\ request[c].kind \in {"save", "simulate"}
    BY DEF IInv, RequestOK, Requests
  <2> QED BY <1>1, <2>1 DEF RequestOK
<1> QED BY <1>1, <1>2, <1>5, <1>6, <1>7, InForm

\* A form forgets what it has.
LEMMA ForgetOK ==
    ASSUME IInv, NEW b \in Browsers, Forget(b), UNCHANGED <<section, stored>>, DOMAIN copy' = Browsers,
           copy'[b] \in {copy[b], None}, \A a \in Browsers \ {b} : copy'[a] = copy[a]
    PROVE  /\ \A a \in Browsers : CopyOK(a)' /\ EditorOK(a)'
           /\ opened' = [opened EXCEPT ![b] = None]
           /\ DOMAIN request' = Calls => Shape'
<1>1. /\ opened' = [opened EXCEPT ![b] = None] /\ draft' = [draft EXCEPT ![b] = None]
      /\ simulated' = [simulated EXCEPT ![b] = FALSE]
  BY DEF Forget
<1>2. /\ opened'[b] = None /\ draft'[b] = None /\ simulated'[b] = FALSE
      /\ \A a \in Browsers \ {b} : Same(a)
  BY <1>1 DEF IInv, Shape, Same
<1>3. DOMAIN request' = Calls => Shape'
  BY <1>1 DEF IInv, Shape
<1>4. CopyOK(b)' /\ EditorOK(b)'
  <2>1. CopyOK(b)
    BY DEF IInv
  <2> QED BY <1>2, <2>1, SectionKept DEF CopyOK, EditorOK
<1>5. \A a \in Browsers : CopyOK(a)' /\ EditorOK(a)'
  BY <1>2, <1>4, SameOK
<1> QED BY <1>1, <1>3, <1>5

LEMMA LeftRequest ==
    ASSUME NEW r \in Requests, NEW place \in {"page", "gone"}
    PROVE  LET left == [r EXCEPT !.here = place] IN
           /\ left \in Requests /\ left.here = place /\ left.by = r.by /\ left.done = r.done
           /\ left.kind = r.kind /\ left.content = r.content /\ left.seen = r.seen
<1>1. ASSUME NEW K, NEW C, NEW S, NEW q \in [by : Browsers, kind : K, content : C, seen : S,
                                             here : {"form", "page", "gone"}, done : BOOLEAN]
      PROVE  LET left == [q EXCEPT !.here = place] IN
             /\ left \in [by : Browsers, kind : K, content : C, seen : S,
                          here : {"form", "page", "gone"}, done : BOOLEAN]
             /\ left.here = place /\ left.by = q.by /\ left.done = q.done
             /\ left.kind = q.kind /\ left.content = q.content /\ left.seen = q.seen
  OBVIOUS
<1> QED BY <1>1 DEF Requests

\* The requests of a form that is left go on, as those of no form.
LEMMA LeftOnward ==
    ASSUME IInv, NEW b \in Browsers, NEW places, "form" \in places, NEW place \in {"page", "gone"},
           opened' = [opened EXCEPT ![b] = None], NEW c \in Calls,
           request'[c] = Left(b, places, place)[c]
    PROVE  Onward(c) /\ (request[c] # None => request'[c] # None)
<1>1. request[c] # None => request[c] \in Requests /\ request[c].by \in Browsers
  BY DEF IInv, RequestOK, Requests
<1>2. request'[c] = IF request[c] # None /\ request[c].by = b /\ request[c].here \in places
                    THEN [request[c] EXCEPT !.here = place] ELSE request[c]
  BY DEF Left
<1>3. CASE request[c] # None /\ request[c].by = b /\ request[c].here \in places
  <2> DEFINE left == [request[c] EXCEPT !.here = place]
  <2>1. request'[c] = left /\ request[c] \in Requests
    BY <1>1, <1>2, <1>3
  <2>2. /\ left \in Requests /\ left.here = place /\ left.by = request[c].by
        /\ left.done = request[c].done /\ left.kind = request[c].kind
        /\ left.content = request[c].content /\ left.seen = request[c].seen
    BY <2>1, LeftRequest
  <2>3. left # None
    BY <2>2, NotNone
  <2> HIDE DEF left
  <2> QED BY <1>3, <2>1, <2>2, <2>3 DEF Onward
<1>4. CASE ~(request[c] # None /\ request[c].by = b /\ request[c].here \in places)
  <2>1. request'[c] = request[c]
    BY <1>2, <1>4
  <2>2. request[c] # None /\ request[c].here = "form" => opened'[request[c].by] = opened[request[c].by]
    BY <1>1, <1>4 DEF IInv, Shape
  <2> QED BY <2>1, <2>2, SameRequest
<1> QED BY <1>3, <1>4

LEMMA StepLeave ==
    ASSUME IInv, NEW b \in Browsers, CloseRule(b) \/ LeavePage(b) PROVE IInv'
<1>1. /\ Forget(b) /\ UNCHANGED <<section, stored, writers>>
      /\ copy' \in {copy, [copy EXCEPT ![b] = None]}
  BY DEF CloseRule, LeavePage
<1>2. PICK places, place : /\ "form" \in places /\ place \in {"page", "gone"}
                           /\ request' = Left(b, places, place)
  BY DEF CloseRule, LeavePage
<1>3. /\ DOMAIN copy' = Browsers /\ copy'[b] \in {copy[b], None}
      /\ \A a \in Browsers \ {b} : copy'[a] = copy[a]
      /\ DOMAIN request' = Calls
  BY <1>1, <1>2 DEF IInv, Shape, Left
<1>4. /\ \A a \in Browsers : CopyOK(a)' /\ EditorOK(a)'
      /\ opened' = [opened EXCEPT ![b] = None] /\ Shape'
  BY <1>1, <1>3, ForgetOK
<1>5. \A c \in Calls : Onward(c) /\ (request[c] # None => request'[c] # None)
  BY <1>2, <1>4, LeftOnward
<1>6. Serving
  BY <1>1, <1>5 DEF Serving, IInv, WriterOK
<1> QED BY <1>1, <1>4, <1>5, <1>6, Local

-----------------------------------------------------------------------------
(* Requests, transactions and answers. *)

\* A request for what a form may hold, and for a version that was fetched.
LEMMA StepSend ==
    ASSUME IInv, NEW b \in Browsers, NEW kind \in {"save", "simulate"}, NEW content,
           NEW seen \in Versions \cup {None},
           Send(b, kind, content, seen), Editable(content),
           kind = "simulate" => opened[b] # None,
           kind = "save" => /\ EarlierOf(stored, seen)
                            /\ section = "rule" => opened[b] # None /\ seen = opened[b]
    PROVE  IInv'
<1> DEFINE r == [by |-> b, kind |-> kind, content |-> content, seen |-> seen,
                 here |-> "form", done |-> FALSE]
<1>1. PICK c \in Calls : request[c] = None /\ request' = [request EXCEPT ![c] = r]
  BY DEF Send
<1>2. UNCHANGED <<section, stored, writers, copy, opened, draft, simulated>>
  BY DEF Send, forms
<1>3. /\ request'[c] = r /\ Shape' /\ \A d \in Calls \ {c} : request'[d] = request[d]
  BY <1>1, <1>2 DEF IInv, Shape
<1>4. \A a \in Browsers : CopyOK(a)' /\ EditorOK(a)'
  BY <1>2, SameOK DEF Same
<1>5. c \notin writers
  BY <1>1 DEF IInv, WriterOK
<1>6. r \in Requests
  <2>1. content \in Values \cup Workflows
    BY DEF Editable, Contents
  <2> QED BY <2>1 DEF Requests
<1>7. RequestOK(c)'
  BY <1>2, <1>3, <1>6, SectionKept DEF RequestOK
<1> HIDE DEF r
<1>8. \A d \in Calls : RequestOK(d)' /\ WriterOK(d)'
  <2> TAKE d \in Calls
  <2>0. RequestOK(d) /\ WriterOK(d)
    BY DEF IInv
  <2>1. CASE d = c
    BY <1>2, <1>5, <1>7, <2>1 DEF WriterOK
  <2>2. CASE d # c
    <3>1. request'[d] = request[d]
      BY <1>3, <2>2
    <3>2. RequestOK(d)'
      BY <1>2, <2>0, <3>1, SectionKept DEF RequestOK
    <3>3. WriterOK(d)'
      BY <1>2, <2>0, <3>1, SectionKept DEF WriterOK
    <3> QED BY <3>2, <3>3
  <2> QED BY <2>1, <2>2
<1>9. StoredOK' /\ (writers \subseteq Calls)'
  BY <1>2, SectionKept DEF IInv, StoredOK
<1> QED BY <1>3, <1>4, <1>8, <1>9 DEF IInv

\* The versions that forms send.
LEMMA StepSave ==
    ASSUME IInv, NEW b \in Browsers,
           saveWorkspace(b) \/ savePolicy(b) \/ publish(b)
    PROVE  IInv'
<1>1. /\ copy[b] # None /\ section # "rule"
      /\ \/ draft[b] # None /\ Send(b, "save", draft[b], copy[b])
         \/ section = "workflow" /\ Send(b, "save", Shown(b), copy[b])
  BY DEF saveWorkspace, savePolicy, publish
<1>2. EarlierOf(stored, copy[b]) /\ copy[b] \in Versions
  BY <1>1 DEF IInv, CopyOK, EarlierOf
<1>3. /\ draft[b] # None => Editable(draft[b])
      /\ section = "workflow" => Editable(Shown(b))
  BY ShownEditable DEF IInv, EditorOK
<1> QED BY <1>1, <1>2, <1>3, StepSend

LEMMA StepRelease ==
    ASSUME IInv, NEW b \in Browsers, simulate(b) \/ release(b) PROVE IInv'
<1>1. opened[b] # None
  BY DEF simulate, release, CanRelease
<1>2. Editable(draft[b])
  BY <1>1 DEF IInv, EditorOK
<1>3. CASE simulate(b)
  BY <1>1, <1>2, <1>3, StepSend DEF simulate
<1>4. CASE release(b)
  <2>1. EarlierOf(stored, opened[b]) /\ opened[b] \in Versions
    BY <1>1 DEF IInv, EditorOK, EarlierOf
  <2> QED BY <1>1, <1>2, <1>4, <2>1, StepSend DEF release
<1> QED BY <1>3, <1>4

\* One request is over, the others go on.
LEMMA OneOver ==
    ASSUME IInv, NEW c \in Calls, request' = [request EXCEPT ![c] = None],
           UNCHANGED <<section, stored, opened>>, writers' = writers \ {c}
    PROVE  Serving /\ \A d \in Calls : Onward(d)
<1>1. request'[c] = None /\ \A d \in Calls \ {c} : request'[d] = request[d]
  BY DEF IInv, Shape
<1>2. Onward(c)
  BY <1>1 DEF Onward
<1>3. \A d \in Calls \ {c} : Onward(d)
  BY <1>1, SameRequest
<1>4. Serving
  BY <1>1 DEF Serving, IInv, WriterOK
<1> QED BY <1>2, <1>3, <1>4

LEMMA SimulatedOK ==
    ASSUME IInv, NEW a \in Browsers,
           \/ simulated' = simulated
           \/ simulated' = [simulated EXCEPT ![a] = FALSE]
           \/ opened[a] # None /\ \E passed : simulated' = [simulated EXCEPT ![a] = passed],
           UNCHANGED <<section, stored, copy, opened, draft>>
    PROVE  \A b \in Browsers : CopyOK(b)' /\ EditorOK(b)'
<1> TAKE b \in Browsers
<1>1. CopyOK(b) /\ EditorOK(b)
  BY DEF IInv
<1>2. CopyOK(b)'
  BY <1>1, SectionKept DEF CopyOK
<1>3. simulated'[b] => simulated[b] \/ opened[b] # None
  BY DEF IInv, Shape
<1>4. EditorOK(b)'
  BY <1>1, <1>3, SectionKept DEF EditorOK
<1> QED BY <1>2, <1>4

LEMMA StepSimulated ==
    ASSUME IInv, NEW c \in Calls, Simulated(c) PROVE IInv'
<1>1. /\ request[c] # None /\ request[c].kind = "simulate"
      /\ request' = [request EXCEPT ![c] = None]
      /\ simulated' = IF request[c].here = "form"
                      THEN [simulated EXCEPT ![request[c].by] = Acceptable(request[c].content)]
                      ELSE simulated
      /\ UNCHANGED <<section, stored, writers, copy, opened, draft>>
  BY DEF Simulated, Simulating
<1>2. RequestOK(c) /\ WriterOK(c) /\ request[c].by \in Browsers
  BY <1>1 DEF IInv, RequestOK, Requests
<1>3. writers' = writers \ {c}
  BY <1>1, <1>2 DEF WriterOK
<1>4. Shape'
  BY <1>1 DEF IInv, Shape
<1>5. \A b \in Browsers : CopyOK(b)' /\ EditorOK(b)'
  BY <1>1, <1>2, SimulatedOK DEF RequestOK
<1> QED BY <1>1, <1>3, <1>4, <1>5, OneOver, Local

\* The transaction that finds the row free, and its revision the quoted one, finds
\* the version that was fetched.
LEMMA StepWrite ==
    ASSUME IInv, NEW c \in Calls, Write(c) PROVE IInv'
<1>1. /\ request[c] # None /\ request[c].kind = "save" /\ ~request[c].done /\ writers = {}
      /\ Acceptable(request[c].content)
      /\ stored.revision = request[c].seen.revision
      /\ stored.revision < Oldest + MaxSaves[section]
      /\ writers' = {c}
      /\ UNCHANGED <<section, stored, copy, opened, draft, simulated, request>>
  BY DEF Write, Free, Bounded, forms
<1>2. RequestOK(c)
  BY DEF IInv
<1>3. request[c].seen = stored /\ Good(request[c].content)
  BY <1>1, <1>2 DEF RequestOK, EarlierOf, Good, Editable
<1>4. StoredOK' /\ Shape'
  BY <1>1, SectionKept DEF IInv, StoredOK, Shape
<1>5. \A b \in Browsers : CopyOK(b)' /\ EditorOK(b)'
  BY <1>1, SameOK DEF Same
<1>6. \A d \in Calls : RequestOK(d)' /\ WriterOK(d)'
  <2> TAKE d \in Calls
  <2>1. RequestOK(d)
    BY DEF IInv
  <2>2. RequestOK(d)'
    BY <1>1, <2>1, SectionKept DEF RequestOK
  <2>3. WriterOK(d)'
    BY <1>1, <1>3, SectionKept DEF WriterOK
  <2> QED BY <2>2, <2>3
<1> QED BY <1>1, <1>4, <1>5, <1>6 DEF IInv

\* A copy of a version before the next one.
LEMMA VersionsAge ==
    ASSUME stored \in Versions, NEW content, NEW version, EarlierOf(stored, version)
    PROVE  EarlierOf(Version(stored.revision + 1, content), version)
BY DEF EarlierOf, Versions, Version

LEMMA DoneRequest ==
    ASSUME NEW r \in Requests
    PROVE  LET stores == [r EXCEPT !.done = TRUE] IN
           /\ stores \in Requests /\ stores.here = r.here /\ stores.by = r.by
           /\ stores.kind = r.kind /\ stores.content = r.content /\ stores.seen = r.seen
<1>1. ASSUME NEW K, NEW C, NEW S, NEW q \in [by : Browsers, kind : K, content : C, seen : S,
                                             here : {"form", "page", "gone"}, done : BOOLEAN]
      PROVE  LET stores == [q EXCEPT !.done = TRUE] IN
             /\ stores \in [by : Browsers, kind : K, content : C, seen : S,
                            here : {"form", "page", "gone"}, done : BOOLEAN]
             /\ stores.here = q.here /\ stores.by = q.by
             /\ stores.kind = q.kind /\ stores.content = q.content /\ stores.seen = q.seen
  OBVIOUS
<1> QED BY <1>1 DEF Requests

\* The next version is stored, and nobody has the row.
LEMMA StepStore ==
    ASSUME IInv, NEW content, Good(content),
           stored' = Version(stored.revision + 1, content),
           stored.revision < Oldest + MaxSaves[section],
           writers' = {}, UNCHANGED <<section, copy, opened, draft, simulated>>, Shape',
           \A c \in Calls :
              \/ request'[c] = request[c]
              \/ /\ request[c] # None /\ request[c].kind = "save"
                 /\ request'[c] = [request[c] EXCEPT !.done = TRUE]
    PROVE  IInv'
<1>0. MaxSaves[section] \in Nat /\ Oldest \in Nat
  BY SectionFacts DEF IInv, StoredOK
<1>1. stored \in Versions /\ stored.revision >= Oldest /\ stored.revision \in Nat
  BY DEF IInv, StoredOK, Versions
<1>2. stored'.revision = stored.revision + 1 /\ stored'.content = content
  BY DEF Version
<1>3. content \in Contents /\ content \in Values \cup Workflows
  BY DEF Good, Contents
<1>4. StoredOK'
  <2>1. stored' \in Versions
    BY <1>1, <1>3 DEF Version, Versions
  <2>2. stored'.revision >= Oldest /\ stored'.revision <= Oldest + MaxSaves[section]
    BY <1>0, <1>1, <1>2
  <2>3. Oldest' = Oldest /\ Contents' = Contents /\ Good(stored.content)'
    BY <1>2 DEF Good, Acceptable, Contents, Oldest
  <2>4. Stores(stored)' /\ (stored.content # None => Good(stored.content))'
    BY <2>3 DEF Stores
  <2> QED BY <1>2, <1>3, <2>1, <2>2, <2>3, <2>4 DEF StoredOK, IInv
<1>5. \A version : EarlierOf(stored, version) => EarlierOf(stored', version)
  BY <1>1, VersionsAge
<1>6. \A b \in Browsers : CopyOK(b)' /\ EditorOK(b)'
  <2> TAKE b \in Browsers
  <2>1. CopyOK(b) /\ EditorOK(b)
    BY DEF IInv
  <2>2. CopyOK(b)'
    BY <1>5, <2>1, SectionKept DEF CopyOK
  <2>3. EditorOK(b)'
    BY <1>5, <2>1, SectionKept DEF EditorOK
  <2> QED BY <2>2, <2>3
<1>7. \A c \in Calls : RequestOK(c)' /\ WriterOK(c)'
  <2> TAKE c \in Calls
  <2>1. RequestOK(c)
    BY DEF IInv
  <2>2. CASE request'[c] = request[c]
    BY <1>5, <2>1, <2>2, SectionKept DEF RequestOK, WriterOK
  <2>3. CASE /\ request[c] # None /\ request[c].kind = "save"
             /\ request'[c] = [request[c] EXCEPT !.done = TRUE]
    <3> DEFINE r == [request[c] EXCEPT !.done = TRUE]
    <3>1. /\ r \in Requests /\ r.by = request[c].by /\ r.kind = request[c].kind
          /\ r.content = request[c].content /\ r.seen = request[c].seen /\ r.here = request[c].here
      BY <2>1, <2>3, DoneRequest DEF RequestOK
    <3> HIDE DEF r
    <3>2. RequestOK(c)'
      BY <1>5, <2>1, <2>3, <3>1, SectionKept DEF RequestOK, r
    <3> QED BY <3>2 DEF WriterOK
  <2> QED BY <2>2, <2>3
<1> QED BY <1>4, <1>6, <1>7 DEF IInv

LEMMA StepProgram == ASSUME IInv, program PROVE IInv'
<1>1. PICK content \in Contents :
        Acceptable(content) /\ stored' = Version(stored.revision + 1, content)
  BY DEF program
<1>2. /\ writers = {} /\ stored.revision < Oldest + MaxSaves[section]
      /\ UNCHANGED <<section, writers, copy, opened, draft, simulated, request>>
  BY DEF program, Free, Bounded, forms
<1>3. Shape'
  BY <1>2 DEF IInv, Shape
<1> QED BY <1>1, <1>2, <1>3, StepStore DEF Good

\* Whoever commits has the row alone.
LEMMA CommitStores ==
    ASSUME IInv, NEW c \in Calls, Commit(c)
    PROVE  /\ writers = {c} /\ writers' = {} /\ Good(request[c].content)
           /\ request[c] # None /\ request[c].kind = "save" /\ request[c].seen = stored
           /\ stored' = Version(stored.revision + 1, request[c].content)
           /\ stored.revision < Oldest + MaxSaves[section]
<1>1. WriterOK(c) /\ c \in writers
  BY DEF IInv, Commit
<1> QED BY <1>1 DEF Commit, WriterOK

LEMMA StepCommit ==
    ASSUME IInv, NEW c \in Calls, Commit(c) PROVE IInv'
<1>1. /\ request' = [request EXCEPT ![c].done = TRUE]
      /\ UNCHANGED <<section, copy, opened, draft, simulated>>
  BY DEF Commit, forms
<1>2. Shape'
  BY <1>1 DEF IInv, Shape
<1>3. \A d \in Calls : request'[d] = IF d = c THEN [request[c] EXCEPT !.done = TRUE] ELSE request[d]
  BY <1>1 DEF IInv, Shape
<1> QED BY <1>1, <1>2, <1>3, CommitStores, StepStore

LEMMA StepAnswered ==
    ASSUME IInv, NEW c \in Calls, Answered(c) PROVE IInv'
<1> DEFINE b == request[c].by
<1>1. /\ request[c] # None /\ request[c].done
      /\ UNCHANGED <<section, stored, writers, copy>>
  BY DEF Answered
<1>2. b \in Browsers /\ c \notin writers
  BY <1>1 DEF IInv, RequestOK, Requests, WriterOK
<1>3. CASE request' = [request EXCEPT ![c] = None] /\ UNCHANGED forms
  <2>1. Shape' /\ UNCHANGED opened /\ writers' = writers \ {c}
    BY <1>1, <1>2, <1>3 DEF IInv, Shape, forms
  <2>2. \A a \in Browsers : CopyOK(a)' /\ EditorOK(a)'
    BY <1>1, <1>3, SameOK DEF Same, forms
  <2> QED BY <1>1, <1>3, <2>1, <2>2, OneOver, Local
<1>4. CASE request' = [Left(b, {"form"}, "page") EXCEPT ![c] = None] /\ Forget(b)
  <2> HIDE DEF b
  <2>1. /\ request'[c] = None /\ DOMAIN request' = Calls
        /\ \A d \in Calls \ {c} : request'[d] = Left(b, {"form"}, "page")[d]
    BY <1>4 DEF Left
  <2>2. /\ \A a \in Browsers : CopyOK(a)' /\ EditorOK(a)'
        /\ opened' = [opened EXCEPT ![b] = None] /\ Shape'
    <3>1. DOMAIN copy' = Browsers /\ copy'[b] \in {copy[b], None}
          /\ \A a \in Browsers \ {b} : copy'[a] = copy[a]
      BY <1>1 DEF IInv, Shape
    <3> QED BY <1>1, <1>2, <1>4, <2>1, <3>1, ForgetOK
  <2>3. \A d \in Calls \ {c} : Onward(d) /\ (request[d] # None => request'[d] # None)
    BY <1>2, <2>1, <2>2, LeftOnward
  <2>4. Onward(c)
    BY <2>1 DEF Onward
  <2>5. Serving
    BY <1>1, <1>2, <2>3 DEF Serving, IInv, WriterOK
  <2>6. \A d \in Calls : Onward(d)
    BY <2>3, <2>4
  <2> QED BY <1>1, <2>2, <2>5, <2>6, Local
<1> QED BY <1>3, <1>4 DEF Answered

LEMMA StepFail ==
    ASSUME IInv, NEW c \in Calls, Fail(c) PROVE IInv'
<1>1. /\ request[c] # None
      /\ simulated' = IF Simulating(c) /\ request[c].here = "form"
                      THEN [simulated EXCEPT ![request[c].by] = FALSE] ELSE simulated
      /\ UNCHANGED <<section, stored, copy, opened, draft>>
  BY DEF Fail
<1>2. request[c] \in Requests /\ request[c].by \in Browsers
  BY <1>1 DEF IInv, RequestOK, Requests
<1>3. \A b \in Browsers : CopyOK(b)' /\ EditorOK(b)'
  BY <1>1, <1>2, SimulatedOK
<1>4. CASE writers' = writers \ {c} /\ request' = [request EXCEPT ![c] = None]
  <2>1. Shape'
    BY <1>1, <1>4 DEF IInv, Shape
  <2> QED BY <1>1, <1>3, <1>4, <2>1, OneOver, Local
<1>5. CASE UNCHANGED writers /\ request' = [request EXCEPT ![c].here = "gone"]
  <2> DEFINE left == [request[c] EXCEPT !.here = "gone"]
  <2>1. /\ Shape' /\ request'[c] = left
        /\ \A d \in Calls \ {c} : request'[d] = request[d]
    BY <1>1, <1>5 DEF IInv, Shape
  <2>2. /\ left \in Requests /\ left.here = "gone" /\ left.by = request[c].by
        /\ left.done = request[c].done /\ left.kind = request[c].kind
        /\ left.content = request[c].content /\ left.seen = request[c].seen
    BY <1>2, LeftRequest
  <2>3. left # None
    BY <2>2, NotNone
  <2> HIDE DEF left
  <2>4. Onward(c)
    BY <1>1, <2>1, <2>2, <2>3 DEF Onward
  <2>5. \A d \in Calls \ {c} : Onward(d)
    BY <1>1, <2>1, SameRequest
  <2>6. Serving
    BY <1>5, <2>1, <2>3 DEF Serving, IInv, WriterOK
  <2>7. \A d \in Calls : Onward(d)
    BY <2>4, <2>5
  <2> QED BY <1>1, <1>3, <2>1, <2>6, <2>7, Local
<1> QED BY <1>4, <1>5 DEF Fail

LEMMA StepIInv == IInv /\ [Next]_vars => IInv'
<1> SUFFICES ASSUME IInv, [Next]_vars PROVE IInv'
  OBVIOUS
<1>1. CASE UNCHANGED vars
  <2>1. UNCHANGED <<section, stored, writers, copy, opened, draft, simulated, request>>
    BY <1>1 DEF vars
  <2>2. \A b \in Browsers : CopyOK(b)' /\ EditorOK(b)'
    BY <2>1, SameOK DEF Same
  <2>3. \A c \in Calls : Onward(c)
    BY <2>1, SameRequest
  <2>4. Serving /\ Shape'
    BY <2>1 DEF IInv, Shape, Serving, WriterOK
  <2> QED BY <2>1, <2>2, <2>3, <2>4, Local
<1>2. ASSUME NEW b \in Browsers, InBrowser(b) PROVE IInv'
  <2>1. CASE Fetch(b) BY <2>1, StepFetch
  <2>2. CASE step(b) BY <2>2, StepStep
  <2>3. CASE OpenRule(b) BY <2>3, StepOpenRule
  <2>4. CASE CloseRule(b) \/ LeavePage(b) BY <2>4, StepLeave
  <2>5. CASE \E v \in Values :
               EditSettings(b, v) \/ EditPolicy(b, v) \/ editRule(b, v) \/ EnableRule(b, v)
    BY <2>5, StepEditValue
  <2>6. CASE saveWorkspace(b) \/ savePolicy(b) \/ publish(b) BY <2>6, StepSave
  <2>7. CASE simulate(b) \/ release(b) BY <2>7, StepRelease
  <2> QED BY <1>2, <2>1, <2>2, <2>3, <2>4, <2>5, <2>6, <2>7 DEF InBrowser
<1>3. ASSUME NEW c \in Calls, Served(c) PROVE IInv'
  <2>1. CASE SaveWorkspace(c) \/ SaveParameters(c) \/ SaveWorkflow(c) \/ Release(c)
    BY <2>1, StepWrite DEF SaveWorkspace, SaveParameters, SaveWorkflow, Release
  <2>2. CASE Commit(c) BY <2>2, StepCommit
  <2>3. CASE Simulated(c) BY <2>3, StepSimulated
  <2>4. CASE Answered(c) BY <2>4, StepAnswered
  <2>5. CASE Fail(c) BY <2>5, StepFail
  <2> QED BY <1>3, <2>1, <2>2, <2>3, <2>4, <2>5 DEF Served
<1> QED BY <1>1, <1>2, <1>3, StepProgram DEF Next

LEMMA Invariance == Spec => []IInv
BY InitIInv, StepIInv, PTL DEF Spec

-----------------------------------------------------------------------------
(***************************************************************************)
(* The theorems.                                                           *)
(***************************************************************************)

\* Everything keeps its type, and no more than the allowed versions are stored
\* (SaveWorkspace, SaveParameters, SaveWorkflow, Release).
THEOREM TypeCorrect == Spec => []TypeOK
<1>1. IInv => TypeOK
  <2> SUFFICES ASSUME IInv PROVE TypeOK
    OBVIOUS
  <2>1. MaxSaves[section] \in Nat /\ Oldest \in Nat
    BY SectionFacts DEF IInv, StoredOK
  <2>2. /\ stored \in Versions /\ stored.revision \in Nat /\ stored.revision >= Oldest
        /\ stored.revision <= Oldest + MaxSaves[section]
        /\ stored.content \in Contents \cup {None} /\ writers \subseteq Calls
    BY DEF IInv, StoredOK, Versions
  <2>3. stored.revision \in Oldest .. Oldest + MaxSaves[section] + 1
    BY <2>1, <2>2
  <2>4. \A b \in Browsers :
          /\ draft[b] \in Contents \cup {None}
          /\ opened[b] # None => draft[b] # None
          /\ simulated[b] => opened[b] # None
    BY DEF IInv, EditorOK, Editable
  <2>5. \A c \in Calls : request[c] # None => request[c] \in Requests /\ request[c].content \in Contents
    BY DEF IInv, RequestOK, Editable
  <2> QED BY <2>2, <2>3, <2>4, <2>5 DEF TypeOK
<1> QED BY <1>1, Invariance, PTL

\* Each transaction checks before it stores (Validate, Simulate), whatever forms
\* and programs send, and a rule's editor begins with what is stored: it has
\* nothing to release that the fixtures refuse, simulated or not.
THEOREM OnlyAcceptableStored == Spec => []StoredIsAcceptable
<1>1. IInv => StoredIsAcceptable
  BY DEF IInv, StoredOK, EditorOK, Good, Editable, Acceptable, StoredIsAcceptable
<1> QED BY <1>1, Invariance, PTL

\* WorkflowSettings makes the first step anybody's whenever the steps move, and
\* keeps their number within the bounds: what Workflow.Validate can refuse of its
\* workflows is their names.
THEOREM OnlyNamesRefused == Spec => []RefusedForNamesOnly
<1>1. IInv => RefusedForNamesOnly
  BY DEF IInv, EditorOK, Editable, Shaped, RefusedForNamesOnly
<1> QED BY <1>1, Invariance, PTL

\* Of all who save from the same revision one succeeds, and what it replaces is
\* what it had fetched (the locks and revisions of the four transactions).
THEOREM SavesFollowEachOther == Spec => OneAfterTheOther
<1> DEFINE A == stored' # stored =>
         /\ stored'.revision = stored.revision + 1
         /\ \A c \in writers \ writers' : stored = request[c].seen
<1>1. IInv /\ [Next]_vars => [A]_vars
  <2> SUFFICES ASSUME IInv, Next, stored' # stored
               PROVE  /\ stored'.revision = stored.revision + 1
                      /\ \A c \in writers \ writers' : stored = request[c].seen
    OBVIOUS
  <2>1. program \/ \E c \in Calls : Commit(c)
    <3>1. ASSUME NEW b \in Browsers, InBrowser(b) PROVE FALSE
      BY <3>1, Zenon DEF InBrowser, Fetch, step, SetDraft, EditSettings, EditPolicy, editRule, EnableRule,
           OpenRule, CloseRule, LeavePage, Send, saveWorkspace, savePolicy, publish, simulate, release
    <3>2. ASSUME NEW c \in Calls, Served(c) PROVE Commit(c)
      BY <3>2, Zenon DEF Served, SaveWorkspace, SaveParameters, SaveWorkflow, Release, Write, Simulated,
           Answered, Fail
    <3> QED BY <3>1, <3>2 DEF Next
  <2>2. CASE program
    BY <2>2 DEF program, Version
  <2>3. ASSUME NEW c \in Calls, Commit(c)
        PROVE  /\ stored'.revision = stored.revision + 1
               /\ \A d \in writers \ writers' : stored = request[d].seen
    BY <2>3, CommitStores DEF Version
  <2> QED BY <2>1, <2>2, <2>3
<1> HIDE DEF A
<1>2. Spec => [][A]_vars
  BY <1>1, Invariance, PTL DEF Spec
<1> QED BY <1>2 DEF OneAfterTheOther, A

\* A release is made to the version that its editor was opened with and compares
\* with (RuleEditor quotes that version's revision), and to no later one.
THEOREM ReleasesMakeWhatIsShown == Spec => ChangesShownAreMade
<1> DEFINE A == \A c \in writers \ writers' :
         LET b == request[c].by IN
         stored' # stored /\ opened[b] # None /\ request[c].here = "form" => stored = opened[b]
<1>1. IInv /\ [Next]_vars => [A]_vars
  <2> SUFFICES ASSUME IInv, NEW c \in writers, opened[request[c].by] # None, request[c].here = "form"
               PROVE  stored = opened[request[c].by]
    OBVIOUS
  <2>1. c \in Calls /\ WriterOK(c) /\ RequestOK(c)
    BY DEF IInv
  <2>2. request[c].by \in Browsers
    BY <2>1 DEF WriterOK, RequestOK, Requests
  <2> QED BY <2>1, <2>2 DEF IInv, WriterOK, RequestOK, EditorOK
<1> HIDE DEF A
<1>2. Spec => [][A]_vars
  BY <1>1, Invariance, PTL DEF Spec
<1> QED BY <1>2 DEF ChangesShownAreMade, A

=============================================================================
