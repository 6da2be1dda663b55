----------------------------- MODULE FindingLife -----------------------------
(***************************************************************************)
(* What the program promises about a finding: its life, as somebody sees   *)
(* it who reads the queue and the cases and nothing else.  There are no    *)
(* locks, revisions, transactions or clocks here.  Review implements it.   *)
(***************************************************************************)
EXTENDS Lifecycle

CONSTANT Keys

VARIABLES
    state,   \* the state of each finding; "" before it is first seen
    case     \* the status of its review case: "none", "active" or "closed"

life == <<state, case>>

Init ==
    /\ state = [k \in Keys |-> ""]
    /\ case = [k \in Keys |-> "none"]

Set(f, k, value) == [f EXCEPT ![k] = value]

\* What a run may make of a finding: find it, find it again, miss it.
Reconciled(from, to) ==
    \/ to = from
    \/ from = "" /\ to = "open"
    \/ from \in {"suppressed", "resolved_in_source"} /\ to = "reopened"
    \/ from \in Active /\ to = "resolved_in_source"

\* A case appears only where there is none.
Enrolled(from, to) == to = from \/ (from = "none" /\ to = "active")

\* A run completes: it changes any number of findings, all at once, and puts
\* some of those it saw into the workflow.
Run ==
    /\ state' \in [Keys -> States \cup {""}]
    /\ case' \in [Keys -> {"none", "active", "closed"}]
    /\ \A k \in Keys :
         /\ Reconciled(state[k], state'[k])
         /\ Enrolled(case[k], case'[k])
         /\ case'[k] # case[k] => state'[k] # ""

\* A workflow is published: findings that nobody has decided, or that have
\* meanwhile disappeared from the source, enter it.
Publish ==
    /\ case' \in [Keys -> {"none", "active", "closed"}]
    /\ \A k \in Keys :
         /\ Enrolled(case[k], case'[k])
         /\ case'[k] # case[k] => state[k] \in Active \cup {"resolved_in_source"}
    /\ UNCHANGED state

\* A person moves a finding that has no case.
Dispose(k, to) ==
    /\ case[k] = "none"
    /\ \/ state[k] \in {"open", "reopened"} /\ to = "in_review"
       \/ state[k] = "in_review" /\ to \in Settled \cup {"suppressed"}
    /\ state' = Set(state, k, to)
    /\ UNCHANGED case

\* The last step of a case decides its finding, whatever became of it.
Close(k, resolution) ==
    /\ case[k] = "active" /\ state[k] # ""
    /\ case' = Set(case, k, "closed")
    /\ state' = Set(state, k, resolution)

\* A manager reopens a case, and with it the decision.
Reopen(k) ==
    /\ case[k] = "closed" /\ state[k] \in Settled
    /\ case' = Set(case, k, "active")
    /\ state' = Set(state, k, "in_review")

Next ==
    \/ Run
    \/ Publish
    \/ \E k \in Keys :
         \/ \E to \in States : Dispose(k, to)
         \/ \E resolution \in Settled : Close(k, resolution)
         \/ Reopen(k)

Spec == Init /\ [][Next]_life

=============================================================================
