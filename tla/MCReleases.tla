------------------------------ MODULE MCReleases ------------------------------
(***************************************************************************)
(* An instance of Releases small enough for TLC: a workflow is edited in   *)
(* one browser at a time, and the names of its steps and its own name are  *)
(* those below and what can be typed instead.                              *)
(***************************************************************************)
EXTENDS Releases, TLC

CONSTANTS v1, v2, bad

Workflow(first, second, different) ==
    [name |-> "Review and approval",
     steps |-> << [name |-> first, different |-> different],
                  [name |-> second, different |-> TRUE] >>]

\* What is accepted; what is refused; and a workflow that is accepted, one that is
\* refused for its names and one for its first step.
GoodAndBad ==
    { v1, v2, bad, Workflow("Approve and close", "Review finding", FALSE),
      Workflow("Review finding", "Review finding", FALSE),
      Workflow("Review finding", "Approve and close", TRUE) }

OfEach == [s \in Panels \cup {"rule"} |-> IF s = "workflow" THEN 1 ELSE 2]

Alike == Permutations(Browsers) \cup Permutations(Calls) \cup Permutations({v1, v2})
=============================================================================
