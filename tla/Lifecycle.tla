------------------------------ MODULE Lifecycle ------------------------------
(***************************************************************************)
(* The decisions of package exceptions: which dispositions a person may    *)
(* give a finding (Transition) and what a completed run does to a finding  *)
(* it saw or did not see (Reconcile).  Both are pure; the modules that     *)
(* keep findings apply them under the finding's row lock.                  *)
(*                                                                         *)
(* Times are naturals; NoExpiry stands for a null suppression_until.  The  *)
(* state "" is the code's zero State: the finding has no row yet.          *)
(***************************************************************************)
EXTENDS Naturals

NoExpiry == 0

\* A finding somebody still has to look at.
Active == {"open", "in_review", "reopened"}

\* A finding a person has decided.
Settled == {"accepted", "dismissed"}

States == Active \cup Settled \cup {"suppressed", "resolved_in_source"}

\* Transition: the moves a person may make, and the expiry each one carries.
Transition(from, to, expiry, now) ==
    /\ \/ from \in {"open", "reopened"} /\ to = "in_review"
       \/ from = "in_review" /\ to \in Settled \cup {"suppressed"}
    /\ IF to = "suppressed" THEN expiry > now ELSE expiry = NoExpiry

\* Slip: the expiry is compared the wrong way round.
Unsuppress_NotExpired(changed, expiry, now) == changed \/ expiry > now

\* A suppression ends when the consumed evidence changes or its date passes.
Unsuppress(changed, expiry, now) == changed \/ expiry <= now

\* Reconcile for a finding that the tested population no longer contains.
ReconcileAbsent(prior) ==
    IF prior \in Active THEN "resolved_in_source" ELSE prior

\* Slip: changed evidence reopens what a person has decided.
ReconcilePresent_ReopensSettled(prior, changed, expiry, now) ==
    CASE prior = "" -> "open"
      [] prior = "suppressed" ->
            IF Unsuppress(changed, expiry, now) THEN "reopened" ELSE "suppressed"
      [] prior = "resolved_in_source" \/ (prior \in Settled /\ changed) -> "reopened"
      [] OTHER -> prior

\* Reconcile for a finding that the run flagged.
ReconcilePresent(prior, changed, expiry, now) ==
    CASE prior = "" -> "open"
      [] prior = "suppressed" ->
            IF Unsuppress(changed, expiry, now) THEN "reopened" ELSE "suppressed"
      [] prior = "resolved_in_source" -> "reopened"
      [] OTHER -> prior

=============================================================================
