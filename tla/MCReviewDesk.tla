----------------------------- MODULE MCReviewDesk -----------------------------
(***************************************************************************)
(* Instances of ReviewDesk small enough for TLC.                           *)
(***************************************************************************)
EXTENDS ReviewDesk, TLC

CONSTANTS k1, k2, r1, ana, ben

OneRule == [k \in Keys |-> r1]

\* ana is a manager and an auditor herself: either can do an auditor's step.
Team == [u \in Users |-> IF u = ana THEN {"auditor", "audit_manager"} ELSE {"auditor"}]

PrepareApprove == << [role |-> "auditor", different |-> FALSE],
                     [role |-> "audit_manager", different |-> TRUE] >>

Submitted == { PrepareApprove }

\* The trail and the history of the steps decide nothing and are in no property
\* of the desk: states that differ in them only are one state.
Staged(k) == [finding |-> staged[k].finding, case |-> staged[k].case]
WithoutHistory == <<finding, cases, workflows, publication, run,
                    [k \in DOMAIN staged |-> Staged(k)], now, desk>>
=============================================================================
