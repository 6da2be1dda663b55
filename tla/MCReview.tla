------------------------------- MODULE MCReview -------------------------------
(***************************************************************************)
(* Instances of Review small enough for TLC.                               *)
(***************************************************************************)
EXTENDS Review, TLC

CONSTANTS k1, k2, r1, r2, h1, h2, ana, ben

EachItsRule == [k \in Keys |-> IF k = k1 THEN r1 ELSE r2]

\* ben is ana's manager and an auditor himself: either can do an auditor's step.
Team == [u \in Users |-> IF u = ben THEN {"auditor", "audit_manager"} ELSE {"auditor"}]
Managers == [u \in Users |-> {"auditor", "audit_manager"}]

By(role) == [role |-> role, different |-> FALSE]
ByAnother(role) == [role |-> role, different |-> TRUE]

PrepareApprove == << By("auditor"), ByAnother("audit_manager") >>
FourEyes == << By("auditor"), ByAnother("auditor"), By("auditor") >>

\* Validate refuses the second and the third.
Submitted == { PrepareApprove, << By("auditor") >>, << ByAnother("auditor"), By("auditor") >> }
SubmittedFourEyes == { FourEyes }
=============================================================================
