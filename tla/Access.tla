-------------------------------- MODULE Access --------------------------------
(***************************************************************************)
(* Roles and the operations they allow (auth.Allowed).  An account may     *)
(* have several roles; no role includes another, and "admin" in particular *)
(* allows nothing but administration.                                      *)
(***************************************************************************)

Roles == {"admin", "implementer", "rule_engineer", "auditor", "audit_manager"}

Manager == "audit_manager"
Auditors == {"auditor", Manager}
RuleWriters == {"rule_engineer", Manager}
Analysts == RuleWriters \cup {"implementer"}

\* The roles any one of which allows an operation.
RolesFor(operation) ==
    CASE operation = "workspace.read" -> Roles
      [] operation = "analytics.write" -> Analysts
      [] operation \in {"analytics.read", "analytics.test",
                        "cases.read", "cases.write"} -> Analysts \cup Auditors
      [] operation \in {"admin.read", "admin.write"} -> {"admin"}
      [] operation \in {"exceptions.read", "exceptions.write", "assurance.read"} -> Auditors
      [] operation = "runs.read" -> Auditors \cup {"implementer", "admin"}
      [] operation = "sources.read" -> {"implementer", Manager, "admin"}
      [] operation \in {"runs.write", "sources.write"} -> {"implementer"}
      [] operation \in {"rules.read", "rules.simulate"} -> Auditors \cup RuleWriters
      [] operation = "rules.write" -> RuleWriters
      [] operation = "parameters.read" -> Auditors \cup RuleWriters \cup {"admin"}
      [] operation = "parameters.write" -> RuleWriters \cup {"admin"}
      [] OTHER -> {}

\* Allowed, for an account that does not have to change its password first.
Allowed(roles, operation) == roles \cap RolesFor(operation) # {}

=============================================================================
