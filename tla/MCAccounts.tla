------------------------------ MODULE MCAccounts ------------------------------
(***************************************************************************)
(* Instances of Accounts small enough for TLC.                             *)
(***************************************************************************)
EXTENDS Accounts, TLC

CONSTANTS p, q

Fill(roles, enabled, password) == [roles |-> roles, enabled |-> enabled, password |-> password]

\* An account is closed and its right taken away, or its password is reset.
CloseOrReset == { Fill({"auditor"}, FALSE, NoPassword), Fill({"admin"}, TRUE, q) }

Alike == Permutations(Names) \cup Permutations(Tabs) \cup Permutations(Browsers)
=============================================================================
