--------------------------- MODULE MCAnalysisStudio ---------------------------
(***************************************************************************)
(* Instances of AnalysisStudio small enough for TLC.                       *)
(***************************************************************************)
EXTENDS AnalysisStudio, TLC

Text == [d \in Datasets |-> [c \in Columns |-> "string"]]

Alike == Permutations(Columns) \cup Permutations(Datasets) \cup Permutations(Ids)
         \cup Permutations(Loads)
=============================================================================
