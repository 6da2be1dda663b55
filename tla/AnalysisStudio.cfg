SPECIFICATION Spec
CONSTANTS
  Columns = {c1, c2}
  Types = {"string", "number"}
  Datasets = {d1}
  TypeOf <- Text
  Values = {v1}
  Graphs = {g1}
  Names = {"", "a"}
  Untitled = "a"
  Ids = {a1}
  CanSave = TRUE
  Loads = {l1, l2}
  None = None
  MaxInputs = 3
  MaxVersions = 3
SYMMETRY Alike
INVARIANTS
  TypeOK
  ReportIsCurrent
  SavedIsShown
  BuilderMatchesGraph
PROPERTIES
  VersionsContinue
  UnsavedRulesAsked
