SPECIFICATION Spec
CONSTANTS
  Browsers = {b1, b2}
  None = None
  Sections = {"workspace", "policy", "rule", "workflow"}
  Values = {v1, v2, bad}
  Passing = {v1, v2}
  Titles = {"Review and approval", " "}
  Names = {"", "Review finding", "Approve and close"}
  Fit = {"Review and approval", "Review finding", "Approve and close"}
  MaxSteps = 3
  Programmed <- GoodAndBad
  Calls = {c1, c2}
  MaxSaves <- OfEach
  MaxOpen <- OfEach
  MaxSent <- OfEach
  v1 = v1  v2 = v2  bad = bad
SYMMETRY Alike
INVARIANTS
  TypeOK
  StoredIsAcceptable
  RefusedForNamesOnly
PROPERTIES
  OneAfterTheOther
  ChangesShownAreMade
