SPECIFICATION Spec
CONSTANTS
  Keys = {k1}
  RuleOf <- EachItsRule
  Hashes = {h1, h2}
  NoHash = NoHash
  Users = {ana, ben}
  NoUser = NoUser
  UserRoles <- Team
  Drafts <- SubmittedFourEyes
  MaxTime = 0
  MaxRevision = 6
  MaxWorkflows = 1
  k1 = k1  k2 = k2  r1 = r1  r2 = r2  h1 = h1  h2 = h2
  ana = ana  ben = ben
INVARIANT SeparationOfDuties
CHECK_DEADLOCK FALSE
