SPECIFICATION Spec
CONSTANTS
  Keys = {k1, k2}
  RuleOf <- EachItsRule
  Hashes = {h1, h2}
  NoHash = NoHash
  Users = {ben}
  NoUser = NoUser
  UserRoles <- Managers
  Drafts <- Submitted
  MaxTime = 1
  MaxRevision = 3
  MaxWorkflows = 0
  k1 = k1  k2 = k2  r1 = r1  r2 = r2  h1 = h1  h2 = h2
  ana = ana  ben = ben
PROPERTIES
  RunsAccountForScope
CHECK_DEADLOCK FALSE
