SPECIFICATION DeskSpec
CONSTANTS
  Keys = {k1}
  RuleOf <- OneRule
  Hashes = {h1}
  NoHash = NoHash
  Users = {ana, ben}
  NoUser = NoUser
  UserRoles <- Team
  Drafts <- Submitted
  MaxTime = 1
  MaxRevision = 3
  MaxWorkflows = 1
  Me = ana
  None = None
  k1 = k1  k2 = k2  r1 = r1  h1 = h1  ana = ana  ben = ben
INVARIANTS
  DeskTypeOK
  CopiesAreHonest
  OfferedIsAllowed
PROPERTIES
  ActsOnWhatWasShown
VIEW WithoutHistory
