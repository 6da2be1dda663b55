SPECIFICATION Spec
CONSTANTS
  Keys = {k1}
  RuleOf <- EachItsRule
  Hashes = {h1, h2}
  NoHash = NoHash
  Users = {ana, ben}
  NoUser = NoUser
  UserRoles <- Team
  Drafts <- Submitted
  MaxTime = 1
  MaxRevision = 5
  MaxWorkflows = 1
  k1 = k1  k2 = k2  r1 = r1  r2 = r2  h1 = h1  h2 = h2
  ana = ana  ben = ben
INVARIANTS
  TypeOK
  ClosedIsSettled
  AssigneeCanWork
  StagedOnCommitted
  PublicationUndecided
PROPERTIES
  EveryChangeLogged
  RevisionsCoverChanges
  SuppressionHonoured
  RunsKeepDecisions
  NoBypass
  OnlyManagersReopen
  ImplementsLife
CHECK_DEADLOCK FALSE
