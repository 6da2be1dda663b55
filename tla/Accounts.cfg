SPECIFICATION Spec
CONSTANTS
  Names = {ana, ben}
  Passwords = {p, q}
  First = p
  NoPassword = NoPassword
  Changes <- CloseOrReset
  Tabs = {t1, t2}
  Browsers = {b1, b2}
  None = None
  MaxVersions = 4
  MaxSessions = 2
  p = p  q = q
SYMMETRY Alike
INVARIANTS
  TypeOK
  AdminRemains
  SessionsProveAccess
  ActsAsShown
PROPERTIES
  ResetsStand
  SavesReplaceTheirBase
