SPECIFICATION Spec
CONSTANTS
  t1 = t1
  t2 = t2
  s1 = s1
  s2 = s2
  ann = ann
  bob = bob
  Tabs = {t1, t2}
  Sessions = {s1, s2}
  Users = {ann, bob}
  Owner <- MCOwner
  NoSession = NoSession
  NoTab = NoTab
  UseLock = TRUE
  MaxMessages = 1
  Activity <- People
INVARIANT OwnData
PROPERTY AnnouncedOnlyWhenGone
