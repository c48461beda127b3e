SPECIFICATION FairSpec
CONSTANTS
  t1 = t1
  t2 = t2
  s1 = s1
  s2 = s2
  ann = ann
  bob = bob
  Tabs = {t1, t2}
  Sessions = {s1}
  Users = {ann, bob}
  Owner <- MCOwner
  NoSession = NoSession
  NoTab = NoTab
  UseLock = TRUE
  MaxMessages = 2
  Activity <- Leaving
INVARIANTS TypeOK RevokedOnlyAfterLostAnswer
PROPERTIES AllAnswered EveryTurnComes
