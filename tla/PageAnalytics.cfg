SPECIFICATION FairSpec
CONSTANTS
  Tenants = {t1, t2}
  People = {ann, bob}
  Nobody = Nobody
  NoTenant = NoTenant
  Home = Home
  Link = Link
  Nowhere = Nowhere
  MaxNavs = 3
  MaxSwitches = 1
INVARIANTS PageGrouped PageFlagged
PROPERTY ViewsGo
CHECK_DEADLOCK FALSE
