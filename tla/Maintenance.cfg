SPECIFICATION FairSpec
CONSTANTS
  Calls = {c1}
  MaxPeriods = 3
  MaxReloads = 1
INVARIANTS NoticeKept NobodysPage
PROPERTIES HeaderStands FullEnds
