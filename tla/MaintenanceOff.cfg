SPECIFICATION Spec
CONSTANTS
  Calls = {c1}
  MaxPeriods = 3
  MaxReloads = 0
PROPERTIES OffStands
