SPECIFICATION InboxSpec
CONSTANTS
  N = 2
  Cap = 1
  WriteKinds = {"read", "delete", "all"}
  MaxWrites = 2
  Sent = {2}
INVARIANTS InboxSettled EditsStand
PROPERTIES EditsCount
CHECK_DEADLOCK FALSE
