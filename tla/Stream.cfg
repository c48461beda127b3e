SPECIFICATION FairSpec
CONSTANTS
  Tokens = {a, b}
  NoToken = NoToken
  Slots = {c1, c2}
  NoSlot = NoSlot
  InitialBackoff = 1
  MaxBackoff = 3
INVARIANTS StreamKept CaughtUp
PROPERTIES BackoffHolds StreamReturns
