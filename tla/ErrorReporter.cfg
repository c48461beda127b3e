SPECIFICATION FairReporterSpec
CONSTANTS
  e1 = e1
  e2 = e2
  e3 = e3
  e4 = e4
  Errors = {e1, e2, e3, e4}
  Size <- Sizes
  Kind <- Kinds
  BufferLimit = 2
  FingerprintLimit = 1
  PageLimit = 2
  BatchSize = 2
  BatchMax = 3
  Quota = 4
  MaxEpoch = 1
  MaxHides = 1
INVARIANTS BytesKept TwiceAtMost OwnName
PROPERTIES EveryErrorGoes
CHECK_DEADLOCK FALSE
