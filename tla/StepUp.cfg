SPECIFICATION Spec
CONSTANTS
  Acts = {a, b}
  a = a
  b = b
  MaxConfirms = 1
  Passkey = TRUE
  Links = TRUE
  Background = TRUE
  Elsewhere = TRUE
SYMMETRY Symmetry
INVARIANTS WaitersKept LockMeansAction
PROPERTIES ConfirmedMeansFresh AsksOnlyIfStale GenuineResumes
