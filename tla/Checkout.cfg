SPECIFICATION FairSpec
CONSTANTS
  Flows = {"page", "banner"}
  Purposes = {"upgrade", "switch"}
  Leaving = {"page"}
  Ticks = 1
INVARIANTS DoneMeansApplied TakenStays LinesKept
PROPERTIES PaidIsTold
