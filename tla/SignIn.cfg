SPECIFICATION FairSpec
CONSTANTS
  People = {ann, bob}
  Invitee = bob
  Nobody = Nobody
  MaxMessages = 1
INVARIANTS PromptsKept ClaimsFit
PROPERTIES SheetStands Followed
CHECK_DEADLOCK FALSE
