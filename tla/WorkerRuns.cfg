SPECIFICATION FairSpec
CONSTANTS
  EventCapacity = 1
  InboxCapacity = 1
  MaxRuns = 2
  MaxChanges = 2
  MaxRaised = 3
INVARIANTS EndIsSaved LossIsCounted
PROPERTIES CallsReturn IdentityStays
CHECK_DEADLOCK FALSE
