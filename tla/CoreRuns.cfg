SPECIFICATION Spec
CONSTANTS
  c1 = c1  f1 = f1  f2 = f2  Nobody = Nobody
  Clients = {c1}
  Friends = {f1, f2}
  MaxFriends = 2
  QueueCapacity = 1
  InboxCapacity = 1
  MaxCalls = 3
  MaxRuns = 2
  DiskMayFail = TRUE
INVARIANTS  ContactsAgree AnsweredEndIsSaved
PROPERTIES RequestsAreAnswered EveryCallEnds
CHECK_DEADLOCK FALSE
