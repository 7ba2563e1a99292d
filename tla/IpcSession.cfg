SPECIFICATION Spec
CONSTANTS
  home = home  other = other  None = None
  MaxRequests = 2
  Addresses = {home, other}
  Home = home
  OutboxCapacity = 1
  UpCapacity = 1
  RequestCapacity = 1
  DownCapacity = 1
  EventCapacity = 1
  Rate = 1
  Burst = 1
  IdleTime = 1
  TableCapacity = 1
  Strikes = 2
  MaxEvents = 1
  MaxClock = 1
  MaxSessions = 2
  MaxElsewhere = 1
INVARIANTS RepliesMatch ServedWithinBudget
PROPERTIES EndsAreNoticed
CHECK_DEADLOCK FALSE
