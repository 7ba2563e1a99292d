SPECIFICATION Spec
CONSTANTS
  a1 = a1  a2 = a2  r1 = r1  r2 = r2  in1 = in1  in2 = in2
  NoRemote = NoRemote  NoAddress = NoAddress
  Addresses = {a1, a2}
  RemoteOf <- Distinct
  Callers = {in1, in2}
  Unreliable = {r1, r2, in1, in2}
  Chatty = {in1}
  Boot = {}
  Wanted = {a2}
  UserDials = {a1}
  MaxConnections = 1
  InboxCapacity = 1
  ConnBound = 2
INVARIANTS EntryHasReader SlotsAreCounted
CHECK_DEADLOCK FALSE
