SPECIFICATION FairSpec
CONSTANTS
  a1 = a1  a2 = a2  r1 = r1  r2 = r2  in1 = in1  in2 = in2
  NoRemote = NoRemote  NoAddress = NoAddress
  Addresses = {a1, a2}
  RemoteOf <- Distinct
  Callers = {}
  Unreliable = {r2}
  Chatty = {r2}
  Boot = {}
  Wanted = {a1, a2}
  UserDials = {}
  MaxConnections = 1
  InboxCapacity = 1
  ConnBound = 2
PROPERTIES DesiredStaysUp SlotsComeBack
CHECK_DEADLOCK FALSE
