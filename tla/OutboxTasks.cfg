SPECIFICATION RunningSpec
CONSTANTS
  alice = alice  bob = bob  c1 = c1  c2 = c2
  NoName = NoName  Absent = Absent
  Names = {alice}
  Conns = {c1, c2}
  Faulty = {c1}
  MaxMsg = 2
  OutboxCapacity = 1
  QueueCapacity = 1
INVARIANTS NothingIsLost StoredOnce
PROPERTIES KeepsPromise WaitingIsShort
CHECK_DEADLOCK FALSE
