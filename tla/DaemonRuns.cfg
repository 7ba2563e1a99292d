SPECIFICATION Spec
CONSTANTS
  n1 = n1  n2 = n2  n3 = n3  k1 = k1  k2 = k2   r1 = r1  r2 = r2
  NoKey = NoKey  Free = Free  NoId = NoId
  Names = {n1, n2, n3}
  Keys = {k1, k2}
  Readers = {r1, r2}
  PinCapacity = 2
  Columns = {"kind", "group_id"}
  MaxRuns = 2
INVARIANTS OneIdentity StoreIsUsable Published WrittenTwice Bounded
CHECK_DEADLOCK FALSE
SYMMETRY Interchangeable
