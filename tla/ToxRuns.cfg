SPECIFICATION QueueSpec
CONSTANTS
  bob = bob  carol = carol
  Nobody = Nobody
  Friends = {bob}
  Saved = {}
  MaxMsg = 2
  MaxStarts = 2
  OutboxCapacity = 2
  RequestCapacity = 1
  CallbackCapacity = 1
  Requesters = {bob}
  DiskMayFail = TRUE
INVARIANTS FlushedInOrder 
 
CHECK_DEADLOCK FALSE
