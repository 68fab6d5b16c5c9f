\* One replica, started twice, with messages of every kind and an open exchange.
SPECIFICATION FairSpec
CONSTANTS
  p1 = p1
  p2 = p2
  q1 = q1
  NotJson = NotJson
  NullJson = NullJson
  NoReplica = NoReplica
  UuidV4 <- Uuids
  Replica = {p1}
  Post = {q1}
  Bodies <- AllBodies
  MaxMessages = 2
  MaxBoots = 2
  MaxRevokes = 0
INVARIANTS StoredAreListable
PROPERTIES EventsSettle ShutdownCompletes
CHECK_DEADLOCK FALSE
