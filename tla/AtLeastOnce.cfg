\* One replica and one message.
SPECIFICATION Spec
CONSTANTS
  p1 = p1
  p2 = p2
  q1 = q1
  NotJson = NotJson
  NullJson = NullJson
  NoReplica = NoReplica
  UuidV4 <- Uuids
  Replica = {p1}
  Post = {}
  Bodies <- OneBody
  MaxMessages = 2
  MaxBoots = 1
  MaxRevokes = 1
INVARIANTS AtLeastOnce
CHECK_DEADLOCK FALSE
