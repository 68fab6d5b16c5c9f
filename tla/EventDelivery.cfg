\* Two replicas share the group; a replica may be started again.
\* Nothing is posted, and a consumer skips "null" and what is no JSON alike: one of
\* them is enough.
SPECIFICATION Spec
CONSTANTS
  p1 = p1
  p2 = p2
  q1 = q1
  NotJson = NotJson
  NullJson = NotJson
  NoReplica = NoReplica
  UuidV4 <- Uuids
  Replica = {p1, p2}
  Post = {}
  Bodies <- OneBody
  MaxMessages = 2
  MaxBoots = 2
  MaxRevokes = 1
SYMMETRY Symmetry
INVARIANTS TypeOK NothingLostSilently DuplicatesNeedRedelivery
PROPERTY ImplementsLedger
CHECK_DEADLOCK FALSE
