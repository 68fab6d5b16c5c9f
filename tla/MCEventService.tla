--------------------------- MODULE MCEventService ---------------------------
(* Instances of EventService for TLC.                                      *)
EXTENDS EventService, TLC

CONSTANTS p1, p2, q1

Created == [type |-> "device.created", deviceId |-> "uuid", name |-> "a", timestamp |-> "t"]

(* The Go service accepts the name " ", which #validate refuses.  Another  *)
(* producer may send an id that is no UUID, which only createEvent refuses.*)
BlankName == [Created EXCEPT !.name = " "]
OddId == [Created EXCEPT !.deviceId = "42"]

(* What POST accepts and the consumer does not: another type, no timestamp.*)
OddType == [Created EXCEPT !.type = "device.moved", !.timestamp = ""]

OneBody == {Created}
AllBodies == {Created, BlankName, OddId, OddType}

Uuids == {"uuid"}

Symmetry == Permutations(Replica)
=============================================================================
