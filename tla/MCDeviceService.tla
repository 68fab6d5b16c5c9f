-------------------------- MODULE MCDeviceService --------------------------
(* Instances of DeviceService for TLC.                                     *)
EXTENDS DeviceService, TLC

CONSTANTS r1, r2, r3, d1, d2

(* Two names tell an update from the row it replaces; one type is enough.  *)
(* The third body is JSON but has an empty name.                           *)
Bodies == {[name |-> n, type |-> "sensor"] : n \in {"a", "b", ""}}

OneBody == {[name |-> "a", type |-> "sensor"]}

(* d1 was registered by an earlier process, d2 is free.                    *)
OneDevice == d1 :> [name |-> "a", type |-> "sensor"] @@ d2 :> NoRow

Symmetry == Permutations(Request)
=============================================================================
