-------------------------- MODULE MCHealthMonitor --------------------------
(* A small instance of HealthMonitor.                                      *)
EXTENDS HealthMonitor

(* One number that no interval may be, one too small, and one to type.     *)
Numbers == {0, 1, 2}
Defaults == [k \in Interval |-> IF k = "health" THEN 3 ELSE 4]

=============================================================================
