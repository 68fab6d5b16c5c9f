-------------------------- MODULE MCRequestMetrics --------------------------
(* Small instances of RequestMetrics.                                      *)
EXTENDS RequestMetrics

CONSTANTS r1, r2, r3

ByTurns == {Card, {"other"}}
Limits == {Junk, 0, 3}

(* A third request, one more than the largest answer holds, arrives only   *)
(* where the card does not poll: no answer affects a counter or a trace.   *)
ThirdApart == pc[r3] # "idle" => readers # Card

=============================================================================
