----------------------------- MODULE MCSession -----------------------------
(* Small instances of Session.                                             *)
EXTENDS Session

CONSTANTS b1, b2, t1, t2

=============================================================================
