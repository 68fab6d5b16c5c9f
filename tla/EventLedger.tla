---------------------------- MODULE EventLedger ----------------------------
(***************************************************************************)
(* The consumption of device events as the rest of the system may think of *)
(* it: readers take the events of one log in its order, each when all      *)
(* before it are settled, and try to store it once; the group moves its    *)
(* offset forward only, and only past what is settled.  It does not        *)
(* promise that one reader works at a time, nor that a document is stored  *)
(* once: an event not yet committed may be taken again, and a reader that  *)
(* lost the partition may still store the event it holds.                  *)
(***************************************************************************)
EXTENDS Sequences, Naturals

CONSTANTS
  Reader,   \* who may read the log
  Payload,  \* the messages of the log
  Event,    \* those that are events, and are to be stored
  Offset    \* the places of the log

VARIABLES
  log,      \* the messages
  done,     \* the offset the group reads next, 0 if it never read
  missed,   \* the offsets it passed over before its first commit
  working,  \* the offset each reader is storing, or 0
  stored,   \* the documents stored for each offset
  errors    \* the offsets a reader failed to store

vars == <<log, done, missed, working, stored, errors>>

(* Nothing is left to do for this offset.                                  *)
Settled(n) == log[n] \notin Event \/ stored[n] > 0 \/ n \in errors \/ n \in missed

Init ==
  /\ log = <<>>
  /\ done = 0
  /\ missed = {}
  /\ working \in [Reader -> {0}]
  /\ stored \in [Offset -> {0}]
  /\ errors = {}

Produce(m) ==
  /\ log' = Append(log, m)
  /\ UNCHANGED <<done, missed, working, stored, errors>>

(* The group begins to read, or begins anew, as long as it has committed   *)
(* nothing: what the log holds by then is passed over, whether somebody    *)
(* held it before or not.                                                  *)
Begin ==
  /\ done = 0
  /\ missed' = missed \cup DOMAIN log
  /\ UNCHANGED <<log, done, working, stored, errors>>

Take(r, n) ==
  /\ working[r] = 0
  /\ n \in DOMAIN log /\ log[n] \in Event
  /\ n >= done /\ n \notin missed
  /\ \A k \in DOMAIN log : k < n => Settled(k)
  /\ working' = [working EXCEPT ![r] = n]
  /\ UNCHANGED <<log, done, missed, stored, errors>>

Store(n) == stored' = [stored EXCEPT ![n] = @ + 1]

(* The reader is done with the event it holds; an error may come before or *)
(* after the document was stored.                                          *)
Finish(r) ==
  /\ working[r] # 0
  /\ \/ Store(working[r]) /\ UNCHANGED errors
     \/ /\ Store(working[r]) \/ UNCHANGED stored
        /\ errors' = errors \cup {working[r]}
  /\ working' = [working EXCEPT ![r] = 0]
  /\ UNCHANGED <<log, done, missed>>

(* A reader dies.                                                          *)
Drop(r) ==
  /\ working' = [working EXCEPT ![r] = 0]
  /\ UNCHANGED <<log, done, missed, stored, errors>>

CommitTo(n) ==
  /\ n >= done /\ n > 0
  /\ \A k \in DOMAIN log : k < n => Settled(k)
  /\ \A k \in missed : k < n
  /\ done' = n
  /\ UNCHANGED <<log, missed, working, stored, errors>>

Next ==
  \/ \E m \in Payload : Produce(m)
  \/ Begin
  \/ \E r \in Reader : Finish(r) \/ Drop(r) \/ \E n \in Offset : Take(r, n)
  \/ \E n \in 1..(Len(log) + 1) : CommitTo(n)

Spec == Init /\ [][Next]_vars
=============================================================================
