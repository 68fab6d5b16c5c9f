------------------------- MODULE EventServiceProofs -------------------------
(***************************************************************************)
(* TypeOK and NothingLostSilently hold in every reachable state of the     *)
(* event service, for any number of replicas, messages and exchanges.      *)
(*                                                                         *)
(* NothingLostSilently is not inductive: a commit copies the position of   *)
(* the owner, so everything below the position must be settled (ReadOK);   *)
(* and a handler that returns moves the position past the message it held, *)
(* so that message must be the one at the position (HandOK).               *)
(*                                                                         *)
(* The service implements EventLedger.  That needs the order of the        *)
(* offsets besides: what was passed over lies before what was committed,   *)
(* and both before what an owner reads (LedgerInv).                        *)
(***************************************************************************)
EXTENDS EventService, FiniteSetTheorems, TLAPS

(* A handler whose assignment still holds works on the message its owner   *)
(* reads next.                                                             *)
HandOK ==
  \A p \in Replica :
    (hand[p] # 0 /\ ~fenced[p]) => owner = p /\ hand[p] = position[p]

(* What the owner has read is settled, committed or not.                   *)
ReadOK ==
  \A p \in Replica : owner = p =>
    \A n \in DOMAIN topic : n < position[p] => Settled(n)

DeliveryInv == TypeOK /\ HandOK /\ NothingLostSilently /\ ReadOK

-----------------------------------------------------------------------------
LEMMA InitDelivery == Init => DeliveryInv
<1> SUFFICES ASSUME Init PROVE DeliveryInv
  OBVIOUS
<1> USE ConstantsAssumption DEF Init
<1>1. TypeOK
  BY DEF TypeOK, Offset, NoPost, Exchange, PostRecord, Payload
<1>2. HandOK /\ NothingLostSilently /\ ReadOK
  BY DEF HandOK, NothingLostSilently, ReadOK
<1>3. QED
  BY <1>1, <1>2 DEF DeliveryInv

LEMMA ExchangeTyped ==
  ASSUME NEW step \in {"idle", "body", "save", "done", "lost"},
         NEW at \in Replica \cup {NoReplica}, NEW body \in Payload,
         NEW status \in {0, 201, 400, 500}, NEW docs \in {0, 1}
  PROVE  Exchange(step, at, body, status, docs) \in PostRecord
BY DEF Exchange, PostRecord

LEMMA PostTyped ==
  ASSUME TypeOK, NEW q \in Post
  PROVE  post[q].at \in Replica \cup {NoReplica} /\ post[q].body \in Payload
BY DEF TypeOK, PostRecord

(* Settling is for good.                                                   *)
LEMMA SettledKept ==
  ASSUME TypeOK, NEW n \in DOMAIN topic, Settled(n),
         topic'[n] = topic[n],
         \A k \in Offset : copies'[k] \in Nat /\ copies'[k] >= copies[k],
         failed \subseteq failed', skipped \subseteq skipped'
  PROVE  Settled(n)'
<1>1. n \in Offset
  BY ConstantsAssumption DEF TypeOK, Offset
<1>2. copies[n] \in Nat
  BY <1>1 DEF TypeOK
<1>3. ASSUME Stored(n) PROVE Stored(n)'
  <2>1. copies'[n] \in Nat /\ copies'[n] >= copies[n]
    BY <1>1
  <2>2. copies[n] > 0
    BY <1>3 DEF Stored
  <2>3. copies'[n] > 0
    BY <1>2, <2>1, <2>2
  <2>4. QED
    BY <2>3 DEF Stored
<1>4. QED
  BY <1>3 DEF Settled

(* A step that commits nothing, reads nothing and makes nobody owner.      *)
LEMMA Undisturbed ==
  ASSUME DeliveryInv,
         topic' = topic, committed' = committed,
         \A k \in Offset : copies'[k] \in Nat /\ copies'[k] >= copies[k],
         failed \subseteq failed', skipped \subseteq skipped',
         \A p \in Replica : owner' = p => owner = p /\ position'[p] = position[p]
  PROVE  NothingLostSilently' /\ ReadOK'
<1> USE DEF DeliveryInv
<1>1. \A n \in DOMAIN topic : Settled(n) => Settled(n)'
  BY SettledKept
<1>2. NothingLostSilently'
  BY <1>1 DEF NothingLostSilently
<1>3. ReadOK'
  BY <1>1 DEF ReadOK
<1>4. QED
  BY <1>2, <1>3

LEMMA UnchangedCopies ==
  ASSUME TypeOK, copies' = copies
  PROVE  \A k \in Offset : copies'[k] \in Nat /\ copies'[k] >= copies[k]
BY DEF TypeOK

-----------------------------------------------------------------------------
LEMMA ProduceDelivery ==
  ASSUME DeliveryInv, NEW m \in Payload, Produce(m)
  PROVE  DeliveryInv'
<1> USE DEF DeliveryInv, Produce, groupVars, processVars, consumerVars, storeVars
<1>1. topic' \in Seq(Payload) /\ Len(topic') = Len(topic) + 1
  BY DEF TypeOK
<1>2. \A n \in DOMAIN topic : topic'[n] = topic[n]
  BY DEF TypeOK
<1>3. Len(topic) \in Nat /\ DOMAIN topic = 1..Len(topic) /\ DOMAIN topic' = 1..(Len(topic) + 1)
  BY <1>1 DEF TypeOK
<1>4. TypeOK'
  <2>1. topic' \in Seq(Payload) /\ Len(topic') <= MaxMessages
    BY <1>1, <1>3, ConstantsAssumption
  <2>2. committed' \in 0..(Len(topic') + 1)
    BY <1>1, <1>3 DEF TypeOK
  <2>3. position' \in [Replica -> 1..(Len(topic') + 1)]
    BY <1>1, <1>3 DEF TypeOK
  <2>4. hand' \in [Replica -> 0..Len(topic')]
    BY <1>1, <1>3 DEF TypeOK
  <2>5. QED
    BY <2>1, <2>2, <2>3, <2>4 DEF TypeOK
<1>5. HandOK'
  BY DEF HandOK
<1>6. \A n \in DOMAIN topic : Settled(n) => Settled(n)'
  BY <1>2, SettledKept, UnchangedCopies
<1>7. NothingLostSilently'
  <2>1. \A n \in DOMAIN topic' : n < committed => n \in DOMAIN topic
    BY <1>3 DEF TypeOK
  <2>2. QED
    BY <2>1, <1>6 DEF NothingLostSilently
<1>8. ReadOK'
  <2>1. \A p \in Replica : \A n \in DOMAIN topic' : n < position[p] => n \in DOMAIN topic
    BY <1>3 DEF TypeOK
  <2>2. QED
    BY <2>1, <1>6 DEF ReadOK
<1>9. QED
  BY <1>4, <1>5, <1>7, <1>8

(* The steps of a process that touch neither the group nor its handler.    *)
LEMMA LifeDelivery ==
  ASSUME DeliveryInv, NEW p \in Replica,
         Boot(p) \/ Start(p) \/ StartFails(p) \/ Signal(p) \/ SignalAgain(p) \/ CloseMongo(p)
  PROVE  DeliveryInv'
<1> USE DEF DeliveryInv, Boot, Start, StartFails, Signal, SignalAgain, CloseMongo,
            groupVars, processVars, consumerVars, storeVars
<1>1. TypeOK'
  <2>1. life' \in [Replica -> {"down", "starting", "serving", "stopping", "closed"}]
    BY DEF TypeOK
  <2>2. boots' \in [Replica -> Nat]
    <3>1. boots \in [Replica -> Nat]
      BY DEF TypeOK
    <3>2. boots' = boots \/ boots' = [boots EXCEPT ![p] = @ + 1]
      OBVIOUS
    <3>3. QED
      BY ONLY <3>1, <3>2, p \in Replica
  <2>3. consumer' \in [Replica -> {"none", "running", "left"}]
    BY DEF TypeOK
  <2>4. QED
    BY <2>1, <2>2, <2>3 DEF TypeOK
<1>2. HandOK'
  BY DEF HandOK
<1>3. NothingLostSilently' /\ ReadOK'
  BY Undisturbed, UnchangedCopies
<1>4. QED
  BY <1>1, <1>2, <1>3

-----------------------------------------------------------------------------
(* The consumer group.                                                     *)

LEMMA AssignDelivery ==
  ASSUME DeliveryInv, NEW p \in Replica, Assign(p)
  PROVE  DeliveryInv'
<1> USE DEF DeliveryInv, Assign, processVars
<1> USE ConstantsAssumption
<1>1. Len(topic) \in Nat /\ DOMAIN topic = 1..Len(topic) /\ DOMAIN topic \subseteq Offset
  BY DEF TypeOK, Offset
<1>2. position'[p] \in 1..(Len(topic) + 1)
  BY <1>1 DEF TypeOK
<1>3. skipped' \in SUBSET Offset
  BY <1>1 DEF TypeOK
<1>4. TypeOK'
  BY <1>2, <1>3 DEF TypeOK
<1>5. HandOK'
  BY DEF HandOK, TypeOK
<1>6. skipped \subseteq skipped'
  OBVIOUS
<1>7. \A n \in DOMAIN topic : Settled(n) => Settled(n)'
  BY <1>6, SettledKept, UnchangedCopies
<1>8. NothingLostSilently'
  BY <1>7 DEF NothingLostSilently
<1>9. ReadOK'
  <2> SUFFICES ASSUME NEW n \in DOMAIN topic, n < position'[p]
               PROVE  Settled(n)'
    BY DEF ReadOK
  <2>1. CASE committed = 0
    BY <2>1 DEF Settled
  <2>2. CASE committed # 0
    BY <2>2, <1>7 DEF NothingLostSilently, TypeOK
  <2>3. QED
    BY <2>1, <2>2
<1>10. QED
  BY <1>4, <1>5, <1>8, <1>9

LEMMA RevokeDelivery ==
  ASSUME DeliveryInv, NEW p \in Replica, Revoke(p)
  PROVE  DeliveryInv'
<1> USE DEF DeliveryInv, Revoke, Release, processVars, storeVars
<1>1. TypeOK'
  BY DEF TypeOK
<1>2. HandOK'
  BY DEF HandOK, TypeOK
<1>3. NothingLostSilently' /\ ReadOK'
  BY Undisturbed, UnchangedCopies, ConstantsAssumption
<1>4. QED
  BY <1>1, <1>2, <1>3

LEMMA AutoCommitDelivery ==
  ASSUME DeliveryInv, NEW p \in Replica, AutoCommit(p)
  PROVE  DeliveryInv'
<1> USE DEF DeliveryInv, AutoCommit, processVars, consumerVars, storeVars
<1>1. committed' \in 0..(Len(topic) + 1)
  BY DEF TypeOK
<1>2. TypeOK'
  BY <1>1 DEF TypeOK
<1>3. HandOK'
  BY DEF HandOK
<1>4. \A n \in DOMAIN topic : Settled(n) => Settled(n)'
  BY SettledKept, UnchangedCopies
<1>5. NothingLostSilently'
  BY <1>4 DEF ReadOK, NothingLostSilently
<1>6. ReadOK'
  BY <1>4 DEF ReadOK
<1>7. QED
  BY <1>2, <1>3, <1>5, <1>6

-----------------------------------------------------------------------------
(* The handler.                                                            *)

(* A replica that has processed the message at its position.               *)
LEMMA PositionTyped ==
  ASSUME TypeOK, NEW p \in Replica, position[p] <= Len(topic), Processed(p)
  PROVE  /\ position' \in [Replica -> 1..(Len(topic) + 1)]
         /\ processed' \in [Replica -> BOOLEAN]
<1>1. Len(topic) \in Nat
  BY DEF TypeOK
<1>2. position[p] + 1 \in 1..(Len(topic) + 1)
  BY <1>1 DEF TypeOK
<1>3. QED
  BY <1>2 DEF TypeOK, Processed

LEMMA ReadFurther ==
  ASSUME DeliveryInv, NEW p \in Replica, Processed(p), owner = p,
         NEW k \in DOMAIN topic, position[p] = k, Settled(k)',
         UNCHANGED <<topic, groupVars>>,
         \A n \in Offset : copies'[n] \in Nat /\ copies'[n] >= copies[n],
         failed \subseteq failed', skipped \subseteq skipped'
  PROVE  NothingLostSilently' /\ ReadOK'
<1> USE DEF DeliveryInv, groupVars
<1>1. \A n \in DOMAIN topic : Settled(n) => Settled(n)'
  BY SettledKept
<1>2. NothingLostSilently'
  BY <1>1 DEF NothingLostSilently
<1>3. ReadOK'
  <2> SUFFICES ASSUME NEW n \in DOMAIN topic, n < position'[p]
               PROVE  Settled(n)'
    BY DEF ReadOK
  <2>1. n < position[p] \/ n = k
    BY DEF Processed, TypeOK
  <2>2. CASE n < position[p]
    BY <2>2, <1>1 DEF ReadOK
  <2>3. CASE n = k
    BY <2>3
  <2>4. QED
    BY <2>1, <2>2, <2>3
<1>4. QED
  BY <1>2, <1>3

LEMMA DiscardDelivery ==
  ASSUME DeliveryInv, NEW p \in Replica, Discard(p)
  PROVE  DeliveryInv'
<1> USE DEF DeliveryInv, Discard, CanRead, processVars, storeVars
<1>1. Len(topic) \in Nat /\ DOMAIN topic = 1..Len(topic) /\ position[p] \in DOMAIN topic
  BY DEF TypeOK
<1>2. TypeOK'
  BY PositionTyped DEF TypeOK, groupVars
<1>3. HandOK'
  BY DEF HandOK, Processed, TypeOK, groupVars
<1>4. PICK k \in DOMAIN topic : position[p] = k
  BY <1>1
<1>5. Settled(k)'
  BY <1>4 DEF Settled
<1>6. NothingLostSilently' /\ ReadOK'
  BY <1>4, <1>5, ReadFurther, UnchangedCopies
<1>7. QED
  BY <1>2, <1>3, <1>6

LEMMA TakeDelivery ==
  ASSUME DeliveryInv, NEW p \in Replica, Take(p)
  PROVE  DeliveryInv'
<1> USE DEF DeliveryInv, Take, CanRead, groupVars, processVars, storeVars
<1>1. position[p] \in 0..Len(topic)
  BY DEF TypeOK
<1>2. TypeOK'
  BY <1>1 DEF TypeOK
<1>3. HandOK'
  BY DEF HandOK, TypeOK
<1>4. NothingLostSilently' /\ ReadOK'
  BY Undisturbed, UnchangedCopies
<1>5. QED
  BY <1>2, <1>3, <1>4

(* A handler returns, with its message stored or its save failed.          *)
LEMMA ReturnDelivery ==
  ASSUME DeliveryInv, NEW p \in Replica, hand[p] # 0, Return(p),
         copies' \in [Offset -> Nat], failed' \in SUBSET Offset,
         \A k \in Offset : copies'[k] >= copies[k],
         failed \subseteq failed',
         copies'[hand[p]] > 0 \/ hand[p] \in failed'
  PROVE  DeliveryInv'
<1> USE DEF DeliveryInv, Return
<1>1. Len(topic) \in Nat /\ DOMAIN topic = 1..Len(topic)
  BY DEF TypeOK
<1>2. PICK k \in DOMAIN topic : hand[p] = k
  BY <1>1 DEF TypeOK
<1>3. Settled(k)'
  BY <1>2 DEF Settled, Stored
<1>4. \A j \in Offset : copies'[j] \in Nat /\ copies'[j] >= copies[j]
  OBVIOUS
<1>5. hand' \in [Replica -> 0..Len(topic)]
  BY <1>1 DEF TypeOK
<1>6. CASE fenced[p]
  <2>1. TypeOK'
    BY <1>5, <1>6 DEF TypeOK, groupVars, processVars
  <2>2. HandOK'
    BY <1>6 DEF HandOK, TypeOK, groupVars
  <2>3. NothingLostSilently' /\ ReadOK'
    BY <1>4, <1>6, Undisturbed DEF groupVars
  <2>4. QED
    BY <2>1, <2>2, <2>3
<1>7. CASE ~fenced[p]
  <2>1. owner = p /\ hand[p] = position[p]
    BY <1>7 DEF HandOK
  <2>2. Processed(p)
    BY <1>7
  <2>3. TypeOK'
    BY <1>1, <1>2, <1>5, <2>1, <2>2, PositionTyped, SMTT(30) DEF TypeOK, groupVars, processVars
  <2>4. HandOK'
    BY <2>1, <2>2 DEF HandOK, Processed, TypeOK, groupVars
  <2>5. NothingLostSilently' /\ ReadOK'
    BY <1>2, <1>3, <1>4, <2>1, <2>2, ReadFurther
  <2>6. QED
    BY <2>3, <2>4, <2>5
<1>8. QED
  BY <1>6, <1>7

LEMMA StoreCounts ==
  ASSUME TypeOK, NEW n \in Offset, Store(n)
  PROVE  /\ copies' \in [Offset -> Nat]
         /\ \A k \in Offset : copies'[k] >= copies[k]
         /\ copies'[n] > 0
BY DEF TypeOK, Store

LEMMA HandInOffset ==
  ASSUME TypeOK, NEW p \in Replica, hand[p] # 0
  PROVE  hand[p] \in Offset
BY ConstantsAssumption DEF TypeOK, Offset

LEMMA FinishDelivery ==
  ASSUME DeliveryInv, NEW p \in Replica, Finish(p)
  PROVE  DeliveryInv'
<1> USE DEF DeliveryInv
<1>1. CASE Saved(p)
  <2>1. failed' \in SUBSET Offset /\ failed \subseteq failed'
    BY <1>1 DEF Saved, TypeOK
  <2>2. QED
    BY <1>1, <2>1, HandInOffset, StoreCounts, ReturnDelivery DEF Saved
<1>2. ASSUME NEW stored \in BOOLEAN, SaveFails(p, stored) PROVE DeliveryInv'
  <2> USE <1>2 DEF SaveFails
  <2>1. hand[p] \in Offset
    BY HandInOffset
  <2>2. failed' \in SUBSET Offset /\ failed \subseteq failed' /\ hand[p] \in failed'
    BY <2>1 DEF TypeOK
  <2>3. copies' \in [Offset -> Nat] /\ \A k \in Offset : copies'[k] >= copies[k]
    <3>1. CASE stored
      BY <3>1, <2>1, StoreCounts
    <3>2. CASE ~stored
      BY <3>2 DEF TypeOK
    <3>3. QED
      BY <3>1, <3>2
  <2>4. QED
    BY <2>2, <2>3, ReturnDelivery
<1>3. QED
  BY <1>1, <1>2 DEF Finish

-----------------------------------------------------------------------------
(* Exchanges.                                                              *)

LEMMA PostStepDelivery ==
  ASSUME DeliveryInv, post' \in [Post -> PostRecord],
         UNCHANGED <<topic, groupVars, processVars, consumerVars, storeVars>>
  PROVE  DeliveryInv'
<1> USE DEF DeliveryInv, groupVars, processVars, consumerVars, storeVars
<1>1. TypeOK'
  BY DEF TypeOK
<1>2. HandOK'
  BY DEF HandOK
<1>3. NothingLostSilently' /\ ReadOK'
  BY Undisturbed, UnchangedCopies
<1>4. QED
  BY <1>1, <1>2, <1>3

LEMMA PostUpdated ==
  ASSUME TypeOK, NEW q \in Post, NEW e \in PostRecord, post' = [post EXCEPT ![q] = e]
  PROVE  post' \in [Post -> PostRecord]
BY DEF TypeOK

LEMMA AnswerTyped ==
  ASSUME TypeOK, NEW q \in Post, NEW code \in {0, 201, 400, 500}, NEW docs \in {0, 1},
         Answer(q, code, docs)
  PROVE  post' \in [Post -> PostRecord]
<1>1. Exchange("done", post[q].at, post[q].body, code, docs) \in PostRecord
  BY PostTyped, ExchangeTyped
<1>2. QED
  BY <1>1, PostUpdated DEF Answer

LEMMA PostDelivery ==
  ASSUME DeliveryInv, NEW q \in Post,
         PostStep(q) \/ \E p \in Replica : Request(q, p)
  PROVE  DeliveryInv'
<1> USE DEF DeliveryInv
<1>1. CASE RejectBody(q)
  BY <1>1, AnswerTyped, PostStepDelivery DEF RejectBody
<1>2. ASSUME NEW m \in Payload, RejectEvent(q, m) PROVE DeliveryInv'
  <2>1. PICK code \in {400, 500} : Answer(q, code, 0)
    BY <1>2 DEF RejectEvent
  <2>2. QED
    BY <1>2, <2>1, AnswerTyped, PostStepDelivery DEF RejectEvent
<1>3. ASSUME NEW m \in Payload, LogEvent(q, m) PROVE DeliveryInv'
  <2>1. Exchange("save", post[q].at, m, 0, 0) \in PostRecord
    BY PostTyped, ExchangeTyped
  <2>2. QED
    BY <1>3, <2>1, PostUpdated, PostStepDelivery DEF LogEvent
<1>4. CASE PostSaved(q)
  BY <1>4, AnswerTyped, PostStepDelivery DEF PostSaved
<1>5. ASSUME NEW stored \in BOOLEAN, PostFails(q, stored) PROVE DeliveryInv'
  <2>1. (IF stored THEN 1 ELSE 0) \in {0, 1}
    OBVIOUS
  <2>2. QED
    BY <1>5, <2>1, AnswerTyped, PostStepDelivery DEF PostFails
<1>6. ASSUME NEW p \in Replica, Request(q, p) PROVE DeliveryInv'
  <2>1. Exchange("body", p, NotJson, 0, 0) \in PostRecord
    BY ExchangeTyped DEF Payload
  <2>2. QED
    BY <1>6, <2>1, PostUpdated, PostStepDelivery DEF Request
<1>7. QED
  BY <1>1, <1>2, <1>3, <1>4, <1>5, <1>6 DEF PostStep, PostFinish

-----------------------------------------------------------------------------
(* The end of a consumer and of a process.                                 *)

LEMMA DisconnectDelivery ==
  ASSUME DeliveryInv, NEW p \in Replica, Disconnect(p)
  PROVE  DeliveryInv'
<1> USE DEF DeliveryInv, Disconnect, Release, processVars, storeVars
<1>1. committed' \in 0..(Len(topic) + 1)
  BY DEF TypeOK
<1>2. TypeOK'
  BY <1>1 DEF TypeOK
<1>3. HandOK'
  BY DEF HandOK, TypeOK
<1>4. \A n \in DOMAIN topic : Settled(n) => Settled(n)'
  BY SettledKept, UnchangedCopies
<1>5. NothingLostSilently'
  BY <1>4 DEF ReadOK, NothingLostSilently
<1>6. ReadOK'
  BY <1>4, ConstantsAssumption DEF ReadOK
<1>7. QED
  BY <1>2, <1>3, <1>5, <1>6

LEMMA DisconnectFailsDelivery ==
  ASSUME DeliveryInv, NEW p \in Replica, DisconnectFails(p)
  PROVE  DeliveryInv'
<1> USE DEF DeliveryInv, DisconnectFails, Release, processVars, storeVars
<1>1. TypeOK'
  BY DEF TypeOK
<1>2. HandOK'
  BY DEF HandOK, TypeOK
<1>3. NothingLostSilently' /\ ReadOK'
  BY Undisturbed, UnchangedCopies, ConstantsAssumption
<1>4. QED
  BY <1>1, <1>2, <1>3

LEMMA GoneDelivery ==
  ASSUME DeliveryInv, NEW p \in Replica, Gone(p)
  PROVE  DeliveryInv'
<1> USE DEF DeliveryInv, Gone, Release, storeVars
<1>1. post' \in [Post -> PostRecord]
  <2>1. PICK stored \in SUBSET {q \in Post : Open(q, p) /\ post[q].step = "save"} :
          post' = [q \in Post |->
            IF Open(q, p)
            THEN Exchange("lost", p, post[q].body, 0, IF q \in stored THEN 1 ELSE 0)
            ELSE post[q]]
    BY Zenon
  <2>2. \A q \in Post : (IF q \in stored THEN 1 ELSE 0) \in {0, 1}
    OBVIOUS
  <2>3. \A q \in Post :
          Exchange("lost", p, post[q].body, 0, IF q \in stored THEN 1 ELSE 0) \in PostRecord
    BY <2>2, PostTyped, ExchangeTyped
  <2>4. QED
    BY <2>1, <2>3 DEF TypeOK
<1>2. TypeOK'
  BY <1>1 DEF TypeOK
<1>3. HandOK'
  BY DEF HandOK, TypeOK
<1>4. NothingLostSilently' /\ ReadOK'
  BY Undisturbed, UnchangedCopies, ConstantsAssumption
<1>5. QED
  BY <1>2, <1>3, <1>4

-----------------------------------------------------------------------------
LEMMA StepDelivery ==
  ASSUME DeliveryInv, [Next]_vars
  PROVE  DeliveryInv'
<1>1. ASSUME NEW m \in Payload, Produce(m) PROVE DeliveryInv'
  BY <1>1, ProduceDelivery
<1>2. ASSUME NEW p \in Replica, Group(p) PROVE DeliveryInv'
  BY <1>2, AssignDelivery, RevokeDelivery, AutoCommitDelivery DEF Group
<1>3. ASSUME NEW p \in Replica, Consume(p) PROVE DeliveryInv'
  BY <1>3, DiscardDelivery, TakeDelivery, FinishDelivery DEF Consume
<1>4. ASSUME NEW p \in Replica, Shutdown(p) \/ Crash(p) PROVE DeliveryInv'
  BY <1>4, DisconnectDelivery, DisconnectFailsDelivery, LifeDelivery, GoneDelivery
     DEF Shutdown, Exit, Crash
<1>5. ASSUME NEW p \in Replica,
             Boot(p) \/ Start(p) \/ StartFails(p) \/ Signal(p) \/ SignalAgain(p)
      PROVE  DeliveryInv'
  BY <1>5, LifeDelivery
<1>6. ASSUME NEW q \in Post, PostStep(q) \/ \E p \in Replica : Request(q, p)
      PROVE  DeliveryInv'
  BY <1>6, PostDelivery
<1>7. ASSUME UNCHANGED vars PROVE DeliveryInv'
  <2>1. post' \in [Post -> PostRecord]
    BY <1>7 DEF DeliveryInv, TypeOK, vars
  <2>2. QED
    BY <1>7, <2>1, PostStepDelivery DEF vars
<1>8. QED
  BY <1>1, <1>2, <1>3, <1>4, <1>5, <1>6, <1>7 DEF Next

LEMMA DeliveryInvariant == Spec => []DeliveryInv
<1>1. DeliveryInv /\ [Next]_vars => DeliveryInv'
  BY StepDelivery
<1>2. QED
  BY InitDelivery, <1>1, PTL DEF Spec

(* The event service is well typed: no offset that is committed, held or   *)
(* read lies beyond the end of the topic (kafka-event-consumer.js).        *)
THEOREM EventTypesCorrect == Spec => []TypeOK
<1>1. DeliveryInv => TypeOK
  BY DEF DeliveryInv
<1>2. QED
  BY DeliveryInvariant, <1>1, PTL

(* However replicas crash, rebalance and shut down, a committed event is   *)
(* stored, unless a save of it raised an error (handleMessage awaits the   *)
(* save and swallows its error) or an assignment passed over it before the *)
(* group's first commit (fromBeginning: false). So from that commit on,    *)
(* what a crash or a rebalance interrupts is not lost; until then it can   *)
(* be, also an event that was in hand.                                     *)
THEOREM CommittedEventsSettled == Spec => []NothingLostSilently
<1>1. DeliveryInv => NothingLostSilently
  BY DEF DeliveryInv
<1>2. QED
  BY DeliveryInvariant, <1>1, PTL

-----------------------------------------------------------------------------
(* DuplicatesNeedRedelivery.  Each assignment delivers an offset at most   *)
(* once, so the copies made, the handlers that hold the offset and the     *)
(* owner that has yet to read it are together no more than the assignments.*)

Holders(n) == {p \in Replica : hand[p] = n}

ToBeRead(n) ==
  \E p \in Replica : /\ owner = p /\ position[p] <= n
                    /\ ~(hand[p] = n /\ ~fenced[p])

Deliveries(n) ==
  copies[n] + Cardinality(Holders(n)) + (IF ToBeRead(n) THEN 1 ELSE 0)

DeliveriesCounted == \A n \in Offset : Deliveries(n) <= assigns

LEMMA HoldersFinite ==
  ASSUME NEW n
  PROVE  IsFiniteSet(Holders(n)) /\ Cardinality(Holders(n)) \in Nat
<1>1. IsFiniteSet(Holders(n))
  <2>1. Holders(n) \subseteq Replica
    BY DEF Holders
  <2>2. QED
    BY <2>1, FS_Subset, ConstantsAssumption
<1>2. QED
  BY <1>1, FS_CardinalityType

LEMMA HoldersFinitePrimed ==
  ASSUME NEW n
  PROVE  IsFiniteSet(Holders(n)') /\ Cardinality(Holders(n)') \in Nat
<1>1. IsFiniteSet(Holders(n)')
  <2>1. Holders(n)' \subseteq Replica
    BY DEF Holders
  <2>2. QED
    BY <2>1, FS_Subset, ConstantsAssumption
<1>2. QED
  BY <1>1, FS_CardinalityType

(* A step that stores nothing and gives n to nobody.                       *)
LEMMA NoNewDelivery ==
  ASSUME TypeOK, NEW n \in Offset, Deliveries(n) <= assigns,
         copies' = copies, assigns' = assigns,
         Holders(n)' \subseteq Holders(n),
         ToBeRead(n)' => ToBeRead(n)
  PROVE  Deliveries(n)' <= assigns'
<1>1. copies[n] \in Nat /\ assigns \in Nat
  BY DEF TypeOK
<1>2. Cardinality(Holders(n)') <= Cardinality(Holders(n))
  BY HoldersFinite, FS_Subset
<1>3. Cardinality(Holders(n)') \in Nat /\ Cardinality(Holders(n)) \in Nat
  BY HoldersFinite, HoldersFinitePrimed
<1> DEFINE a == Cardinality(Holders(n)) b == Cardinality(Holders(n)')
           c == IF ToBeRead(n) THEN 1 ELSE 0  d == IF ToBeRead(n)' THEN 1 ELSE 0
<1>4. c \in {0, 1} /\ d \in {0, 1} /\ d <= c
  OBVIOUS
<1>5. copies[n] + a + c <= assigns
  BY DEF Deliveries
<1>6. Deliveries(n)' = copies[n] + b + d
  BY DEF Deliveries
<1>7. a \in Nat /\ b \in Nat /\ b <= a
  BY <1>2, <1>3
<1> HIDE DEF a, b, c, d
<1>8. QED
  BY <1>1, <1>4, <1>5, <1>6, <1>7

LEMMA AssignCounts ==
  ASSUME TypeOK, NEW p \in Replica, Assign(p), NEW n \in Offset, Deliveries(n) <= assigns
  PROVE  Deliveries(n)' <= assigns'
<1> DEFINE a == Cardinality(Holders(n)) d == IF ToBeRead(n)' THEN 1 ELSE 0
<1>1. copies[n] \in Nat /\ assigns \in Nat
  BY DEF TypeOK
<1>2. ~ToBeRead(n)
  BY ConstantsAssumption DEF ToBeRead, Assign
<1>3. a \in Nat /\ copies[n] + a <= assigns
  BY <1>1, <1>2, HoldersFinite DEF Deliveries
<1>4. Holders(n)' = Holders(n) /\ copies' = copies /\ assigns' = assigns + 1
  BY DEF Assign, Holders
<1>5. Deliveries(n)' = copies[n] + a + d
  BY <1>4 DEF Deliveries
<1>6. d \in {0, 1}
  OBVIOUS
<1> HIDE DEF a, d
<1>7. QED
  BY <1>1, <1>3, <1>4, <1>5, <1>6

LEMMA TakeCounts ==
  ASSUME TypeOK, NEW p \in Replica, Take(p), NEW n \in Offset, Deliveries(n) <= assigns
  PROVE  Deliveries(n)' <= assigns'
<1> USE DEF Take, CanRead, groupVars, storeVars
<1>1. CASE n # position[p]
  <2>1. Holders(n)' \subseteq Holders(n)
    BY <1>1 DEF Holders, TypeOK
  <2>2. ToBeRead(n)' => ToBeRead(n)
    BY <1>1 DEF ToBeRead, TypeOK, Offset
  <2>3. QED
    BY <2>1, <2>2, NoNewDelivery
<1>2. CASE n = position[p]
  <2> DEFINE a == Cardinality(Holders(n)) b == Cardinality(Holders(n)')
  <2>1. copies[n] \in Nat /\ assigns \in Nat /\ n # 0 /\ n <= n
    BY DEF TypeOK, Offset
  <2>2. ToBeRead(n)
    BY <1>2, <2>1 DEF ToBeRead
  <2>3. ~ToBeRead(n)'
    BY <1>2 DEF ToBeRead, TypeOK
  <2>4. Holders(n)' \subseteq Holders(n) \cup {p}
    BY DEF Holders, TypeOK
  <2>5. b <= a + 1 /\ a \in Nat /\ b \in Nat
    <3>1. IsFiniteSet(Holders(n) \cup {p}) /\ Cardinality(Holders(n) \cup {p}) \in {a, a + 1}
      BY HoldersFinite, FS_AddElement
    <3>2. Cardinality(Holders(n)') <= Cardinality(Holders(n) \cup {p})
      BY <2>4, <3>1, FS_Subset
    <3>3. QED
      BY <3>1, <3>2, HoldersFinite, HoldersFinitePrimed
  <2>6. copies[n] + a + 1 <= assigns
    BY <2>2 DEF Deliveries
  <2>7. Deliveries(n)' = copies[n] + b + 0
    BY <2>3 DEF Deliveries
  <2>8. assigns' = assigns
    OBVIOUS
  <2> HIDE DEF a, b
  <2>9. QED
    BY <2>1, <2>5, <2>6, <2>7, <2>8
<1>3. QED
  BY <1>1, <1>2

(* The handler of offset k returns: its copy, if one was stored, takes the *)
(* place of the holder.                                                    *)
LEMMA ReturnCounts ==
  ASSUME DeliveryInv, NEW p \in Replica, NEW k \in Offset, hand[p] = k, Return(p),
         copies' = copies \/ Store(k),
         NEW n \in Offset, Deliveries(n) <= assigns
  PROVE  Deliveries(n)' <= assigns'
<1> USE DEF DeliveryInv, Return
<1>1. assigns' = assigns /\ owner' = owner
  BY DEF groupVars
<1>2. ToBeRead(n)' => ToBeRead(n)
  <2> SUFFICES ASSUME NEW q \in Replica, owner = q, position'[q] <= n,
                      ~(hand'[q] = n /\ ~fenced[q])
               PROVE  ToBeRead(n)
    BY <1>1 DEF ToBeRead
  <2>1. CASE q # p \/ fenced[p]
    BY <2>1 DEF ToBeRead, Processed, TypeOK
  <2>2. CASE q = p /\ ~fenced[p]
    <3>1. k = position[p] /\ position'[p] = k + 1
      <4>1. hand[p] # 0
        BY DEF Offset
      <4>2. hand[p] = position[p]
        BY <2>2, <4>1 DEF HandOK
      <4>3. Processed(p)
        BY <2>2
      <4>4. position'[p] = position[p] + 1
        BY <4>3 DEF Processed, TypeOK
      <4>5. QED
        BY <4>2, <4>4
    <3>2. n # k /\ position[p] <= n
      BY <2>2, <3>1 DEF Offset
    <3>3. QED
      BY <2>2, <3>2 DEF ToBeRead
  <2>3. QED
    BY <2>1, <2>2
<1>3. Holders(n)' \subseteq Holders(n)
  BY DEF Holders, TypeOK, Offset
<1>4. CASE copies' = copies
  BY <1>1, <1>2, <1>3, <1>4, NoNewDelivery
<1>5. CASE Store(k) /\ n # k
  <2>1. copies'[n] = copies[n] /\ copies[n] \in Nat
    BY <1>5 DEF Store, TypeOK
  <2> DEFINE a == Cardinality(Holders(n)) b == Cardinality(Holders(n)')
             c == IF ToBeRead(n) THEN 1 ELSE 0  d == IF ToBeRead(n)' THEN 1 ELSE 0
  <2>2. a \in Nat /\ b \in Nat /\ b <= a
    BY <1>3, HoldersFinite, HoldersFinitePrimed, FS_Subset
  <2>3. c \in {0, 1} /\ d \in {0, 1} /\ d <= c
    BY <1>2
  <2>4. copies[n] + a + c <= assigns /\ Deliveries(n)' = copies[n] + b + d
    BY <2>1 DEF Deliveries
  <2>5. assigns \in Nat
    BY DEF TypeOK
  <2> HIDE DEF a, b, c, d
  <2>6. QED
    BY <1>1, <2>1, <2>2, <2>3, <2>4, <2>5
<1>6. CASE Store(k) /\ n = k
  <2>1. copies'[n] = copies[n] + 1 /\ copies[n] \in Nat
    BY <1>6 DEF Store, TypeOK
  <2> DEFINE a == Cardinality(Holders(n)) b == Cardinality(Holders(n)')
             c == IF ToBeRead(n) THEN 1 ELSE 0  d == IF ToBeRead(n)' THEN 1 ELSE 0
  <2>2. Holders(n)' \subseteq Holders(n) \ {p} /\ p \in Holders(n)
    BY <1>6 DEF Holders, TypeOK, Offset
  <2>3. a \in Nat /\ b \in Nat /\ b <= a - 1
    <3>1. IsFiniteSet(Holders(n) \ {p}) /\ Cardinality(Holders(n) \ {p}) = a - 1
      BY <2>2, HoldersFinite, FS_RemoveElement
    <3>2. Cardinality(Holders(n)') <= Cardinality(Holders(n) \ {p})
      BY <2>2, <3>1, FS_Subset
    <3>3. QED
      BY <3>1, <3>2, HoldersFinite, HoldersFinitePrimed
  <2>4. c \in {0, 1} /\ d \in {0, 1} /\ d <= c
    BY <1>2
  <2>5. copies[n] + a + c <= assigns /\ Deliveries(n)' = copies[n] + 1 + b + d
    BY <2>1 DEF Deliveries
  <2>6. assigns \in Nat
    BY DEF TypeOK
  <2> HIDE DEF a, b, c, d
  <2>7. QED
    BY <1>1, <2>1, <2>3, <2>4, <2>5, <2>6
<1>7. QED
  BY <1>4, <1>5, <1>6

LEMMA StepCounts ==
  ASSUME DeliveryInv, [Next]_vars, DeliveriesCounted
  PROVE  DeliveriesCounted'
<1> SUFFICES ASSUME NEW n \in Offset PROVE Deliveries(n)' <= assigns'
  BY DEF DeliveriesCounted
<1> USE DEF DeliveryInv
<1>1. Deliveries(n) <= assigns
  BY DEF DeliveriesCounted
<1>2. ASSUME NEW p \in Replica, Assign(p) PROVE Deliveries(n)' <= assigns'
  BY <1>1, <1>2, AssignCounts
<1>3. ASSUME NEW p \in Replica, Take(p) PROVE Deliveries(n)' <= assigns'
  BY <1>1, <1>3, TakeCounts
<1>4. ASSUME NEW p \in Replica, Finish(p) PROVE Deliveries(n)' <= assigns'
  <2>1. hand[p] \in Offset /\ Return(p) /\ (copies' = copies \/ Store(hand[p]))
    BY <1>4, HandInOffset DEF Finish, Saved, SaveFails
  <2>2. PICK k \in Offset : hand[p] = k
    BY <2>1
  <2>3. copies' = copies \/ Store(k)
    BY <2>1, <2>2
  <2>4. QED
    BY <1>1, <2>1, <2>2, <2>3, ReturnCounts
<1>5. ASSUME NEW p \in Replica, Discard(p) PROVE Deliveries(n)' <= assigns'
  <2>1. copies' = copies /\ assigns' = assigns /\ Holders(n)' = Holders(n)
    BY <1>5 DEF Discard, Holders, groupVars, storeVars
  <2>2. ToBeRead(n)' => ToBeRead(n)
    BY <1>5 DEF Discard, CanRead, Processed, ToBeRead, TypeOK, Offset, groupVars
  <2>3. QED
    BY <1>1, <2>1, <2>2, NoNewDelivery
<1>6. ASSUME NEW p \in Replica,
             Revoke(p) \/ Disconnect(p) \/ DisconnectFails(p) \/ Gone(p)
      PROVE  Deliveries(n)' <= assigns'
  <2>1. copies' = copies /\ assigns' = assigns /\ position' = position
    BY <1>6 DEF Revoke, Disconnect, DisconnectFails, Gone, storeVars
  <2>2. hand' = hand \/ hand' = [hand EXCEPT ![p] = 0]
    BY <1>6 DEF Revoke, Disconnect, DisconnectFails, Gone
  <2>3. Holders(n)' \subseteq Holders(n)
    BY <2>2 DEF Holders, TypeOK, Offset
  <2>4. Release(p)
    BY <1>6 DEF Revoke, Disconnect, DisconnectFails, Gone
  <2>5. \A q \in Replica : q # p => hand'[q] = hand[q] /\ fenced'[q] = fenced[q]
    BY <1>6 DEF Revoke, Disconnect, DisconnectFails, Gone, TypeOK
  <2>6. ToBeRead(n)' => ToBeRead(n)
    BY <2>1, <2>4, <2>5, ConstantsAssumption DEF ToBeRead, Release
  <2>7. QED
    BY <1>1, <2>1, <2>3, <2>6, NoNewDelivery
<1>7. ASSUME UNCHANGED <<copies, assigns, hand, owner, position, fenced>>
      PROVE  Deliveries(n)' <= assigns'
  BY <1>1, <1>7 DEF Deliveries, Holders, ToBeRead
<1>8. QED
  <2> USE DEF groupVars, processVars, consumerVars, storeVars
  <2>1. ASSUME NEW m \in Payload, Produce(m) PROVE Deliveries(n)' <= assigns'
    BY <1>7, <2>1 DEF Produce
  <2>2. ASSUME NEW p \in Replica, Group(p) PROVE Deliveries(n)' <= assigns'
    BY <1>2, <1>6, <1>7, <2>2 DEF Group, AutoCommit
  <2>3. ASSUME NEW p \in Replica, Consume(p) PROVE Deliveries(n)' <= assigns'
    BY <1>3, <1>4, <1>5, <2>3 DEF Consume
  <2>4. ASSUME NEW p \in Replica, Shutdown(p) \/ Crash(p) PROVE Deliveries(n)' <= assigns'
    BY <1>6, <1>7, <2>4 DEF Shutdown, CloseMongo, Exit, Crash
  <2>5. ASSUME NEW p \in Replica,
               Boot(p) \/ Start(p) \/ StartFails(p) \/ Signal(p) \/ SignalAgain(p)
        PROVE  Deliveries(n)' <= assigns'
    BY <1>7, <2>5 DEF Boot, Start, StartFails, Signal, SignalAgain
  <2>6. ASSUME NEW q \in Post, PostStep(q) \/ \E p \in Replica : Request(q, p)
        PROVE  Deliveries(n)' <= assigns'
    BY <1>7, <2>6 DEF PostStep, RejectBody, RejectEvent, LogEvent, PostFinish, PostSaved, PostFails, Request
  <2>7. ASSUME UNCHANGED vars PROVE Deliveries(n)' <= assigns'
    BY <1>7, <2>7 DEF vars
  <2>8. QED
    BY <2>1, <2>2, <2>3, <2>4, <2>5, <2>6, <2>7 DEF Next

LEMMA InitCounts == Init => DeliveriesCounted
<1> SUFFICES ASSUME Init, NEW n \in Offset PROVE Deliveries(n) <= assigns
  BY DEF DeliveriesCounted
<1>1. Holders(n) = {}
  BY DEF Init, Holders, Offset
<1>2. Cardinality(Holders(n)) = 0
  BY <1>1, FS_EmptySet
<1>3. ~ToBeRead(n)
  BY ConstantsAssumption DEF Init, ToBeRead
<1>4. QED
  BY <1>2, <1>3 DEF Init, Deliveries

(* No event is stored more often than the partition was assigned: the      *)
(* handler never stores a message twice, the broker's redelivery after a   *)
(* crash or a rebalance does (ADR 004 accepts that).                       *)
THEOREM DuplicatesAreRedeliveries == Spec => []DuplicatesNeedRedelivery
<1>1. DeliveryInv /\ DeliveriesCounted => DuplicatesNeedRedelivery
  <2> SUFFICES ASSUME DeliveryInv, DeliveriesCounted, NEW n \in Offset
               PROVE  copies[n] <= assigns
    BY DEF DuplicatesNeedRedelivery
  <2> DEFINE a == Cardinality(Holders(n)) c == IF ToBeRead(n) THEN 1 ELSE 0
  <2>1. a \in Nat /\ c \in Nat /\ copies[n] \in Nat /\ assigns \in Nat
    BY HoldersFinite DEF DeliveryInv, TypeOK
  <2>2. copies[n] + a + c <= assigns
    BY DEF DeliveriesCounted, Deliveries
  <2> HIDE DEF a, c
  <2>3. QED
    BY <2>1, <2>2
<1>2. DeliveryInv /\ [Next]_vars /\ DeliveriesCounted => DeliveriesCounted'
  BY StepCounts
<1>3. QED
  BY DeliveryInvariant, InitCounts, <1>1, <1>2, PTL DEF Spec

-----------------------------------------------------------------------------
(* What is stored passed createEvent: what the collection holds of the     *)
(* topic, what a handler is about to store, and what a POST exchange has   *)
(* stored or is about to.                                                  *)
ValidAt(n) == n \in DOMAIN topic /\ Accepted(topic[n])
StoredValid == \A n \in Offset : Stored(n) => ValidAt(n)
HeldValid == \A p \in Replica : hand[p] # 0 => ValidAt(hand[p])
FitExchange(e) == (e.step = "save" \/ e.docs > 0) => Creatable(e.body)
PostedValid == \A q \in Post : FitExchange(post[q])
ValidInv == StoredValid /\ HeldValid /\ PostedValid

LEMMA InitValid == Init => ValidInv
BY DEF Init, ValidInv, StoredValid, HeldValid, PostedValid, FitExchange, Stored, NoPost, Exchange

LEMMA ExchangeFits ==
  ASSUME NEW step, NEW at, NEW body, NEW status, NEW docs \in {0, 1},
         (step = "save" \/ docs = 1) => Creatable(body)
  PROVE  FitExchange(Exchange(step, at, body, status, docs))
BY DEF FitExchange, Exchange

(* Steps after which nothing more is stored or held.                       *)
LEMMA NothingMoreStored ==
  ASSUME ValidInv, UNCHANGED <<topic, copies, post>>,
         \A p \in Replica : hand'[p] \in {hand[p], 0}
  PROVE  ValidInv'
<1>1. \A n : ValidAt(n)' <=> ValidAt(n)
  BY DEF ValidAt
<1>2. StoredValid' /\ HeldValid'
  BY <1>1 DEF ValidInv, StoredValid, HeldValid, Stored
<1>3. PostedValid'
  BY DEF ValidInv, PostedValid
<1>4. QED
  BY <1>2, <1>3 DEF ValidInv

LEMMA ProduceValid ==
  ASSUME TypeOK, ValidInv, NEW m \in Payload, Produce(m)
  PROVE  ValidInv'
<1> USE DEF Produce, consumerVars, storeVars
<1>1. \A n : ValidAt(n) => ValidAt(n)'
  BY DEF ValidAt, TypeOK
<1>2. StoredValid' /\ HeldValid'
  BY <1>1 DEF ValidInv, StoredValid, HeldValid, Stored
<1>3. PostedValid'
  BY DEF ValidInv, PostedValid
<1>4. QED
  BY <1>2, <1>3 DEF ValidInv

LEMMA TakeValid ==
  ASSUME TypeOK, ValidInv, NEW p \in Replica, Take(p)
  PROVE  ValidInv'
<1> USE DEF Take, storeVars
<1>1. \A n : ValidAt(n)' <=> ValidAt(n)
  BY DEF ValidAt
<1>2. ValidAt(position[p])
  BY DEF ValidAt, CanRead, TypeOK
<1>3. HeldValid'
  BY <1>1, <1>2 DEF ValidInv, HeldValid, TypeOK
<1>4. StoredValid' /\ PostedValid'
  BY <1>1 DEF ValidInv, StoredValid, PostedValid, Stored
<1>5. QED
  BY <1>3, <1>4 DEF ValidInv

LEMMA FinishValid ==
  ASSUME TypeOK, ValidInv, NEW p \in Replica, Finish(p)
  PROVE  ValidInv'
<1>1. /\ hand[p] # 0 /\ Return(p)
      /\ Store(hand[p]) \/ UNCHANGED copies
  BY DEF Finish, Saved, SaveFails
<1>2. \A n : ValidAt(n)' <=> ValidAt(n)
  BY <1>1 DEF ValidAt, Return
<1>3. HeldValid'
  BY <1>1, <1>2 DEF ValidInv, HeldValid, Return, TypeOK
<1>4. \A n \in Offset : Stored(n)' => Stored(n) \/ n = hand[p]
  BY <1>1 DEF Stored, Store, TypeOK
<1>5. StoredValid'
  BY <1>1, <1>2, <1>4 DEF ValidInv, StoredValid, HeldValid
<1>6. PostedValid'
  BY <1>1 DEF ValidInv, PostedValid, Return
<1>7. QED
  BY <1>3, <1>5, <1>6 DEF ValidInv

LEMMA PostStepValid ==
  ASSUME TypeOK, ValidInv, NEW q \in Post, NEW e, FitExchange(e),
         post' = [post EXCEPT ![q] = e], UNCHANGED <<topic, consumerVars, storeVars>>
  PROVE  ValidInv'
<1> USE DEF consumerVars, storeVars
<1>1. \A n : ValidAt(n)' <=> ValidAt(n)
  BY DEF ValidAt
<1>2. StoredValid' /\ HeldValid'
  BY <1>1 DEF ValidInv, StoredValid, HeldValid, Stored
<1>3. PostedValid'
  BY DEF ValidInv, PostedValid, TypeOK
<1>4. QED
  BY <1>2, <1>3 DEF ValidInv

LEMMA AnswerValid ==
  ASSUME TypeOK, ValidInv, NEW q \in Post, NEW code, NEW docs \in {0, 1}, Answer(q, code, docs),
         docs = 1 => post[q].step = "save", UNCHANGED <<topic, consumerVars, storeVars>>
  PROVE  ValidInv'
<1>1. docs = 1 => Creatable(post[q].body)
  BY DEF ValidInv, PostedValid, FitExchange
<1>2. FitExchange(Exchange("done", post[q].at, post[q].body, code, docs))
  BY <1>1, ExchangeFits
<1>3. QED
  BY <1>2, PostStepValid DEF Answer

LEMMA PostValid ==
  ASSUME TypeOK, ValidInv, NEW q \in Post,
         PostStep(q) \/ \E p \in Replica : Request(q, p)
  PROVE  ValidInv'
<1>1. CASE RejectBody(q)
  BY <1>1, AnswerValid DEF RejectBody
<1>2. ASSUME NEW m \in Payload, RejectEvent(q, m) PROVE ValidInv'
  <2>1. PICK code \in {400, 500} : Answer(q, code, 0)
    BY <1>2 DEF RejectEvent
  <2>2. QED
    BY <1>2, <2>1, AnswerValid DEF RejectEvent
<1>3. ASSUME NEW m \in Payload, LogEvent(q, m) PROVE ValidInv'
  <2>1. FitExchange(Exchange("save", post[q].at, m, 0, 0))
    BY <1>3, ExchangeFits DEF LogEvent
  <2>2. QED
    BY <1>3, <2>1, PostStepValid DEF LogEvent
<1>4. CASE PostSaved(q)
  BY <1>4, AnswerValid DEF PostSaved
<1>5. ASSUME NEW stored \in BOOLEAN, PostFails(q, stored) PROVE ValidInv'
  <2>1. (IF stored THEN 1 ELSE 0) \in {0, 1}
    OBVIOUS
  <2>2. QED
    BY <1>5, <2>1, AnswerValid DEF PostFails
<1>6. ASSUME NEW p \in Replica, Request(q, p) PROVE ValidInv'
  <2>1. FitExchange(Exchange("body", p, NotJson, 0, 0))
    BY ExchangeFits
  <2>2. QED
    BY <1>6, <2>1, PostStepValid DEF Request
<1>7. QED
  BY <1>1, <1>2, <1>3, <1>4, <1>5, <1>6 DEF PostStep, PostFinish

LEMMA GoneValid ==
  ASSUME TypeOK, ValidInv, NEW p \in Replica, Gone(p)
  PROVE  ValidInv'
<1> USE DEF Gone, storeVars
<1>1. \A n : ValidAt(n)' <=> ValidAt(n)
  BY DEF ValidAt
<1>2. StoredValid' /\ HeldValid'
  BY <1>1 DEF ValidInv, StoredValid, HeldValid, Stored, TypeOK
<1>3. PostedValid'
  <2>1. PICK stored \in SUBSET {q \in Post : Open(q, p) /\ post[q].step = "save"} :
          post' = [q \in Post |->
            IF Open(q, p)
            THEN Exchange("lost", p, post[q].body, 0, IF q \in stored THEN 1 ELSE 0)
            ELSE post[q]]
    BY Zenon
  <2>2. ASSUME NEW q \in Post PROVE FitExchange(post'[q])
    <3>1. q \in stored => Creatable(post[q].body)
      BY DEF ValidInv, PostedValid, FitExchange
    <3>2. FitExchange(Exchange("lost", p, post[q].body, 0, IF q \in stored THEN 1 ELSE 0))
      BY <3>1, ExchangeFits
    <3>3. QED
      BY <2>1, <3>2 DEF ValidInv, PostedValid
  <2>3. QED
    BY <2>2 DEF PostedValid
<1>4. QED
  BY <1>2, <1>3 DEF ValidInv

LEMMA StepValid ==
  ASSUME TypeOK, ValidInv, [Next]_vars
  PROVE  ValidInv'
<1>1. ASSUME NEW m \in Payload, Produce(m) PROVE ValidInv'
  BY <1>1, ProduceValid
<1>2. ASSUME NEW p \in Replica, Group(p) PROVE ValidInv'
  BY <1>2, NothingMoreStored
     DEF Group, Assign, Revoke, AutoCommit, consumerVars, storeVars
<1>3. ASSUME NEW p \in Replica, Consume(p) PROVE ValidInv'
  <2>1. CASE Discard(p)
    BY <2>1, NothingMoreStored DEF Discard, storeVars
  <2>2. QED
    BY <1>3, <2>1, TakeValid, FinishValid DEF Consume
<1>4. ASSUME NEW p \in Replica, Shutdown(p) \/ Crash(p) PROVE ValidInv'
  <2>1. CASE Disconnect(p) \/ DisconnectFails(p) \/ CloseMongo(p)
    BY <2>1, NothingMoreStored
       DEF Disconnect, DisconnectFails, CloseMongo, consumerVars, storeVars
  <2>2. QED
    BY <1>4, <2>1, GoneValid DEF Shutdown, Exit, Crash
<1>5. ASSUME NEW p \in Replica,
             Boot(p) \/ Start(p) \/ StartFails(p) \/ Signal(p) \/ SignalAgain(p)
      PROVE  ValidInv'
  BY <1>5, NothingMoreStored
     DEF Boot, Start, StartFails, Signal, SignalAgain, consumerVars, storeVars
<1>6. ASSUME NEW q \in Post, PostStep(q) \/ \E p \in Replica : Request(q, p)
      PROVE  ValidInv'
  BY <1>6, PostValid
<1>7. ASSUME UNCHANGED vars PROVE ValidInv'
  BY <1>7, NothingMoreStored DEF vars, consumerVars, storeVars
<1>8. QED
  BY <1>1, <1>2, <1>3, <1>4, <1>5, <1>6, <1>7 DEF Next

(* Both queries of GET /events accept what either way in has stored,       *)
(* whatever crashed half way: createEvent is no weaker than they are.      *)
THEOREM StoredEventsListable == Spec => []StoredAreListable
<1>1. TypeOK /\ ValidInv => StoredAreListable
  <2> SUFFICES ASSUME TypeOK, ValidInv PROVE StoredAreListable
    OBVIOUS
  <2>1. \A m : Creatable(m) => ListableByDevice(m) /\ ListableByType(m)
    BY DEF Creatable, ListableByDevice, ListableByType
  <2>2. DOMAIN topic \subseteq Offset
    BY ConstantsAssumption DEF TypeOK, Offset
  <2>3. \A n \in DOMAIN topic : Stored(n) => Creatable(topic[n])
    BY <2>2 DEF ValidInv, StoredValid, ValidAt, Accepted
  <2>4. \A q \in Post : post[q].docs > 0 => Creatable(post[q].body)
    BY DEF ValidInv, PostedValid, FitExchange
  <2>5. QED
    BY <2>1, <2>3, <2>4 DEF StoredAreListable
<1>2. TypeOK /\ ValidInv /\ [Next]_vars => ValidInv'
  BY StepValid
<1>3. QED
  BY EventTypesCorrect, InitValid, <1>1, <1>2, PTL DEF Spec
-----------------------------------------------------------------------------
(* Refinement of the ledger.                                               *)

(* Where an assignment begins to read lies behind what was passed over;    *)
(* the owner reads at or beyond what is committed, and nothing that was    *)
(* passed over; and no commit falls back among it.                         *)
SkippedOK == skipped \subseteq DOMAIN topic
AheadOK ==
  \A p \in Replica : owner = p =>
    position[p] >= committed /\ \A n \in skipped : n < position[p]
PassedOK == committed # 0 => \A n \in skipped : n < committed
LedgerInv == SkippedOK /\ AheadOK /\ PassedOK

LEMMA InitLedger == Init => LedgerInv
BY ConstantsAssumption DEF Init, LedgerInv, SkippedOK, AheadOK, PassedOK

LEMMA PlacesTyped ==
  ASSUME TypeOK
  PROVE  /\ Len(topic) \in Nat /\ committed \in Nat /\ skipped \subseteq Nat
         /\ \A p \in Replica : position[p] \in Nat
<1>1. Len(topic) \in Nat
  BY DEF TypeOK
<1>2. \A p \in Replica : position[p] \in 1..(Len(topic) + 1)
  BY DEF TypeOK
<1>3. committed \in 0..(Len(topic) + 1) /\ skipped \subseteq 1..MaxMessages
  BY DEF TypeOK, Offset
<1>4. QED
  BY <1>1, <1>2, <1>3

(* A step that commits nothing, passes nothing over, makes nobody owner    *)
(* and moves no owner back.                                                *)
LEMMA LedgerKeeps ==
  ASSUME TypeOK, LedgerInv, UNCHANGED <<committed, skipped>>,
         DOMAIN topic \subseteq DOMAIN topic',
         \A p \in Replica : position'[p] \in Nat,
         \A p \in Replica : owner' = p => owner = p /\ position'[p] >= position[p]
  PROVE  LedgerInv'
<1> USE DEF LedgerInv
<1>1. SkippedOK' /\ PassedOK'
  BY DEF SkippedOK, PassedOK
<1>2. ASSUME NEW p \in Replica, owner' = p
      PROVE  position'[p] >= committed /\ \A n \in skipped : n < position'[p]
  <2>1. owner = p /\ position'[p] >= position[p]
    BY <1>2
  <2>2. position[p] \in Nat /\ position'[p] \in Nat /\ committed \in Nat /\ skipped \subseteq Nat
    BY PlacesTyped
  <2>3. position[p] >= committed /\ \A n \in skipped : n < position[p]
    BY <2>1 DEF AheadOK
  <2>4. QED
    BY <2>1, <2>2, <2>3
<1>3. AheadOK'
  BY <1>2 DEF AheadOK
<1>4. QED
  BY <1>1, <1>3

LEMMA AssignLedger ==
  ASSUME TypeOK, LedgerInv, NEW p \in Replica, Assign(p)
  PROVE  LedgerInv'
<1> USE DEF LedgerInv, Assign
<1>1. Len(topic) \in Nat /\ DOMAIN topic = 1..Len(topic) /\ committed \in Nat
  BY DEF TypeOK
<1>2. position'[p] = IF committed = 0 THEN Len(topic) + 1 ELSE committed
  BY DEF TypeOK
<1>3. SkippedOK' /\ PassedOK'
  BY DEF SkippedOK, PassedOK
<1>4. AheadOK'
  <2> SUFFICES position'[p] >= committed /\ \A n \in skipped' : n < position'[p]
    BY DEF AheadOK
  <2>1. CASE committed = 0
    <3>1. skipped' \subseteq 1..Len(topic)
      BY <1>1, <2>1 DEF SkippedOK
    <3>2. QED
      BY <1>1, <1>2, <2>1, <3>1
  <2>2. CASE committed # 0
    BY <1>1, <1>2, <2>2 DEF PassedOK
  <2>3. QED
    BY <2>1, <2>2
<1>5. QED
  BY <1>3, <1>4

(* A commit of the owner's position, whether it keeps the partition or     *)
(* gives it up.                                                            *)
LEMMA CommitLedger ==
  ASSUME TypeOK, LedgerInv, NEW p \in Replica, owner = p, committed' = position[p],
         owner' \in {p, NoReplica}, UNCHANGED <<topic, skipped, position>>
  PROVE  LedgerInv'
<1>1. \A n \in skipped : n < position[p]
  BY DEF LedgerInv, AheadOK
<1>2. position[p] \in Nat
  BY DEF TypeOK
<1>3. QED
  BY <1>1, <1>2, ConstantsAssumption DEF LedgerInv, SkippedOK, AheadOK, PassedOK

LEMMA DisconnectLedger ==
  ASSUME TypeOK, LedgerInv, NEW p \in Replica, Disconnect(p)
  PROVE  LedgerInv'
<1> USE DEF Disconnect, Release, storeVars
<1>1. CASE owner = p /\ processed[p]
  BY <1>1, CommitLedger
<1>2. CASE ~(owner = p /\ processed[p])
  <2>1. \A q \in Replica :
          position'[q] \in Nat /\ (owner' = q => owner = q /\ position'[q] >= position[q])
    BY PlacesTyped, ConstantsAssumption
  <2>2. QED
    BY <1>2, <2>1, LedgerKeeps
<1>3. QED
  BY <1>1, <1>2

LEMMA StepLedger ==
  ASSUME DeliveryInv, LedgerInv, [Next]_vars
  PROVE  LedgerInv'
<1> USE DEF DeliveryInv, groupVars, processVars, consumerVars, storeVars
<1>1. \A p \in Replica : position[p] \in Nat /\ position[p] >= position[p]
  BY PlacesTyped
<1>2. ASSUME UNCHANGED <<committed, skipped, owner, position>>,
             DOMAIN topic \subseteq DOMAIN topic'
      PROVE  LedgerInv'
  BY <1>1, <1>2, LedgerKeeps
<1>3. ASSUME NEW m \in Payload, Produce(m) PROVE LedgerInv'
  <2>1. DOMAIN topic \subseteq DOMAIN topic'
    BY <1>3 DEF Produce, TypeOK
  <2>2. QED
    BY <1>2, <1>3, <2>1 DEF Produce
<1>4. ASSUME NEW p \in Replica, Release(p), UNCHANGED <<topic, committed, skipped, position>>
      PROVE  LedgerInv'
  <2>1. \A q \in Replica : owner' = q => owner = q
    BY <1>4, ConstantsAssumption DEF Release
  <2>2. QED
    BY <1>1, <1>4, <2>1, LedgerKeeps
<1>5. ASSUME NEW p \in Replica, Group(p) PROVE LedgerInv'
  <2>1. CASE Revoke(p)
    BY <1>4, <2>1 DEF Revoke
  <2>2. CASE AutoCommit(p)
    BY <2>2, CommitLedger DEF AutoCommit
  <2>3. QED
    BY <1>5, <2>1, <2>2, AssignLedger DEF Group
<1>6. ASSUME NEW p \in Replica, Consume(p) PROVE LedgerInv'
  <2>1. UNCHANGED <<topic, committed, skipped, owner>>
    BY <1>6 DEF Consume, Discard, Take, Finish, Saved, SaveFails, Return
  <2>2. position' = position \/ position' = [position EXCEPT ![p] = @ + 1]
    BY <1>6 DEF Consume, Discard, Take, Finish, Saved, SaveFails, Return, Processed
  <2>3. \A q \in Replica : position'[q] \in {position[q], position[q] + 1}
    BY <2>2 DEF TypeOK
  <2>4. \A q \in Replica : position'[q] \in Nat /\ position'[q] >= position[q]
    BY <1>1, <2>3
  <2>5. QED
    BY <2>1, <2>4, LedgerKeeps
<1>7. ASSUME NEW p \in Replica, Shutdown(p) \/ Crash(p) PROVE LedgerInv'
  <2>1. CASE DisconnectFails(p)
    BY <1>4, <2>1 DEF DisconnectFails
  <2>2. CASE CloseMongo(p)
    BY <1>2, <2>2 DEF CloseMongo
  <2>3. CASE Gone(p)
    BY <1>4, <2>3 DEF Gone
  <2>4. QED
    BY <1>7, <2>1, <2>2, <2>3, DisconnectLedger DEF Shutdown, Exit, Crash
<1>8. ASSUME NEW p \in Replica,
             Boot(p) \/ Start(p) \/ StartFails(p) \/ Signal(p) \/ SignalAgain(p)
      PROVE  LedgerInv'
  BY <1>2, <1>8 DEF Boot, Start, StartFails, Signal, SignalAgain
<1>9. ASSUME NEW q \in Post, PostStep(q) \/ \E p \in Replica : Request(q, p)
      PROVE  LedgerInv'
  BY <1>2, <1>9
     DEF PostStep, RejectBody, RejectEvent, LogEvent, PostFinish, PostSaved, PostFails, Request
<1>10. ASSUME UNCHANGED vars PROVE LedgerInv'
  BY <1>2, <1>10 DEF vars
<1>11. QED
  BY <1>3, <1>5, <1>6, <1>7, <1>8, <1>9, <1>10 DEF Next

LEMMA LedgerInvariant == Spec => []LedgerInv
<1>1. DeliveryInv /\ LedgerInv /\ [Next]_vars => LedgerInv'
  BY StepLedger
<1>2. QED
  BY InitLedger, DeliveryInvariant, <1>1, PTL DEF Spec

-----------------------------------------------------------------------------
(* Each step of the consumer is a step of the ledger, or invisible to it.  *)

LEMMA SettledInLedger ==
  ASSUME NEW n, Settled(n) PROVE Ledger!Settled(n)
BY DEF Settled, Stored, Ledger!Settled

(* What lies before the owner's position is settled in the ledger too.     *)
LEMMA OwnerReadSettled ==
  ASSUME DeliveryInv, NEW p \in Replica, owner = p
  PROVE  \A n \in DOMAIN topic : n < position[p] => Ledger!Settled(n)
BY SettledInLedger DEF DeliveryInv, ReadOK

LEMMA InitImplements == Init => Ledger!Init
BY DEF Init, Ledger!Init

LEMMA TakeImplements ==
  ASSUME DeliveryInv, LedgerInv, NEW p \in Replica, Take(p)
  PROVE  Ledger!Next
<1> USE DEF Take, CanRead, groupVars, storeVars
<1>1. Len(topic) \in Nat /\ DOMAIN topic = 1..Len(topic) /\ DOMAIN topic \subseteq Offset
  BY ConstantsAssumption DEF DeliveryInv, TypeOK, Offset
<1>2. position[p] \in DOMAIN topic /\ position[p] \in Offset
  BY <1>1 DEF DeliveryInv, TypeOK
<1>3. PICK n \in Offset : position[p] = n
  BY <1>2
<1>4. topic[n] \in {m \in Bodies : Accepted(m)}
  BY <1>3 DEF Accepted
<1>5. n >= committed /\ n \notin skipped
  BY <1>2, <1>3 DEF LedgerInv, AheadOK, DeliveryInv, TypeOK
<1>6. \A k \in DOMAIN topic : k < n => Ledger!Settled(k)
  BY <1>3, OwnerReadSettled
<1>7. Ledger!Take(p, n)
  BY <1>2, <1>3, <1>4, <1>5, <1>6 DEF Ledger!Take
<1>8. QED
  BY <1>3, <1>7 DEF Ledger!Next

LEMMA FinishImplements ==
  ASSUME NEW p \in Replica, Finish(p)
  PROVE  Ledger!Next
<1>1. Ledger!Finish(p)
  BY DEF Finish, Saved, SaveFails, Store, Return, groupVars,
         Ledger!Finish, Ledger!Store
<1>2. QED
  BY <1>1 DEF Ledger!Next

LEMMA CommitImplements ==
  ASSUME DeliveryInv, LedgerInv, NEW p \in Replica, owner = p, committed' = position[p],
         UNCHANGED <<topic, skipped, hand, copies, failed>>
  PROVE  Ledger!Next
<1>1. position[p] \in 1..(Len(topic) + 1)
  BY DEF DeliveryInv, TypeOK
<1>2. PICK n \in 1..(Len(topic) + 1) : position[p] = n
  BY <1>1
<1>3. n >= committed /\ n > 0 /\ \A k \in skipped : k < n
  BY <1>2 DEF LedgerInv, AheadOK
<1>4. \A k \in DOMAIN topic : k < n => Ledger!Settled(k)
  BY <1>2, OwnerReadSettled
<1>5. Ledger!CommitTo(n)
  BY <1>2, <1>3, <1>4 DEF Ledger!CommitTo
<1>6. QED
  BY <1>2, <1>5 DEF Ledger!Next

LEMMA GroupImplements ==
  ASSUME DeliveryInv, LedgerInv, NEW p \in Replica, Group(p)
  PROVE  [Ledger!Next]_(Ledger!vars)
<1> USE DEF processVars, consumerVars, storeVars, Ledger!vars
<1>1. CASE Assign(p) /\ committed = 0
  BY <1>1 DEF Assign, Ledger!Next, Ledger!Begin
<1>2. CASE Assign(p) /\ committed # 0
  BY <1>2 DEF Assign
<1>3. CASE Revoke(p)
  BY <1>3 DEF Revoke
<1>4. CASE AutoCommit(p)
  BY <1>4, CommitImplements DEF AutoCommit
<1>5. QED
  BY <1>1, <1>2, <1>3, <1>4 DEF Group

LEMMA EndImplements ==
  ASSUME DeliveryInv, LedgerInv, NEW p \in Replica, Shutdown(p) \/ Crash(p)
  PROVE  [Ledger!Next]_(Ledger!vars)
<1> USE DEF groupVars, processVars, consumerVars, storeVars, Ledger!vars
<1>1. CASE Disconnect(p) /\ owner = p /\ processed[p]
  BY <1>1, CommitImplements DEF Disconnect
<1>2. CASE Disconnect(p) /\ ~(owner = p /\ processed[p])
  BY <1>2 DEF Disconnect
<1>3. CASE DisconnectFails(p)
  BY <1>3 DEF DisconnectFails
<1>4. CASE CloseMongo(p)
  BY <1>4 DEF CloseMongo
<1>5. CASE Gone(p)
  <2>1. Ledger!Drop(p)
    BY <1>5 DEF Gone, Ledger!Drop
  <2>2. QED
    BY <2>1 DEF Ledger!Next
<1>6. QED
  BY <1>1, <1>2, <1>3, <1>4, <1>5 DEF Shutdown, Exit, Crash

LEMMA StepImplements ==
  ASSUME DeliveryInv, LedgerInv, [Next]_vars
  PROVE  [Ledger!Next]_(Ledger!vars)
<1> USE DEF groupVars, processVars, consumerVars, storeVars
<1>1. ASSUME NEW m \in Payload, Produce(m) PROVE Ledger!Next
  BY <1>1 DEF Produce, Ledger!Next, Ledger!Produce
<1>2. ASSUME NEW p \in Replica, Consume(p) PROVE [Ledger!Next]_(Ledger!vars)
  <2>1. CASE Discard(p)
    BY <2>1 DEF Discard, Ledger!vars
  <2>2. QED
    BY <1>2, <2>1, TakeImplements, FinishImplements DEF Consume
<1>3. ASSUME NEW p \in Replica,
             Boot(p) \/ Start(p) \/ StartFails(p) \/ Signal(p) \/ SignalAgain(p)
      PROVE  UNCHANGED Ledger!vars
  BY <1>3 DEF Boot, Start, StartFails, Signal, SignalAgain, Ledger!vars
<1>4. ASSUME NEW q \in Post, PostStep(q) \/ \E p \in Replica : Request(q, p)
      PROVE  UNCHANGED Ledger!vars
  BY <1>4 DEF PostStep, RejectBody, RejectEvent, LogEvent, PostFinish, PostSaved, PostFails,
              Request,
              Ledger!vars
<1>5. ASSUME UNCHANGED vars PROVE UNCHANGED Ledger!vars
  BY <1>5 DEF vars, Ledger!vars
<1>6. QED
  BY <1>1, <1>2, <1>3, <1>4, <1>5, GroupImplements, EndImplements DEF Next

(* For any number of replicas, messages, crashes and rebalances, the       *)
(* consumers behave as one ledger (kafka-event-consumer.js): they commit   *)
(* forward and past settled messages only, and take an event when all      *)
(* before it are settled, never after it was committed.                    *)
THEOREM ConsumersImplementLedger == Spec => ImplementsLedger
BY InitImplements, StepImplements, DeliveryInvariant, LedgerInvariant, PTL
DEF Spec, ImplementsLedger, Ledger!Spec
=============================================================================
