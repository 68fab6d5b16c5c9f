--------------------- MODULE DeviceServiceOrderProofs ---------------------
(***************************************************************************)
(* Proofs that a device's writes are ordered in the table, that the        *)
(* timestamps of its events follow, and that a GET shows the writes that   *)
(* were answered before it came.                                           *)
(***************************************************************************)
EXTENDS DeviceServiceProofs

(* The handler of a creation that is about to INSERT.                      *)
Creating(r) == pc[r] = "write" /\ call[r].op = "create"

(* The ids of rows and of committed writes were minted; the id of a        *)
(* creation about to INSERT is its own, with no row and no write yet; a    *)
(* deleted device has no row.                                              *)
IdsMinted ==
  /\ \A i \in DeviceId : devices[i] # NoRow => i \in minted
  /\ \A r \in Request : Committed(r) => call[r].id \in minted

FreshIds ==
  \A r \in Request : Creating(r) =>
    /\ call[r].id \in minted
    /\ devices[call[r].id] = NoRow
    /\ \A s \in Request : (Committed(s) \/ (Creating(s) /\ s # r)) => call[s].id # call[r].id

DeletedIsGone ==
  \A r \in Request : (Committed(r) /\ call[r].op = "delete") => devices[call[r].id] = NoRow

CommitsCounted == \A r \in Request : at[r] <= commits

OrderInv == IdsMinted /\ FreshIds /\ DeletedIsGone /\ CommitsCounted /\ LifecycleOrder

(* The stamp of a publisher: the creation time for a create, and otherwise *)
(* an instant its goroutine read.                                          *)
StampOK(r) ==
  IF call[r].op = "create" THEN stamp[r] = call[r].createdAt ELSE stamp[r] # 0

StampsOK ==
  \A r \in Request :
    /\ call[r].createdAt <= clock
    /\ ppc[r] \in {"none", "stamp"} => stamp[r] = 0
    /\ ppc[r] = "stamp" => call[r].op # "create"
    /\ ppc[r] = "write" => StampOK(r)

EventsStamped ==
  \A n \in DOMAIN topic :
    LET r == topic[n].by
    IN  topic[n].timestamp = stamp[r] /\ ppc[r] \notin {"none", "stamp"} /\ StampOK(r)

CreatedBefore ==
  \A c, s \in Request :
    (/\ call[c].op = "create" /\ Committed(s) /\ call[s].op # "create"
     /\ call[c].id = call[s].id /\ stamp[s] # 0)
    => call[c].createdAt < stamp[s]

StampInv == StampsOK /\ EventsStamped /\ CreatedBefore

-----------------------------------------------------------------------------
(* The order of commits.                                                   *)

LEMMA InitOrder == Init => OrderInv
BY ConstantsAssumption
DEF Init, OrderInv, IdsMinted, FreshIds, DeletedIsGone, CommitsCounted, LifecycleOrder,
    Creating, Committed

(* A step that leaves the table and the committed writes as they are.      *)
LEMMA OrderKeeps ==
  ASSUME OrderInv, UNCHANGED <<devices, minted, commits, at>>,
         \A r \in Request : Committed(r) => call'[r] = call[r],
         \A r \in Request : Creating(r)' => Creating(r) /\ call'[r] = call[r]
  PROVE  OrderInv'
<1>1. \A r \in Request : Committed(r)' <=> Committed(r)
  BY DEF Committed
<1>2. IdsMinted'
  BY <1>1 DEF OrderInv, IdsMinted
<1>3. FreshIds'
  BY <1>1 DEF OrderInv, FreshIds
<1>4. DeletedIsGone'
  BY <1>1 DEF OrderInv, DeletedIsGone
<1>5. CommitsCounted'
  BY DEF OrderInv, CommitsCounted
<1>6. LifecycleOrder'
  BY <1>1 DEF OrderInv, LifecycleOrder
<1>7. QED
  BY <1>2, <1>3, <1>4, <1>5, <1>6 DEF OrderInv

(* A creation starts with an id nobody has.                                *)
LEMMA StartCreateOrder ==
  ASSUME TypeOK, HandlersOK, OrderInv, NEW r \in Request, NEW b \in Body, StartCreate(r, b)
  PROVE  OrderInv'
<1>1. PICK i \in DeviceId \ minted :
        /\ minted' = minted \cup {i}
        /\ call' = [call EXCEPT ![r] = Call("create", i, b, clock', {})]
        /\ pc' = [pc EXCEPT ![r] = "write"]
  BY DEF StartCreate, Begin
<1>2. UNCHANGED <<devices, commits, at>> /\ pc[r] = "idle"
  BY DEF StartCreate, Begin, Accept
<1>3. call'[r].id = i /\ call'[r].op = "create" /\ ~Committed(r)
  BY <1>1, <1>2 DEF TypeOK, Call, HandlersOK, HandlerOK, Committed
<1>4. \A s \in Request : s # r => call'[s] = call[s] /\ (Creating(s)' <=> Creating(s))
  BY <1>1 DEF TypeOK, Creating
<1>5. \A s \in Request : Committed(s)' <=> Committed(s)
  BY <1>2 DEF Committed
<1>6. IdsMinted'
  BY <1>1, <1>2, <1>3, <1>4, <1>5 DEF OrderInv, IdsMinted
<1>7. FreshIds'
  BY <1>1, <1>2, <1>3, <1>4, <1>5 DEF OrderInv, IdsMinted, FreshIds
<1>8. DeletedIsGone'
  BY <1>2, <1>3, <1>4, <1>5 DEF OrderInv, DeletedIsGone
<1>9. CommitsCounted'
  BY <1>2 DEF OrderInv, CommitsCounted
<1>10. LifecycleOrder'
  BY <1>2, <1>3, <1>4, <1>5 DEF OrderInv, LifecycleOrder
<1>11. QED
  BY <1>6, <1>7, <1>8, <1>9, <1>10 DEF OrderInv

(* A write commits: a creation where no row and no write was, an update or *)
(* a deletion where a row is.                                              *)
LEMMA CommitOrder ==
  ASSUME TypeOK, HandlersOK, OrderInv, NEW r \in Request, pc[r] = "write",
         NEW row \in Row \cup {NoRow}, NEW acked, Commit(r, row, acked),
         call[r].op # "create" => devices[call[r].id] # NoRow,
         call[r].op = "delete" => row = NoRow
  PROVE  OrderInv'
<1> DEFINE i == call[r].id
<1>1. /\ devices' = [devices EXCEPT ![i] = row]
      /\ at' = [at EXCEPT ![r] = commits + 1]
      /\ commits' = commits + 1
      /\ UNCHANGED <<minted, call>>
  BY DEF Commit, dbVars
<1>2. /\ i \in DeviceId /\ call[r].op \in WriteOps /\ ~Committed(r)
      /\ (Creating(r) <=> call[r].op = "create")
      /\ commits \in Nat /\ at \in [Request -> Nat] /\ devices \in [DeviceId -> Row \cup {NoRow}]
  BY DEF HandlersOK, HandlerOK, Committed, TypeOK, Creating
<1>3. \A s \in Request : Committed(s)' <=> Committed(s) \/ s = r
  BY <1>1, <1>2 DEF Committed
<1>4. \A s \in Request : Creating(s)' => Creating(s) /\ s # r
  BY DEF Commit, TypeOK, Creating
<1>5. i \in minted
  BY <1>2 DEF OrderInv, IdsMinted, FreshIds, WriteOps
<1>6. \A s \in Request : Committed(s) => at[s] <= commits /\ s # r
  BY <1>2 DEF OrderInv, CommitsCounted
<1>7. \A s \in Request : (Creating(s) /\ s # r) => call[s].id # i
  BY <1>2 DEF OrderInv, FreshIds
<1>8. call[r].op = "create" => \A s \in Request : Committed(s) => call[s].id # i
  BY <1>2 DEF OrderInv, FreshIds
<1>9. \A s \in Request : (Committed(s) /\ call[s].id = i) => call[s].op # "delete"
  BY <1>2, <1>8 DEF OrderInv, DeletedIsGone
<1> HIDE DEF i
<1>10. IdsMinted'
  BY <1>1, <1>2, <1>3, <1>5 DEF OrderInv, IdsMinted, i
<1>11. FreshIds'
  BY <1>1, <1>2, <1>3, <1>4, <1>7 DEF OrderInv, FreshIds, i
<1>12. DeletedIsGone'
  BY <1>1, <1>2, <1>3, <1>9 DEF OrderInv, DeletedIsGone, i
<1>13. CommitsCounted'
  BY <1>1, <1>2 DEF OrderInv, CommitsCounted
<1>14. LifecycleOrder'
  <2> SUFFICES ASSUME NEW s \in Request, NEW t \in Request, s # t,
                      Committed(s)', Committed(t)', call[s].id = call[t].id
               PROVE  /\ call[s].op = "create" => at'[s] < at'[t]
                      /\ call[s].op = "delete" => at'[t] < at'[s]
    BY <1>1 DEF LifecycleOrder
  <2>1. CASE s # r /\ t # r
    BY <1>1, <1>3, <2>1 DEF OrderInv, LifecycleOrder
  <2>2. CASE s = r
    BY <1>1, <1>2, <1>3, <1>6, <1>8, <2>2 DEF i
  <2>3. CASE t = r
    BY <1>1, <1>2, <1>3, <1>6, <1>9, <2>3 DEF i
  <2>4. QED
    BY <2>1, <2>2, <2>3
<1>15. QED
  BY <1>10, <1>11, <1>12, <1>13, <1>14 DEF OrderInv

LEMMA ArriveIdle ==
  ASSUME NEW r \in Request, Arrive(r)
  PROVE  pc[r] = "idle"
BY DEF Arrive, RejectMalformed, RejectCreate, StartCreate, StartUpdate, StartDelete,
       GetDevice, ListDevices, FailRead, Accept

(* A request that arrives starts a creation, looks for its row first, or   *)
(* is answered at once.                                                    *)
LEMMA ArriveCases ==
  ASSUME NEW r \in Request, Arrive(r)
  PROVE  \/ \E b \in Body : StartCreate(r, b)
         \/ \E c : c.createdAt = 0 /\ Begin(r, c, "find") /\ UNCHANGED <<dbVars, clock>>
         \/ \E c, code : c.createdAt = 0 /\ AnswerAtOnce(r, c, code)
<1>0. \A o, i, row, seen : Call(o, i, row, 0, seen).createdAt = 0
  BY DEF Call
<1>1. CASE \E i \in DeviceId : (\E b \in Body : StartUpdate(r, i, b)) \/ StartDelete(r, i)
  BY <1>0, <1>1, ZenonT(60) DEF StartUpdate, StartDelete
<1>2. CASE \E op \in Ops : RejectMalformed(r, op) \/ FailRead(r, op)
  BY <1>0, <1>2, ZenonT(60) DEF RejectMalformed, FailRead
<1>3. CASE \E b \in Body : RejectCreate(r, b)
  BY <1>0, <1>3, ZenonT(60) DEF RejectCreate
<1>4. CASE \E i \in DeviceId : GetDevice(r, i)
  BY <1>0, <1>4, ZenonT(60) DEF GetDevice
<1>5. CASE ListDevices(r)
  BY <1>0, <1>5, ZenonT(60) DEF ListDevices
<1>6. QED
  BY <1>1, <1>2, <1>3, <1>4, <1>5 DEF Arrive

LEMMA ArriveOrder ==
  ASSUME BaseInv, OrderInv, NEW r \in Request, Arrive(r)
  PROVE  OrderInv'
<1>0. pc[r] = "idle"
  BY ArriveIdle
<1>1. CASE \E b \in Body : StartCreate(r, b)
  BY <1>1, StartCreateOrder DEF BaseInv
<1>2. CASE \/ \E c : Begin(r, c, "find") /\ UNCHANGED <<dbVars, clock>>
           \/ \E c, code : AnswerAtOnce(r, c, code)
  <2>1. PICK c, p : /\ call' = [call EXCEPT ![r] = c] /\ pc' = [pc EXCEPT ![r] = p]
                    /\ p \in {"done", "find"}
    BY <1>2 DEF AnswerAtOnce, Begin
  <2>2. pc[r] = "idle" /\ ~Committed(r)
    BY <1>0 DEF BaseInv, HandlersOK, HandlerOK, Committed
  <2>3. UNCHANGED <<devices, minted, commits, at>>
    BY <1>2 DEF AnswerAtOnce, Begin, dbVars
  <2>4. \A s \in Request : s # r => call'[s] = call[s] /\ pc'[s] = pc[s]
    BY <2>1 DEF BaseInv, TypeOK
  <2>5. pc'[r] # "write"
    BY <2>1 DEF BaseInv, TypeOK
  <2>6. \A s \in Request : Creating(s)' => Creating(s) /\ call'[s] = call[s]
    BY <2>4, <2>5 DEF Creating
  <2>7. QED
    BY <2>2, <2>3, <2>4, <2>6, OrderKeeps
<1>3. QED
  BY <1>1, <1>2, ArriveCases

LEMMA HandleOrder ==
  ASSUME BaseInv, OrderInv, NEW r \in Request, Handle(r)
  PROVE  OrderInv'
<1>1. CASE \E acked \in BOOLEAN : Save(r, acked) \/ Update(r, acked) \/ Delete(r, acked)
  <2>1. PICK acked \in BOOLEAN : Save(r, acked) \/ Update(r, acked) \/ Delete(r, acked)
    BY <1>1
  <2>2. call[r].row \in Row
    BY <2>1 DEF Save, Update, Delete, BaseInv, HandlersOK, HandlerOK
  <2>3. QED
    BY <2>1, <2>2, CommitOrder DEF Save, Update, Delete, BaseInv
<1>2. CASE FindForDelete(r)
  <2>1. /\ UNCHANGED <<devices, minted, commits, at>>
        /\ ~Committed(r) /\ call[r].op = "delete"
        /\ pc' = [pc EXCEPT ![r] = "write"]
    BY <1>2 DEF FindForDelete, Proceed, dbVars, BaseInv, HandlersOK, HandlerOK, Committed
  <2>2. call'[r].op = "delete" /\ \A s \in Request : s # r => call'[s] = call[s]
    BY <1>2, <2>1 DEF FindForDelete, BaseInv, TypeOK, CallRecord
  <2>3. \A s \in Request : Creating(s)' => Creating(s) /\ call'[s] = call[s]
    BY <2>1, <2>2 DEF Creating, BaseInv, TypeOK
  <2>4. QED
    BY <2>1, <2>2, <2>3, OrderKeeps
<1>3. CASE \/ FindNothing(r) \/ RefuseUpdate(r) \/ FindForUpdate(r) \/ AffectNoRow(r)
           \/ FailStatement(r) \/ Spawn(r) \/ Reply(r)
  <2>1. UNCHANGED <<devices, minted, commits, at, call>>
    BY <1>3 DEF FindNothing, RefuseUpdate, FindForUpdate, AffectNoRow, FailStatement, Spawn,
                Reply, Fail, Proceed, dbVars
  <2>2. \/ \E p \in {"done", "reply"} : pc' = [pc EXCEPT ![r] = p]
        \/ call[r].op = "update" /\ pc' = [pc EXCEPT ![r] = "write"]
    BY <1>3 DEF FindNothing, RefuseUpdate, FindForUpdate, AffectNoRow, FailStatement, Spawn,
                Reply, Fail, Proceed
  <2>3. \A s \in Request : Creating(s)' => Creating(s) /\ call'[s] = call[s]
    BY <2>1, <2>2 DEF Creating, BaseInv, TypeOK
  <2>4. QED
    BY <2>1, <2>3, OrderKeeps
<1>4. QED
  BY <1>1, <1>2, <1>3 DEF Handle, Find, Write

(* Publishers and the process leave the table and the calls as they are.   *)
LEMMA OtherOrder ==
  ASSUME BaseInv, OrderInv,
         \/ \E r \in Request : Publish(r)
         \/ Process
         \/ UNCHANGED vars
  PROVE  OrderInv'
<1>1. UNCHANGED <<devices, minted, commits, at, call>>
  BY DEF Publish, Stamp, Send, WriteEnds, WriteRetriable, EndPublisher, Retry,
         Process, Crash, Signal, CloseDrained, CloseTimedOut, Exit, Restart, Kill, Become,
         vars, dbVars, handlerVars
<1>2. pc' = pc \/ pc' = [r \in Request |-> IF InFlight(r) THEN "lost" ELSE pc[r]]
  BY DEF Publish, Stamp, Send, WriteEnds, WriteRetriable, EndPublisher, Retry,
         Process, Crash, Signal, CloseDrained, CloseTimedOut, Exit, Restart, Kill, Become,
         vars, dbVars, handlerVars
<1>3. \A r \in Request : Creating(r)' => Creating(r) /\ call'[r] = call[r]
  BY <1>1, <1>2 DEF Creating, InFlight
<1>4. QED
  BY <1>1, <1>3, OrderKeeps

LEMMA NextOrder == BaseInv /\ OrderInv /\ [Next]_vars => OrderInv'
BY ArriveOrder, HandleOrder, OtherOrder DEF Next

LEMMA SpecOrder == Spec => []OrderInv
BY InitOrder, NextOrder, SpecBase, PTL DEF Spec

(* However concurrent handlers interleave, a device's writes commit in the *)
(* order creation, updates, at most one deletion.                          *)
THEOREM LifecyclesOrdered == Spec => []LifecycleOrder
BY SpecOrder, PTL DEF OrderInv

-----------------------------------------------------------------------------
(* The order of timestamps.                                                *)

LEMMA InitStamp == Init => StampInv
BY DEF Init, StampInv, StampsOK, EventsStamped, CreatedBefore, Committed, NoCall, Call

LEMMA EventsHaveAuthors ==
  ASSUME TypeOK, NEW n \in DOMAIN topic
  PROVE  topic[n].by \in Request /\ topic[n] \in EventRecord
<1>1. topic[n] \in EventRecord
  BY ElementOfSeq DEF TypeOK
<1>2. QED
  BY <1>1 DEF EventRecord

(* A step that sets no stamp, sends nothing and changes no identity.       *)
LEMMA StampKeeps ==
  ASSUME TypeOK, StampInv, UNCHANGED <<stamp, topic>>, clock' \in Nat, clock <= clock',
         \A s \in Request :
           /\ call'[s].op = call[s].op /\ call'[s].id = call[s].id
           /\ call'[s].createdAt = call[s].createdAt /\ call[s].createdAt \in Nat
           /\ Committed(s)' => Committed(s) \/ stamp[s] = 0
           /\ ppc'[s] = ppc[s] \/ ppc'[s] \in {"done", "lost"}
  PROVE  StampInv'
<1>0. clock \in Nat
  BY DEF TypeOK
<1>1. StampsOK'
  BY <1>0 DEF StampInv, StampsOK, StampOK
<1>2. EventsStamped'
  BY EventsHaveAuthors DEF StampInv, EventsStamped, StampOK
<1>3. CreatedBefore'
  BY DEF StampInv, CreatedBefore
<1>4. QED
  BY <1>1, <1>2, <1>3 DEF StampInv

(* A request that arrives has no publisher; a creation has a fresh id.     *)
LEMMA ArriveStamp ==
  ASSUME BaseInv, OrderInv, StampInv, NEW r \in Request, Arrive(r)
  PROVE  StampInv'
<1>0. pc[r] = "idle"
  BY ArriveIdle
<1>1. PICK c : /\ call' = [call EXCEPT ![r] = c]
               /\ UNCHANGED <<at, ppc, stamp, topic>>
               /\ clock' \in {clock, clock + 1}
               /\ c.createdAt \in Nat /\ c.createdAt <= clock'
               /\ c.createdAt = 0 \/ c.id \notin minted
  <2>1. CASE \E b \in Body : StartCreate(r, b)
    <3>1. PICK b \in Body, i \in DeviceId \ minted :
             clock' = clock + 1 /\ Begin(r, Call("create", i, b, clock + 1, {}), "write")
      BY <2>1 DEF StartCreate
    <3> DEFINE c == Call("create", i, b, clock + 1, {})
    <3>2. c.createdAt = clock + 1 /\ c.id \notin minted /\ clock \in Nat
      BY DEF Call, BaseInv, TypeOK
    <3>3. call' = [call EXCEPT ![r] = c] /\ UNCHANGED <<at, ppc, stamp, topic>>
      BY <3>1 DEF Begin, publisherVars
    <3>4. clock' \in {clock, clock + 1} /\ c.createdAt \in Nat /\ c.createdAt <= clock'
      BY <3>1, <3>2
    <3> HIDE DEF c
    <3>5. QED
      BY <3>2, <3>3, <3>4, Zenon
  <2>2. CASE \/ \E c : c.createdAt = 0 /\ Begin(r, c, "find") /\ UNCHANGED <<dbVars, clock>>
             \/ \E c, code : c.createdAt = 0 /\ AnswerAtOnce(r, c, code)
    BY <2>2 DEF Begin, AnswerAtOnce, publisherVars, BaseInv, TypeOK
  <2>3. QED
    BY <2>1, <2>2, ArriveCases
<1>2. ~Committed(r) /\ ppc[r] = "none" /\ clock \in Nat
  BY <1>0 DEF BaseInv, HandlersOK, HandlerOK, PublishersOK, PublisherOK, Committed, TypeOK
<1>3. stamp[r] = 0 /\ \A s \in Request : stamp[s] \in Nat
  BY <1>2 DEF StampInv, StampsOK, BaseInv, TypeOK
<1>4. call'[r] = c /\ \A s \in Request : s # r => call'[s] = call[s]
  BY <1>1 DEF BaseInv, TypeOK
<1>5. \A s \in Request : Committed(s)' <=> Committed(s)
  BY <1>1 DEF Committed
<1>6. \A s \in Request : call[s].createdAt \in Nat /\ call[s].createdAt <= clock
  BY DEF StampInv, StampsOK, BaseInv, TypeOK, CallRecord
<1>7. StampsOK'
  BY <1>1, <1>2, <1>3, <1>4, <1>6 DEF StampInv, StampsOK, StampOK
<1>8. EventsStamped'
  <2> SUFFICES ASSUME NEW n \in DOMAIN topic
               PROVE  /\ topic[n].timestamp = stamp[topic[n].by]
                      /\ ppc[topic[n].by] \notin {"none", "stamp"}
                      /\ StampOK(topic[n].by)'
    BY <1>1 DEF EventsStamped
  <2>1. /\ topic[n].timestamp = stamp[topic[n].by]
        /\ ppc[topic[n].by] \notin {"none", "stamp"}
        /\ StampOK(topic[n].by)
    BY DEF StampInv, EventsStamped
  <2>2. topic[n].by \in Request /\ topic[n].by # r
    BY <1>2, <2>1, EventsHaveAuthors DEF BaseInv
  <2>3. QED
    BY <1>1, <1>4, <2>1, <2>2 DEF StampOK
<1>9. CreatedBefore'
  <2> SUFFICES ASSUME NEW d \in Request, NEW s \in Request,
                      call'[d].op = "create", Committed(s), call'[s].op # "create",
                      call'[d].id = call'[s].id, stamp[s] # 0
               PROVE  call'[d].createdAt < stamp[s]
    BY <1>1, <1>5 DEF CreatedBefore
  <2>1. s # r /\ call'[s] = call[s]
    BY <1>2, <1>4
  <2>2. CASE d = r
    BY <1>1, <1>3, <1>4, <2>1, <2>2 DEF OrderInv, IdsMinted
  <2>3. CASE d # r
    BY <1>4, <2>1, <2>3 DEF StampInv, CreatedBefore
  <2>4. QED
    BY <2>2, <2>3
<1>10. QED
  BY <1>7, <1>8, <1>9 DEF StampInv

(* go func: a creation's stamp is its creation time.                       *)
LEMMA SpawnStamp ==
  ASSUME BaseInv, StampInv, NEW r \in Request, Spawn(r)
  PROVE  StampInv'
<1>1. /\ UNCHANGED <<call, at, clock, topic>> /\ Committed(r) /\ ppc[r] = "none"
  BY DEF Spawn, BaseInv, HandlersOK, HandlerOK, PublishersOK, PublisherOK, Committed
<1>2. stamp[r] = 0 /\ stamp \in [Request -> Nat]
      /\ \A s \in Request : call[s].createdAt \in Nat
  BY <1>1 DEF StampInv, StampsOK, BaseInv, TypeOK, CallRecord
<1>3. /\ \A s \in Request : s # r => ppc'[s] = ppc[s] /\ stamp'[s] = stamp[s]
      /\ IF call[r].op = "create" THEN ppc'[r] = "write" /\ stamp'[r] = call[r].createdAt
                                  ELSE ppc'[r] = "stamp" /\ stamp'[r] = 0
  BY <1>2 DEF Spawn, BaseInv, TypeOK
<1>4. \A s \in Request : Committed(s)' <=> Committed(s)
  BY <1>1 DEF Committed
<1>5. StampsOK'
  BY <1>1, <1>3 DEF StampInv, StampsOK, StampOK
<1>6. EventsStamped'
  BY <1>1, <1>3, EventsHaveAuthors DEF StampInv, EventsStamped, StampOK, BaseInv
<1>7. CreatedBefore'
  BY <1>1, <1>3, <1>4 DEF StampInv, CreatedBefore
<1>8. QED
  BY <1>5, <1>6, <1>7 DEF StampInv

(* time.Now: the goroutine's instant is later than every creation so far.  *)
LEMMA StampStamp ==
  ASSUME BaseInv, StampInv, NEW r \in Request, Stamp(r)
  PROVE  StampInv'
<1>1. /\ UNCHANGED <<call, at, topic>> /\ clock' = clock + 1 /\ ppc[r] = "stamp"
      /\ clock \in Nat /\ \A s \in Request : call[s].createdAt \in Nat
  BY DEF Stamp, handlerVars, BaseInv, TypeOK, CallRecord
<1>2. /\ \A s \in Request : s # r => ppc'[s] = ppc[s] /\ stamp'[s] = stamp[s]
      /\ ppc'[r] = "write" /\ stamp'[r] = clock + 1
  BY DEF Stamp, BaseInv, TypeOK
<1>3. \A s \in Request : Committed(s)' <=> Committed(s)
  BY <1>1 DEF Committed
<1>4. StampsOK'
  BY <1>1, <1>2 DEF StampInv, StampsOK, StampOK
<1>5. EventsStamped'
  BY <1>1, <1>2, EventsHaveAuthors DEF StampInv, EventsStamped, StampOK, BaseInv
<1>6. CreatedBefore'
  BY <1>1, <1>2, <1>3 DEF StampInv, StampsOK, CreatedBefore
<1>7. QED
  BY <1>4, <1>5, <1>6 DEF StampInv

LEMMA SendStamp ==
  ASSUME BaseInv, StampInv, NEW r \in Request, Send(r)
  PROVE  StampInv'
<1>1. UNCHANGED <<call, at, clock, ppc, stamp>> /\ ppc[r] = "write" /\ topic' = Append(topic, Event(r))
  BY DEF Send, handlerVars
<1>2. StampOK(r)
  BY <1>1 DEF StampInv, StampsOK
<1>3. StampsOK'
  BY <1>1 DEF StampInv, StampsOK, StampOK
<1>4. EventsStamped'
  <2> SUFFICES ASSUME NEW n \in DOMAIN topic'
               PROVE  LET s == topic'[n].by
                      IN  topic'[n].timestamp = stamp[s] /\ ppc[s] \notin {"none", "stamp"} /\ StampOK(s)
    BY <1>1 DEF EventsStamped, StampOK
  <2>1. Event(r) \in EventRecord /\ topic \in Seq(EventRecord)
    BY <1>1, EventTyped DEF BaseInv, TypeOK
  <2>2. CASE n \in DOMAIN topic
    <3>1. topic'[n] = topic[n]
      BY <1>1, <2>1, <2>2, AppendKeeps
    <3>2. QED
      BY <2>2, <3>1 DEF StampInv, EventsStamped
  <2>3. CASE n \notin DOMAIN topic
    <3>1. topic'[n] = Event(r)
      BY <1>1, <2>1, <2>3, AppendKeeps
    <3>2. QED
      BY <1>1, <1>2, <3>1 DEF Event
  <2>4. QED
    BY <2>2, <2>3
<1>5. CreatedBefore'
  BY <1>1 DEF StampInv, CreatedBefore, Committed
<1>6. QED
  BY <1>3, <1>4, <1>5 DEF StampInv

LEMMA NextStamp == BaseInv /\ BaseInv' /\ OrderInv /\ StampInv /\ [Next]_vars => StampInv'
<1> SUFFICES ASSUME BaseInv, BaseInv', OrderInv, StampInv, [Next]_vars PROVE StampInv'
  OBVIOUS
<1>0. /\ TypeOK /\ clock \in Nat
      /\ \A s \in Request : call[s].createdAt \in Nat
  BY DEF BaseInv, TypeOK, CallRecord
<1>1. ASSUME NEW r \in Request, Arrive(r)
      PROVE  StampInv'
  BY <1>1, ArriveStamp
<1>2. ASSUME NEW r \in Request, Handle(r), ~Spawn(r)
      PROVE  StampInv'
  <2>1. UNCHANGED <<clock, stamp, topic, ppc>>
    BY <1>2 DEF Handle, Find, Write, FindNothing, RefuseUpdate, FindForUpdate, FindForDelete,
         Save, Update, Delete, Commit, AffectNoRow, FailStatement, Reply, Fail, Proceed, publisherVars
  <2>2. call' = call \/ call' = [call EXCEPT ![r].row = devices[call[r].id]]
    BY <1>2 DEF Handle, Find, Write, FindNothing, RefuseUpdate, FindForUpdate, FindForDelete,
         Save, Update, Delete, Commit, AffectNoRow, FailStatement, Reply, Fail, Proceed
  <2>3. at' = at \/ (pc[r] = "write" /\ at' = [at EXCEPT ![r] = commits + 1])
    BY <1>2 DEF Handle, Find, Write, FindNothing, RefuseUpdate, FindForUpdate, FindForDelete,
         Save, Update, Delete, Commit, AffectNoRow, FailStatement, Reply, Fail, Proceed
  <2>4. \A s \in Request : /\ call'[s].op = call[s].op /\ call'[s].id = call[s].id
                           /\ call'[s].createdAt = call[s].createdAt
    <3>1. CASE call' = call
      BY <3>1
    <3>2. CASE call' = [call EXCEPT ![r].row = devices[call[r].id]]
      <4>1. call[r] \in CallRecord /\ call'[r] = [call[r] EXCEPT !.row = devices[call[r].id]]
        BY <3>2 DEF BaseInv, TypeOK
      <4>2. \A s \in Request : s # r => call'[s] = call[s]
        BY <3>2 DEF BaseInv, TypeOK
      <4>3. QED
        BY <4>1, <4>2 DEF CallRecord
    <3>3. QED
      BY <2>2, <3>1, <3>2
  <2>5. pc[r] = "write" => stamp[r] = 0
    BY DEF BaseInv, PublishersOK, PublisherOK, StampInv, StampsOK
  <2>6. \A s \in Request : Committed(s)' => Committed(s) \/ stamp[s] = 0
    <3>1. CASE at' = at
      BY <3>1 DEF Committed
    <3>2. CASE pc[r] = "write" /\ at' = [at EXCEPT ![r] = commits + 1]
      <4>1. \A s \in Request : s # r => at'[s] = at[s]
        BY <3>2 DEF BaseInv, TypeOK
      <4>2. QED
        BY <2>5, <3>2, <4>1 DEF Committed
    <3>3. QED
      BY <2>3, <3>1, <3>2
  <2>7. QED
    BY <1>0, <2>1, <2>4, <2>6, StampKeeps
<1>3. ASSUME NEW r \in Request, Spawn(r)
      PROVE  StampInv'
  BY <1>3, SpawnStamp
<1>4. ASSUME NEW r \in Request, Stamp(r) \/ Send(r)
      PROVE  StampInv'
  BY <1>4, StampStamp, SendStamp
<1>5. CASE \/ \E r \in Request : WriteEnds(r) \/ WriteRetriable(r)
           \/ Process
           \/ UNCHANGED vars
  <2>1. UNCHANGED <<call, at, clock, stamp, topic>>
    BY <1>5 DEF WriteEnds, WriteRetriable, EndPublisher, Retry,
         Process, Crash, Signal, CloseDrained, CloseTimedOut, Exit, Restart, Kill, Become,
         vars, dbVars, handlerVars, publisherVars
  <2>2. \/ ppc' = ppc
        \/ \E r \in Request : ppc' = [ppc EXCEPT ![r] = "done"]
        \/ ppc' = [r \in Request |-> IF Publishing(r) THEN "lost" ELSE ppc[r]]
    BY <1>5 DEF WriteEnds, WriteRetriable, EndPublisher, Retry,
         Process, Crash, Signal, CloseDrained, CloseTimedOut, Exit, Restart, Kill, Become,
         vars, dbVars, handlerVars, publisherVars
  <2>3. \A s \in Request : ppc'[s] = ppc[s] \/ ppc'[s] \in {"done", "lost"}
    BY <2>2 DEF BaseInv, TypeOK
  <2>4. \A s \in Request : Committed(s)' <=> Committed(s)
    BY <2>1 DEF Committed
  <2>5. QED
    BY <1>0, <2>1, <2>3, <2>4, StampKeeps
<1>6. QED
  BY <1>1, <1>2, <1>3, <1>4, <1>5 DEF Next, Publish

LEMMA SpecStamp == Spec => []StampInv
BY InitStamp, NextStamp, SpecBase, SpecOrder, PTL DEF Spec

(* However late its publisher ran, a device's created event is stamped     *)
(* before every other event of the device.                                 *)
THEOREM CreationStampedFirst == Spec => []CreatedStampedFirst
<1>1. BaseInv /\ StampInv => CreatedStampedFirst
  <2> SUFFICES ASSUME BaseInv, StampInv, NEW m \in DOMAIN topic, NEW n \in DOMAIN topic,
                      topic[m].deviceId = topic[n].deviceId,
                      topic[m].type = "device.created", topic[n].type # "device.created"
               PROVE  topic[m].timestamp < topic[n].timestamp
    BY DEF CreatedStampedFirst
  <2> DEFINE c == topic[m].by
             s == topic[n].by
  <2>1. c \in Request /\ s \in Request
    BY EventsHaveAuthors DEF BaseInv
  <2>2. Reports(topic[m]) /\ Reports(topic[n])
    BY Zenon DEF BaseInv, EventsAreTrue
  <2>3. /\ Committed(s) /\ call[c].id = call[s].id
        /\ EventType[call[c].op] = "device.created" /\ EventType[call[s].op] # "device.created"
        /\ call[c].op \in WriteOps /\ call[s].op \in WriteOps
    <3>1. Committed(c) /\ Committed(s)
      BY <2>2 DEF Reports
    <3>2. call[c].op \in WriteOps /\ call[s].op \in WriteOps
      BY <2>1, <3>1 DEF BaseInv, HandlersOK, HandlerOK, Committed
    <3>3. call[c].id = topic[m].deviceId /\ EventType[call[c].op] = topic[m].type
      BY <2>2, ZenonT(60) DEF Reports
    <3>4. call[s].id = topic[n].deviceId /\ EventType[call[s].op] = topic[n].type
      BY <2>2, ZenonT(60) DEF Reports
    <3>5. QED
      BY <3>1, <3>2, <3>3, <3>4, Zenon
  <2>4. call[c].op = "create" /\ call[s].op # "create"
    BY <2>3 DEF EventType, WriteOps
  <2>5. /\ topic[m].timestamp = call[c].createdAt
        /\ topic[n].timestamp = stamp[s] /\ stamp[s] # 0
    BY <2>4 DEF StampInv, EventsStamped, StampOK
  <2>6. QED
    BY <2>1, <2>3, <2>4, <2>5 DEF StampInv, CreatedBefore
<1>2. QED
  BY <1>1, SpecBase, SpecStamp, PTL

-----------------------------------------------------------------------------
(* What a GET shows.                                                       *)

(* A device that was created or updated has a row until a deletion commits.*)
RowsStay ==
  \A s \in Request : (Committed(s) /\ call[s].op # "delete") =>
    \/ devices[call[s].id] # NoRow
    \/ \E d \in Request : Committed(d) /\ call[d].op = "delete" /\ call[d].id = call[s].id

(* A step commits one write, or leaves the table and the committed writes. *)
LEMMA CommitsOrKeeps ==
  ASSUME BaseInv, [Next]_vars
  PROVE  \/ \E r \in Request, row \in Row \cup {NoRow}, acked \in BOOLEAN :
              /\ Commit(r, row, acked) /\ call[r].id \in DeviceId
              /\ row = NoRow => call[r].op = "delete"
         \/ /\ UNCHANGED <<devices, at>>
            /\ \A s \in Request : Committed(s) => call'[s] = call[s]
<1>1. ASSUME NEW r \in Request, Arrive(r)
      PROVE  UNCHANGED <<devices, at>> /\ \A s \in Request : Committed(s) => call'[s] = call[s]
  <2>1. pc[r] = "idle" /\ ~Committed(r)
    BY <1>1, ArriveIdle DEF BaseInv, HandlersOK, HandlerOK, Committed
  <2>2. UNCHANGED <<devices, at>> /\ \E c : call' = [call EXCEPT ![r] = c]
    <3>1. CASE \E b \in Body : StartCreate(r, b)
      BY <3>1 DEF StartCreate, Begin
    <3>2. CASE \/ \E c : Begin(r, c, "find") /\ UNCHANGED <<dbVars, clock>>
               \/ \E c, code : AnswerAtOnce(r, c, code)
      BY <3>2 DEF Begin, AnswerAtOnce, dbVars
    <3>3. QED
      BY <1>1, <3>1, <3>2, ArriveCases
  <2>3. QED
    BY <2>1, <2>2 DEF BaseInv, TypeOK
<1>2. ASSUME NEW r \in Request, NEW acked \in BOOLEAN,
             Save(r, acked) \/ Update(r, acked) \/ Delete(r, acked)
      PROVE  \E row \in Row \cup {NoRow} :
               /\ Commit(r, row, acked) /\ call[r].id \in DeviceId
               /\ row = NoRow => call[r].op = "delete"
  <2>1. call[r].row \in Row /\ call[r].id \in DeviceId /\ NoRow \notin Row
    BY <1>2, ConstantsAssumption DEF Save, Update, Delete, BaseInv, HandlersOK, HandlerOK, Row
  <2>2. QED
    BY <1>2, <2>1 DEF Save, Update, Delete
<1>3. ASSUME NEW r \in Request, FindForDelete(r)
      PROVE  UNCHANGED <<devices, at>> /\ \A s \in Request : Committed(s) => call'[s] = call[s]
  BY <1>3 DEF FindForDelete, Proceed, dbVars, BaseInv, TypeOK, HandlersOK, HandlerOK, Committed
<1>4. ASSUME NEW r \in Request,
             \/ FindNothing(r) \/ RefuseUpdate(r) \/ FindForUpdate(r) \/ AffectNoRow(r)
             \/ FailStatement(r) \/ Spawn(r) \/ Reply(r)
      PROVE  UNCHANGED <<devices, at, call>>
  BY <1>4 DEF FindNothing, RefuseUpdate, FindForUpdate, AffectNoRow, FailStatement, Spawn,
              Reply, Fail, Proceed, dbVars
<1>5. ASSUME (\E r \in Request : Publish(r)) \/ Process \/ UNCHANGED vars
      PROVE  UNCHANGED <<devices, at, call>>
  BY <1>5 DEF Publish, Stamp, Send, WriteEnds, WriteRetriable, EndPublisher, Retry,
              Process, Crash, Signal, CloseDrained, CloseTimedOut, Exit, Restart, Kill, Become,
              vars, dbVars, handlerVars
<1>6. ASSUME NEW r \in Request, Handle(r)
      PROVE  \/ \E acked \in BOOLEAN : Save(r, acked) \/ Update(r, acked) \/ Delete(r, acked)
             \/ FindForDelete(r)
             \/ FindNothing(r) \/ RefuseUpdate(r) \/ FindForUpdate(r) \/ AffectNoRow(r)
             \/ FailStatement(r) \/ Spawn(r) \/ Reply(r)
  BY <1>6 DEF Handle, Find, Write
<1>7. QED
  BY <1>1, <1>2, <1>3, <1>4, <1>5, <1>6, Zenon DEF Next

LEMMA InitRows == Init => RowsStay
BY DEF Init, RowsStay, Committed

LEMMA NextRows == BaseInv /\ OrderInv /\ RowsStay /\ [Next]_vars => RowsStay'
<1> SUFFICES ASSUME BaseInv, OrderInv, RowsStay, [Next]_vars PROVE RowsStay'
  OBVIOUS
<1>1. CASE /\ UNCHANGED <<devices, at>>
           /\ \A s \in Request : Committed(s) => call'[s] = call[s]
  BY <1>1 DEF RowsStay, Committed
<1>2. ASSUME NEW r \in Request, NEW row \in Row \cup {NoRow}, NEW acked \in BOOLEAN,
             Commit(r, row, acked), call[r].id \in DeviceId,
             row = NoRow => call[r].op = "delete"
      PROVE  RowsStay'
  <2>1. /\ devices' = [devices EXCEPT ![call[r].id] = row]
        /\ at' = [at EXCEPT ![r] = commits + 1] /\ call' = call
        /\ commits \in Nat /\ at \in [Request -> Nat]
        /\ devices \in [DeviceId -> Row \cup {NoRow}]
    BY <1>2 DEF Commit, BaseInv, TypeOK
  <2>2. \A s \in Request : Committed(s)' <=> Committed(s) \/ s = r
    BY <2>1 DEF Committed
  <2> SUFFICES ASSUME NEW s \in Request, Committed(s)', call[s].op # "delete"
               PROVE  \/ devices'[call[s].id] # NoRow
                      \/ \E d \in Request : /\ Committed(d)' /\ call[d].op = "delete"
                                            /\ call[d].id = call[s].id
    BY <2>1 DEF RowsStay
  <2>3. CASE call[s].id = call[r].id /\ row = NoRow
    BY <1>2, <2>2, <2>3
  <2>4. CASE call[s].id = call[r].id /\ row # NoRow
    BY <1>2, <2>1, <2>4
  <2>5. CASE call[s].id # call[r].id
    BY <2>1, <2>2, <2>5 DEF RowsStay
  <2>6. QED
    BY <2>3, <2>4, <2>5
<1>3. QED
  BY <1>1, <1>2, CommitsOrKeeps

(* A step that answers a GET reads the table as it is, and nothing else    *)
(* happens.                                                                *)
LEMMA ReadReads ==
  ASSUME BaseInv, [Next]_vars, NEW r \in Request, pc[r] = "idle",
         call'[r].op \in ReadOps, status'[r] \in {200, 404}
  PROVE  \/ /\ call'[r].op = "list"
            /\ call'[r].seen = {i \in DeviceId : devices[i] # NoRow}
         \/ /\ call'[r].op = "get"
            /\ call'[r].seen = {i \in {call'[r].id} : devices[i] # NoRow}
<1>1. /\ call[r].op = "none" /\ call \in [Request -> CallRecord]
      /\ status \in [Request -> {0, 200, 201, 204, 400, 404, 500}]
  BY DEF BaseInv, TypeOK, HandlersOK, HandlerOK
<1>2. call'[r] # call[r]
  BY <1>1 DEF ReadOps
<1>3. Arrive(r)
  <2>1. ASSUME NEW s \in Request, Arrive(s), s # r PROVE FALSE
    <3>1. \E c : call' = [call EXCEPT ![s] = c]
      <4>1. CASE \E b \in Body : StartCreate(s, b)
        BY <4>1 DEF StartCreate, Begin
      <4>2. CASE \/ \E c : Begin(s, c, "find") /\ UNCHANGED <<dbVars, clock>>
                 \/ \E c, code : AnswerAtOnce(s, c, code)
        BY <4>2 DEF Begin, AnswerAtOnce
      <4>3. QED
        BY <2>1, <4>1, <4>2, ArriveCases
    <3>2. QED
      BY <1>1, <1>2, <2>1, <3>1
  <2>2. ASSUME NEW s \in Request, Handle(s) PROVE call'[r] = call[r]
    BY <1>1, <2>2 DEF Handle, Find, Write, FindNothing, RefuseUpdate, FindForUpdate, AffectNoRow,
         FindForDelete, FailStatement, Spawn, Reply, Fail, Proceed, Save, Update, Delete, Commit
  <2>3. ASSUME (\E s \in Request : Publish(s)) \/ Process \/ UNCHANGED vars
        PROVE  call' = call
    BY <2>3 DEF Publish, Stamp, Send, WriteEnds, WriteRetriable, EndPublisher, Retry,
                Process, Crash, Signal, CloseDrained, CloseTimedOut, Exit, Restart, Kill, Become,
                vars, handlerVars
  <2>4. QED
    BY <1>2, <2>1, <2>2, <2>3 DEF Next
<1>4. CASE \E i \in DeviceId : GetDevice(r, i)
  <2>1. PICK i \in DeviceId : GetDevice(r, i)
    BY <1>4
  <2>2. call'[r] = Call("get", i, NoRow, 0, {j \in {i} : devices[j] # NoRow})
    <3>1. CASE devices[i] = NoRow
      <4>1. {j \in {i} : devices[j] # NoRow} = {}
        BY <3>1
      <4>2. QED
        BY <1>1, <2>1, <3>1, <4>1 DEF GetDevice, AnswerAtOnce
    <3>2. CASE devices[i] # NoRow
      <4>1. {j \in {i} : devices[j] # NoRow} = {i}
        BY <3>2
      <4>2. QED
        BY <1>1, <2>1, <3>2, <4>1 DEF GetDevice, AnswerAtOnce
    <3>3. QED
      BY <3>1, <3>2
  <2>3. QED
    BY <2>2 DEF Call
<1>5. CASE ListDevices(r)
  BY <1>1, <1>5 DEF ListDevices, AnswerAtOnce, Call
<1>6. CASE \E op \in Ops \cap ReadOps : FailRead(r, op)
  BY <1>1, <1>6 DEF FailRead, AnswerAtOnce
<1>7. CASE \/ \E op \in Ops \cap {"create", "update"} : RejectMalformed(r, op)
           \/ \E b \in Body : RejectCreate(r, b) \/ StartCreate(r, b)
           \/ \E i \in DeviceId : (\E b \in Body : StartUpdate(r, i, b)) \/ StartDelete(r, i)
  <2>1. call'[r].op \in {"create", "update", "delete"}
    BY <1>1, <1>7 DEF RejectMalformed, RejectCreate, StartCreate, StartUpdate, StartDelete,
                      AnswerAtOnce, Begin, Call
  <2>2. QED
    BY <2>1 DEF ReadOps
<1>8. QED
  BY <1>3, <1>4, <1>5, <1>6, <1>7 DEF Arrive

(* Clients see their writes: whatever requests run side by side, a GET     *)
(* accepted after a deletion was answered 204 shows the device no more,    *)
(* and one accepted after a creation was answered 201 shows it unless a    *)
(* client has asked to delete it.                                          *)
THEOREM AnsweredWritesAreRead == Spec => ReadsAreCurrent
<1> DEFINE Current ==
      \A r, s \in Request :
       (/\ pc[r] = "idle" /\ call'[r].op \in ReadOps /\ status'[r] \in {200, 404}
        /\ pc[s] = "done") =>
         /\ call[s].op = "delete" /\ status[s] = 204 => call[s].id \notin call'[r].seen
         /\ (/\ call[s].op = "create" /\ status[s] = 201
             /\ call'[r].op = "list" \/ call'[r].id = call[s].id
             /\ \A d \in Request : ~(call[d].op = "delete" /\ call[d].id = call[s].id))
            => call[s].id \in call'[r].seen
<1>1. BaseInv /\ OrderInv /\ RowsStay /\ [Next]_vars => Current
  <2> SUFFICES ASSUME BaseInv, OrderInv, RowsStay, [Next]_vars,
                      NEW r \in Request, NEW s \in Request,
                      pc[r] = "idle", call'[r].op \in ReadOps, status'[r] \in {200, 404},
                      pc[s] = "done"
               PROVE
         /\ call[s].op = "delete" /\ status[s] = 204 => call[s].id \notin call'[r].seen
         /\ (/\ call[s].op = "create" /\ status[s] = 201
             /\ call'[r].op = "list" \/ call'[r].id = call[s].id
             /\ \A d \in Request : ~(call[d].op = "delete" /\ call[d].id = call[s].id))
            => call[s].id \in call'[r].seen
    OBVIOUS
  <2>1. \/ /\ call'[r].op = "list"
           /\ call'[r].seen = {i \in DeviceId : devices[i] # NoRow}
        \/ /\ call'[r].op = "get"
           /\ call'[r].seen = {i \in {call'[r].id} : devices[i] # NoRow}
    BY ReadReads
  <2>2. call[s].op \in {"delete", "create"} /\ status[s] \in {201, 204}
          => Committed(s) /\ call[s].id \in DeviceId
    BY DEF BaseInv, HandlersOK, HandlerOK, Committed, WriteOps
  <2>3. call[s].op = "delete" /\ status[s] = 204 => devices[call[s].id] = NoRow
    BY <2>2 DEF OrderInv, DeletedIsGone
  <2>4. (/\ call[s].op = "create" /\ status[s] = 201
         /\ \A d \in Request : ~(call[d].op = "delete" /\ call[d].id = call[s].id))
        => devices[call[s].id] # NoRow
    BY <2>2 DEF RowsStay
  <2>5. QED
    BY <2>1, <2>2, <2>3, <2>4
<1>2. Spec => [](BaseInv /\ OrderInv /\ RowsStay)
  BY InitRows, NextRows, SpecBase, SpecOrder, PTL DEF Spec
<1>3. QED
  BY <1>1, <1>2, PTL DEF Spec, ReadsAreCurrent
=============================================================================
