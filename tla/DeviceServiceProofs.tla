------------------------ MODULE DeviceServiceProofs ------------------------
(***************************************************************************)
(* Proofs about DeviceService for every number of requests, devices,       *)
(* bodies, retries and restarts.                                           *)
(***************************************************************************)
EXTENDS DeviceService, TLAPS, SequenceTheorems, FiniteSetTheorems

-----------------------------------------------------------------------------
(* The inductive invariant behind types and events.                        *)

(* What is known of a request at each point of its handler.                *)
HandlerOK(r) ==
  /\ pc[r] \in {"idle", "find", "write"} => at[r] = 0 /\ status[r] = 0
  /\ pc[r] = "idle" => call[r].op = "none"
  /\ pc[r] = "find" => /\ call[r].op \in {"update", "delete"} /\ call[r].id \in DeviceId
                       /\ call[r].op = "update" => call[r].row \in Body
  /\ pc[r] = "write" => /\ call[r].op \in WriteOps /\ call[r].id \in DeviceId
                        /\ call[r].row \in Row
  /\ pc[r] = "spawn" => at[r] > 0 /\ status[r] = 0
  /\ pc[r] = "reply" => at[r] > 0
  /\ at[r] > 0 => /\ call[r].op \in WriteOps /\ call[r].id \in DeviceId
                  /\ call[r].row \in Row /\ status[r] \notin {400, 404}
  /\ call[r].op \in WriteOps /\ status[r] \in {200, 201, 204} => at[r] > 0

(* A publisher exists only after the write of its request was acknowledged *)
(* to the use case.                                                        *)
PublisherOK(r) ==
  ppc[r] # "none" => /\ at[r] > 0
                     /\ pc[r] \in {"reply", "done", "lost"}
                     /\ status[r] \in {200, 201, 204}
                     /\ attempt[r] >= 1

HandlersOK == \A r \in Request : HandlerOK(r)
PublishersOK == \A r \in Request : PublisherOK(r)

BaseInv == TypeOK /\ HandlersOK /\ PublishersOK /\ EventsAreTrue

LEMMA InitBase == Init => BaseInv
<1> SUFFICES ASSUME Init PROVE BaseInv
  OBVIOUS
<1> USE ConstantsAssumption DEF Init, NoCall, Call
<1>1. TypeOK
  BY DEF TypeOK, CallRecord
<1>2. HandlersOK
  BY DEF HandlersOK, HandlerOK, WriteOps
<1>3. PublishersOK
  BY DEF PublishersOK, PublisherOK
<1>4. EventsAreTrue
  BY DEF EventsAreTrue
<1>5. QED
  BY <1>1, <1>2, <1>3, <1>4 DEF BaseInv

LEMMA CallTyped ==
  ASSUME NEW o \in WriteOps \cup ReadOps \cup {"none"}, NEW i \in DeviceId \cup {NoRow},
         NEW row \in Body \cup {NoRow}, NEW created \in Nat, NEW seen \in SUBSET DeviceId
  PROVE  /\ Call(o, i, row, created, seen) \in CallRecord
         /\ Call(o, i, row, created, seen).op = o
         /\ Call(o, i, row, created, seen).id = i
         /\ Call(o, i, row, created, seen).row = row
         /\ Call(o, i, row, created, seen).createdAt = created
BY DEF Call, CallRecord

(* The events told so far stay true while no committed write changes.      *)
LEMMA EventsKeep ==
  ASSUME TypeOK, EventsAreTrue, topic' = topic,
         \A s \in Request : Committed(s) =>
            at'[s] = at[s] /\ call'[s] = call[s] /\ status'[s] \in {status[s], 200, 201, 204}
  PROVE  EventsAreTrue'
<1> SUFFICES ASSUME NEW n \in DOMAIN topic
             PROVE  Reports(topic[n])'
  BY Zenon DEF EventsAreTrue
<1>1. topic[n] \in EventRecord
  BY ElementOfSeq DEF TypeOK
<1>2. topic[n].by \in Request
  BY <1>1 DEF EventRecord
<1>3. Reports(topic[n])
  BY Zenon DEF EventsAreTrue
<1>4. QED
  BY <1>2, <1>3 DEF Reports, Committed

(* A handler that has not written may change its call and its answer.      *)
LEMMA BeginBase ==
  ASSUME BaseInv, NEW r \in Request, pc[r] = "idle",
         NEW c \in CallRecord, NEW p, Begin(r, c, p),
         \/ p = "find" /\ c.op = "update" /\ c.id \in DeviceId /\ c.row \in Body
         \/ p = "find" /\ c.op = "delete" /\ c.id \in DeviceId
         \/ p = "write" /\ c.op = "create" /\ c.id \in DeviceId /\ c.row \in Row,
         devices' = devices, minted' \in SUBSET DeviceId, clock' \in Nat, commits' = commits
  PROVE  BaseInv'
<1> USE DEF BaseInv, Begin, processVars, publisherVars
<1>1. TypeOK'
  BY DEF TypeOK
<1>2. HandlersOK'
  BY DEF TypeOK, HandlersOK, HandlerOK, WriteOps
<1>3. PublishersOK'
  BY DEF TypeOK, HandlersOK, HandlerOK, PublishersOK, PublisherOK
<1>4. EventsAreTrue'
  BY EventsKeep DEF TypeOK, HandlersOK, HandlerOK, Committed
<1>5. QED
  BY <1>1, <1>2, <1>3, <1>4

LEMMA AnswerAtOnceBase ==
  ASSUME BaseInv, NEW r \in Request, pc[r] = "idle",
         NEW c \in CallRecord, NEW code, AnswerAtOnce(r, c, code),
         \/ c.op \in WriteOps /\ code = 400
         \/ c.op \in ReadOps /\ code \in {200, 404, 500}
  PROVE  BaseInv'
<1> USE DEF BaseInv, AnswerAtOnce, processVars, publisherVars, dbVars
<1>1. TypeOK'
  BY DEF TypeOK
<1>2. HandlersOK'
  BY DEF TypeOK, HandlersOK, HandlerOK, WriteOps, ReadOps
<1>3. PublishersOK'
  BY DEF TypeOK, HandlersOK, HandlerOK, PublishersOK, PublisherOK
<1>4. EventsAreTrue'
  BY EventsKeep DEF TypeOK, HandlersOK, HandlerOK, Committed
<1>5. QED
  BY <1>1, <1>2, <1>3, <1>4

LEMMA FailBase ==
  ASSUME BaseInv, NEW r \in Request, pc[r] \in {"find", "write"},
         NEW code \in {400, 404, 500}, Fail(r, code)
  PROVE  BaseInv'
<1> USE DEF BaseInv, Fail, processVars, publisherVars, dbVars
<1>1. TypeOK'
  BY DEF TypeOK
<1>2. HandlersOK'
  BY DEF TypeOK, HandlersOK, HandlerOK, WriteOps, ReadOps
<1>3. PublishersOK'
  BY DEF TypeOK, HandlersOK, HandlerOK, PublishersOK, PublisherOK
<1>4. EventsAreTrue'
  BY EventsKeep DEF TypeOK, HandlersOK, HandlerOK, Committed
<1>5. QED
  BY <1>1, <1>2, <1>3, <1>4
LEMMA ProceedBase ==
  ASSUME BaseInv, NEW r \in Request, NEW p, Proceed(r, p),
         NEW c \in CallRecord, call' = [call EXCEPT ![r] = c],
         \/ /\ pc[r] = "find" /\ p = "write"
            /\ c.op = call[r].op /\ c.id = call[r].id /\ c.row \in Row
         \/ pc[r] = "reply" /\ p = "done" /\ c = call[r]
  PROVE  BaseInv'
<1> USE DEF BaseInv, Proceed, processVars, publisherVars, dbVars
<1>1. TypeOK'
  BY DEF TypeOK
<1>2. HandlersOK'
  BY DEF TypeOK, HandlersOK, HandlerOK, WriteOps
<1>3. PublishersOK'
  BY DEF TypeOK, HandlersOK, HandlerOK, PublishersOK, PublisherOK
<1>4. EventsAreTrue'
  BY EventsKeep DEF TypeOK, HandlersOK, HandlerOK, Committed
<1>5. QED
  BY <1>1, <1>2, <1>3, <1>4

(* The statement that takes effect makes its request's first commit.       *)
LEMMA CommitBase ==
  ASSUME BaseInv, NEW r \in Request, pc[r] = "write",
         NEW row \in Row \cup {NoRow}, NEW acked \in BOOLEAN, Commit(r, row, acked)
  PROVE  BaseInv'
<1> USE DEF BaseInv, Commit, processVars, publisherVars, dbVars
<1>1. TypeOK'
  BY DEF TypeOK, HandlersOK, HandlerOK
<1>2. HandlersOK'
  BY DEF TypeOK, HandlersOK, HandlerOK, WriteOps
<1>3. PublishersOK'
  BY DEF TypeOK, HandlersOK, HandlerOK, PublishersOK, PublisherOK
<1>4. EventsAreTrue'
  BY EventsKeep DEF TypeOK, HandlersOK, HandlerOK, Committed
<1>5. QED
  BY <1>1, <1>2, <1>3, <1>4

LEMMA SpawnBase ==
  ASSUME BaseInv, NEW r \in Request, Spawn(r)
  PROVE  BaseInv'
<1> USE DEF BaseInv, Spawn, processVars, dbVars
<1>0. Success[call[r].op] \in {200, 201, 204}
  BY DEF HandlersOK, HandlerOK, Success, WriteOps
<1>a. call[r].createdAt \in Nat
  BY DEF TypeOK, CallRecord
<1>b. 1 \in 0..MaxRetries
  BY ConstantsAssumption
<1>1. TypeOK'
  <2>0. PICK p \in {"write", "stamp"} : ppc' = [ppc EXCEPT ![r] = p]
    OBVIOUS
  <2>1. ppc' \in [Request -> {"none", "stamp", "write", "done", "lost"}]
    BY <2>0 DEF TypeOK
  <2>2. PICK t \in Nat : stamp' = [stamp EXCEPT ![r] = t]
    <3>1. stamp[r] \in Nat /\ stamp = [stamp EXCEPT ![r] = stamp[r]]
      BY DEF TypeOK
    <3>2. QED
      BY <1>a, <3>1
  <2>3. stamp' \in [Request -> Nat]
    BY <2>2 DEF TypeOK
  <2>4. QED
    BY <1>0, <1>b, <2>1, <2>3 DEF TypeOK
<1>2. HandlersOK'
  BY <1>0 DEF TypeOK, HandlersOK, HandlerOK
<1>3. PublishersOK'
  BY <1>0 DEF TypeOK, HandlersOK, HandlerOK, PublishersOK, PublisherOK
<1>4. EventsAreTrue'
  BY <1>0, EventsKeep DEF TypeOK, Committed
<1>5. QED
  BY <1>1, <1>2, <1>3, <1>4

(* A step of a publisher that neither ends up unborn nor writes the topic. *)
LEMMA PublisherStepBase ==
  ASSUME BaseInv, NEW r \in Request, ppc[r] # "none",
         UNCHANGED <<processVars, dbVars, handlerVars, topic>>,
         clock' \in Nat,
         NEW p \in {"write", "done"}, ppc' = [ppc EXCEPT ![r] = p],
         NEW n \in 1..MaxRetries, attempt' = [attempt EXCEPT ![r] = n],
         NEW k \in 0..WriterCopies, sent' = [sent EXCEPT ![r] = k],
         NEW t \in Nat, stamp' = [stamp EXCEPT ![r] = t]
  PROVE  BaseInv'
<1> USE DEF BaseInv, processVars, dbVars, handlerVars
<1>1. TypeOK'
  <2>1. /\ ppc' \in [Request -> {"none", "stamp", "write", "done", "lost"}]
        /\ attempt' \in [Request -> 0..MaxRetries]
        /\ sent' \in [Request -> 0..WriterCopies]
        /\ stamp' \in [Request -> Nat]
    BY ConstantsAssumption DEF TypeOK
  <2>2. QED
    BY <2>1 DEF TypeOK
<1>2. HandlersOK'
  BY DEF HandlersOK, HandlerOK
<1>3. PublishersOK'
  <2>1. \A s \in Request : ppc'[s] = ppc[s] \/ s = r
    BY DEF TypeOK
  <2>2. ppc'[r] = p /\ stamp'[r] = t /\ attempt'[r] = n /\ sent'[r] = k
    BY DEF TypeOK
  <2>3. QED
    BY <2>1, <2>2, SMTT(30) DEF TypeOK, PublishersOK, PublisherOK
<1>4. EventsAreTrue'
  BY EventsKeep
<1>5. QED
  BY <1>1, <1>2, <1>3, <1>4

(* Appending leaves the elements that were there where they were.          *)
LEMMA AppendKeeps ==
  ASSUME NEW S, NEW q \in Seq(S), NEW e \in S
  PROVE  /\ Append(q, e) \in Seq(S)
         /\ DOMAIN q \subseteq DOMAIN Append(q, e)
         /\ \A n \in DOMAIN q : Append(q, e)[n] = q[n]
         /\ \A n \in DOMAIN Append(q, e) : n \notin DOMAIN q => Append(q, e)[n] = e
BY AppendProperties, LenProperties

(* The message a live publisher sends is typed and true.                   *)
LEMMA EventTyped ==
  ASSUME BaseInv, NEW r \in Request, ppc[r] # "none"
  PROVE  Event(r) \in EventRecord /\ Reports(Event(r))
<1>1. /\ at[r] > 0 /\ status[r] \in {200, 201, 204}
      /\ call[r].op \in WriteOps /\ call[r].id \in DeviceId /\ call[r].row \in Row
  BY DEF BaseInv, PublishersOK, PublisherOK, HandlersOK, HandlerOK
<1>2. stamp[r] \in Nat
  BY DEF BaseInv, TypeOK
<1>3. QED
  BY <1>1, <1>2 DEF Event, EventRecord, Reports, Committed

LEMMA SendBase ==
  ASSUME BaseInv, NEW r \in Request, Send(r)
  PROVE  BaseInv'
<1> USE DEF BaseInv, Send, processVars, dbVars, handlerVars
<1>1. Event(r) \in EventRecord /\ Reports(Event(r))
  BY EventTyped
<1>2. topic' \in Seq(EventRecord) /\ topic' = Append(topic, Event(r))
  BY <1>1, AppendProperties DEF TypeOK
<1>3. TypeOK'
  <2>1. /\ ppc' \in [Request -> {"none", "stamp", "write", "done", "lost"}]
        /\ attempt' \in [Request -> 0..MaxRetries]
        /\ sent' \in [Request -> 0..WriterCopies]
        /\ stamp' \in [Request -> Nat]
    BY ConstantsAssumption DEF TypeOK
  <2>2. QED
    BY <1>2, <2>1 DEF TypeOK
<1>4. HandlersOK'
  BY DEF HandlersOK, HandlerOK
<1>5. PublishersOK'
  BY DEF TypeOK, PublishersOK, PublisherOK
<1>6. EventsAreTrue'
  <2> SUFFICES ASSUME NEW n \in DOMAIN topic' PROVE Reports(topic[n])'
    BY Zenon DEF EventsAreTrue
  <2>1. Reports(topic'[n])
    <3>1. CASE n \in DOMAIN topic
      <4>1. topic'[n] = topic[n]
        BY <1>2, <3>1, AppendKeeps DEF TypeOK
      <4>2. Reports(topic[n])
        BY <3>1, Zenon DEF EventsAreTrue
      <4>3. QED
        BY <4>1, <4>2, Zenon
    <3>2. CASE n \notin DOMAIN topic
      <4>1. topic'[n] = Event(r)
        BY <1>2, <3>2, AppendKeeps DEF TypeOK
      <4>2. QED
        BY <1>1, <4>1, Zenon
    <3>3. QED
      BY <3>1, <3>2
  <2>2. UNCHANGED <<at, call, status>>
    BY DEF handlerVars
  <2>3. QED
    BY <2>1, <2>2 DEF Reports, Committed
<1>7. QED
  BY <1>3, <1>4, <1>5, <1>6

LEMMA KillBase ==
  ASSUME BaseInv, Kill
  PROVE  BaseInv'
<1> USE DEF BaseInv, Kill, dbVars
<1>1. TypeOK'
  BY DEF TypeOK
<1>2. HandlersOK'
  BY DEF TypeOK, HandlersOK, HandlerOK, InFlight
<1>3. PublishersOK'
  BY DEF TypeOK, PublishersOK, PublisherOK, InFlight, Publishing
<1>4. EventsAreTrue'
  BY EventsKeep
<1>5. QED
  BY <1>1, <1>2, <1>3, <1>4

LEMMA BecomeBase ==
  ASSUME BaseInv, starts' \in Nat, UNCHANGED <<dbVars, handlerVars, publisherVars, topic>>,
         svc' \in {"up", "draining", "closed", "down"}, clock' = clock
  PROVE  BaseInv'
<1> USE DEF BaseInv, dbVars, handlerVars, publisherVars
<1>1. TypeOK'
  BY DEF TypeOK
<1>2. HandlersOK'
  BY DEF HandlersOK, HandlerOK
<1>3. PublishersOK'
  BY DEF PublishersOK, PublisherOK
<1>4. EventsAreTrue'
  BY EventsKeep
<1>5. QED
  BY <1>1, <1>2, <1>3, <1>4
-----------------------------------------------------------------------------
(* Every step of Next preserves BaseInv: one lemma per group of actions.   *)

LEMMA ArriveBase ==
  ASSUME BaseInv, NEW r \in Request, Arrive(r)
  PROVE  BaseInv'
<1> USE DEF Accept
<1>1. ASSUME NEW op \in Ops \cap {"create", "update"}, RejectMalformed(r, op)
      PROVE  BaseInv'
  BY <1>1, AnswerAtOnceBase, CallTyped DEF RejectMalformed, WriteOps
<1>2. ASSUME NEW b \in Body, RejectCreate(r, b)
      PROVE  BaseInv'
  <2> DEFINE c == Call("create", NoRow, NoRow, 0, {})
  <2>1. c \in CallRecord /\ c.op \in WriteOps
    BY DEF Call, CallRecord, WriteOps
  <2>2. pc[r] = "idle" /\ AnswerAtOnce(r, c, 400)
    BY <1>2 DEF RejectCreate
  <2> HIDE DEF c
  <2>3. QED
    BY <2>1, <2>2, AnswerAtOnceBase
<1>3. ASSUME NEW b \in Body, StartCreate(r, b)
      PROVE  BaseInv'
  <2>1. PICK i \in DeviceId \ minted :
          /\ minted' = minted \cup {i} /\ clock' = clock + 1
          /\ Begin(r, Call("create", i, b, clock', {}), "write")
    BY <1>3 DEF StartCreate
  <2>2. minted' \in SUBSET DeviceId /\ clock' \in Nat /\ b \in Row
    BY <1>3, <2>1 DEF BaseInv, TypeOK, Row, StartCreate
  <2>3. pc[r] = "idle" /\ devices' = devices /\ commits' = commits
    BY <1>3 DEF StartCreate
  <2>4. QED
    BY <2>1, <2>2, <2>3, BeginBase, CallTyped DEF WriteOps
<1>4. ASSUME NEW i \in DeviceId, NEW b \in Body, StartUpdate(r, i, b)
      PROVE  BaseInv'
  <2> DEFINE c == Call("update", i, b, 0, {})
  <2>1. c \in CallRecord /\ c.op = "update" /\ c.id \in DeviceId /\ c.row \in Body
    BY DEF Call, CallRecord, WriteOps
  <2>2. pc[r] = "idle" /\ Begin(r, c, "find")
    BY <1>4 DEF StartUpdate
  <2>3. devices' = devices /\ minted' \in SUBSET DeviceId /\ clock' \in Nat /\ commits' = commits
    BY <1>4 DEF StartUpdate, dbVars, BaseInv, TypeOK
  <2> HIDE DEF c
  <2>4. QED
    BY <2>1, <2>2, <2>3, BeginBase
<1>5. ASSUME NEW i \in DeviceId, StartDelete(r, i)
      PROVE  BaseInv'
  <2> DEFINE c == Call("delete", i, NoRow, 0, {})
  <2>1. c \in CallRecord /\ c.op = "delete" /\ c.id \in DeviceId
    BY DEF Call, CallRecord, WriteOps
  <2>2. pc[r] = "idle" /\ Begin(r, c, "find")
    BY <1>5 DEF StartDelete
  <2>3. devices' = devices /\ minted' \in SUBSET DeviceId /\ clock' \in Nat /\ commits' = commits
    BY <1>5 DEF StartDelete, dbVars, BaseInv, TypeOK
  <2> HIDE DEF c
  <2>4. QED
    BY <2>1, <2>2, <2>3, BeginBase
<1>6. ASSUME NEW i \in DeviceId, GetDevice(r, i)
      PROVE  BaseInv'
  <2> DEFINE c(seen) == Call("get", i, NoRow, 0, seen)
  <2>1. pc[r] = "idle" /\ (AnswerAtOnce(r, c({}), 404) \/ AnswerAtOnce(r, c({i}), 200))
    BY <1>6 DEF GetDevice
  <2>2. \A seen \in SUBSET DeviceId : c(seen) \in CallRecord /\ c(seen).op \in ReadOps
    BY DEF Call, CallRecord, WriteOps, ReadOps
  <2>3. {} \in SUBSET DeviceId /\ {i} \in SUBSET DeviceId
    OBVIOUS
  <2> HIDE DEF c
  <2>4. CASE AnswerAtOnce(r, c({}), 404)
    BY <2>1, <2>2, <2>3, <2>4, AnswerAtOnceBase
  <2>5. CASE AnswerAtOnce(r, c({i}), 200)
    BY <2>1, <2>2, <2>3, <2>5, AnswerAtOnceBase
  <2>6. QED
    BY <2>1, <2>4, <2>5
<1>7. ASSUME ListDevices(r)
      PROVE  BaseInv'
  <2> DEFINE c == Call("list", NoRow, NoRow, 0, {i \in DeviceId : devices[i] # NoRow})
  <2>1. c \in CallRecord /\ c.op \in ReadOps
    BY CallTyped DEF ReadOps
  <2>2. pc[r] = "idle" /\ AnswerAtOnce(r, c, 200)
    BY <1>7 DEF ListDevices
  <2> HIDE DEF c
  <2>3. QED
    BY <2>1, <2>2, AnswerAtOnceBase
<1>8. ASSUME NEW op \in Ops \cap ReadOps, FailRead(r, op)
      PROVE  BaseInv'
  BY <1>8, AnswerAtOnceBase, CallTyped DEF FailRead
<1>9. QED
  BY <1>1, <1>2, <1>3, <1>4, <1>5, <1>6, <1>7, <1>8 DEF Arrive

LEMMA HandleBase ==
  ASSUME BaseInv, NEW r \in Request, Handle(r)
  PROVE  BaseInv'
<1>0. /\ call \in [Request -> CallRecord]
      /\ devices \in [DeviceId -> Row \cup {NoRow}]
      /\ pc[r] = "find" => call[r].op \in {"update", "delete"} /\ call[r].id \in DeviceId
      /\ pc[r] = "find" /\ call[r].op = "update" => call[r].row \in Body
      /\ pc[r] = "write" => call[r].row \in Row
  BY DEF BaseInv, TypeOK, HandlersOK, HandlerOK
<1>1. CASE FindNothing(r) \/ RefuseUpdate(r) \/ AffectNoRow(r) \/ FailStatement(r)
  BY <1>1, FailBase DEF FindNothing, RefuseUpdate, AffectNoRow, FailStatement
<1>2. CASE FindForUpdate(r)
  <2>1. call[r] \in CallRecord /\ call' = [call EXCEPT ![r] = call[r]]
    BY <1>0, <1>2 DEF FindForUpdate
  <2>2. pc[r] = "find" /\ call[r].row \in Row /\ Proceed(r, "write")
    BY <1>0, <1>2 DEF FindForUpdate, Row
  <2>3. QED
    BY <2>1, <2>2, ProceedBase
<1>3. CASE FindForDelete(r)
  <2> DEFINE c == [call[r] EXCEPT !.row = devices[call[r].id]]
  <2>1. devices[call[r].id] \in Row
    BY <1>0, <1>3 DEF FindForDelete
  <2>2. c \in CallRecord /\ c.op = call[r].op /\ c.id = call[r].id /\ c.row \in Row
    BY <1>0, <2>1 DEF CallRecord, Row
  <2>3. call' = [call EXCEPT ![r] = c]
    BY <1>0, <1>3 DEF FindForDelete
  <2>4. pc[r] = "find" /\ Proceed(r, "write")
    BY <1>3 DEF FindForDelete
  <2> HIDE DEF c
  <2>5. QED
    BY <2>2, <2>3, <2>4, ProceedBase
<1>4. ASSUME NEW acked \in BOOLEAN, Save(r, acked) \/ Update(r, acked) \/ Delete(r, acked)
      PROVE  BaseInv'
  BY <1>0, <1>4, CommitBase DEF Save, Update, Delete
<1>5. CASE Spawn(r)
  BY <1>5, SpawnBase
<1>6. CASE Reply(r)
  <2>1. call[r] \in CallRecord /\ call' = [call EXCEPT ![r] = call[r]]
    BY <1>0, <1>6 DEF Reply
  <2>2. QED
    BY <1>6, <2>1, ProceedBase DEF Reply
<1>7. QED
  BY <1>1, <1>2, <1>3, <1>4, <1>5, <1>6 DEF Handle, Find, Write

LEMMA PublishBase ==
  ASSUME BaseInv, NEW r \in Request, Publish(r)
  PROVE  BaseInv'
<1>0. /\ clock \in Nat /\ attempt \in [Request -> 0..MaxRetries]
      /\ sent \in [Request -> 0..WriterCopies] /\ stamp \in [Request -> Nat]
      /\ ppc \in [Request -> {"none", "stamp", "write", "done", "lost"}]
      /\ ppc[r] # "none" => attempt[r] \in 1..MaxRetries
      /\ MaxRetries \in Nat /\ WriterCopies \in Nat
  BY ConstantsAssumption DEF BaseInv, TypeOK, PublishersOK, PublisherOK
<1>1. /\ attempt = [attempt EXCEPT ![r] = attempt[r]]
      /\ sent = [sent EXCEPT ![r] = sent[r]] /\ sent[r] \in 0..WriterCopies
      /\ stamp = [stamp EXCEPT ![r] = stamp[r]] /\ stamp[r] \in Nat
      /\ ppc = [ppc EXCEPT ![r] = ppc[r]]
  BY <1>0
<1>2. CASE Stamp(r)
  <2>1. ppc[r] # "none" /\ clock' \in Nat /\ clock + 1 \in Nat
    BY <1>0, <1>2 DEF Stamp
  <2>2. /\ attempt' = [attempt EXCEPT ![r] = attempt[r]]
        /\ sent' = [sent EXCEPT ![r] = sent[r]]
    BY <1>1, <1>2 DEF Stamp
  <2>3. QED
    BY <1>0, <1>1, <1>2, <2>1, <2>2, PublisherStepBase DEF Stamp
<1>3. CASE Send(r)
  BY <1>3, SendBase
<1>4. CASE ppc[r] = "write" /\ EndPublisher(r)
  <2>1. /\ attempt' = [attempt EXCEPT ![r] = attempt[r]]
        /\ sent' = [sent EXCEPT ![r] = sent[r]]
        /\ stamp' = [stamp EXCEPT ![r] = stamp[r]]
    BY <1>1, <1>4 DEF EndPublisher
  <2>2. QED
    BY <1>0, <1>1, <1>4, <2>1, PublisherStepBase DEF EndPublisher
<1>5. CASE ppc[r] = "write" /\ attempt[r] < MaxRetries /\ Retry(r, attempt[r] + 1)
  <2>1. attempt[r] + 1 \in 1..MaxRetries /\ 0 \in 0..WriterCopies
    BY <1>0, <1>5
  <2>2. /\ ppc' = [ppc EXCEPT ![r] = "write"]
        /\ stamp' = [stamp EXCEPT ![r] = stamp[r]]
    BY <1>1, <1>5 DEF Retry
  <2>3. QED
    BY <1>0, <1>1, <1>5, <2>1, <2>2, PublisherStepBase DEF Retry
<1>6. QED
  BY <1>2, <1>3, <1>4, <1>5 DEF Publish, WriteEnds, WriteRetriable

LEMMA ProcessBase ==
  ASSUME BaseInv, Process
  PROVE  BaseInv'
<1>1. CASE Crash \/ Exit
  BY <1>1, KillBase DEF Crash, Exit
<1>2. CASE Signal \/ CloseDrained \/ CloseTimedOut \/ Restart
  <2>1. svc' \in {"up", "draining", "closed", "down"} /\ starts' \in Nat
    BY <1>2 DEF Signal, CloseDrained, CloseTimedOut, Restart, Become, BaseInv, TypeOK
  <2>2. UNCHANGED <<dbVars, handlerVars, publisherVars, topic>> /\ clock' = clock
    BY <1>2 DEF Signal, CloseDrained, CloseTimedOut, Restart, Become
  <2>3. QED
    BY <2>1, <2>2, BecomeBase
<1>3. QED
  BY <1>1, <1>2 DEF Process

LEMMA NextBase == BaseInv /\ [Next]_vars => BaseInv'
<1> SUFFICES ASSUME BaseInv, [Next]_vars PROVE BaseInv'
  OBVIOUS
<1>1. CASE UNCHANGED vars
  BY <1>1, BecomeBase
  DEF vars, processVars, dbVars, handlerVars, publisherVars, BaseInv, TypeOK
<1>2. ASSUME NEW r \in Request, Arrive(r) \/ Handle(r) \/ Publish(r)
      PROVE  BaseInv'
  BY <1>2, ArriveBase, HandleBase, PublishBase
<1>3. CASE Process
  BY <1>3, ProcessBase
<1>4. QED
  BY <1>1, <1>2, <1>3 DEF Next

LEMMA SpecBase == Spec => []BaseInv
BY InitBase, NextBase, PTL DEF Spec

(* Type correctness: whatever clients send, and however handlers,          *)
(* publishers, crashes and restarts interleave, every variable keeps its   *)
(* type; every row of the table and every published name passed validation.*)
THEOREM TypeCorrect == Spec => []TypeOK
BY SpecBase, PTL DEF BaseInv

(* No event without its change: every message of the topic reports a write *)
(* that took effect, for any number of requests, retries and restarts.     *)
THEOREM EventsReportCommits == Spec => []EventsAreTrue
BY SpecBase, PTL DEF BaseInv

(* A 2xx answer to a write implies its effect, a 400 or 404 its absence.   *)
THEOREM AnswersCorrect == Spec => []AnswersMatchTable
<1>1. BaseInv => AnswersMatchTable
  BY DEF BaseInv, TypeOK, HandlersOK, HandlerOK, AnswersMatchTable, Committed
<1>2. QED
  BY <1>1, SpecBase, PTL

-----------------------------------------------------------------------------
(* The copies of an event.                                                 *)

Copies(r) == {n \in DOMAIN topic : topic[n].by = r}

(* What a publisher can have sent: every attempt behind it in full, and    *)
(* what the current one has sent so far.                                   *)
Sendable(a, s) == IF a = 0 THEN 0 ELSE (a - 1) * WriterCopies + s

CopiesOK(r) ==
  /\ ppc[r] = "none" => attempt[r] = 0
  /\ attempt[r] = 0 => sent[r] = 0
  /\ IsFiniteSet(Copies(r))
  /\ Cardinality(Copies(r)) <= Sendable(attempt[r], sent[r])

CopiesInv == \A r \in Request : CopiesOK(r)

LEMMA SendableGrows ==
  ASSUME NEW a \in Nat, NEW s \in 0..WriterCopies
  PROVE  /\ Sendable(a, s) \in Nat
         /\ a > 0 => Sendable(a, s + 1) = Sendable(a, s) + 1
         /\ a > 0 => Sendable(a, s) <= Sendable(a + 1, 0)
         /\ a <= MaxRetries => Sendable(a, s) <= MaxRetries * WriterCopies
<1> USE ConstantsAssumption
<1>1. CASE a = 0
  <2>1. MaxRetries * WriterCopies \in Nat
    OBVIOUS
  <2>2. QED
    BY <1>1, <2>1 DEF Sendable
<1>2. CASE a > 0
  <2>1. (a - 1) * WriterCopies \in Nat
    <3>1. a - 1 \in Nat
      BY <1>2
    <3>2. QED
      BY <3>1
  <2>2. a * WriterCopies = (a - 1) * WriterCopies + WriterCopies
    BY <1>2
  <2>3. Sendable(a + 1, 0) = a * WriterCopies
    BY <1>2 DEF Sendable
  <2>4. a <= MaxRetries => a * WriterCopies <= MaxRetries * WriterCopies
    <3> SUFFICES ASSUME a <= MaxRetries PROVE a * WriterCopies <= MaxRetries * WriterCopies
      OBVIOUS
    <3>1. MaxRetries - a \in Nat
      OBVIOUS
    <3>2. (MaxRetries - a) * WriterCopies \in Nat
      BY <3>1
    <3>3. MaxRetries * WriterCopies = (MaxRetries - a) * WriterCopies + a * WriterCopies
      OBVIOUS
    <3>4. a * WriterCopies \in Nat /\ MaxRetries * WriterCopies \in Nat
      OBVIOUS
    <3>5. QED
      BY <3>2, <3>3, <3>4
  <2>5. a * WriterCopies \in Nat /\ MaxRetries * WriterCopies \in Nat
    OBVIOUS
  <2>6. QED
    BY <1>2, <2>1, <2>2, <2>3, <2>4, <2>5 DEF Sendable
<1>3. QED
  BY <1>1, <1>2

(* A step that sends nothing and takes back no attempt keeps the bound.    *)
LEMMA CopiesKeep ==
  ASSUME CopiesInv, topic' = topic,
         \A s \in Request :
           /\ ppc'[s] = "none" => ppc[s] = "none"
           /\ attempt'[s] = attempt[s] /\ sent'[s] = sent[s]
  PROVE  CopiesInv'
BY DEF CopiesInv, CopiesOK, Copies

LEMMA InitCopies == Init => CopiesInv
<1> SUFFICES ASSUME Init, NEW r \in Request PROVE CopiesOK(r)
  BY DEF CopiesInv
<1>1. Copies(r) = {}
  BY DEF Init, Copies
<1>2. QED
  BY <1>1, FS_EmptySet DEF Init, CopiesOK, Sendable

LEMMA SpawnCopies ==
  ASSUME BaseInv, CopiesInv, NEW r \in Request, Spawn(r)
  PROVE  CopiesInv'
<1>0. /\ attempt \in [Request -> 0..MaxRetries] /\ pc[r] = "spawn"
      /\ ppc \in [Request -> {"none", "stamp", "write", "done", "lost"}]
      /\ topic' = topic /\ sent' = sent /\ attempt' = [attempt EXCEPT ![r] = 1]
      /\ ppc' \in {[ppc EXCEPT ![r] = "write"], [ppc EXCEPT ![r] = "stamp"]}
  BY DEF Spawn, BaseInv, TypeOK
<1>1. ppc[r] = "none"
  BY <1>0 DEF BaseInv, PublishersOK, PublisherOK
<1> SUFFICES ASSUME NEW s \in Request PROVE CopiesOK(s)'
  BY DEF CopiesInv
<1>2. CopiesOK(s) /\ Copies(s)' = Copies(s)
  BY <1>0 DEF CopiesInv, Copies
<1>3. CASE s = r
  <2>1. attempt[r] = 0 /\ sent[r] = 0 /\ Sendable(1, 0) = 0 /\ Sendable(0, 0) = 0
    BY <1>1, <1>2, <1>3, ConstantsAssumption DEF CopiesOK, Sendable
  <2>2. attempt'[r] = 1 /\ sent'[r] = 0 /\ ppc'[r] # "none"
    BY <1>0, <2>1
  <2>3. QED
    BY <1>2, <1>3, <2>1, <2>2 DEF CopiesOK
<1>4. CASE s # r
  <2>1. attempt'[s] = attempt[s] /\ sent'[s] = sent[s] /\ ppc'[s] = ppc[s]
    BY <1>0, <1>4
  <2>2. QED
    BY <1>2, <2>1 DEF CopiesOK
<1>5. QED
  BY <1>3, <1>4

LEMMA SendCopies ==
  ASSUME BaseInv, CopiesInv, NEW r \in Request, Send(r)
  PROVE  CopiesInv'
<1>0. /\ sent \in [Request -> 0..WriterCopies] /\ attempt \in [Request -> 0..MaxRetries]
      /\ ppc[r] = "write" /\ ppc' = ppc /\ attempt' = attempt
      /\ sent' = [sent EXCEPT ![r] = @ + 1] /\ topic \in Seq(EventRecord)
      /\ topic' = Append(topic, Event(r)) /\ Event(r) \in EventRecord /\ Event(r).by = r
  BY EventTyped DEF Send, BaseInv, TypeOK, Event
<1>1. attempt[r] \in Nat /\ attempt[r] > 0 /\ sent[r] \in 0..WriterCopies
  <2>1. attempt[r] >= 1
    BY <1>0 DEF BaseInv, PublishersOK, PublisherOK
  <2>2. attempt[r] \in 0..MaxRetries /\ sent[r] \in 0..WriterCopies /\ MaxRetries \in Nat
    BY <1>0, ConstantsAssumption
  <2>3. QED
    BY <2>1, <2>2
<1>2. /\ DOMAIN topic' = DOMAIN topic \cup {Len(topic) + 1}
      /\ topic'[Len(topic) + 1] = Event(r)
      /\ \A n \in DOMAIN topic : topic'[n] = topic[n]
      /\ Len(topic) + 1 \notin DOMAIN topic
  BY <1>0, AppendProperties
<1> SUFFICES ASSUME NEW s \in Request PROVE CopiesOK(s)'
  BY DEF CopiesInv
<1>3. CopiesOK(s)
  BY DEF CopiesInv
<1>4. CASE s = r
  <2>1. Copies(s)' = Copies(s) \cup {Len(topic) + 1} /\ Len(topic) + 1 \notin Copies(s)
    BY <1>0, <1>2, <1>4 DEF Copies
  <2>2. IsFiniteSet(Copies(s)') /\ Cardinality(Copies(s)') = Cardinality(Copies(s)) + 1
    BY <1>3, <2>1, FS_AddElement DEF CopiesOK
  <2>3. Sendable(attempt'[s], sent'[s]) = Sendable(attempt[s], sent[s]) + 1
    BY <1>0, <1>1, <1>4, SendableGrows
  <2>4. Cardinality(Copies(s)) \in Nat /\ Sendable(attempt[s], sent[s]) \in Nat
    BY <1>1, <1>3, <1>4, SendableGrows, FS_CardinalityType DEF CopiesOK
  <2>5. QED
    BY <1>0, <1>1, <1>3, <1>4, <2>2, <2>3, <2>4 DEF CopiesOK
<1>5. CASE s # r
  <2>1. Copies(s)' = Copies(s)
    BY <1>0, <1>2, <1>5 DEF Copies
  <2>2. sent'[s] = sent[s] /\ attempt'[s] = attempt[s] /\ ppc'[s] = ppc[s]
    BY <1>0, <1>5
  <2>3. QED
    BY <1>3, <2>1, <2>2 DEF CopiesOK
<1>6. QED
  BY <1>4, <1>5

LEMMA RetryCopies ==
  ASSUME BaseInv, CopiesInv, NEW r \in Request, ppc[r] = "write", Retry(r, attempt[r] + 1)
  PROVE  CopiesInv'
<1>0. /\ sent \in [Request -> 0..WriterCopies] /\ attempt \in [Request -> 0..MaxRetries]
      /\ ppc[r] = "write" /\ ppc' = ppc /\ topic' = topic /\ sent' = [sent EXCEPT ![r] = 0]
      /\ attempt' = [attempt EXCEPT ![r] = attempt[r] + 1]
  BY DEF Retry, BaseInv, TypeOK
<1>1. attempt[r] \in Nat /\ attempt[r] > 0 /\ sent[r] \in 0..WriterCopies
  <2>1. attempt[r] >= 1
    BY <1>0 DEF BaseInv, PublishersOK, PublisherOK
  <2>2. attempt[r] \in 0..MaxRetries /\ sent[r] \in 0..WriterCopies /\ MaxRetries \in Nat
    BY <1>0, ConstantsAssumption
  <2>3. QED
    BY <2>1, <2>2
<1> SUFFICES ASSUME NEW s \in Request PROVE CopiesOK(s)'
  BY DEF CopiesInv
<1>2. CopiesOK(s) /\ Copies(s)' = Copies(s)
  BY <1>0 DEF CopiesInv, Copies
<1>3. CASE s = r
  <2>1. Sendable(attempt[s], sent[s]) <= Sendable(attempt[s] + 1, 0)
    BY <1>1, <1>3, SendableGrows
  <2>2. attempt'[s] = attempt[s] + 1 /\ sent'[s] = 0 /\ ppc'[s] # "none"
    BY <1>0, <1>3
  <2>3. /\ Cardinality(Copies(s)) \in Nat
        /\ Sendable(attempt[s], sent[s]) \in Nat /\ Sendable(attempt[s] + 1, 0) \in Nat
    <3>1. attempt[s] + 1 \in Nat /\ 0 \in 0..WriterCopies
      BY <1>1, <1>3, ConstantsAssumption
    <3>2. QED
      BY <1>1, <1>2, <1>3, <3>1, SendableGrows, FS_CardinalityType DEF CopiesOK
  <2>4. QED
    BY <1>1, <1>2, <1>3, <2>1, <2>2, <2>3 DEF CopiesOK
<1>4. CASE s # r
  <2>1. sent'[s] = sent[s] /\ attempt'[s] = attempt[s] /\ ppc'[s] = ppc[s]
    BY <1>0, <1>4
  <2>2. QED
    BY <1>2, <2>1 DEF CopiesOK
<1>5. QED
  BY <1>3, <1>4

LEMMA NextCopies == BaseInv /\ CopiesInv /\ [Next]_vars => CopiesInv'
<1> SUFFICES ASSUME BaseInv, CopiesInv, [Next]_vars PROVE CopiesInv'
  OBVIOUS
<1>1. CASE UNCHANGED vars
  BY <1>1, CopiesKeep DEF vars, publisherVars
<1>2. ASSUME NEW r \in Request, Arrive(r) PROVE CopiesInv'
  <2>1. UNCHANGED <<publisherVars, topic>>
    BY <1>2 DEF Arrive, RejectMalformed, RejectCreate, StartCreate, StartUpdate, StartDelete,
                GetDevice, ListDevices, FailRead, AnswerAtOnce, Begin
  <2>2. QED
    BY <2>1, CopiesKeep DEF publisherVars
<1>3. ASSUME NEW r \in Request, Handle(r) PROVE CopiesInv'
  <2>1. Spawn(r) \/ UNCHANGED <<publisherVars, topic>>
    BY <1>3 DEF Handle, Find, Write, FindNothing, RefuseUpdate, FindForUpdate, FindForDelete,
                Save, Update, Delete, AffectNoRow, FailStatement, Reply, Fail, Proceed, Commit
  <2>2. QED
    BY <2>1, SpawnCopies, CopiesKeep DEF publisherVars
<1>4. ASSUME NEW r \in Request, Publish(r) PROVE CopiesInv'
  <2>1. CASE Stamp(r) \/ (ppc[r] = "write" /\ EndPublisher(r))
    <3>1. UNCHANGED <<attempt, sent, topic>> /\ ppc[r] # "none"
      BY <2>1 DEF Stamp, EndPublisher
    <3>2. ppc' \in {[ppc EXCEPT ![r] = "write"], [ppc EXCEPT ![r] = "done"]}
      BY <2>1 DEF Stamp, EndPublisher
    <3>3. \A s \in Request : ppc'[s] = "none" => ppc[s] = "none"
      BY <3>2 DEF BaseInv, TypeOK
    <3>4. QED
      BY <3>1, <3>3, CopiesKeep
  <2>2. CASE Send(r)
    BY <2>2, SendCopies
  <2>3. CASE ppc[r] = "write" /\ Retry(r, attempt[r] + 1)
    BY <2>3, RetryCopies
  <2>4. QED
    BY <1>4, <2>1, <2>2, <2>3 DEF Publish, WriteEnds, WriteRetriable
<1>5. CASE Process
  <2>1. UNCHANGED <<attempt, sent, topic>> /\ \A s \in Request : ppc'[s] = "none" => ppc[s] = "none"
    BY <1>5 DEF Process, Crash, Exit, Kill, Publishing, Signal, CloseDrained, CloseTimedOut,
                Restart, Become, publisherVars
  <2>2. QED
    BY <2>1, CopiesKeep
<1>6. QED
  BY <1>1, <1>2, <1>3, <1>4, <1>5 DEF Next

(* Retries are bounded: a write leaves at most MaxRetries times            *)
(* WriterCopies messages in the topic, for any number of writes and        *)
(* restarts and whatever the publisher's loop is told of its sends.        *)
THEOREM RetriesBounded == Spec => []CopiesBounded
<1>1. BaseInv /\ CopiesInv => CopiesBounded
  <2> SUFFICES ASSUME BaseInv, CopiesInv, NEW r \in Request
               PROVE  Cardinality(Copies(r)) <= MaxRetries * WriterCopies
    BY DEF CopiesBounded, Copies
  <2>1. attempt[r] \in Nat /\ attempt[r] <= MaxRetries /\ sent[r] \in 0..WriterCopies
    BY ConstantsAssumption DEF BaseInv, TypeOK
  <2>2. CopiesOK(r) /\ Cardinality(Copies(r)) \in Nat
    BY FS_CardinalityType DEF CopiesInv, CopiesOK
  <2>3. /\ Sendable(attempt[r], sent[r]) \in Nat
        /\ Sendable(attempt[r], sent[r]) <= MaxRetries * WriterCopies
    BY <2>1, SendableGrows
  <2>4. MaxRetries * WriterCopies \in Nat
    BY ConstantsAssumption
  <2>5. QED
    BY <2>2, <2>3, <2>4 DEF CopiesOK
<1>2. QED
  BY <1>1, InitCopies, NextCopies, SpecBase, PTL DEF Spec

-----------------------------------------------------------------------------
(* Publishers run down.  Until its goroutine has read the clock, a         *)
(* publisher is at its first attempt.                                      *)
FirstAttempt == \A r \in Request : ppc[r] = "stamp" => attempt[r] = 1 /\ sent[r] = 0

(* The steps left in attempt a after s copies.                             *)
AttemptsLeft(a, s) == (MaxRetries - a) * (WriterCopies + 1) + (WriterCopies - s) + 1

LEMMA AttemptsRunDown ==
  ASSUME NEW a \in 0..MaxRetries, NEW s \in 0..WriterCopies
  PROVE  /\ AttemptsLeft(a, s) \in Nat /\ AttemptsLeft(a, s) > 0
         /\ s < WriterCopies => AttemptsLeft(a, s + 1) < AttemptsLeft(a, s)
         /\ a < MaxRetries => AttemptsLeft(a + 1, 0) < AttemptsLeft(a, s)
         /\ AttemptsLeft(1, 0) = MaxRetries * (WriterCopies + 1)
<1> USE ConstantsAssumption
<1>1. (MaxRetries - a) * (WriterCopies + 1) \in Nat
  BY DEF AttemptsLeft
<1>2. AttemptsLeft(a, s) \in Nat /\ AttemptsLeft(a, s) > 0
  BY <1>1 DEF AttemptsLeft
<1>3. s < WriterCopies => AttemptsLeft(a, s + 1) < AttemptsLeft(a, s)
  BY <1>1 DEF AttemptsLeft
<1>4. ASSUME a < MaxRetries PROVE AttemptsLeft(a + 1, 0) < AttemptsLeft(a, s)
  <2>1. (MaxRetries - a) * (WriterCopies + 1)
          = (MaxRetries - (a + 1)) * (WriterCopies + 1) + (WriterCopies + 1)
    OBVIOUS
  <2>2. (MaxRetries - (a + 1)) * (WriterCopies + 1) \in Nat
    BY <1>4
  <2>3. QED
    BY <1>1, <2>1, <2>2 DEF AttemptsLeft
<1>5. AttemptsLeft(1, 0) = MaxRetries * (WriterCopies + 1)
  <2>1. MaxRetries * (WriterCopies + 1) = (MaxRetries - 1) * (WriterCopies + 1) + (WriterCopies + 1)
    OBVIOUS
  <2>2. (MaxRetries - 1) * (WriterCopies + 1) \in Nat
    OBVIOUS
  <2>3. QED
    BY <2>1, <2>2 DEF AttemptsLeft
<1>6. QED
  BY <1>2, <1>3, <1>4, <1>5

LEMMA StepsLeftCases ==
  ASSUME NEW r \in Request
  PROVE  /\ ppc[r] = "write" => StepsLeft(r) = AttemptsLeft(attempt[r], sent[r])
         /\ ppc[r] = "stamp" => StepsLeft(r) = MaxRetries * (WriterCopies + 1) + 1
         /\ ppc[r] \notin {"write", "stamp"} => StepsLeft(r) = 0
         /\ ppc'[r] = "write" => StepsLeft(r)' = AttemptsLeft(attempt'[r], sent'[r])
         /\ ppc'[r] \notin {"write", "stamp"} => StepsLeft(r)' = 0
BY DEF StepsLeft, AttemptsLeft

LEMMA StepsLeftTyped ==
  ASSUME TypeOK, NEW r \in Request
  PROVE  StepsLeft(r) \in Nat /\ (ppc[r] \in {"write", "stamp"} => StepsLeft(r) > 0)
<1>1. attempt[r] \in 0..MaxRetries /\ sent[r] \in 0..WriterCopies
  BY DEF TypeOK
<1>2. AttemptsLeft(attempt[r], sent[r]) \in Nat /\ AttemptsLeft(attempt[r], sent[r]) > 0
  BY <1>1, AttemptsRunDown
<1>3. MaxRetries * (WriterCopies + 1) \in Nat
  BY ConstantsAssumption
<1>4. QED
  BY <1>2, <1>3, StepsLeftCases

(* Each step of a publisher brings it nearer to its end.                   *)
LEMMA PublishRunsDown ==
  ASSUME BaseInv, FirstAttempt, NEW r \in Request, Publish(r)
  PROVE  StepsLeft(r)' < StepsLeft(r) /\ StepsLeft(r)' \in Nat
<1>1. attempt[r] \in 0..MaxRetries /\ sent[r] \in 0..WriterCopies
  BY DEF BaseInv, TypeOK
<1>2. ppc \in [Request -> {"none", "stamp", "write", "done", "lost"}]
      /\ attempt \in [Request -> 0..MaxRetries] /\ sent \in [Request -> 0..WriterCopies]
  BY DEF BaseInv, TypeOK
<1>3. StepsLeft(r) \in Nat /\ (ppc[r] \in {"write", "stamp"} => StepsLeft(r) > 0)
  BY StepsLeftTyped DEF BaseInv
<1>4. CASE Stamp(r)
  <2>1. /\ ppc[r] = "stamp" /\ ppc'[r] = "write" /\ attempt[r] = 1 /\ sent[r] = 0
        /\ attempt'[r] = attempt[r] /\ sent'[r] = sent[r]
    BY <1>2, <1>4 DEF Stamp, FirstAttempt
  <2>2. StepsLeft(r)' = MaxRetries * (WriterCopies + 1)
    BY <1>1, <2>1, StepsLeftCases, AttemptsRunDown
  <2>3. StepsLeft(r) = MaxRetries * (WriterCopies + 1) + 1
    BY <2>1, StepsLeftCases
  <2>4. MaxRetries * (WriterCopies + 1) \in Nat
    BY ConstantsAssumption
  <2>5. QED
    BY <2>2, <2>3, <2>4
<1>5. CASE Send(r)
  <2>1. /\ ppc[r] = "write" /\ ppc'[r] = "write" /\ sent[r] < WriterCopies
        /\ attempt'[r] = attempt[r] /\ sent'[r] = sent[r] + 1
    BY <1>2, <1>5 DEF Send
  <2>2. sent[r] + 1 \in 0..WriterCopies
    BY <1>1, <2>1, ConstantsAssumption
  <2>3. QED
    BY <1>1, <2>1, <2>2, StepsLeftCases, AttemptsRunDown
<1>6. CASE ppc[r] = "write" /\ EndPublisher(r)
  <2>1. ppc'[r] = "done"
    BY <1>2, <1>6 DEF EndPublisher
  <2>2. QED
    BY <1>3, <1>6, <2>1, StepsLeftCases
<1>7. CASE ppc[r] = "write" /\ attempt[r] < MaxRetries /\ Retry(r, attempt[r] + 1)
  <2>1. /\ ppc[r] = "write" /\ ppc'[r] = "write"
        /\ attempt'[r] = attempt[r] + 1 /\ sent'[r] = 0
    BY <1>2, <1>7 DEF Retry
  <2>2. attempt[r] + 1 \in 0..MaxRetries /\ 0 \in 0..WriterCopies
    BY <1>1, <1>7, ConstantsAssumption
  <2>3. QED
    BY <1>1, <1>7, <2>1, <2>2, StepsLeftCases, AttemptsRunDown
<1>8. QED
  BY <1>4, <1>5, <1>6, <1>7 DEF Publish, WriteEnds, WriteRetriable

(* What a step may do to a publisher that it does not move.                *)
LEMMA OthersKeepSteps ==
  ASSUME BaseInv, NEW r \in Request,
         \/ ppc'[r] = ppc[r] /\ attempt'[r] = attempt[r] /\ sent'[r] = sent[r]
         \/ ppc'[r] \in {"done", "lost"}
  PROVE  StepsLeft(r)' <= StepsLeft(r)
<1>1. StepsLeft(r) \in Nat
  BY StepsLeftTyped DEF BaseInv
<1>2. CASE ppc'[r] = ppc[r] /\ attempt'[r] = attempt[r] /\ sent'[r] = sent[r]
  <2>1. StepsLeft(r)' = StepsLeft(r)
    BY <1>2 DEF StepsLeft
  <2>2. QED
    BY <1>1, <2>1
<1>3. CASE ppc'[r] \in {"done", "lost"}
  <2>1. StepsLeft(r)' = 0
    BY <1>3, StepsLeftCases
  <2>2. QED
    BY <1>1, <2>1
<1>4. QED
  BY <1>2, <1>3

(* A handler spawns a publisher for a request that has none.               *)
LEMMA HandlerSteps ==
  ASSUME NEW r \in Request, Arrive(r) \/ Handle(r)
  PROVE  Spawn(r) \/ UNCHANGED publisherVars
<1>1. Arrive(r) => UNCHANGED publisherVars
  BY DEF Arrive, RejectMalformed, RejectCreate, StartCreate, StartUpdate, StartDelete,
         GetDevice, ListDevices, FailRead, AnswerAtOnce, Begin
<1>2. Handle(r) => Spawn(r) \/ UNCHANGED publisherVars
  BY DEF Handle, Find, Write, FindNothing, RefuseUpdate, FindForUpdate, FindForDelete,
         Save, Update, Delete, AffectNoRow, FailStatement, Reply, Fail, Proceed, Commit
<1>3. QED
  BY <1>1, <1>2

(* What a step does to a publisher, besides its own steps.                 *)
LEMMA PublisherKept ==
  ASSUME BaseInv, [Next]_vars, NEW r \in Request, ~Publish(r), ppc[r] # "none"
  PROVE  \/ ppc'[r] = ppc[r] /\ attempt'[r] = attempt[r] /\ sent'[r] = sent[r]
         \/ ppc'[r] \in {"done", "lost"}
<1>1. /\ ppc \in [Request -> {"none", "stamp", "write", "done", "lost"}]
      /\ attempt \in [Request -> 0..MaxRetries] /\ sent \in [Request -> 0..WriterCopies]
  BY DEF BaseInv, TypeOK
<1>2. ASSUME NEW s \in Request, Arrive(s) \/ Handle(s)
      PROVE  ppc'[r] = ppc[r] /\ attempt'[r] = attempt[r] /\ sent'[r] = sent[r]
  <2>1. CASE Spawn(s)
    <3>1. s # r
      BY <2>1 DEF Spawn, BaseInv, PublishersOK, PublisherOK
    <3>2. QED
      BY <1>1, <2>1, <3>1 DEF Spawn
  <2>2. QED
    BY <1>2, <2>1, HandlerSteps DEF publisherVars
<1>3. ASSUME NEW s \in Request, Publish(s)
      PROVE  ppc'[r] = ppc[r] /\ attempt'[r] = attempt[r] /\ sent'[r] = sent[r]
  BY <1>1, <1>3
     DEF Publish, Stamp, Send, WriteEnds, WriteRetriable, Retry, EndPublisher
<1>4. CASE Process
  BY <1>1, <1>4
     DEF Process, Crash, Exit, Kill, Signal, CloseDrained, CloseTimedOut, Restart, Become,
         publisherVars
<1>5. CASE UNCHANGED vars
  BY <1>5 DEF vars, publisherVars
<1>6. QED
  BY <1>2, <1>3, <1>4, <1>5 DEF Next

LEMMA InitFirstAttempt == Init => FirstAttempt
BY DEF Init, FirstAttempt

LEMMA StepFirstAttempt ==
  ASSUME BaseInv, CopiesInv, FirstAttempt, [Next]_vars
  PROVE  FirstAttempt'
<1> SUFFICES ASSUME NEW r \in Request, ppc'[r] = "stamp"
             PROVE  attempt'[r] = 1 /\ sent'[r] = 0
  BY DEF FirstAttempt
<1>1. /\ ppc \in [Request -> {"none", "stamp", "write", "done", "lost"}]
      /\ attempt \in [Request -> 0..MaxRetries] /\ sent \in [Request -> 0..WriterCopies]
  BY DEF BaseInv, TypeOK
<1>2. CASE ppc[r] # "none" /\ ~Publish(r)
  BY <1>2, PublisherKept DEF FirstAttempt
<1>3. CASE Publish(r)
  <2>1. ppc'[r] \in {"write", "done"}
    BY <1>1, <1>3 DEF Publish, Stamp, Send, WriteEnds, WriteRetriable, Retry, EndPublisher
  <2>2. QED
    BY <2>1
<1>4. CASE ppc[r] = "none"
  <2>1. attempt[r] = 0 /\ sent[r] = 0
    BY <1>4 DEF CopiesInv, CopiesOK
  <2>2. ASSUME NEW s \in Request, Arrive(s) \/ Handle(s)
        PROVE  attempt'[r] = 1 /\ sent'[r] = 0
    <3>1. Spawn(s) /\ s = r
      BY <1>1, <1>4, <2>2, HandlerSteps DEF Spawn, publisherVars
    <3>2. QED
      BY <1>1, <2>1, <3>1 DEF Spawn
  <2>3. ASSUME NEW s \in Request, Publish(s) PROVE FALSE
    BY <1>1, <1>4, <2>3
       DEF Publish, Stamp, Send, WriteEnds, WriteRetriable, Retry, EndPublisher
  <2>4. ASSUME Process \/ UNCHANGED vars PROVE FALSE
    BY <1>1, <1>4, <2>4
       DEF Process, Crash, Exit, Kill, Publishing, Signal, CloseDrained, CloseTimedOut,
           Restart, Become, vars, publisherVars
  <2>5. QED
    BY <2>2, <2>3, <2>4 DEF Next
<1>5. QED
  BY <1>2, <1>3, <1>4

(* However the broker answers and whatever the process goes through, a     *)
(* publisher takes no more than the steps it has left: publish ends by     *)
(* its own bounds, never by the broker's favour.                           *)
THEOREM PublishersAreBounded == Spec => PublishersRunDown
<1>1. ASSUME BaseInv, FirstAttempt, [Next]_vars
      PROVE  \A r \in Request : ppc[r] # "none" =>
               /\ StepsLeft(r)' <= StepsLeft(r)
               /\ Publish(r) => StepsLeft(r)' < StepsLeft(r)
  <2> SUFFICES ASSUME NEW r \in Request, ppc[r] # "none"
               PROVE  /\ StepsLeft(r)' <= StepsLeft(r)
                      /\ Publish(r) => StepsLeft(r)' < StepsLeft(r)
    OBVIOUS
  <2>1. CASE ~Publish(r)
    BY <1>1, <2>1, PublisherKept, OthersKeepSteps
  <2>2. CASE Publish(r)
    <3>1. StepsLeft(r)' < StepsLeft(r) /\ StepsLeft(r)' \in Nat
      BY <1>1, <2>2, PublishRunsDown
    <3>2. StepsLeft(r) \in Nat
      BY <1>1, StepsLeftTyped DEF BaseInv
    <3>3. QED
      BY <3>1, <3>2
  <2>3. QED
    BY <2>1, <2>2
<1>2. BaseInv /\ CopiesInv /\ FirstAttempt /\ [Next]_vars => FirstAttempt'
  BY StepFirstAttempt
<1>3. QED
  BY <1>1, <1>2, InitFirstAttempt, InitCopies, NextCopies, SpecBase, PTL
  DEF Spec, PublishersRunDown
=============================================================================
