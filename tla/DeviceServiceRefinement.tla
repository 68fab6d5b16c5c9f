--------------------- MODULE DeviceServiceRefinement ----------------------
(***************************************************************************)
(* Proof that the device service implements the device registry: every SQL *)
(* statement that takes effect is one atomic registry operation, every     *)
(* append to the topic announces a change made before, and no other step   *)
(* is visible.                                                             *)
(***************************************************************************)
EXTENDS DeviceServiceOrderProofs

(* Device i has, or once had, this row.                                    *)
PastRow(i, row) ==
  \/ row = InitialDevices[i]
  \/ \E s \in Request : /\ Committed(s) /\ call[s].id = i
                        /\ call[s].op # "delete" /\ call[s].row = row

(* Every row came from somewhere: the table's, and the one a deletion      *)
(* carries for its name.  An id being created is not of the first table.   *)
RowsHaveOrigin ==
  \A i \in DeviceId : devices[i] # NoRow => PastRow(i, devices[i])

DeletionsHaveOrigin ==
  \A r \in Request :
    (call[r].op = "delete" /\ (pc[r] = "write" \/ Committed(r)))
      => PastRow(call[r].id, call[r].row)

CreatedIdsAreNew ==
  /\ \A i \in DeviceId : InitialDevices[i] # NoRow => i \in minted
  /\ \A r \in Request : Creating(r) => InitialDevices[call[r].id] = NoRow

OriginInv == RowsHaveOrigin /\ DeletionsHaveOrigin /\ CreatedIdsAreNew

-----------------------------------------------------------------------------
LEMMA InitOrigin == Init => OriginInv
BY ConstantsAssumption
DEF Init, OriginInv, RowsHaveOrigin, DeletionsHaveOrigin, CreatedIdsAreNew, PastRow, Creating,
    Committed, NoCall, Call

(* What a device once had, it once had.                                    *)
LEMMA PastKeeps ==
  ASSUME \A s \in Request : Committed(s) => Committed(s)' /\ call'[s] = call[s],
         NEW i, NEW row, PastRow(i, row)
  PROVE  PastRow(i, row)'
BY DEF PastRow

(* A step that commits nothing and finds nothing for a deletion.           *)
LEMMA OriginKeeps ==
  ASSUME OriginInv, UNCHANGED <<devices, at>>, minted \subseteq minted',
         \A r \in Request : Committed(r) => call'[r] = call[r],
         \A r \in Request : Creating(r)' =>
            (Creating(r) /\ call'[r] = call[r]) \/ InitialDevices[call'[r].id] = NoRow,
         \A r \in Request :
            (call'[r].op = "delete" /\ pc'[r] = "write" /\ ~Committed(r))
              => (call[r].op = "delete" /\ pc[r] = "write" /\ call'[r] = call[r])
                 \/ PastRow(call'[r].id, call'[r].row)
  PROVE  OriginInv'
<1>1. \A r \in Request : Committed(r)' <=> Committed(r)
  BY DEF Committed
<1>2. \A i, row : PastRow(i, row) => PastRow(i, row)'
  BY <1>1, PastKeeps
<1>3. RowsHaveOrigin'
  BY <1>2 DEF OriginInv, RowsHaveOrigin
<1>4. DeletionsHaveOrigin'
  <2> SUFFICES ASSUME NEW r \in Request, call'[r].op = "delete", pc'[r] = "write" \/ Committed(r)
               PROVE  PastRow(call'[r].id, call'[r].row)
    BY <1>1, <1>2 DEF DeletionsHaveOrigin
  <2>1. CASE Committed(r)
    BY <2>1 DEF OriginInv, DeletionsHaveOrigin
  <2>2. CASE ~Committed(r)
    BY <2>2 DEF OriginInv, DeletionsHaveOrigin
  <2>3. QED
    BY <2>1, <2>2
<1>5. CreatedIdsAreNew'
  BY DEF OriginInv, CreatedIdsAreNew
<1>6. QED
  BY <1>3, <1>4, <1>5 DEF OriginInv

LEMMA ArriveOrigin ==
  ASSUME BaseInv, OriginInv, NEW r \in Request, Arrive(r)
  PROVE  OriginInv'
<1>0. pc[r] = "idle" /\ ~Committed(r)
  BY ArriveIdle DEF BaseInv, HandlersOK, HandlerOK, Committed
<1>1. CASE \E b \in Body : StartCreate(r, b)
  <2>1. PICK b \in Body, i \in DeviceId \ minted :
          minted' = minted \cup {i} /\ Begin(r, Call("create", i, b, clock', {}), "write")
    BY <1>1 DEF StartCreate
  <2>2. devices' = devices
    BY <1>1 DEF StartCreate
  <2> DEFINE c == Call("create", i, b, clock', {})
  <2>3. c.op = "create" /\ c.id = i
    BY DEF Call
  <2>4. call' = [call EXCEPT ![r] = c] /\ at' = at /\ pc' = [pc EXCEPT ![r] = "write"]
    BY <2>1 DEF Begin
  <2> HIDE DEF c
  <2>5. call'[r] = c /\ \A s \in Request : s # r => call'[s] = call[s] /\ pc'[s] = pc[s]
    BY <2>4 DEF BaseInv, TypeOK
  <2>6. InitialDevices[i] = NoRow
    BY <2>1 DEF OriginInv, CreatedIdsAreNew
  <2>7. QED
    BY <1>0, <2>1, <2>2, <2>3, <2>4, <2>5, <2>6, OriginKeeps DEF Creating
<1>2. CASE \/ \E c : Begin(r, c, "find") /\ UNCHANGED <<dbVars, clock>>
           \/ \E c, code : AnswerAtOnce(r, c, code)
  <2>1. PICK c, p : /\ call' = [call EXCEPT ![r] = c] /\ pc' = [pc EXCEPT ![r] = p]
                    /\ p \in {"done", "find"}
    BY <1>2 DEF AnswerAtOnce, Begin
  <2>2. UNCHANGED <<devices, minted, at>>
    BY <1>2 DEF AnswerAtOnce, Begin, dbVars
  <2>3. pc'[r] # "write" /\ \A s \in Request : s # r => call'[s] = call[s] /\ pc'[s] = pc[s]
    BY <2>1 DEF BaseInv, TypeOK
  <2>4. QED
    BY <1>0, <2>2, <2>3, OriginKeeps DEF Creating
<1>3. QED
  BY <1>1, <1>2, ArriveCases

(* The write of request r: the new row is its own, and a deletion's name   *)
(* has an origin already.                                                  *)
LEMMA CommitOrigin ==
  ASSUME BaseInv, OriginInv, NEW r \in Request, pc[r] = "write",
         NEW row \in Row \cup {NoRow}, NEW acked, Commit(r, row, acked),
         row = IF call[r].op = "delete" THEN NoRow ELSE call[r].row
  PROVE  OriginInv'
<1>1. /\ devices' = [devices EXCEPT ![call[r].id] = row]
      /\ at' = [at EXCEPT ![r] = commits + 1]
      /\ UNCHANGED <<minted, call>>
  BY DEF Commit
<1>2. /\ ~Committed(r) /\ call[r].id \in DeviceId
      /\ commits \in Nat /\ at \in [Request -> Nat] /\ devices \in [DeviceId -> Row \cup {NoRow}]
  BY DEF BaseInv, HandlersOK, HandlerOK, Committed, TypeOK
<1>3. \A s \in Request : Committed(s)' <=> Committed(s) \/ s = r
  BY <1>1, <1>2 DEF Committed
<1>4. \A i, b : PastRow(i, b) => PastRow(i, b)'
  BY <1>1, <1>3, PastKeeps
<1>5. RowsHaveOrigin'
  <2> SUFFICES ASSUME NEW i \in DeviceId, devices'[i] # NoRow PROVE PastRow(i, devices[i])'
    BY DEF RowsHaveOrigin
  <2>1. CASE i = call[r].id
    BY <1>1, <1>2, <1>3, <2>1 DEF PastRow
  <2>2. CASE i # call[r].id
    <3>1. devices'[i] = devices[i]
      BY <1>1, <1>2, <2>2
    <3>2. QED
      BY <1>4, <3>1 DEF OriginInv, RowsHaveOrigin
  <2>3. QED
    BY <2>1, <2>2
<1>6. DeletionsHaveOrigin'
  <2> SUFFICES ASSUME NEW s \in Request, call[s].op = "delete", pc'[s] = "write" \/ Committed(s)'
               PROVE  PastRow(call[s].id, call[s].row)
    BY <1>1, <1>4 DEF DeletionsHaveOrigin
  <2>1. pc[s] = "write" \/ Committed(s)
    BY <1>3 DEF Commit, BaseInv, TypeOK
  <2>2. QED
    BY <2>1 DEF OriginInv, DeletionsHaveOrigin
<1>7. CreatedIdsAreNew'
  BY <1>1 DEF Commit, BaseInv, TypeOK, OriginInv, CreatedIdsAreNew, Creating
<1>8. QED
  BY <1>5, <1>6, <1>7 DEF OriginInv

LEMMA HandleOrigin ==
  ASSUME BaseInv, OriginInv, NEW r \in Request, Handle(r)
  PROVE  OriginInv'
<1>1. CASE \E acked \in BOOLEAN : Save(r, acked) \/ Update(r, acked) \/ Delete(r, acked)
  <2>1. PICK acked \in BOOLEAN : Save(r, acked) \/ Update(r, acked) \/ Delete(r, acked)
    BY <1>1
  <2>2. call[r].row \in Row
    BY <2>1 DEF Save, Update, Delete, BaseInv, HandlersOK, HandlerOK
  <2>3. QED
    BY <2>1, <2>2, CommitOrigin DEF Save, Update, Delete
<1>2. CASE FindForDelete(r)
  <2> DEFINE i == call[r].id
  <2>1. /\ UNCHANGED <<devices, minted, at>>
        /\ ~Committed(r) /\ call[r].op = "delete" /\ i \in DeviceId
        /\ pc' = [pc EXCEPT ![r] = "write"] /\ devices[i] # NoRow
    BY <1>2 DEF FindForDelete, Proceed, dbVars, BaseInv, HandlersOK, HandlerOK, Committed
  <2>2. call[r] \in CallRecord /\ call'[r] = [call[r] EXCEPT !.row = devices[i]]
    BY <1>2 DEF FindForDelete, BaseInv, TypeOK
  <2>3. call'[r].op = "delete" /\ call'[r].id = i /\ call'[r].row = devices[i]
    BY <2>1, <2>2 DEF CallRecord
  <2>4. PastRow(i, devices[i])
    BY <2>1 DEF OriginInv, RowsHaveOrigin
  <2>5. \A s \in Request : s # r => call'[s] = call[s] /\ pc'[s] = pc[s]
    BY <1>2, <2>1 DEF FindForDelete, BaseInv, TypeOK
  <2> HIDE DEF i
  <2>6. QED
    BY <2>1, <2>3, <2>4, <2>5, OriginKeeps DEF Creating
<1>3. CASE \/ FindNothing(r) \/ RefuseUpdate(r) \/ FindForUpdate(r) \/ AffectNoRow(r)
           \/ FailStatement(r) \/ Spawn(r) \/ Reply(r)
  <2>1. UNCHANGED <<devices, minted, at, call>>
    BY <1>3 DEF FindNothing, RefuseUpdate, FindForUpdate, AffectNoRow, FailStatement, Spawn,
                Reply, Fail, Proceed, dbVars
  <2>2. \/ \E p \in {"done", "reply"} : pc' = [pc EXCEPT ![r] = p]
        \/ call[r].op = "update" /\ pc' = [pc EXCEPT ![r] = "write"]
    BY <1>3 DEF FindNothing, RefuseUpdate, FindForUpdate, AffectNoRow, FailStatement, Spawn,
                Reply, Fail, Proceed
  <2>3. \A s \in Request : (pc'[s] = "write" /\ call[s].op # "update") => pc[s] = "write"
    BY <2>2 DEF BaseInv, TypeOK
  <2>4. QED
    BY <2>1, <2>3, OriginKeeps DEF Creating
<1>4. QED
  BY <1>1, <1>2, <1>3 DEF Handle, Find, Write

LEMMA NextOrigin == BaseInv /\ OriginInv /\ [Next]_vars => OriginInv'
<1> SUFFICES ASSUME BaseInv, OriginInv, [Next]_vars PROVE OriginInv'
  OBVIOUS
<1>1. CASE \E r \in Request : Arrive(r) \/ Handle(r)
  BY <1>1, ArriveOrigin, HandleOrigin
<1>2. CASE (\E r \in Request : Publish(r)) \/ Process \/ UNCHANGED vars
  <2>1. UNCHANGED <<devices, minted, at, call>>
    BY <1>2 DEF Publish, Stamp, Send, WriteEnds, WriteRetriable, EndPublisher, Retry,
         Process, Crash, Signal, CloseDrained, CloseTimedOut, Exit, Restart, Kill, Become,
         vars, dbVars, handlerVars
  <2>2. pc' = pc \/ pc' = [r \in Request |-> IF InFlight(r) THEN "lost" ELSE pc[r]]
    BY <1>2 DEF Publish, Stamp, Send, WriteEnds, WriteRetriable, EndPublisher, Retry,
         Process, Crash, Signal, CloseDrained, CloseTimedOut, Exit, Restart, Kill, Become,
         vars, dbVars, handlerVars
  <2>3. \A r \in Request : pc'[r] = "write" => pc[r] = "write"
    BY <2>2
  <2>4. QED
    BY <2>1, <2>3, OriginKeeps DEF Creating
<1>3. QED
  BY <1>1, <1>2 DEF Next

LEMMA SpecOrigin == Spec => []OriginInv
BY InitOrigin, NextOrigin, SpecBase, PTL DEF Spec

-----------------------------------------------------------------------------
(* The mapped variables: what each kind of step does to them.              *)

AnnouncementRecord ==
  [type : {EventType[op] : op \in WriteOps}, deviceId : DeviceId,
   name : {row.name : row \in Row}]

LEMMA AnnouncementTyped ==
  ASSUME NEW e \in EventRecord
  PROVE  Announcement(e) \in AnnouncementRecord
BY DEF Announcement, AnnouncementRecord, EventRecord

AnnouncementsOK ==
  /\ announcements \in Seq(AnnouncementRecord)
  /\ Len(announcements) = Len(topic)
  /\ \A n \in 1..Len(topic) : announcements[n] = Announcement(topic[n])

LEMMA AnnouncementsTyped == TypeOK => AnnouncementsOK
<1> SUFFICES ASSUME TypeOK PROVE AnnouncementsOK
  OBVIOUS
<1>1. topic \in Seq(EventRecord) /\ Len(topic) \in Nat /\ DOMAIN topic = 1..Len(topic)
  BY LenProperties DEF TypeOK
<1>2. \A n \in 1..Len(topic) : Announcement(topic[n]) \in AnnouncementRecord
  BY <1>1, ElementOfSeq, AnnouncementTyped
<1>3. announcements \in [1..Len(topic) -> AnnouncementRecord]
  BY <1>1, <1>2 DEF announcements
<1>4. announcements \in Seq(AnnouncementRecord)
  BY <1>1, <1>3, SeqDef
<1>5. DOMAIN announcements = 1..Len(topic) /\ DOMAIN announcements = 1..Len(announcements)
  BY <1>3, <1>4, LenProperties
<1>6. Len(announcements) = Len(topic)
  BY <1>1, <1>4, <1>5, LenProperties
<1>7. QED
  BY <1>1, <1>4, <1>6 DEF announcements, AnnouncementsOK

LEMMA AppendAnnounces ==
  ASSUME TypeOK, TypeOK', NEW e \in EventRecord, topic' = Append(topic, e)
  PROVE  announcements' = Append(announcements, Announcement(e))
<1> DEFINE a == Append(announcements, Announcement(e))
<1>1. topic \in Seq(EventRecord) /\ Len(topic) \in Nat
  BY LenProperties DEF TypeOK
<1>2. /\ Len(topic') = Len(topic) + 1
      /\ \A n \in 1..Len(topic') :
           topic'[n] = IF n = Len(topic) + 1 THEN e ELSE topic[n]
  BY <1>1, AppendProperties
<1>3. /\ announcements' \in Seq(AnnouncementRecord)
      /\ Len(announcements') = Len(topic) + 1
      /\ \A n \in 1..Len(topic') : announcements'[n] = Announcement(topic'[n])
  <2>1. AnnouncementsOK'
    BY AnnouncementsTyped, PTL
  <2>2. QED
    BY <1>2, <2>1 DEF AnnouncementsOK
<1>4. /\ a \in Seq(AnnouncementRecord) /\ Len(a) = Len(topic) + 1
      /\ \A n \in 1..Len(topic) : a[n] = Announcement(topic[n])
      /\ a[Len(topic) + 1] = Announcement(e)
  <2>1. AnnouncementsOK /\ Announcement(e) \in AnnouncementRecord
    BY AnnouncementsTyped, AnnouncementTyped
  <2>2. QED
    BY <1>1, <2>1, AppendProperties DEF AnnouncementsOK
<1> HIDE DEF a
<1>5. \A n \in 1..Len(topic) + 1 : announcements'[n] = a[n]
  BY <1>1, <1>2, <1>3, <1>4
<1>6. announcements' = a
  BY <1>3, <1>4, <1>5, SeqEqual
<1>7. QED
  BY <1>6 DEF a

LEMMA ChangesKeep ==
  ASSUME at' = at, \A r \in Request : Committed(r) => call'[r] = call[r]
  PROVE  changes' = changes
BY DEF changes, Change, Committed

LEMMA CommitChanges ==
  ASSUME BaseInv, NEW r \in Request, pc[r] = "write",
         NEW row, NEW acked, Commit(r, row, acked)
  PROVE  /\ changes' = [changes EXCEPT ![r] = Change(r)]
         /\ changes[r] = NoChange
         /\ announcements' = announcements
<1>1. /\ at' = [at EXCEPT ![r] = commits + 1] /\ UNCHANGED <<call, topic>>
      /\ ~Committed(r) /\ commits \in Nat /\ at \in [Request -> Nat]
  BY DEF Commit, BaseInv, HandlersOK, HandlerOK, Committed, TypeOK
<1>2. \A s \in Request : Committed(s)' <=> Committed(s) \/ s = r
  BY <1>1 DEF Committed
<1>3. QED
  BY <1>1, <1>2 DEF changes, announcements, Change

-----------------------------------------------------------------------------
(* Every initial state and every step of the service is one of the         *)
(* registry, or invisible to it.                                           *)

LEMMA InitRefines == Init => Registry!Init
<1> SUFFICES ASSUME Init PROVE Registry!Init
  OBVIOUS
<1>1. changes = [r \in Request |-> Registry!NoChange]
  BY DEF Init, changes, Committed, NoChange, Registry!NoChange
<1>2. announcements = <<>>
  <2>1. TypeOK /\ topic = <<>>
    BY InitBase DEF BaseInv, Init
  <2>2. announcements \in Seq(AnnouncementRecord) /\ Len(announcements) = 0
    BY <2>1, AnnouncementsTyped DEF AnnouncementsOK
  <2>3. QED
    BY <2>2, EmptySeq
<1>3. devices = InitialDevices
  BY DEF Init
<1>4. QED
  BY <1>1, <1>2, <1>3 DEF Registry!Init

(* A write that takes effect is the registry's operation of its name.      *)
LEMMA CommitRefines ==
  ASSUME BaseInv, OrderInv, OriginInv, NEW r \in Request, NEW acked \in BOOLEAN,
         Save(r, acked) \/ Update(r, acked) \/ Delete(r, acked)
  PROVE  Registry!Next
<1> DEFINE i == call[r].id
<1>1. /\ pc[r] = "write" /\ i \in DeviceId /\ call[r].row \in Row
      /\ devices \in [DeviceId -> Row \cup {NoRow}]
  BY DEF Save, Update, Delete, BaseInv, HandlersOK, HandlerOK, TypeOK
<1>2. ASSUME NEW row \in Row \cup {NoRow}, Commit(r, row, acked),
             row = IF call[r].op = "delete" THEN NoRow ELSE call[r].row
      PROVE  Registry!Make(r, call[r].op, i, row)
  <2>1. /\ changes' = [changes EXCEPT ![r] = Change(r)]
        /\ changes[r] = NoChange /\ announcements' = announcements
    BY <1>1, <1>2, CommitChanges
  <2>2. Change(r) = [op |-> call[r].op, id |-> i, row |-> row]
    BY <1>2 DEF Change
  <2>3. devices' = [devices EXCEPT ![i] = row]
    BY <1>2 DEF Commit
  <2>4. ~Registry!Changed(r)
    BY <2>1 DEF Registry!Changed, NoChange
  <2>5. QED
    BY <2>1, <2>2, <2>3, <2>4 DEF Registry!Make
<1>3. CASE Save(r, acked)
  <2>1. Creating(r) /\ call[r].op = "create" /\ Commit(r, call[r].row, acked)
    BY <1>3 DEF Save, Creating
  <2>2. InitialDevices[i] = NoRow /\ \A s \in Request : Committed(s) => call[s].id # i
    BY <2>1 DEF OrderInv, FreshIds, OriginInv, CreatedIdsAreNew
  <2>3. Registry!NeverUsed(i)
    BY <2>2 DEF Registry!NeverUsed, Registry!Changed, changes, Change, NoChange
  <2>4. Registry!Make(r, "create", i, call[r].row)
    BY <1>1, <1>2, <2>1
  <2>5. Registry!Create(r, i, call[r].row)
    BY <2>3, <2>4 DEF Registry!Create
  <2>6. QED
    BY <1>1, <2>5 DEF Registry!Next
<1>4. CASE Update(r, acked)
  <2>1. call[r].op = "update" /\ devices[i] # NoRow /\ Commit(r, call[r].row, acked)
    BY <1>4 DEF Update
  <2>2. Registry!Make(r, "update", i, call[r].row)
    BY <1>1, <1>2, <2>1
  <2>3. Registry!Update(r, i, call[r].row)
    BY <2>1, <2>2 DEF Registry!Update
  <2>4. QED
    BY <1>1, <2>3 DEF Registry!Next
<1>5. CASE Delete(r, acked)
  <2>1. call[r].op = "delete" /\ devices[i] # NoRow /\ Commit(r, NoRow, acked)
    BY <1>5 DEF Delete
  <2>2. Registry!Make(r, "delete", i, NoRow)
    BY <1>1, <1>2, <2>1
  <2>3. Registry!Delete(r, i)
    BY <2>1, <2>2 DEF Registry!Delete
  <2>4. QED
    BY <1>1, <2>3 DEF Registry!Next
<1>6. QED
  BY <1>3, <1>4, <1>5

(* A name with an origin is one the registry accepts for a deletion.       *)
LEMMA PastRowNamed ==
  ASSUME BaseInv, NEW i \in DeviceId, NEW row \in Row, PastRow(i, row)
  PROVE  Registry!NameOf(i, row.name)
<1>0. NoRow \notin Row
  BY ConstantsAssumption DEF Row
<1>1. CASE row = InitialDevices[i]
  BY <1>0, <1>1 DEF Registry!NameOf
<1>2. CASE \E s \in Request : /\ Committed(s) /\ call[s].id = i
                              /\ call[s].op # "delete" /\ call[s].row = row
  <2>1. PICK s \in Request : /\ Committed(s) /\ call[s].id = i
                             /\ call[s].op # "delete" /\ call[s].row = row
    BY <1>2
  <2>2. call[s].op \in WriteOps
    BY <2>1 DEF BaseInv, HandlersOK, HandlerOK, Committed
  <2>3. /\ changes[s].op # "none" /\ changes[s].id = i /\ changes[s].row = row
    BY <2>1, <2>2 DEF changes, Change, WriteOps
  <2>4. QED
    BY <1>0, <2>3 DEF Registry!NameOf, Registry!Changed
<1>3. QED
  BY <1>1, <1>2 DEF PastRow

LEMMA SendRefines ==
  ASSUME BaseInv, BaseInv', OriginInv, NEW r \in Request, Send(r)
  PROVE  Registry!Next
<1>1. /\ Committed(r) /\ call[r].op \in WriteOps /\ call[r].id \in DeviceId /\ call[r].row \in Row
      /\ ppc[r] # "none"
  BY DEF Send, BaseInv, PublishersOK, PublisherOK, HandlersOK, HandlerOK, Committed
<1>2. Event(r) \in EventRecord
  BY <1>1, EventTyped
<1>3. announcements' = Append(announcements, Announcement(Event(r)))
  BY <1>2, AppendAnnounces DEF Send, BaseInv
<1>4. changes' = changes /\ devices' = devices
  BY ChangesKeep DEF Send, dbVars, handlerVars
<1>5. changes[r] = Change(r)
  BY <1>1 DEF changes
<1>6. /\ changes[r].op = call[r].op /\ changes[r].id = call[r].id
      /\ call[r].op # "delete" => changes[r].row = call[r].row
  BY <1>5 DEF Change
<1>7. Announcement(Event(r)) =
        [type |-> EventType[changes[r].op], deviceId |-> changes[r].id, name |-> call[r].row.name]
  BY <1>6 DEF Announcement, Event
<1>8. Registry!Changed(r)
  BY <1>1, <1>6 DEF Registry!Changed, WriteOps
<1>9. call[r].op = "delete" => Registry!NameOf(call[r].id, call[r].row.name)
  BY <1>1, PastRowNamed DEF OriginInv, DeletionsHaveOrigin
<1>10. Registry!Announce(r, call[r].row.name)
  BY <1>3, <1>4, <1>6, <1>7, <1>8, <1>9 DEF Registry!Announce
<1>11. QED
  BY <1>1, <1>10 DEF Registry!Next

(* All other steps are invisible.                                          *)
LEMMA OtherRefines ==
  ASSUME BaseInv, UNCHANGED <<devices, at, topic>>,
         \A r \in Request : Committed(r) => call'[r] = call[r]
  PROVE  UNCHANGED Registry!vars
BY ChangesKeep DEF Registry!vars, announcements

LEMMA NextRefines ==
  BaseInv /\ BaseInv' /\ OrderInv /\ OriginInv /\ [Next]_vars
    => [Registry!Next]_(Registry!vars)
<1> SUFFICES ASSUME BaseInv, BaseInv', OrderInv, OriginInv, [Next]_vars
             PROVE  [Registry!Next]_(Registry!vars)
  OBVIOUS
<1>1. ASSUME NEW r \in Request, Arrive(r)
      PROVE  UNCHANGED Registry!vars
  <2>1. pc[r] = "idle" /\ ~Committed(r)
    BY <1>1, ArriveIdle DEF BaseInv, HandlersOK, HandlerOK, Committed
  <2>2. UNCHANGED <<devices, at, topic>> /\ \E c : call' = [call EXCEPT ![r] = c]
    BY <1>1, ArriveCases DEF StartCreate, Begin, AnswerAtOnce, dbVars
  <2>3. \A s \in Request : Committed(s) => call'[s] = call[s]
    BY <2>1, <2>2 DEF BaseInv, TypeOK
  <2>4. QED
    BY <2>2, <2>3, OtherRefines
<1>2. ASSUME NEW r \in Request,
             \E acked \in BOOLEAN : Save(r, acked) \/ Update(r, acked) \/ Delete(r, acked)
      PROVE  Registry!Next
  BY <1>2, CommitRefines
<1>3. ASSUME NEW r \in Request, FindForDelete(r)
      PROVE  UNCHANGED Registry!vars
  <2>1. UNCHANGED <<devices, at, topic>> /\ ~Committed(r)
    BY <1>3 DEF FindForDelete, Proceed, dbVars, BaseInv, HandlersOK, HandlerOK, Committed
  <2>2. \A s \in Request : Committed(s) => call'[s] = call[s]
    BY <1>3, <2>1 DEF FindForDelete, BaseInv, TypeOK
  <2>3. QED
    BY <2>1, <2>2, OtherRefines
<1>4. ASSUME NEW r \in Request, Send(r)
      PROVE  Registry!Next
  BY <1>4, SendRefines
<1>5. CASE \/ \E r \in Request : \/ FindNothing(r) \/ RefuseUpdate(r) \/ FindForUpdate(r)
                                 \/ AffectNoRow(r) \/ FailStatement(r) \/ Spawn(r) \/ Reply(r)
                                 \/ Stamp(r) \/ WriteEnds(r) \/ WriteRetriable(r)
           \/ Process
           \/ UNCHANGED vars
  <2>1. UNCHANGED <<devices, at, call, topic>>
    BY <1>5 DEF FindNothing, RefuseUpdate, FindForUpdate, AffectNoRow, FailStatement, Spawn,
         Reply, Fail, Proceed, Stamp, WriteEnds, WriteRetriable, EndPublisher, Retry,
         Process, Crash, Signal, CloseDrained, CloseTimedOut, Exit, Restart, Kill, Become,
         vars, dbVars, handlerVars
  <2>2. QED
    BY <2>1, OtherRefines
<1>6. QED
  BY <1>1, <1>2, <1>3, <1>4, <1>5 DEF Next, Handle, Find, Write, Publish

(* For every number of requests, devices, retries and restarts, the        *)
(* service, seen from its table and its topic, behaves as the registry.    *)
THEOREM ServiceImplementsRegistry == Spec => ImplementsRegistry
BY InitRefines, NextRefines, SpecBase, SpecOrder, SpecOrigin, PTL
DEF Spec, ImplementsRegistry, Registry!Spec
=============================================================================
