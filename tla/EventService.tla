---------------------------- MODULE EventService ----------------------------
(***************************************************************************)
(* The Node event service: the Kafka consumer that stores device events in *)
(* MongoDB, POST /events, which stores them too, and the life of the       *)
(* process around both.  Several replicas share one consumer group on the  *)
(* one partition of the topic.                                             *)
(*                                                                         *)
(* The broker, the group and the consumer library are external: a message  *)
(* handed to eachMessage counts as processed when its handler returns, and *)
(* the library commits what is processed, from time to time and when it    *)
(* disconnects.  A handler stops where it awaits MongoDB; the group may    *)
(* give the partition away meanwhile, and the process may be told to stop. *)
(***************************************************************************)
EXTENDS Naturals, Sequences, FiniteSets

CONSTANTS
  Replica,      \* the processes of the service
  Post,         \* bound: the POST /events exchanges
  Bodies,       \* the JSON objects that arrive, from Kafka or over HTTP
  UuidV4,       \* the device ids that are UUIDs of version 4
  NotJson,      \* a payload JSON.parse refuses
  NullJson,     \* the payload "null", which is JSON but no object
  NoReplica,    \* the partition is assigned to nobody
  MaxMessages,  \* bound: the messages of the topic
  MaxBoots,     \* bound: the starts of a replica
  MaxRevokes    \* bound: the assignments the group takes back

Payload == Bodies \cup {NotJson, NullJson}

ASSUME ConstantsAssumption ==
  /\ MaxMessages \in Nat /\ MaxBoots \in Nat /\ MaxRevokes \in Nat
  /\ IsFiniteSet(Replica) /\ NoReplica \notin Replica
  /\ {NotJson, NullJson} \cap Bodies = {}

VARIABLES
  topic,      \* the messages produced so far; an offset is an index
  committed,  \* the group's committed offset: the next to read, 0 if none
  owner,      \* the replica the partition is assigned to
  assigns,    \* auxiliary: the assignments made so far
  revokes,    \* auxiliary: the assignments taken back so far
  began,      \* auxiliary: how long the topic was at the first assignment
  life,       \* "down", "starting", "serving", "stopping" or "closed"
  boots,      \* how often each replica has started
  consumer,   \* its consumer: "none", "running" or "left"
  position,   \* the offset its consumer reads next
  processed,  \* it has processed a message under its assignment
  hand,       \* the offset whose handler awaits MongoDB, 0 if none
  fenced,     \* the assignment that handler belongs to is over
  copies,     \* the events collection: documents stored for each offset
  failed,     \* auxiliary: the offsets a save of which raised an error
  skipped,    \* auxiliary: the offsets an assignment passed over
  post        \* each POST exchange: where it is, its body, answer, documents

groupVars == <<committed, owner, assigns, revokes, began>>
processVars == <<life, boots>>
consumerVars == <<consumer, position, processed, hand, fenced>>
storeVars == <<copies, failed, skipped>>
vars == <<topic, groupVars, processVars, consumerVars, storeVars, post>>

Offset == 1..MaxMessages

-----------------------------------------------------------------------------
(* Validation.  A field that is missing is the empty string; one of        *)
(* another type than string is refused like it.                            *)

VALID_EVENT_TYPES == {"device.created", "device.updated", "device.deleted"}
Blank == {"", " "}

(* #validate of the consumer.                                              *)
Validates(m) ==
  /\ m.type \in VALID_EVENT_TYPES
  /\ m.deviceId \notin Blank
  /\ m.name \notin Blank
  /\ m.timestamp # ""

(* A mutant of Creatable: any device id that is not blank will do.         *)
CreatableWithAnyId(m) ==
  m.type \notin Blank /\ m.deviceId \notin Blank /\ m.name \notin Blank

(* createEvent, for either way in; a missing timestamp becomes now.        *)
Creatable(m) ==
  m.type \notin Blank /\ m.deviceId \in UuidV4 /\ m.name \notin Blank

(* What handleMessage stores.                                              *)
Accepted(m) == m \in Bodies /\ Validates(m) /\ Creatable(m)

(* What GET /events answers with documents: execute of ListEventsUseCase   *)
(* refuses a device id that is no UUID, executeByType a blank type.        *)
ListableByDevice(m) == m.deviceId \in UuidV4
ListableByType(m) == m.type \notin Blank

-----------------------------------------------------------------------------
Exchange(step, at, body, status, docs) ==
  [step |-> step, at |-> at, body |-> body, status |-> status, docs |-> docs]
NoPost == Exchange("idle", NoReplica, NotJson, 0, 0)

(* An exchange replica p has not answered yet, and one whose body has yet  *)
(* to arrive.                                                              *)
Open(q, p) == post[q].at = p /\ post[q].step \in {"body", "save"}
AwaitsBody(q, p) == post[q].at = p /\ post[q].step = "body"

Init ==
  /\ topic = <<>>
  /\ committed = 0
  /\ owner = NoReplica
  /\ assigns = 0
  /\ revokes = 0
  /\ began = 0
  /\ life = [p \in Replica |-> "down"]
  /\ boots = [p \in Replica |-> 0]
  /\ consumer = [p \in Replica |-> "none"]
  /\ position = [p \in Replica |-> 1]
  /\ processed = [p \in Replica |-> FALSE]
  /\ hand = [p \in Replica |-> 0]
  /\ fenced = [p \in Replica |-> FALSE]
  /\ copies = [n \in Offset |-> 0]
  /\ failed = {}
  /\ skipped = {}
  /\ post = [q \in Post |-> NoPost]

(* A producer (external) appends a message.                                *)
Produce(m) ==
  /\ Len(topic) < MaxMessages
  /\ topic' = Append(topic, m)
  /\ UNCHANGED <<groupVars, processVars, consumerVars, storeVars, post>>

-----------------------------------------------------------------------------
(* main: connect MongoDB, start the consumer, listen.                      *)

Boot(p) ==
  /\ life[p] = "down"
  /\ boots[p] < MaxBoots
  /\ life' = [life EXCEPT ![p] = "starting"]
  /\ boots' = [boots EXCEPT ![p] = @ + 1]
  /\ UNCHANGED <<topic, groupVars, consumerVars, storeVars, post>>

(* start resolves, whether the consumer runs or failed to: a failure is    *)
(* logged and never retried, and the service goes on without consumer.     *)
Start(p) ==
  /\ life[p] = "starting"
  /\ life' = [life EXCEPT ![p] = "serving"]
  /\ consumer' = [consumer EXCEPT ![p] = "running"]
  /\ UNCHANGED <<topic, groupVars, boots, position, processed, hand, fenced, storeVars, post>>

StartFails(p) ==
  /\ life[p] = "starting"
  /\ life' = [life EXCEPT ![p] = "serving"]
  /\ UNCHANGED <<topic, groupVars, boots, consumerVars, storeVars, post>>

-----------------------------------------------------------------------------
(* The consumer group (external).                                          *)

(* The replica becomes the owner: it reads from the committed offset, or   *)
(* from the end of the topic when there is none (fromBeginning: false).    *)
(* Until the group's first commit that passes over all the topic holds:    *)
(* also what came while nobody was assigned, and a message an earlier      *)
(* owner had in hand.                                                      *)
Assign(p) ==
  /\ owner = NoReplica
  /\ life[p] = "serving" /\ consumer[p] = "running"
  /\ owner' = p
  /\ assigns' = assigns + 1
  /\ began' = IF assigns = 0 THEN Len(topic) ELSE began
  /\ position' = [position EXCEPT ![p] = IF committed = 0 THEN Len(topic) + 1 ELSE committed]
  /\ processed' = [processed EXCEPT ![p] = FALSE]
  /\ skipped' = IF committed = 0 THEN skipped \cup DOMAIN topic ELSE skipped
  /\ UNCHANGED <<topic, committed, revokes, processVars, consumer, hand, fenced,
                 copies, failed, post>>

(* What the end of p's assignment changes, if it is the owner: a handler   *)
(* that is still running no longer counts.                                 *)
Release(p) == owner' = IF owner = p THEN NoReplica ELSE owner

(* The session or the poll interval expires, or the group rebalances.      *)
Revoke(p) ==
  /\ owner = p
  /\ revokes < MaxRevokes
  /\ revokes' = revokes + 1
  /\ Release(p)
  /\ fenced' = [fenced EXCEPT ![p] = TRUE]
  /\ UNCHANGED <<topic, committed, assigns, began, processVars, consumer, position, processed,
                 hand, storeVars, post>>

(* The library commits what the owner has processed.                       *)
AutoCommit(p) ==
  /\ owner = p /\ processed[p]
  /\ committed' = position[p]
  /\ UNCHANGED <<topic, owner, assigns, revokes, began, processVars, consumerVars, storeVars, post>>

-----------------------------------------------------------------------------
(* handleMessage: one message at a time.                                   *)

CanRead(p) ==
  /\ owner = p /\ hand[p] = 0
  /\ life[p] = "serving"
  /\ position[p] <= Len(topic)

(* A mutant of Processed: the next offset is handed over as the processed  *)
(* one, so that a message is passed over.                                  *)
ProcessedNext(p) ==
  /\ position' = [position EXCEPT ![p] = @ + 2]
  /\ processed' = [processed EXCEPT ![p] = TRUE]

(* The library counts the message p has read as processed.                 *)
Processed(p) ==
  /\ position' = [position EXCEPT ![p] = @ + 1]
  /\ processed' = [processed EXCEPT ![p] = TRUE]

(* A mutant of Discard: without the outer catch the errors of createEvent  *)
(* and of a null event escape, and the library seeks back to the message.  *)
DiscardThrows(p) ==
  /\ CanRead(p)
  /\ LET m == topic[position[p]] IN m = NotJson \/ (m \in Bodies /\ ~Validates(m))
  /\ Processed(p)
  /\ UNCHANGED <<topic, groupVars, processVars, consumer, hand, fenced, storeVars, post>>

(* Invalid JSON, a field #validate refuses, or a payload that makes the    *)
(* handler throw before it reaches MongoDB: the message is skipped.        *)
Discard(p) ==
  /\ CanRead(p)
  /\ ~Accepted(topic[position[p]])
  /\ Processed(p)
  /\ UNCHANGED <<topic, groupVars, processVars, consumer, hand, fenced, storeVars, post>>

(* A mutant of Take: execute is not awaited, so the message counts as      *)
(* processed before it is stored.                                          *)
TakeUnawaited(p) ==
  /\ CanRead(p)
  /\ Accepted(topic[position[p]])
  /\ hand' = [hand EXCEPT ![p] = position[p]]
  /\ fenced' = [fenced EXCEPT ![p] = TRUE]
  /\ Processed(p)
  /\ UNCHANGED <<topic, groupVars, processVars, consumer, storeVars, post>>

(* The handler calls save and awaits it.                                   *)
Take(p) ==
  /\ CanRead(p)
  /\ Accepted(topic[position[p]])
  /\ hand' = [hand EXCEPT ![p] = position[p]]
  /\ fenced' = [fenced EXCEPT ![p] = FALSE]
  /\ UNCHANGED <<topic, groupVars, processVars, consumer, position, processed, storeVars, post>>

(* The handler returns.  Its message counts as processed unless the        *)
(* assignment it was read under is over.                                   *)
Return(p) ==
  /\ hand' = [hand EXCEPT ![p] = 0]
  /\ IF fenced[p] THEN UNCHANGED <<position, processed>> ELSE Processed(p)
  /\ UNCHANGED <<topic, groupVars, processVars, consumer, fenced, skipped, post>>

Store(n) == copies' = [copies EXCEPT ![n] = @ + 1]

Saved(p) ==
  /\ hand[p] # 0
  /\ Store(hand[p])
  /\ UNCHANGED failed
  /\ Return(p)

(* A mutant of SaveFails: the error escapes, so the library seeks back and *)
(* the message is read again.                                              *)
RedeliverFailedSave(p, stored) ==
  /\ hand[p] # 0
  /\ IF stored THEN Store(hand[p]) ELSE UNCHANGED copies
  /\ failed' = failed \cup {hand[p]}
  /\ hand' = [hand EXCEPT ![p] = 0]
  /\ UNCHANGED <<topic, groupVars, processVars, consumer, position, processed, fenced,
                 skipped, post>>

(* insertOne raises an error, before or after the document was stored; the *)
(* handler swallows it and the message counts as processed.                *)
SaveFails(p, stored) ==
  /\ hand[p] # 0
  /\ IF stored THEN Store(hand[p]) ELSE UNCHANGED copies
  /\ failed' = failed \cup {hand[p]}
  /\ Return(p)

-----------------------------------------------------------------------------
(* POST /events.                                                           *)

(* The request line arrives at p; handlePost awaits the body.              *)
Request(q, p) ==
  /\ post[q].step = "idle"
  /\ life[p] = "serving"
  /\ post' = [post EXCEPT ![q] = Exchange("body", p, NotJson, 0, 0)]
  /\ UNCHANGED <<topic, groupVars, processVars, consumerVars, storeVars>>

Answer(q, code, docs) ==
  post' = [post EXCEPT ![q] = Exchange("done", post[q].at, post[q].body, code, docs)]

(* The body does not parse, or the client gives up sending it: 400.        *)
RejectBody(q) ==
  /\ post[q].step = "body"
  /\ Answer(q, 400, 0)
  /\ UNCHANGED <<topic, groupVars, processVars, consumerVars, storeVars>>

(* "null" cannot be destructured, and after MongoDB was closed save        *)
(* throws: 500.  createEvent refuses what is not valid: 400.               *)
RejectEvent(q, m) ==
  /\ post[q].step = "body"
  /\ \/ m = NullJson /\ Answer(q, 500, 0)
     \/ m \in Bodies /\ ~Creatable(m) /\ Answer(q, 400, 0)
     \/ m \in Bodies /\ Creatable(m) /\ life[post[q].at] = "closed" /\ Answer(q, 500, 0)
  /\ UNCHANGED <<topic, groupVars, processVars, consumerVars, storeVars>>

(* handlePost awaits insertOne.                                            *)
LogEvent(q, m) ==
  /\ post[q].step = "body"
  /\ m \in Bodies /\ Creatable(m)
  /\ life[post[q].at] # "closed"
  /\ post' = [post EXCEPT ![q] = Exchange("save", post[q].at, m, 0, 0)]
  /\ UNCHANGED <<topic, groupVars, processVars, consumerVars, storeVars>>

PostSaved(q) ==
  /\ post[q].step = "save"
  /\ Answer(q, 201, 1)
  /\ UNCHANGED <<topic, groupVars, processVars, consumerVars, storeVars>>

PostFails(q, stored) ==
  /\ post[q].step = "save"
  /\ Answer(q, 500, IF stored THEN 1 ELSE 0)
  /\ UNCHANGED <<topic, groupVars, processVars, consumerVars, storeVars>>

-----------------------------------------------------------------------------
(* Shutdown, crash.                                                        *)

(* SIGTERM: server.close stops accepting, then consumer.stop is awaited.   *)
(* Before main has set its handlers the signal kills, like a crash.        *)
Signal(p) ==
  /\ life[p] = "serving"
  /\ life' = [life EXCEPT ![p] = "stopping"]
  /\ UNCHANGED <<topic, groupVars, boots, consumerVars, storeVars, post>>

(* disconnect waits for the handler in progress, commits what is processed *)
(* and leaves the group.                                                   *)
Disconnect(p) ==
  /\ life[p] \in {"stopping", "closed"}
  /\ consumer[p] = "running"
  /\ hand[p] = 0
  /\ committed' = IF owner = p /\ processed[p] THEN position[p] ELSE committed
  /\ Release(p)
  /\ consumer' = [consumer EXCEPT ![p] = "left"]
  /\ UNCHANGED <<topic, assigns, revokes, began, processVars, position, processed, hand, fenced,
                 storeVars, post>>

(* disconnect throws: stop logs it, and the shutdown goes on.              *)
DisconnectFails(p) ==
  /\ life[p] \in {"stopping", "closed"}
  /\ consumer[p] = "running"
  /\ Release(p)
  /\ consumer' = [consumer EXCEPT ![p] = "left"]
  /\ fenced' = [fenced EXCEPT ![p] = TRUE]
  /\ UNCHANGED <<topic, committed, assigns, revokes, began, processVars, position, processed,
                 hand, storeVars, post>>

(* A mutant of CloseMongo: mongoClient.close is inside "if (kafkaConsumer)".*)
CloseMongoIfConsumer(p) ==
  /\ life[p] = "stopping"
  /\ consumer[p] = "left"
  /\ life' = [life EXCEPT ![p] = "closed"]
  /\ UNCHANGED <<topic, groupVars, boots, consumerVars, storeVars, post>>

CloseMongo(p) ==
  /\ life[p] = "stopping"
  /\ consumer[p] # "running"
  /\ life' = [life EXCEPT ![p] = "closed"]
  /\ UNCHANGED <<topic, groupVars, boots, consumerVars, storeVars, post>>

(* A second signal runs shutdown again.  Its disconnect returns at once,   *)
(* for one is under way, and so it closes MongoDB under the first.         *)
SignalAgain(p) ==
  /\ life[p] = "stopping"
  /\ consumer[p] = "running"
  /\ life' = [life EXCEPT ![p] = "closed"]
  /\ UNCHANGED <<topic, groupVars, boots, consumerVars, storeVars, post>>

(* The process is gone: its handlers, its consumer and its exchanges.  An  *)
(* insertOne of an exchange that was under way may have taken effect.      *)
Gone(p) ==
  /\ life' = [life EXCEPT ![p] = "down"]
  /\ consumer' = [consumer EXCEPT ![p] = "none"]
  /\ hand' = [hand EXCEPT ![p] = 0]
  /\ Release(p)
  /\ \E stored \in SUBSET {q \in Post : Open(q, p) /\ post[q].step = "save"} :
       post' = [q \in Post |->
         IF Open(q, p)
         THEN Exchange("lost", p, post[q].body, 0, IF q \in stored THEN 1 ELSE 0)
         ELSE post[q]]
  /\ UNCHANGED <<topic, committed, assigns, revokes, began, boots, position, processed, fenced,
                 storeVars>>

(* The event loop is empty: node exits by itself.                          *)
Exit(p) ==
  /\ life[p] = "closed"
  /\ consumer[p] # "running"
  /\ hand[p] = 0
  /\ \A q \in Post : ~Open(q, p)
  /\ Gone(p)

Crash(p) == life[p] # "down" /\ Gone(p)

-----------------------------------------------------------------------------
Group(p) == Assign(p) \/ Revoke(p) \/ AutoCommit(p)

Finish(p) == Saved(p) \/ \E stored \in BOOLEAN : SaveFails(p, stored)

Consume(p) == Discard(p) \/ Take(p) \/ Finish(p)

PostFinish(q) == PostSaved(q) \/ \E stored \in BOOLEAN : PostFails(q, stored)

PostStep(q) ==
  \/ RejectBody(q)
  \/ \E m \in Payload : RejectEvent(q, m) \/ LogEvent(q, m)
  \/ PostFinish(q)

Shutdown(p) ==
  Disconnect(p) \/ DisconnectFails(p) \/ CloseMongo(p) \/ Exit(p)

Next ==
  \/ \E m \in Payload : Produce(m)
  \/ \E p \in Replica : \/ Boot(p) \/ Start(p) \/ StartFails(p)
                        \/ Group(p) \/ Consume(p)
                        \/ Signal(p) \/ SignalAgain(p) \/ Shutdown(p) \/ Crash(p)
  \/ \E q \in Post : PostStep(q) \/ \E p \in Replica : Request(q, p)

Spec == Init /\ [][Next]_vars

(* Fairness.  Node's event loop runs every callback that is ready, MongoDB *)
(* answers or the driver raises an error, the group gives the partition to *)
(* a consumer that runs, and disconnect returns once no handler is in      *)
(* progress.  Nothing else is fair: no message need be produced, no commit *)
(* need happen before the next crash, nobody need start or stop a replica, *)
(* and no body need arrive: node's request timeout would end an upload     *)
(* that stalls, but server.close stops the timer that enforces it.         *)
Fairness ==
  /\ \A p \in Replica : /\ WF_vars(Start(p) \/ StartFails(p))
                        /\ WF_vars(Consume(p))
                        /\ WF_vars(Disconnect(p) \/ DisconnectFails(p))
                        /\ WF_vars(CloseMongo(p))
                        /\ WF_vars(Exit(p))
  /\ WF_vars(\E p \in Replica : Assign(p))
  /\ \A q \in Post : WF_vars(PostFinish(q))

FairSpec == Spec /\ Fairness

-----------------------------------------------------------------------------
(* Types.                                                                  *)

PostRecord ==
  [step : {"idle", "body", "save", "done", "lost"}, at : Replica \cup {NoReplica},
   body : Payload, status : {0, 201, 400, 500}, docs : {0, 1}]

(* Every variable has its type; in particular no offset that is committed, *)
(* held or read lies beyond the end of what was produced.                  *)
TypeOK ==
  /\ topic \in Seq(Payload) /\ Len(topic) <= MaxMessages
  /\ committed \in 0..(Len(topic) + 1)
  /\ owner \in Replica \cup {NoReplica}
  /\ assigns \in Nat
  /\ revokes \in Nat
  /\ began \in Nat
  /\ life \in [Replica -> {"down", "starting", "serving", "stopping", "closed"}]
  /\ boots \in [Replica -> Nat]
  /\ consumer \in [Replica -> {"none", "running", "left"}]
  /\ position \in [Replica -> 1..(Len(topic) + 1)]
  /\ processed \in [Replica -> BOOLEAN]
  /\ hand \in [Replica -> 0..Len(topic)]
  /\ fenced \in [Replica -> BOOLEAN]
  /\ copies \in [Offset -> Nat]
  /\ failed \in SUBSET Offset
  /\ skipped \in SUBSET Offset
  /\ post \in [Post -> PostRecord]

-----------------------------------------------------------------------------
(* Safety.                                                                 *)

Stored(n) == copies[n] > 0

(* Nothing is left to do for offset n: it is stored, it is not an event, a *)
(* save of it raised an error, or an assignment passed over it before the  *)
(* group's first commit. Such an assignment passes over what the topic     *)
(* held when the group began to read, and over what came since, if the     *)
(* assignments before it ended without a commit: messages nobody had read, *)
(* and one that was in hand at a crash, a rebalance or a failed            *)
(* disconnect.                                                             *)
Settled(n) ==
  \/ ~Accepted(topic[n])
  \/ Stored(n)
  \/ n \in failed
  \/ n \in skipped

(* Whatever crashes, rebalances and shutdowns come between the handler and *)
(* the commit, an event the group has committed is stored, unless MongoDB  *)
(* raised an error for it or it was passed over before the group's first   *)
(* commit (handleMessage awaits execute, and the library commits what      *)
(* handlers returned from).  That the consumer swallows the error, and     *)
(* that a message in hand can be passed over, is what AtLeastOnce is       *)
(* about; that nothing is passed over from the first commit on, the ledger.*)
NothingLostSilently ==
  \A n \in DOMAIN topic : n < committed => Settled(n)

(* An event is stored twice only when it was delivered twice, never by the *)
(* handler itself: no more often than the partition was assigned.          *)
DuplicatesNeedRedelivery == \A n \in Offset : copies[n] <= assigns

(* What either way in stores, GET /events can show: the validation of      *)
(* createEvent is no weaker than that of the queries in list-events.js.    *)
StoredAreListable ==
  /\ \A n \in DOMAIN topic :
       Stored(n) => ListableByDevice(topic[n]) /\ ListableByType(topic[n])
  /\ \A q \in Post :
       post[q].docs > 0 => ListableByDevice(post[q].body) /\ ListableByType(post[q].body)

-----------------------------------------------------------------------------
(* What the consumers promise to the readers of the events collection.     *)

Ledger == INSTANCE EventLedger
  WITH Reader <- Replica, Event <- {m \in Bodies : Accepted(m)},
       log <- topic, done <- committed, missed <- skipped, working <- hand,
       stored <- copies, errors <- failed

(* The consumer implements the ledger, through crashes, rebalances, late   *)
(* handlers and shutdowns: the committed offset never goes back and passes *)
(* only what is settled; an event is taken only when all before it are     *)
(* settled, and never once it is committed or was passed over.             *)
ImplementsLedger == Ledger!Spec

-----------------------------------------------------------------------------
(* Liveness, under Fairness.                                               *)

(* As long as one replica's consumer keeps running, every event is settled *)
(* in the end, whatever its neighbours in the topic look like and whatever *)
(* happens to the other replicas: no message blocks the ones behind it     *)
(* ("a single message never crashes the consumer").                        *)
EventsSettle ==
  (\E p \in Replica : <>[](life[p] = "serving" /\ consumer[p] = "running"))
    => \A n \in Offset : n \in DOMAIN topic ~> n \in DOMAIN topic /\ Settled(n)

(* A replica that was told to stop closes MongoDB and exits, with a        *)
(* message in hand, with exchanges open, with or without a consumer and    *)
(* through a second signal.  One thing can keep it from exiting, for       *)
(* shutdown in index.js never calls exit: an exchange whose body never     *)
(* comes, which nothing ends after server.close.                           *)
ShutdownCompletes ==
  \A p \in Replica :
    life[p] = "stopping" ~>
      \/ life[p] = "down"
      \/ \E q \in Post : [](life[p] = "closed" /\ AwaitsBody(q, p))

-----------------------------------------------------------------------------
(* Claims of the repository's documents that the code does not keep.       *)

(* specs/phase3.md says each event is processed at least once: an event    *)
(* that came after the group began to read, and that it has committed,     *)
(* would be stored.                                                        *)
AtLeastOnce ==
  \A n \in DOMAIN topic :
    (n < committed /\ Accepted(topic[n]) /\ n > began) => Stored(n)
=============================================================================
