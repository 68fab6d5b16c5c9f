--------------------------- MODULE DeviceService ---------------------------
(***************************************************************************)
(* The Go device service: the HTTP handlers of /devices, the use cases     *)
(* they call, the Postgres table the use cases read and write, the         *)
(* goroutine each successful write spawns to publish its event, and the    *)
(* process that runs them all.                                             *)
(*                                                                         *)
(* A request is one HTTP exchange.  It stops between any two SQL           *)
(* statements, so the handlers interleave at the table; it also stops      *)
(* between the commit of its statement and the spawn of its publisher,     *)
(* where a crash loses the event.  A publisher interleaves with every      *)
(* handler and with every other publisher.                                 *)
(***************************************************************************)
EXTENDS Naturals, Sequences, FiniteSets

CONSTANTS
  Request,        \* the HTTP requests clients send
  DeviceId,       \* the UUIDs of devices
  Ops,            \* bound: the kinds of request clients send
  Body,           \* the decoded JSON bodies clients send
  InitialDevices, \* the devices table when the service first starts
  MaxRetries,     \* maxRetries of the publisher's loop
  WriterCopies,   \* bound: copies one WriteMessages call may append
  MaxStarts,      \* bound: how often the process starts
  NoRow           \* no such device

(* What a client may store: NewDevice and Update refuse an empty field.    *)
Valid(b) == b.name # "" /\ b.type # ""
Row == {b \in Body : Valid(b)}

WriteOps == {"create", "update", "delete"}
ReadOps == {"get", "list"}

ASSUME ConstantsAssumption ==
  /\ Ops \subseteq WriteOps \cup ReadOps
  /\ NoRow \notin Body
  /\ InitialDevices \in [DeviceId -> Row \cup {NoRow}]
  /\ MaxRetries \in Nat \ {0}
  /\ WriterCopies \in Nat
  /\ MaxStarts \in Nat

VARIABLES
  svc,      \* the process: "up", "draining", "closed" or "down"
  starts,   \* how often the process has started
  devices,  \* the devices table: each id's row, or NoRow
  minted,   \* the ids uuid.New has returned, with those of the first table
  clock,    \* time.Now: the number of instants read so far
  commits,  \* auxiliary: the number of committed writes
  call,     \* each request as its handler holds it
  pc,       \* where its handler stands
  status,   \* the HTTP status of its answer, 0 before it is decided
  at,       \* auxiliary: the number of its committed write, 0 if none
  ppc,      \* where its publisher goroutine stands
  attempt,  \* the iteration of its publisher's retry loop
  sent,     \* the copies the WriteMessages call of this attempt appended
  stamp,    \* the timestamp of its event
  topic     \* the log of the device-events topic

processVars == <<svc, starts>>
dbVars == <<devices, minted, commits>>
handlerVars == <<call, pc, status, at>>
publisherVars == <<ppc, attempt, sent, stamp>>
vars == <<processVars, dbVars, clock, handlerVars, publisherVars, topic>>

-----------------------------------------------------------------------------
(* Handlers and publishers as records.                                     *)

Success == [create |-> 201, update |-> 200, delete |-> 204]
EventType == [create |-> "device.created", update |-> "device.updated",
              delete |-> "device.deleted"]

(* The request a handler works on: its operation, the device's id, the row *)
(* it writes (for a deletion, the row FindByID found), the time NewDevice  *)
(* read, and the ids a GET returned.                                       *)
Call(o, i, row, created, seen) ==
  [op |-> o, id |-> i, row |-> row, createdAt |-> created, seen |-> seen]
NoCall == Call("none", NoRow, NoRow, 0, {})

(* The request is in a handler: it was accepted and is not answered yet.   *)
InFlight(r) == pc[r] \in {"find", "write", "spawn", "reply"}
Committed(r) == at[r] > 0
Publishing(r) == ppc[r] \in {"stamp", "write"}

(* The handler is at an SQL statement: it may hold a connection of the pool*)
Querying(r) == pc[r] \in {"find", "write"}

(* The message publish hands to the Kafka writer; "by" is auxiliary.       *)
Event(r) == [type |-> EventType[call[r].op], deviceId |-> call[r].id,
             name |-> call[r].row.name, timestamp |-> stamp[r], by |-> r]

Init ==
  /\ svc = "up"
  /\ starts = 1
  /\ devices = InitialDevices
  /\ minted = {i \in DeviceId : InitialDevices[i] # NoRow}
  /\ clock = 0
  /\ commits = 0
  /\ call = [r \in Request |-> NoCall]
  /\ pc = [r \in Request |-> "idle"]
  /\ status = [r \in Request |-> 0]
  /\ at = [r \in Request |-> 0]
  /\ ppc = [r \in Request |-> "none"]
  /\ attempt = [r \in Request |-> 0]
  /\ sent = [r \in Request |-> 0]
  /\ stamp = [r \in Request |-> 0]
  /\ topic = <<>>

-----------------------------------------------------------------------------
(* Arrival: HandleCreate, HandleUpdate, HandleDelete up to the first SQL.  *)

Accept(r) == svc = "up" /\ pc[r] = "idle"

(* The handler takes up call c and goes on at point p.                     *)
Begin(r, c, p) ==
  /\ call' = [call EXCEPT ![r] = c]
  /\ pc' = [pc EXCEPT ![r] = p]
  /\ UNCHANGED <<processVars, status, at, publisherVars, topic>>

(* The handler answers call c at once, without reaching a write.           *)
AnswerAtOnce(r, c, code) ==
  /\ call' = [call EXCEPT ![r] = c]
  /\ pc' = [pc EXCEPT ![r] = "done"]
  /\ status' = [status EXCEPT ![r] = code]
  /\ UNCHANGED <<processVars, dbVars, clock, at, publisherVars, topic>>

(* A body that is not JSON: 400 before any use case runs.                  *)
RejectMalformed(r, op) ==
  Accept(r) /\ AnswerAtOnce(r, Call(op, NoRow, NoRow, 0, {}), 400)

(* NewDevice refuses an empty field, before anything is stored.            *)
RejectCreate(r, b) ==
  Accept(r) /\ ~Valid(b) /\ AnswerAtOnce(r, Call("create", NoRow, NoRow, 0, {}), 400)

(* A mutant of StartCreate: NewDevice does not look at its arguments.      *)
CreateUnvalidated(r, b) ==
  /\ Accept(r)
  /\ \E i \in DeviceId \ minted :
       /\ minted' = minted \cup {i}
       /\ clock' = clock + 1
       /\ Begin(r, Call("create", i, b, clock', {}), "write")
  /\ UNCHANGED <<devices, commits>>

(* NewDevice: a fresh id, and the creation time is read before the INSERT. *)
StartCreate(r, b) ==
  /\ Accept(r)
  /\ Valid(b)
  /\ \E i \in DeviceId \ minted :
       /\ minted' = minted \cup {i}
       /\ clock' = clock + 1
       /\ Begin(r, Call("create", i, b, clock', {}), "write")
  /\ UNCHANGED <<devices, commits>>

StartUpdate(r, i, b) ==
  /\ Accept(r)
  /\ Begin(r, Call("update", i, b, 0, {}), "find")
  /\ UNCHANGED <<dbVars, clock>>

StartDelete(r, i) ==
  /\ Accept(r)
  /\ Begin(r, Call("delete", i, NoRow, 0, {}), "find")
  /\ UNCHANGED <<dbVars, clock>>

(* GET /devices/{id} and GET /devices: one SELECT, which sees the table at *)
(* one instant.                                                            *)
GetDevice(r, i) ==
  /\ Accept(r)
  /\ \/ devices[i] = NoRow /\ AnswerAtOnce(r, Call("get", i, NoRow, 0, {}), 404)
     \/ devices[i] # NoRow /\ AnswerAtOnce(r, Call("get", i, NoRow, 0, {i}), 200)

ListDevices(r) ==
  /\ Accept(r)
  /\ AnswerAtOnce(r, Call("list", NoRow, NoRow, 0, {i \in DeviceId : devices[i] # NoRow}), 200)

FailRead(r, op) ==
  Accept(r) /\ AnswerAtOnce(r, Call(op, NoRow, NoRow, 0, {}), 500)

-----------------------------------------------------------------------------
(* The SQL statements of a write, each atomic at the database.             *)

(* The use case returns an error: the handler answers with its status.     *)
Fail(r, code) ==
  /\ pc' = [pc EXCEPT ![r] = "done"]
  /\ status' = [status EXCEPT ![r] = code]
  /\ UNCHANGED <<processVars, dbVars, clock, call, at, publisherVars, topic>>

Proceed(r, p) ==
  /\ pc' = [pc EXCEPT ![r] = p]
  /\ UNCHANGED <<processVars, dbVars, clock, status, at, publisherVars, topic>>

(* FindByID finds no row: 404, even under a body Update would refuse.      *)
FindNothing(r) ==
  /\ pc[r] = "find"
  /\ devices[call[r].id] = NoRow
  /\ Fail(r, 404)

(* The row is there, and device.Update refuses an empty field.             *)
RefuseUpdate(r) ==
  /\ pc[r] = "find" /\ call[r].op = "update"
  /\ devices[call[r].id] # NoRow
  /\ ~Valid(call[r].row)
  /\ Fail(r, 400)

(* The row is there.  The update overwrites it in memory with the body;    *)
(* the delete keeps it, for its name.                                      *)
FindForUpdate(r) ==
  /\ pc[r] = "find" /\ call[r].op = "update"
  /\ devices[call[r].id] # NoRow
  /\ Valid(call[r].row)
  /\ Proceed(r, "write")
  /\ UNCHANGED call

FindForDelete(r) ==
  /\ pc[r] = "find" /\ call[r].op = "delete"
  /\ devices[call[r].id] # NoRow
  /\ Proceed(r, "write")
  /\ call' = [call EXCEPT ![r].row = devices[call[r].id]]

(* The statement took effect.  The use case goes on to spawn its publisher *)
(* when the answer reaches it, and the client is told 500 when an error    *)
(* reaches it instead (the connection or the request's context broke after *)
(* the commit).                                                            *)
Commit(r, row, acked) ==
  /\ devices' = [devices EXCEPT ![call[r].id] = row]
  /\ commits' = commits + 1
  /\ at' = [at EXCEPT ![r] = commits + 1]
  /\ pc' = [pc EXCEPT ![r] = IF acked THEN "spawn" ELSE "done"]
  /\ status' = [status EXCEPT ![r] = IF acked THEN 0 ELSE 500]
  /\ UNCHANGED <<processVars, minted, clock, call, publisherVars, topic>>

(* Save: INSERT of a row whose id is new.                                  *)
Save(r, acked) ==
  /\ pc[r] = "write" /\ call[r].op = "create"
  /\ Commit(r, call[r].row, acked)

(* A mutant of Update: an upsert, or an UPDATE whose row count is ignored. *)
UpsertInsteadOfUpdate(r, acked) ==
  /\ pc[r] = "write" /\ call[r].op = "update"
  /\ Commit(r, call[r].row, acked)

(* Update: UPDATE of name and type of the row, wherever FindByID left it.  *)
Update(r, acked) ==
  /\ pc[r] = "write" /\ call[r].op = "update"
  /\ devices[call[r].id] # NoRow
  /\ Commit(r, call[r].row, acked)

Delete(r, acked) ==
  /\ pc[r] = "write" /\ call[r].op = "delete"
  /\ devices[call[r].id] # NoRow
  /\ Commit(r, NoRow, acked)

(* A mutant of AffectNoRow: RowsAffected is not looked at.                 *)
IgnoreRowsAffected(r) ==
  /\ pc[r] = "write" /\ call[r].op \in {"update", "delete"}
  /\ devices[call[r].id] = NoRow
  /\ Proceed(r, "spawn")
  /\ UNCHANGED call

(* RowsAffected is 0: the row vanished after FindByID; 404.                *)
AffectNoRow(r) ==
  /\ pc[r] = "write" /\ call[r].op \in {"update", "delete"}
  /\ devices[call[r].id] = NoRow
  /\ Fail(r, 404)

(* A mutant of FailStatement: the error of the write is dropped.           *)
IgnoreStatementError(r) ==
  /\ pc[r] = "write"
  /\ Proceed(r, "spawn")
  /\ UNCHANGED call

(* The statement failed and changed nothing: 500.                          *)
FailStatement(r) ==
  /\ pc[r] \in {"find", "write"}
  /\ Fail(r, 500)

-----------------------------------------------------------------------------
(* After the commit: spawn the publisher, answer the client.               *)

(* A mutant of Spawn: every event is stamped by its goroutine.             *)
SpawnUnstamped(r) ==
  /\ pc[r] = "spawn"
  /\ pc' = [pc EXCEPT ![r] = "reply"]
  /\ status' = [status EXCEPT ![r] = Success[call[r].op]]
  /\ attempt' = [attempt EXCEPT ![r] = 1]
  /\ ppc' = [ppc EXCEPT ![r] = "stamp"]
  /\ UNCHANGED <<processVars, dbVars, clock, call, at, sent, stamp, topic>>

(* go func: a create's event is stamped with CreatedAt, the others' with   *)
(* the instant their goroutine reads.                                      *)
Spawn(r) ==
  /\ pc[r] = "spawn"
  /\ pc' = [pc EXCEPT ![r] = "reply"]
  /\ status' = [status EXCEPT ![r] = Success[call[r].op]]
  /\ attempt' = [attempt EXCEPT ![r] = 1]
  /\ \/ /\ call[r].op = "create"
        /\ ppc' = [ppc EXCEPT ![r] = "write"]
        /\ stamp' = [stamp EXCEPT ![r] = call[r].createdAt]
     \/ /\ call[r].op # "create"
        /\ ppc' = [ppc EXCEPT ![r] = "stamp"]
        /\ UNCHANGED stamp
  /\ UNCHANGED <<processVars, dbVars, clock, call, at, sent, topic>>

Reply(r) == pc[r] = "reply" /\ Proceed(r, "done") /\ UNCHANGED call

(* time.Now, evaluated as an argument inside the goroutine.                *)
Stamp(r) ==
  /\ ppc[r] = "stamp"
  /\ clock' = clock + 1
  /\ ppc' = [ppc EXCEPT ![r] = "write"]
  /\ stamp' = [stamp EXCEPT ![r] = clock + 1]
  /\ UNCHANGED <<processVars, dbVars, handlerVars, attempt, sent, topic>>

(* A WriteMessages call of publish's loop.  While it runs the writer       *)
(* (external) may append the message to the one partition of the topic, up *)
(* to WriterCopies times, for it retries by itself; and since it waits for *)
(* no acknowledgement, whatever the call returns says nothing of how many  *)
(* copies arrived.                                                         *)
WriterOpen == svc \in {"up", "draining"}

Send(r) ==
  /\ ppc[r] = "write"
  /\ WriterOpen
  /\ sent[r] < WriterCopies
  /\ topic' = Append(topic, Event(r))
  /\ sent' = [sent EXCEPT ![r] = @ + 1]
  /\ UNCHANGED <<processVars, dbVars, clock, handlerVars, ppc, attempt, stamp>>

EndPublisher(r) ==
  /\ ppc' = [ppc EXCEPT ![r] = "done"]
  /\ UNCHANGED <<processVars, dbVars, clock, handlerVars, attempt, sent, stamp, topic>>

Retry(r, n) ==
  /\ attempt' = [attempt EXCEPT ![r] = n]
  /\ sent' = [sent EXCEPT ![r] = 0]
  /\ UNCHANGED <<processVars, dbVars, clock, handlerVars, ppc, stamp, topic>>

(* The call returns nil or an error that is not retriable, as a closed     *)
(* writer does: the goroutine ends.                                        *)
WriteEnds(r) == ppc[r] = "write" /\ EndPublisher(r)

(* Mutants of WriteRetriable: attempts that send nothing are not counted;  *)
(* the loop runs one attempt more than maxRetries.                         *)
RetryUncounted(r) ==
  /\ ppc[r] = "write"
  /\ WriterOpen
  /\ \/ attempt[r] < MaxRetries /\ Retry(r, attempt[r] + 1)
     \/ attempt[r] = MaxRetries /\ sent[r] = 0 /\ Retry(r, 1)

RetryOnceMore(r) ==
  /\ ppc[r] = "write"
  /\ WriterOpen
  /\ \/ attempt[r] <= MaxRetries /\ Retry(r, attempt[r] + 1)
     \/ attempt[r] > MaxRetries /\ EndPublisher(r)

(* The call returns a retriable error: the goroutine sleeps and loops, or  *)
(* gives up after MaxRetries attempts.                                     *)
WriteRetriable(r) ==
  /\ ppc[r] = "write"
  /\ WriterOpen
  /\ \/ attempt[r] < MaxRetries /\ Retry(r, attempt[r] + 1)
     \/ attempt[r] = MaxRetries /\ EndPublisher(r)

-----------------------------------------------------------------------------
(* The process: main's graceful shutdown, a crash, a restart.              *)

(* Exiting kills every handler and every goroutine where it stands.        *)
Kill ==
  /\ svc' = "down"
  /\ pc' = [r \in Request |-> IF InFlight(r) THEN "lost" ELSE pc[r]]
  /\ ppc' = [r \in Request |-> IF Publishing(r) THEN "lost" ELSE ppc[r]]
  /\ UNCHANGED <<starts, dbVars, clock, call, status, at, attempt, sent, stamp, topic>>

Crash == svc # "down" /\ Kill

Become(state) ==
  /\ svc' = state
  /\ UNCHANGED <<dbVars, clock, handlerVars, publisherVars, topic>>

(* SIGTERM: server.Shutdown stops accepting requests.                      *)
Signal == svc = "up" /\ Become("draining") /\ UNCHANGED starts

(* A mutant of CloseTimedOut: Shutdown gets a context without deadline.    *)
NoDeadline == FALSE

(* Shutdown returns when no handler runs, or when its 10 s have passed;    *)
(* either way the publisher's writer is closed next.                       *)
CloseDrained ==
  /\ svc = "draining"
  /\ \A r \in Request : ~InFlight(r)
  /\ Become("closed") /\ UNCHANGED starts

CloseTimedOut ==
  /\ svc = "draining"
  /\ \E r \in Request : InFlight(r)
  /\ Become("closed") /\ UNCHANGED starts

(* main returns, after the deferred pool.Close (external), which waits for *)
(* every connection still in use.                                          *)
Exit ==
  /\ svc = "closed"
  /\ \A r \in Request : ~Querying(r)
  /\ Kill

(* A new process over the same table; RunMigrations leaves it as it is.    *)
Restart ==
  /\ svc = "down"
  /\ starts < MaxStarts
  /\ starts' = starts + 1
  /\ Become("up")

-----------------------------------------------------------------------------
Arrive(r) ==
  \/ \E op \in Ops \cap {"create", "update"} : RejectMalformed(r, op)
  \/ "create" \in Ops /\ \E b \in Body : RejectCreate(r, b) \/ StartCreate(r, b)
  \/ "update" \in Ops /\ \E i \in DeviceId, b \in Body : StartUpdate(r, i, b)
  \/ "delete" \in Ops /\ \E i \in DeviceId : StartDelete(r, i)
  \/ "get" \in Ops /\ \E i \in DeviceId : GetDevice(r, i)
  \/ "list" \in Ops /\ ListDevices(r)
  \/ \E op \in Ops \cap ReadOps : FailRead(r, op)

Find(r) == FindNothing(r) \/ RefuseUpdate(r) \/ FindForUpdate(r) \/ FindForDelete(r)

Write(r) ==
  \/ \E acked \in BOOLEAN : Save(r, acked) \/ Update(r, acked) \/ Delete(r, acked)
  \/ AffectNoRow(r)

Handle(r) == Find(r) \/ Write(r) \/ FailStatement(r) \/ Spawn(r) \/ Reply(r)

Publish(r) == Stamp(r) \/ Send(r) \/ WriteEnds(r) \/ WriteRetriable(r)

Process == Crash \/ Signal \/ CloseDrained \/ CloseTimedOut \/ Exit \/ Restart

Next ==
  \/ \E r \in Request : Arrive(r) \/ Handle(r) \/ Publish(r)
  \/ Process

Spec == Init /\ [][Next]_vars

(* Fairness.  Go's scheduler runs every goroutine, so a handler whose      *)
(* statement returned goes on.  A statement itself need never return: the  *)
(* code gives it no timeout.  A publisher's WriteMessages returns          *)
(* (WriteTimeout) and its sleep ends.  Once signalled, main runs on to its *)
(* end; it waits only in Shutdown, which has a timeout, and in pool.Close. *)
(* Clients, crashes, signals and restarts are not fair: they need never    *)
(* happen.                                                                 *)
Fairness ==
  /\ \A r \in Request : /\ WF_vars(Spawn(r) \/ Reply(r))
                        /\ WF_vars(Publish(r))
  /\ WF_vars(CloseDrained \/ CloseTimedOut)
  /\ WF_vars(Exit)

FairSpec == Spec /\ Fairness

-----------------------------------------------------------------------------
(* Types.                                                                  *)

CallRecord ==
  [op : WriteOps \cup ReadOps \cup {"none"}, id : DeviceId \cup {NoRow},
   row : Body \cup {NoRow}, createdAt : Nat, seen : SUBSET DeviceId]

EventRecord ==
  [type : {EventType[op] : op \in WriteOps}, deviceId : DeviceId,
   name : {row.name : row \in Row}, timestamp : Nat, by : Request]

(* Every variable has its type: in particular every stored row and every   *)
(* published name passed validation, and the publisher's attempt never     *)
(* leaves the range of the retry loop (device.go, kafka_event_publisher.go)*)
TypeOK ==
  /\ svc \in {"up", "draining", "closed", "down"}
  /\ starts \in Nat
  /\ devices \in [DeviceId -> Row \cup {NoRow}]
  /\ minted \in SUBSET DeviceId
  /\ clock \in Nat
  /\ commits \in Nat
  /\ call \in [Request -> CallRecord]
  /\ pc \in [Request -> {"idle", "find", "write", "spawn", "reply", "done", "lost"}]
  /\ status \in [Request -> {0, 200, 201, 204, 400, 404, 500}]
  /\ at \in [Request -> Nat]
  /\ ppc \in [Request -> {"none", "stamp", "write", "done", "lost"}]
  /\ attempt \in [Request -> 0..MaxRetries]
  /\ sent \in [Request -> 0..WriterCopies]
  /\ stamp \in [Request -> Nat]
  /\ topic \in Seq(EventRecord)

-----------------------------------------------------------------------------
(* Safety.                                                                 *)

(* Event e reports a committed write, with its device and name, of a       *)
(* request whose client was not told that it failed.                       *)
Reports(e) ==
  /\ Committed(e.by)
  /\ status[e.by] \notin {400, 404, 500}
  /\ e.type = EventType[call[e.by].op]
  /\ e.deviceId = call[e.by].id
  /\ e.name = call[e.by].row.name

(* No event without its change: whatever statement failed, whatever crash  *)
(* came between and however often the publisher retried, each message of   *)
(* the topic reports a write that took effect in the table (the order of   *)
(* repo.Save, Update or Delete, then go func, in the three use cases).     *)
EventsAreTrue == \A n \in DOMAIN topic : Reports(topic[n])

(* A device's committed writes are one creation, then updates, then at     *)
(* most one deletion, whichever way FindByID and the writes of concurrent  *)
(* handlers interleave: an update never recreates a device deleted after   *)
(* it was found, and of two deletions of a device one fails (RowsAffected  *)
(* in postgres_device_repository.go).                                      *)
LifecycleOrder ==
  \A r, s \in Request :
    (r # s /\ Committed(r) /\ Committed(s) /\ call[r].id = call[s].id) =>
      /\ call[r].op = "create" => at[r] < at[s]
      /\ call[r].op = "delete" => at[s] < at[r]

(* What the client is told matches the table: a 2xx answer to a write      *)
(* means that it took effect, a 400 or 404 that it did not; only 500       *)
(* leaves it open (device_handler.go over the use cases' errors).          *)
AnswersMatchTable ==
  \A r \in Request :
    call[r].op \in WriteOps =>
      /\ status[r] \in {200, 201, 204} => Committed(r)
      /\ status[r] \in {400, 404} => ~Committed(r)

(* Of the events of one device in the topic, the created event carries the *)
(* oldest timestamp, however late it was published: CreatedAt is read      *)
(* before the INSERT, and the others read the clock after a row was found, *)
(* so a timeline sorted by timestamp begins with the creation.             *)
CreatedStampedFirst ==
  \A m, n \in DOMAIN topic :
    (/\ topic[m].deviceId = topic[n].deviceId
     /\ topic[m].type = "device.created" /\ topic[n].type # "device.created")
    => topic[m].timestamp < topic[n].timestamp

(* Retries are bounded: a write leaves at most MaxRetries times            *)
(* WriterCopies messages in the topic (the loop of publish).               *)
CopiesBounded ==
  \A r \in Request :
    Cardinality({n \in DOMAIN topic : topic[n].by = r})
      <= MaxRetries * WriterCopies

-----------------------------------------------------------------------------
(* Action properties.                                                      *)

(* Clients see their writes: a GET accepted after a deletion was answered  *)
(* 204 does not show the device again, and one accepted after a creation   *)
(* was answered 201 shows it unless a client has asked to delete it.       *)
ReadsAreCurrent ==
  [][\A r, s \in Request :
       (/\ pc[r] = "idle" /\ call'[r].op \in ReadOps /\ status'[r] \in {200, 404}
        /\ pc[s] = "done") =>
         /\ call[s].op = "delete" /\ status[s] = 204 => call[s].id \notin call'[r].seen
         /\ (/\ call[s].op = "create" /\ status[s] = 201
             /\ call'[r].op = "list" \/ call'[r].id = call[s].id
             /\ \A d \in Request : ~(call[d].op = "delete" /\ call[d].id = call[s].id))
            => call[s].id \in call'[r].seen
    ]_vars

(* The steps a publisher can still take: in each attempt the copies the    *)
(* writer may append and the return of the call, and the stamp before all. *)
StepsLeft(r) ==
  CASE ppc[r] = "write" -> (MaxRetries - attempt[r]) * (WriterCopies + 1)
                             + (WriterCopies - sent[r]) + 1
    [] ppc[r] = "stamp" -> MaxRetries * (WriterCopies + 1) + 1
    [] OTHER -> 0

(* A publisher, once spawned, runs down: each of its steps brings it       *)
(* nearer to its end, and no other step, not the crash, the shutdown or    *)
(* the next process, sets it back or starts it again (the loop of publish).*)
PublishersRunDown ==
  [][\A r \in Request : ppc[r] # "none" =>
       /\ StepsLeft(r)' <= StepsLeft(r)
       /\ Publish(r) => StepsLeft(r)' < StepsLeft(r)
    ]_vars

-----------------------------------------------------------------------------
(* Liveness, under Fairness.                                               *)

(* Every write whose success reached its use case is published to the end: *)
(* its goroutine is spawned and, its retries being bounded, ends by        *)
(* success or by giving up, unless the process dies first.                 *)
PublishersEnd ==
  \A r \in Request :
    pc[r] = "spawn" \/ Publishing(r)
      ~> ppc[r] \in {"done", "lost"} \/ pc[r] = "lost"

(* A signalled process closes its publisher even when a handler never      *)
(* finishes, since Shutdown gives up after its timeout; from there it      *)
(* exits, provided every SQL statement returns (nothing in main bounds the *)
(* wait of pool.Close).                                                    *)
ShutdownEnds ==
  /\ svc = "draining" ~> svc \in {"closed", "down"}
  /\ (\A r \in Request : []<>~Querying(r)) => (svc = "closed" ~> svc = "down")

-----------------------------------------------------------------------------
(* Claims of the repository's documents that the code does not keep.       *)

(* kafka_event_publisher.go:53 says that keying by deviceID ensures        *)
(* ordering per device: the topic would hold a device's events in the      *)
(* order its changes were committed.                                       *)
TopicFollowsCommits ==
  \A m, n \in DOMAIN topic :
    (m < n /\ topic[m].deviceId = topic[n].deviceId)
      => at[topic[m].by] <= at[topic[n].by]

(* README.md says graceful shutdown flushes messages before exit: when     *)
(* main returns no publisher is still on its way.                          *)
ShutdownFlushes == [][Exit => \A r \in Request : ~Publishing(r)]_vars

-----------------------------------------------------------------------------
(* What the service promises to the readers of its table and its topic:    *)
(* the table changes atomically, one write at a time, and only changes     *)
(* that were made are announced.                                           *)

Change(r) ==
  [op |-> call[r].op, id |-> call[r].id,
   row |-> IF call[r].op = "delete" THEN NoRow ELSE call[r].row]
NoChange == [op |-> "none", id |-> NoRow, row |-> NoRow]

changes == [r \in Request |-> IF Committed(r) THEN Change(r) ELSE NoChange]

Announcement(e) == [type |-> e.type, deviceId |-> e.deviceId, name |-> e.name]

announcements == [n \in DOMAIN topic |-> Announcement(topic[n])]

Registry == INSTANCE DeviceRegistry
  WITH table <- devices, change <- changes, announced <- announcements

(* The service implements the registry: every SQL statement that takes     *)
(* effect is one atomic registry operation and every append to the topic   *)
(* announces an earlier one; all other steps are invisible.                *)
ImplementsRegistry == Registry!Spec
=============================================================================
