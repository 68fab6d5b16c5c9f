--------------------------- MODULE RequestMetrics ---------------------------
(* The request counters and traces a service keeps in memory, the answers  *)
(* of GET /metrics and GET /metrics/requests, and the dashboard card that  *)
(* polls both.  The Go service counts on concurrent goroutines, with two   *)
(* atomic integers and a mutex around the slice: each of its steps below   *)
(* may interleave with any other.  The Node service runs each callback to  *)
(* its end.  A behaviour is of one service, chosen in Init.                *)
EXTENDS Integers, Sequences, FiniteSets

CONSTANTS Request,        \* the business requests
          Missing, Junk,  \* no limit parameter; one that is no number
          DefaultLimit, MaxLimit,   \* 50 and 10000, the largest answer
          Queries,        \* the limits that other clients than the card send
          Audiences,      \* the sets of readers to consider
          MaxStarts       \* bound: how often the service starts

ASSUME LimitsAssumption ==
  /\ DefaultLimit \in Nat \ {0} /\ MaxLimit \in Nat \ {0}
  /\ Missing \notin Int /\ Junk \notin Int /\ Missing # Junk
  /\ Queries \subseteq Int \cup {Missing, Junk}
ASSUME RequestAssumption == IsFiniteSet(Request)

(* The card's two queries and another client of /metrics/requests.         *)
Card == {"counters", "detail"}
Reader == Card \cup {"other"}

ASSUME AudiencesAssumption == Audiences \subseteq SUBSET Reader

VARIABLES service,   \* "go" or "node"
          readers,   \* who polls; answers do not affect one another, so a
                     \* run may take the readers in turn
          up, starts,
          requests, errors, traces,   \* the MetricsHandler of this start
          pc,        \* where a request is: idle, serving, failed, counted,
                     \* traced, aborted, or gone with an earlier start
          read,      \* a reader's handler: what it has loaded so far
          data,      \* the last answer a reader got
          isError    \* whether its last poll failed

chosen == <<service, readers>>
counters == <<requests, errors, traces>>
client == <<read, data, isError>>
vars == <<service, readers, up, starts, requests, errors, traces, pc, read, data, isError>>

Trace(r, bad) == [by |-> r, bad |-> bad]
Loaded(at, req, recent) == [at |-> at, requests |-> req, recent |-> recent]
NotReading == Loaded("idle", 0, <<>>)
Answer(req, err, recent) == [requests |-> req, errors |-> err, recent |-> recent]
NoData == Answer(0, 0, <<>>)

Smaller(a, b) == IF a < b THEN a ELSE b
Clamp(n) == IF n < 1 THEN 1 ELSE Smaller(n, MaxLimit)
(* The two parsers disagree on a limit that is not a number.               *)
GoLimit(raw) == IF raw \in {Missing, Junk} THEN DefaultLimit ELSE Clamp(raw)
NodeLimit(raw) == CASE raw = Missing -> DefaultLimit
                    [] raw = Junk -> 1
                    [] OTHER -> Clamp(raw)
(* The last `limit' traces, newest first.                                  *)
Newest(ts, limit) ==
  [i \in 1..Smaller(limit, Len(ts)) |-> ts[Len(ts) + 1 - i]]

Init ==
  /\ service \in {"go", "node"} /\ readers \in Audiences
  /\ up = TRUE /\ starts = 1
  /\ requests = 0 /\ errors = 0 /\ traces = <<>>
  /\ pc = [r \in Request |-> "idle"]
  /\ read = [k \in Reader |-> NotReading]
  /\ data = [k \in Reader |-> NoData]
  /\ isError = [k \in Reader |-> FALSE]

-----------------------------------------------------------------------------
(* Business requests.  Health and metrics paths are not counted.           *)

Become(r, p) == pc' = [pc EXCEPT ![r] = p]

(* A mutant of Push: a ring that holds MaxLimit traces.                    *)
PushRing(r, bad) ==
  traces' = Append(IF Len(traces) < MaxLimit THEN traces ELSE Tail(traces), Trace(r, bad))

(* PushTrace, pushTrace: the list only grows, until the process ends (the  *)
(* repository's README.md, line 63, and the tests of both handlers).       *)
(* openspec/specs/ux-live-metrics/spec.md wants a ring of 200 (lines       *)
(* 98-106) and a limit of at most 200 (lines 111, 117).                    *)
Push(r, bad) == traces' = Append(traces, Trace(r, bad))

Arrive(r) ==
  /\ up /\ pc[r] = "idle"
  /\ requests' = requests + 1
  /\ Become(r, "serving")
  /\ UNCHANGED <<chosen, up, starts, errors, traces, client>>

(* Go: the middleware's steps after the inner handler returned.            *)
GoServed(r) ==
  /\ service = "go" /\ up /\ pc[r] = "serving"
  /\ \/ Push(r, FALSE) /\ Become(r, "traced")
     \/ Become(r, "failed") /\ UNCHANGED traces
  /\ UNCHANGED <<chosen, up, starts, requests, errors, client>>

GoCountError(r) ==
  /\ service = "go" /\ up /\ pc[r] = "failed"
  /\ errors' = errors + 1
  /\ Become(r, "counted")
  /\ UNCHANGED <<chosen, up, starts, requests, traces, client>>

GoTraceError(r) ==
  /\ service = "go" /\ up /\ pc[r] = "counted"
  /\ Push(r, TRUE)
  /\ Become(r, "traced")
  /\ UNCHANGED <<chosen, up, starts, requests, errors, client>>

(* Node: the 'finish' event, or a connection closed before it, for which   *)
(* no event fires.                                                         *)
NodeFinish(r, bad) ==
  /\ service = "node" /\ up /\ pc[r] = "serving"
  /\ Push(r, bad)
  /\ errors' = IF bad THEN errors + 1 ELSE errors
  /\ Become(r, "traced")
  /\ UNCHANGED <<chosen, up, starts, requests, client>>

NodeAbort(r) ==
  /\ service = "node" /\ up /\ pc[r] = "serving"
  /\ Become(r, "aborted")
  /\ UNCHANGED <<chosen, up, starts, counters, client>>

-----------------------------------------------------------------------------
(* The metrics endpoints.  The card sends no limit.                        *)

Load(k, at, req, recent) == read' = [read EXCEPT ![k] = Loaded(at, req, recent)]

Receive(k, answer) ==
  /\ data' = [data EXCEPT ![k] = answer]
  /\ isError' = [isError EXCEPT ![k] = FALSE]

(* A poll starts only when the previous one of the same query has ended.   *)
PollsUntilError(k) == k \in readers /\ up /\ read[k].at = "idle" /\ ~isError[k]
Polls(k) == k \in readers /\ up /\ read[k].at = "idle"
Sends(k) == IF k = "other" THEN Queries ELSE {Missing}

GoLoadTraces(k) ==
  /\ service = "go" /\ Polls(k) /\ k # "counters"
  /\ \E raw \in Sends(k) : Load(k, "requests", 0, Newest(traces, GoLimit(raw)))
  /\ UNCHANGED <<chosen, up, starts, counters, pc, data, isError>>

GoLoadRequests(k) ==
  /\ service = "go" /\ up
  /\ read[k].at = "requests" \/ (Polls(k) /\ k = "counters")
  /\ Load(k, "errors", requests, read[k].recent)
  /\ UNCHANGED <<chosen, up, starts, counters, pc, data, isError>>

(* The traces loaded where they stand in the answer: last.                 *)
GoLoadTracesLast(k) ==
  /\ service = "go" /\ up /\ read[k].at = "errors"
  /\ Receive(k, Answer(read[k].requests, errors,
                       IF k = "counters" THEN <<>> ELSE Newest(traces, DefaultLimit)))
  /\ read' = [read EXCEPT ![k] = NotReading]
  /\ UNCHANGED <<chosen, up, starts, counters, pc>>

GoLoadErrors(k) ==
  /\ service = "go" /\ up /\ read[k].at = "errors"
  /\ Receive(k, Answer(read[k].requests, errors, read[k].recent))
  /\ read' = [read EXCEPT ![k] = NotReading]
  /\ UNCHANGED <<chosen, up, starts, counters, pc>>

NodeAnswer(k) ==
  /\ service = "node" /\ Polls(k)
  /\ \E raw \in Sends(k) :
        Receive(k, Answer(requests, errors,
                          IF k = "counters" THEN <<>> ELSE Newest(traces, NodeLimit(raw))))
  /\ UNCHANGED <<chosen, up, starts, counters, pc, read>>

(* The service is down: the fetch rejects, and the data of before stays.   *)
PollFails(k) ==
  /\ ~up /\ k \in readers
  /\ isError' = [isError EXCEPT ![k] = TRUE]
  /\ UNCHANGED <<chosen, up, starts, counters, pc, read, data>>

-----------------------------------------------------------------------------
(* The process ends, whatever it was doing, and is started again with a    *)
(* new MetricsHandler.  An answer under way is an error of its query.      *)

Stop ==
  /\ up
  /\ up' = FALSE
  /\ pc' = [r \in Request |-> IF pc[r] = "idle" THEN "idle" ELSE "gone"]
  /\ read' = [k \in Reader |-> NotReading]
  /\ isError' = [k \in Reader |-> isError[k] \/ read[k].at # "idle"]
  /\ UNCHANGED <<chosen, starts, counters, data>>

Start ==
  /\ ~up /\ starts < MaxStarts
  /\ up' = TRUE /\ starts' = starts + 1
  /\ requests' = 0 /\ errors' = 0 /\ traces' = <<>>
  /\ UNCHANGED <<chosen, pc, client>>

Serve(r) ==
  \/ GoServed(r) \/ GoCountError(r) \/ GoTraceError(r)
  \/ \E bad \in BOOLEAN : NodeFinish(r, bad)
  \/ NodeAbort(r)

Read(k) == GoLoadTraces(k) \/ GoLoadRequests(k) \/ GoLoadErrors(k) \/ NodeAnswer(k) \/ PollFails(k)

Next ==
  \/ \E r \in Request : Arrive(r) \/ Serve(r)
  \/ \E k \in Reader : Read(k)
  \/ Stop \/ Start

Spec == Init /\ [][Next]_vars

(* Handlers run, and a page in sight polls at its interval, for            *)
(* refetchInterval is always positive. The browser is taken to be online:  *)
(* the query library pauses the polls of one that is not (see              *)
(* HealthMonitor).                                                         *)
Fairness ==
  /\ \A r \in Request : WF_vars(Serve(r))
  /\ \A k \in Card : WF_vars(Read(k))
FairSpec == Spec /\ Fairness

-----------------------------------------------------------------------------
TraceRecord == [by : Request, bad : BOOLEAN]

(* Every variable has its type.                                            *)
TypeOK ==
  /\ service \in {"go", "node"} /\ readers \subseteq Reader
  /\ up \in BOOLEAN /\ starts \in Nat
  /\ requests \in Nat /\ errors \in Nat /\ traces \in Seq(TraceRecord)
  /\ pc \in [Request -> {"idle", "serving", "failed", "counted", "traced", "aborted", "gone"}]
  /\ read \in [Reader -> [at : {"idle", "requests", "errors"}, requests : Nat,
                          recent : Seq(TraceRecord)]]
  /\ data \in [Reader -> [requests : Nat, errors : Nat, recent : Seq(TraceRecord)]]
  /\ isError \in [Reader -> BOOLEAN]

Failures(ts) == {i \in DOMAIN ts : ts[i].bad}
Covers(req, err, ts) == Len(ts) <= req /\ Cardinality(Failures(ts)) <= err

(* Whatever requests run between the loads of one answer, the answer has   *)
(* counted every request and every error whose trace it shows; and where   *)
(* callbacks do not interleave it never shows more errors than requests.   *)
(* (On the Go side it may: errors are loaded after requests.)              *)
AnswersCoverTraces ==
  \A k \in Reader :
    /\ Covers(data[k].requests, data[k].errors, data[k].recent)
    /\ service = "node" => data[k].errors <= data[k].requests

(* The counters and the traces of a running service account for one        *)
(* another, however many requests there were: every request that arrived   *)
(* is traced once and the trace kept, or the request is under way, or was  *)
(* closed before it finished (which the Node service never traces); every  *)
(* error counted is traced as one, or is about to be. That is README.md's  *)
(* "all traces preserved for process lifetime", and what it costs in       *)
(* memory; that "count stays 200", as the other document has it, is not    *)
(* what the code does (Push).                                              *)
CountersAddUp ==
  up => /\ requests = Len(traces) +
             Cardinality({r \in Request : pc[r] \in {"serving", "failed", "counted", "aborted"}})
        /\ errors = Cardinality(Failures(traces)) +
             Cardinality({r \in Request : pc[r] = "counted"})

(* LiveMetrics: no counter is shown while the query is in error; the       *)
(* traces of before still are.                                             *)
ShownCounters == IF isError["counters"] THEN NoData ELSE data["counters"]
ShownTraces == data["detail"].recent

(* The card, whose two halves are polled apart, over restarts that reset   *)
(* the counters and polls that fail, in the end shows the counters and the *)
(* traces of the service as they are, if the service stays up.             *)
CardCatchesUp ==
  <>[](up /\ Card \subseteq readers) => <>[](/\ ShownCounters = Answer(requests, errors, <<>>)
                 /\ ShownTraces = Newest(traces, DefaultLimit))

=============================================================================
