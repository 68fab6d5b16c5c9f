------------------------ MODULE RequestMetricsProofs ------------------------
(* An answer covers its traces because a request is counted before it is   *)
(* traced, an error before its trace is pushed, and traces are loaded      *)
(* before the counters: the counters' lead over the traces is at least the *)
(* number of requests that are still between the two.                      *)
EXTENDS RequestMetrics, FiniteSetTheorems, TLAPS

At(f, B) == {r \in Request : f[r] \in B}
Untraced == {"serving", "failed", "counted"}
Owed == {"counted"}
Busy == At(pc, Untraced)
Counted == At(pc, Owed)

(* The counters lead the traces by at least the requests not traced yet.   *)
Lead ==
  /\ Len(traces) + Cardinality(Busy) <= requests
  /\ Cardinality(Failures(traces)) + Cardinality(Counted) <= errors
  /\ service = "node" => errors <= Len(traces) /\ Counted = {}

(* A reader has loaded nothing, or traces that what it loads next covers.  *)
ReadersOK ==
  \A k \in Reader :
    /\ read[k].at = "idle" => read[k].recent = <<>>
    /\ read[k].at = "requests" => Covers(requests, errors, read[k].recent)
    /\ read[k].at = "errors" => Covers(read[k].requests, errors, read[k].recent)

(* A stopped service has no handlers.                                      *)
DownOK == ~up => Busy = {} /\ read = [k \in Reader |-> NotReading]

GoOnly == service = "node" => \A r \in Request : pc[r] \notin {"failed", "counted"}

MetricsInv == TypeOK /\ Lead /\ ReadersOK /\ DownOK /\ GoOnly /\ AnswersCoverTraces

-----------------------------------------------------------------------------
(* Facts about traces.                                                     *)

LEMMA FailuresFinite ==
  ASSUME NEW ts \in Seq(TraceRecord)
  PROVE  IsFiniteSet(Failures(ts)) /\ Cardinality(Failures(ts)) \in Nat
<1>1. DOMAIN ts = 1..Len(ts) /\ Len(ts) \in Nat
  OBVIOUS
<1>2. IsFiniteSet(1..Len(ts))
  BY <1>1, FS_Interval
<1>3. Failures(ts) \subseteq 1..Len(ts)
  BY <1>1 DEF Failures
<1>4. QED
  BY <1>2, <1>3, FS_Subset, FS_CardinalityType

LEMMA FailuresEmpty == Cardinality(Failures(<<>>)) = 0
<1>1. Failures(<<>>) = {}
  BY DEF Failures
<1>2. QED
  BY <1>1, FS_EmptySet

(* Pushing a trace adds one failure if its request failed, none otherwise. *)
LEMMA FailuresPush ==
  ASSUME NEW ts \in Seq(TraceRecord), NEW t \in TraceRecord
  PROVE  /\ Append(ts, t) \in Seq(TraceRecord) /\ Len(Append(ts, t)) = Len(ts) + 1
         /\ t.bad => Cardinality(Failures(Append(ts, t))) = Cardinality(Failures(ts)) + 1
         /\ ~t.bad => Cardinality(Failures(Append(ts, t))) = Cardinality(Failures(ts))
<1> DEFINE n == Len(ts) + 1
<1>1. /\ Append(ts, t) \in Seq(TraceRecord) /\ Len(Append(ts, t)) = n
      /\ DOMAIN ts = 1..Len(ts) /\ DOMAIN Append(ts, t) = 1..n /\ Len(ts) \in Nat
      /\ Append(ts, t)[n] = t
      /\ \A i \in 1..Len(ts) : Append(ts, t)[i] = ts[i]
  OBVIOUS
<1>2. n \notin Failures(ts)
  BY <1>1 DEF Failures
<1>3. CASE t.bad
  <2>1. Failures(Append(ts, t)) = Failures(ts) \cup {n}
    BY <1>1, <1>3 DEF Failures
  <2>2. Cardinality(Failures(ts) \cup {n}) = Cardinality(Failures(ts)) + 1
    BY <1>2, FailuresFinite, FS_AddElement
  <2>3. QED
    BY <1>1, <1>3, <2>1, <2>2
<1>4. CASE ~t.bad
  <2>1. Failures(Append(ts, t)) = Failures(ts)
    BY <1>1, <1>4 DEF Failures
  <2>2. QED
    BY <1>1, <1>4, <2>1
<1>5. QED
  BY <1>3, <1>4

(* The newest traces are no more than all, and have no more failures.      *)
LEMMA NewestCovered ==
  ASSUME NEW ts \in Seq(TraceRecord), NEW limit \in Nat
  PROVE  /\ Newest(ts, limit) \in Seq(TraceRecord)
         /\ Len(Newest(ts, limit)) <= Len(ts)
         /\ Cardinality(Failures(Newest(ts, limit))) <= Cardinality(Failures(ts))
<1> DEFINE m == Smaller(limit, Len(ts))
           N == Newest(ts, limit)
           f == [i \in Failures(N) |-> Len(ts) + 1 - i]
<1>1. DOMAIN ts = 1..Len(ts) /\ Len(ts) \in Nat
  OBVIOUS
<1>2. m \in Nat /\ m <= Len(ts)
  BY <1>1 DEF Smaller
<1>3. N = [i \in 1..m |-> ts[Len(ts) + 1 - i]]
  BY DEF Newest
<1> HIDE DEF m
<1>4. \A i \in 1..m : Len(ts) + 1 - i \in 1..Len(ts) /\ N[i] = ts[Len(ts) + 1 - i]
  BY <1>1, <1>2, <1>3
<1>5. \A i \in 1..m : N[i] \in TraceRecord
  BY <1>1, <1>4
<1>6. N \in Seq(TraceRecord) /\ Len(N) = m /\ DOMAIN N = 1..m
  BY <1>2, <1>3, <1>5
<1> HIDE DEF N
<1>7. f \in Injection(Failures(N), Failures(ts))
  <2>1. \A i \in Failures(N) : i \in Int /\ f[i] \in Failures(ts)
    BY <1>1, <1>4, <1>6 DEF Failures
  <2>2. \A i, j \in Failures(N) : f[i] = f[j] => i = j
    BY <1>1, <2>1
  <2>3. QED
    BY <2>1, <2>2 DEF Injection, IsInjective
<1>8. Cardinality(Failures(N)) <= Cardinality(Failures(ts))
  BY <1>6, <1>7, FailuresFinite, FS_Injection
<1>9. QED
  BY <1>2, <1>6, <1>8 DEF N

LEMMA LimitsAreNumbers ==
  ASSUME NEW raw \in Queries \cup {Missing}
  PROVE  GoLimit(raw) \in Nat /\ NodeLimit(raw) \in Nat
BY LimitsAssumption DEF GoLimit, NodeLimit, Clamp, Smaller

(* What covers some traces still does when the counters have grown.        *)
LEMMA CoversMore ==
  ASSUME NEW ts \in Seq(TraceRecord),
         NEW a \in Nat, NEW b \in Nat, NEW c \in Nat, NEW d \in Nat,
         Covers(a, b, ts), a <= c, b <= d
  PROVE  Covers(c, d, ts)
BY FailuresFinite DEF Covers

(* How many requests are at the places D, before and after r has moved to  *)
(* p.                                                                      *)
Moves(r, p, D) ==
  /\ Cardinality(At(pc, D)) \in Nat /\ Cardinality(At(pc', D)) \in Nat
  /\ pc[r] \notin D /\ p \in D =>
       Cardinality(At(pc', D)) = Cardinality(At(pc, D)) + 1
  /\ pc[r] \in D /\ p \notin D =>
       Cardinality(At(pc', D)) = Cardinality(At(pc, D)) - 1
  /\ (pc[r] \in D <=> p \in D) => At(pc', D) = At(pc, D)

LEMMA CountMoves ==
  ASSUME TypeOK, NEW r \in Request, NEW p, Become(r, p), NEW D
  PROVE  Moves(r, p, D)
<1>1. pc'[r] = p /\ \A q \in Request : q # r => pc'[q] = pc[q]
  BY DEF TypeOK, Become
<1>2. IsFiniteSet(At(pc, D)) /\ IsFiniteSet(At(pc', D))
  BY RequestAssumption, FS_Subset DEF At
<1>3. Cardinality(At(pc, D)) \in Nat /\ Cardinality(At(pc', D)) \in Nat
  BY <1>2, FS_CardinalityType
<1>4. CASE pc[r] \notin D /\ p \in D
  <2>1. At(pc', D) = At(pc, D) \cup {r} /\ r \notin At(pc, D)
    BY <1>1, <1>4 DEF At
  <2>2. Cardinality(At(pc', D)) = Cardinality(At(pc, D)) + 1
    BY <1>2, <2>1, FS_AddElement
  <2>3. QED
    BY <1>3, <1>4, <2>2 DEF Moves
<1>5. CASE pc[r] \in D /\ p \notin D
  <2>1. At(pc', D) = At(pc, D) \ {r} /\ r \in At(pc, D)
    BY <1>1, <1>5 DEF At
  <2>2. Cardinality(At(pc', D)) = Cardinality(At(pc, D)) - 1
    BY <1>2, <2>1, FS_RemoveElement
  <2>3. QED
    BY <1>3, <1>5, <2>2 DEF Moves
<1>6. CASE pc[r] \in D <=> p \in D
  <2>1. At(pc', D) = At(pc, D)
    BY <1>1, <1>6 DEF At
  <2>2. QED
    BY <1>3, <1>6, <2>1 DEF Moves
<1>7. QED
  BY <1>4, <1>5, <1>6

-----------------------------------------------------------------------------
(* The initial states, and the steps of requests.                          *)

LEMMA InitMetrics == Init => MetricsInv
<1> SUFFICES ASSUME Init PROVE MetricsInv
  OBVIOUS
<1>1. Busy = {} /\ Counted = {}
  BY DEF Init, Busy, Counted, At, Untraced, Owed
<1>2. Cardinality(Busy) = 0 /\ Cardinality(Counted) = 0
  BY <1>1, FS_EmptySet
<1>3. Covers(0, 0, <<>>)
  BY FailuresEmpty DEF Covers
<1>4. TypeOK
  BY AudiencesAssumption DEF Init, TypeOK, NotReading, Loaded, NoData, Answer
<1>5. Lead
  BY <1>1, <1>2, FailuresEmpty DEF Init, Lead
<1>6. ReadersOK /\ DownOK /\ GoOnly
  BY DEF Init, ReadersOK, DownOK, GoOnly, NotReading, Loaded
<1>7. AnswersCoverTraces
  BY <1>3 DEF Init, AnswersCoverTraces, NoData, Answer
<1>8. QED
  BY <1>4, <1>5, <1>6, <1>7 DEF MetricsInv

(* A step of a request, for its effect on the counters and the traces.     *)
LEMMA RequestStep ==
  ASSUME MetricsInv, up, UNCHANGED <<chosen, up, starts, client>>,
         NEW r \in Request, NEW p \in {"serving", "failed", "counted", "traced", "aborted"},
         Become(r, p), p \in {"failed", "counted"} => service = "go",
         requests' \in Nat, errors' \in Nat, traces' \in Seq(TraceRecord),
         requests <= requests', errors <= errors', Lead'
  PROVE  MetricsInv'
<1> USE DEF MetricsInv, chosen, client
<1>1. TypeOK'
  BY DEF TypeOK, Become
<1>2. ReadersOK'
  <2> SUFFICES ASSUME NEW k \in Reader
               PROVE  /\ read[k].at = "idle" => read[k].recent = <<>>
                      /\ read[k].at = "requests" => Covers(requests', errors', read[k].recent)
                      /\ read[k].at = "errors" => Covers(read[k].requests, errors', read[k].recent)
    BY DEF ReadersOK, Covers, Failures
  <2>1. read[k].recent \in Seq(TraceRecord) /\ read[k].requests \in Nat
    BY DEF TypeOK
  <2>2. requests \in Nat /\ errors \in Nat
    BY DEF TypeOK
  <2>3. /\ read[k].at = "idle" => read[k].recent = <<>>
        /\ read[k].at = "requests" => Covers(requests, errors, read[k].recent)
        /\ read[k].at = "errors" => Covers(read[k].requests, errors, read[k].recent)
    BY DEF ReadersOK
  <2>4. CASE read[k].at = "requests"
    BY <2>1, <2>2, <2>3, <2>4, CoversMore
  <2>5. CASE read[k].at = "errors"
    BY <2>1, <2>2, <2>3, <2>5, CoversMore
  <2>6. QED
    BY <2>3, <2>4, <2>5
<1>3. DownOK'
  BY DEF DownOK
<1>4. GoOnly'
  BY DEF GoOnly, TypeOK, Become
<1>5. AnswersCoverTraces'
  BY DEF AnswersCoverTraces, Covers, Failures
<1>6. QED
  BY <1>1, <1>2, <1>3, <1>4, <1>5

LEMMA RequestsKeep ==
  ASSUME MetricsInv, NEW r \in Request, Arrive(r) \/ Serve(r)
  PROVE  MetricsInv'
<1> DEFINE b == Cardinality(Busy)
           c == Cardinality(Counted)
           t == Cardinality(Failures(traces))
<1>1. /\ requests \in Nat /\ errors \in Nat /\ traces \in Seq(TraceRecord) /\ Len(traces) \in Nat
      /\ Len(traces) + b <= requests /\ t + c <= errors
      /\ service = "node" => errors <= Len(traces) /\ Counted = {}
      /\ service \in {"go", "node"}
  BY DEF MetricsInv, TypeOK, Lead
<1>2. t \in Nat
  BY <1>1, FailuresFinite
<1>3. ASSUME NEW p \in {"serving", "failed", "counted", "traced", "aborted"}, Become(r, p)
      PROVE  /\ b \in Nat /\ b' \in Nat /\ c \in Nat /\ c' \in Nat
             /\ pc[r] = "idle" /\ p = "serving" => b' = b + 1 /\ Counted' = Counted /\ c' = c
             /\ pc[r] = "serving" /\ p = "failed" => b' = b /\ Counted' = Counted /\ c' = c
             /\ pc[r] = "failed" /\ p = "counted" => b' = b /\ c' = c + 1
             /\ pc[r] = "counted" /\ p = "traced" => b' = b - 1 /\ c' = c - 1
             /\ pc[r] = "serving" /\ p \in {"traced", "aborted"} =>
                  b' = b - 1 /\ Counted' = Counted /\ c' = c
  <2>1. \A D : Moves(r, p, D)
    BY <1>3, CountMoves, Zenon DEF MetricsInv
  <2>2. Moves(r, p, Untraced) /\ Moves(r, p, Owed)
    BY <2>1, Zenon
  <2>3. Busy = At(pc, Untraced) /\ Busy' = At(pc', Untraced)
    BY DEF Busy, At, Untraced
  <2>4. Counted = At(pc, Owed) /\ Counted' = At(pc', Owed)
    BY DEF Counted, At, Owed
  <2>5. /\ b \in Nat /\ b' \in Nat
        /\ pc[r] \notin Untraced /\ p \in Untraced => b' = b + 1
        /\ pc[r] \in Untraced /\ p \notin Untraced => b' = b - 1
        /\ (pc[r] \in Untraced <=> p \in Untraced) => b' = b
    BY <2>2, <2>3 DEF Moves
  <2>6. /\ c \in Nat /\ c' \in Nat
        /\ pc[r] \notin Owed /\ p \in Owed => c' = c + 1
        /\ pc[r] \in Owed /\ p \notin Owed => c' = c - 1
        /\ (pc[r] \in Owed <=> p \in Owed) => Counted' = Counted /\ c' = c
    BY <2>2, <2>4 DEF Moves
  <2> HIDE DEF b, c
  <2>7. QED
    BY <2>5, <2>6 DEF Untraced, Owed
<1>4. \A bad \in BOOLEAN : Trace(r, bad) \in TraceRecord /\ Trace(r, bad).bad = bad
  BY DEF Trace, TraceRecord
<1>5. ASSUME NEW bad \in BOOLEAN, Push(r, bad)
      PROVE  /\ traces' \in Seq(TraceRecord) /\ Len(traces)' = Len(traces) + 1
             /\ bad => t' = t + 1
             /\ ~bad => t' = t
  BY <1>1, <1>4, <1>5, FailuresPush DEF Push
<1>6. traces' = traces => t' = t
  OBVIOUS
<1> HIDE DEF b, c, t
<1>7. /\ up /\ UNCHANGED <<chosen, up, starts, client>>
      /\ requests' \in Nat /\ requests <= requests'
      /\ errors' \in Nat /\ errors <= errors'
  <2>1. up /\ UNCHANGED <<chosen, up, starts, client>>
    BY Zenon DEF Arrive, Serve, GoServed, GoCountError, GoTraceError, NodeFinish, NodeAbort
  <2>2. requests' \in {requests, requests + 1} /\ errors' \in {errors, errors + 1}
    BY DEF Arrive, Serve, GoServed, GoCountError, GoTraceError, NodeFinish, NodeAbort, counters
  <2>3. QED
    BY <1>1, <2>1, <2>2
<1>8. CASE Arrive(r)
  <2>1. Become(r, "serving") /\ pc[r] = "idle"
    BY <1>8 DEF Arrive
  <2>2. Lead'
    BY <1>1, <1>2, <1>3, <1>6, <1>8, <2>1 DEF Arrive, Lead, b, c, t, chosen
  <2>3. QED
    BY <1>1, <1>7, <1>8, <2>1, <2>2, RequestStep DEF Arrive
<1>9. CASE GoServed(r)
  <2>1. CASE Push(r, FALSE) /\ Become(r, "traced")
    <3>1. /\ Len(traces)' = Len(traces) + 1 /\ t' = t /\ b' = b - 1 /\ c' = c
          /\ b \in Nat /\ c \in Nat /\ requests' = requests /\ errors' = errors
          /\ Counted' = Counted /\ service' = service
      BY <1>3, <1>5, <1>9, <2>1 DEF GoServed, chosen
    <3>2. Lead'
      BY <1>1, <1>2, <3>1 DEF Lead, b, c, t
    <3>3. QED
      BY <1>1, <1>7, <1>5, <1>9, <2>1, <3>2, RequestStep DEF GoServed
  <2>2. CASE Become(r, "failed") /\ UNCHANGED traces
    <3>1. Lead'
      BY <1>1, <1>2, <1>3, <1>6, <1>9, <2>2 DEF GoServed, Lead, b, c, t, chosen
    <3>2. QED
      BY <1>1, <1>7, <1>9, <2>2, <3>1, RequestStep DEF GoServed
  <2>3. QED
    BY <1>9, <2>1, <2>2 DEF GoServed
<1>10. CASE GoCountError(r)
  <2>1. Become(r, "counted") /\ pc[r] = "failed"
    BY <1>10 DEF GoCountError
  <2>2. Lead'
    BY <1>1, <1>2, <1>3, <1>6, <1>10, <2>1 DEF GoCountError, Lead, b, c, t, chosen
  <2>3. QED
    BY <1>1, <1>7, <1>10, <2>1, <2>2, RequestStep DEF GoCountError
<1>11. CASE GoTraceError(r)
  <2>1. Become(r, "traced") /\ pc[r] = "counted" /\ Push(r, TRUE)
    BY <1>11 DEF GoTraceError
  <2>2. /\ Len(traces)' = Len(traces) + 1 /\ t' = t + 1 /\ b' = b - 1 /\ c' = c - 1
        /\ b \in Nat /\ c \in Nat /\ requests' = requests /\ errors' = errors
        /\ service' = "go"
    BY <1>3, <1>5, <1>11, <2>1 DEF GoTraceError, chosen
  <2>3. Lead'
    BY <1>1, <1>2, <2>2 DEF Lead, b, c, t
  <2>4. QED
    BY <1>1, <1>7, <1>5, <1>11, <2>1, <2>3, RequestStep DEF GoTraceError
<1>12. ASSUME NEW bad \in BOOLEAN, NodeFinish(r, bad)
       PROVE  MetricsInv'
  <2>1. Become(r, "traced") /\ pc[r] = "serving" /\ Push(r, bad)
    BY <1>12 DEF NodeFinish
  <2>2. /\ Len(traces)' = Len(traces) + 1 /\ b' = b - 1 /\ c' = c
        /\ bad => t' = t + 1 /\ errors' = errors + 1
        /\ ~bad => t' = t /\ errors' = errors
        /\ b \in Nat /\ c \in Nat /\ requests' = requests
        /\ Counted' = Counted /\ service' = service
    BY <1>3, <1>5, <1>12, <2>1 DEF NodeFinish, chosen
  <2>3. Lead'
    BY <1>1, <1>2, <2>2 DEF Lead, b, c, t
  <2>4. QED
    BY <1>1, <1>7, <1>5, <1>12, <2>1, <2>3, RequestStep DEF NodeFinish
<1>13. CASE NodeAbort(r)
  <2>1. Become(r, "aborted") /\ pc[r] = "serving"
    BY <1>13 DEF NodeAbort
  <2>2. Lead'
    BY <1>1, <1>2, <1>3, <1>6, <1>13, <2>1 DEF NodeAbort, Lead, b, c, t, chosen, counters
  <2>3. QED
    BY <1>1, <1>7, <1>13, <2>1, <2>2, RequestStep DEF NodeAbort, counters
<1>14. QED
  BY <1>8, <1>9, <1>10, <1>11, <1>12, <1>13 DEF Serve

-----------------------------------------------------------------------------
(* Readers.                                                                *)

(* A step of a reader, for what it has loaded and what it has received.    *)
LEMMA ReaderStep ==
  ASSUME MetricsInv, UNCHANGED <<chosen, up, starts, counters, pc>>,
         NEW k \in Reader, up \/ read' = read,
         NEW l, read' = [read EXCEPT ![k] = l],
         l \in [at : {"idle", "requests", "errors"}, requests : Nat, recent : Seq(TraceRecord)],
         l.at = "idle" => l.recent = <<>>,
         l.at = "requests" => Covers(requests, errors, l.recent),
         l.at = "errors" => Covers(l.requests, errors, l.recent),
         NEW a, data' = [data EXCEPT ![k] = a],
         a \in [requests : Nat, errors : Nat, recent : Seq(TraceRecord)],
         Covers(a.requests, a.errors, a.recent),
         service = "node" => a.errors <= a.requests,
         isError' \in [Reader -> BOOLEAN]
  PROVE  MetricsInv'
<1> USE DEF MetricsInv, chosen, counters
<1>1. TypeOK'
  BY DEF TypeOK
<1>2. Lead' /\ GoOnly' /\ Busy' = Busy
  BY DEF Lead, GoOnly, Busy, Counted, At, Untraced, Owed, Failures
<1>3. \A j \in Reader : read'[j] = IF j = k THEN l ELSE read[j]
  BY DEF TypeOK
<1>4. \A j \in Reader : data'[j] = IF j = k THEN a ELSE data[j]
  BY DEF TypeOK
<1>5. ReadersOK'
  <2>1. \A req, err, ts : Covers(req, err, ts)' = Covers(req, err, ts)
    OBVIOUS
  <2>2. QED
    BY <1>3 DEF ReadersOK
<1>6. AnswersCoverTraces'
  BY <1>4 DEF AnswersCoverTraces
<1>7. DownOK'
  BY <1>2 DEF DownOK
<1>8. QED
  BY <1>1, <1>2, <1>5, <1>6, <1>7

LEMMA ReadsKeep ==
  ASSUME MetricsInv, NEW k \in Reader, Read(k)
  PROVE  MetricsInv'
<1> DEFINE Reading == [at : {"idle", "requests", "errors"}, requests : Nat, recent : Seq(TraceRecord)]
           Answers == [requests : Nat, errors : Nat, recent : Seq(TraceRecord)]
<1>1. /\ requests \in Nat /\ errors \in Nat /\ traces \in Seq(TraceRecord)
      /\ read \in [Reader -> Reading] /\ data \in [Reader -> Answers]
      /\ isError \in [Reader -> BOOLEAN]
  BY DEF MetricsInv, TypeOK
<1>2. /\ Covers(requests, errors, traces)
      /\ service = "node" => errors <= requests
  <2>1. Cardinality(Busy) \in Nat /\ Cardinality(Counted) \in Nat
    <3>1. IsFiniteSet(Busy) /\ IsFiniteSet(Counted)
      BY RequestAssumption, FS_Subset DEF Busy, Counted, At
    <3>2. QED
      BY <3>1, FS_CardinalityType
  <2>2. QED
    BY <1>1, <2>1, FailuresFinite DEF MetricsInv, Lead, Covers
<1>3. /\ read[k] \in Reading /\ data[k] \in Answers
      /\ Covers(data[k].requests, data[k].errors, data[k].recent)
      /\ service = "node" => data[k].errors <= data[k].requests
      /\ read = [read EXCEPT ![k] = read[k]] /\ data = [data EXCEPT ![k] = data[k]]
  BY <1>1 DEF MetricsInv, AnswersCoverTraces
<1>4. /\ read[k].at = "idle" => read[k].recent = <<>>
      /\ read[k].at = "requests" => Covers(requests, errors, read[k].recent)
      /\ read[k].at = "errors" => Covers(read[k].requests, errors, read[k].recent)
  BY DEF MetricsInv, ReadersOK
<1>5. ASSUME NEW limit \in Nat
      PROVE  /\ Newest(traces, limit) \in Seq(TraceRecord)
             /\ Covers(requests, errors, Newest(traces, limit))
  <2>1. /\ Newest(traces, limit) \in Seq(TraceRecord)
        /\ Len(Newest(traces, limit)) <= Len(traces)
        /\ Cardinality(Failures(Newest(traces, limit))) <= Cardinality(Failures(traces))
    BY <1>1, NewestCovered
  <2>2. /\ Cardinality(Failures(Newest(traces, limit))) \in Nat
        /\ Cardinality(Failures(traces)) \in Nat
    BY <1>1, <2>1, FailuresFinite
  <2>3. QED
    BY <1>1, <1>2, <2>1, <2>2 DEF Covers
<1>6. Sends(k) \subseteq Queries \cup {Missing}
  BY DEF Sends
<1>7. Covers(requests, errors, <<>>) /\ <<>> \in Seq(TraceRecord)
  BY <1>1, FailuresEmpty DEF Covers
<1> HIDE DEF Reading, Answers
<1>8. CASE GoLoadTraces(k)
  <2>1. PICK raw \in Sends(k) : Load(k, "requests", 0, Newest(traces, GoLimit(raw)))
    BY <1>8 DEF GoLoadTraces
  <2> DEFINE l == Loaded("requests", 0, Newest(traces, GoLimit(raw)))
  <2>2. GoLimit(raw) \in Nat
    BY <1>6, LimitsAreNumbers
  <2>3. l \in Reading /\ l.at = "requests" /\ Covers(requests, errors, l.recent)
    BY <1>5, <2>2 DEF Loaded, Reading
  <2>4. read' = [read EXCEPT ![k] = l]
    BY <2>1 DEF Load
  <2>5. UNCHANGED <<chosen, up, starts, counters, pc, data, isError>> /\ up
    BY <1>8 DEF GoLoadTraces, Polls
  <2> HIDE DEF l
  <2>6. QED
    BY <1>1, <1>3, <2>3, <2>4, <2>5, ReaderStep DEF Reading, Answers
<1>9. CASE GoLoadRequests(k)
  <2> DEFINE l == Loaded("errors", requests, read[k].recent)
  <2>1. Covers(requests, errors, read[k].recent)
    BY <1>4, <1>7, <1>9 DEF GoLoadRequests, Polls
  <2>2. l \in Reading /\ l.at = "errors" /\ Covers(l.requests, errors, l.recent)
    BY <1>1, <1>3, <2>1 DEF Loaded, Reading
  <2>3. read' = [read EXCEPT ![k] = l]
    BY <1>9 DEF GoLoadRequests, Load
  <2>4. UNCHANGED <<chosen, up, starts, counters, pc, data, isError>> /\ up
    BY <1>9 DEF GoLoadRequests
  <2> HIDE DEF l
  <2>5. QED
    BY <1>1, <1>3, <2>2, <2>3, <2>4, ReaderStep DEF Reading, Answers
<1>10. CASE GoLoadErrors(k)
  <2> DEFINE a == Answer(read[k].requests, errors, read[k].recent)
  <2>1. a \in Answers /\ Covers(a.requests, a.errors, a.recent)
    BY <1>1, <1>3, <1>4, <1>10 DEF GoLoadErrors, Answer, Answers, Reading
  <2>2. NotReading \in Reading /\ NotReading.at = "idle" /\ NotReading.recent = <<>>
    BY <1>7 DEF NotReading, Loaded, Reading
  <2>3. /\ data' = [data EXCEPT ![k] = a] /\ read' = [read EXCEPT ![k] = NotReading]
        /\ service = "go" /\ up
        /\ UNCHANGED <<chosen, up, starts, counters, pc>>
    BY <1>10 DEF GoLoadErrors, Receive
  <2>4. isError' \in [Reader -> BOOLEAN]
    BY <1>1, <1>10 DEF GoLoadErrors, Receive
  <2> HIDE DEF a
  <2>5. QED
    BY <2>1, <2>2, <2>3, <2>4, ReaderStep DEF Reading, Answers
<1>11. CASE NodeAnswer(k)
  <2>1. PICK raw \in Sends(k) :
          Receive(k, Answer(requests, errors,
                            IF k = "counters" THEN <<>> ELSE Newest(traces, NodeLimit(raw))))
    BY <1>11 DEF NodeAnswer
  <2> DEFINE recent == IF k = "counters" THEN <<>> ELSE Newest(traces, NodeLimit(raw))
             a == Answer(requests, errors, recent)
  <2>2. NodeLimit(raw) \in Nat
    BY <1>6, LimitsAreNumbers
  <2>3. recent \in Seq(TraceRecord) /\ Covers(requests, errors, recent)
    BY <1>5, <1>7, <2>2
  <2>4. data' = [data EXCEPT ![k] = a] /\ isError' \in [Reader -> BOOLEAN]
    BY <1>1, <2>1 DEF Receive
  <2> HIDE DEF recent
  <2>5. /\ a \in Answers /\ Covers(a.requests, a.errors, a.recent)
        /\ service = "node" => a.errors <= a.requests
    BY <1>1, <1>2, <2>3 DEF Answer, Answers
  <2>6. UNCHANGED <<chosen, up, starts, counters, pc, read>>
    BY <1>11 DEF NodeAnswer
  <2> HIDE DEF a
  <2>7. QED
    BY <1>3, <1>4, <2>4, <2>5, <2>6, ReaderStep DEF Reading, Answers
<1>12. CASE PollFails(k)
  <2>1. /\ UNCHANGED <<chosen, up, starts, counters, pc, read, data>>
        /\ isError' \in [Reader -> BOOLEAN]
    BY <1>1, <1>12 DEF PollFails
  <2>2. QED
    BY <1>3, <1>4, <2>1, ReaderStep DEF Reading, Answers
<1>13. QED
  BY <1>8, <1>9, <1>10, <1>11, <1>12 DEF Read

-----------------------------------------------------------------------------
(* The end and the start of the process, and the theorem.                  *)

LEMMA StopKeeps ==
  ASSUME MetricsInv, Stop
  PROVE  MetricsInv'
<1> USE DEF MetricsInv, Stop, chosen, counters
<1>1. Busy' = {} /\ Counted' = {}
  BY DEF TypeOK, Busy, Counted, At, Untraced, Owed
<1>2. NotReading.at = "idle" /\ NotReading.recent = <<>> /\ NotReading.requests = 0
  BY DEF NotReading, Loaded
<1>3. TypeOK'
  <2>1. pc' \in [Request -> {"idle", "serving", "failed", "counted", "traced", "aborted", "gone"}]
    OBVIOUS
  <2>2. read' \in [Reader -> [at : {"idle", "requests", "errors"}, requests : Nat,
                             recent : Seq(TraceRecord)]]
    BY DEF NotReading, Loaded
  <2>3. isError' \in [Reader -> BOOLEAN]
    BY DEF TypeOK
  <2>4. QED
    BY <2>1, <2>2, <2>3 DEF TypeOK
<1>4. Lead'
  <2>1. Cardinality(Busy) \in Nat /\ Cardinality(Counted) \in Nat
    BY RequestAssumption, FS_Subset, FS_CardinalityType DEF Busy, Counted, At
  <2>2. Cardinality({}) = 0
    BY FS_EmptySet
  <2>3. Len(traces) \in Nat /\ Cardinality(Failures(traces)) \in Nat
    BY FailuresFinite DEF TypeOK
  <2>4. Failures(traces)' = Failures(traces)
    BY DEF Failures
  <2>5. QED
    BY <1>1, <2>1, <2>2, <2>3, <2>4 DEF Lead, TypeOK
<1>5. ReadersOK'
  BY <1>2 DEF ReadersOK
<1>6. DownOK'
  BY <1>1 DEF DownOK
<1>7. GoOnly'
  BY DEF GoOnly
<1>8. AnswersCoverTraces'
  BY DEF AnswersCoverTraces, Covers, Failures
<1>9. QED
  BY <1>3, <1>4, <1>5, <1>6, <1>7, <1>8

LEMMA StartKeeps ==
  ASSUME MetricsInv, Start
  PROVE  MetricsInv'
<1> USE DEF MetricsInv, Start, chosen, client
<1>1. Busy = {} /\ Busy' = Busy /\ read = [k \in Reader |-> NotReading] /\ Counted' = Counted
  BY DEF DownOK, Busy, Counted, At
<1>2. Counted = {}
  BY <1>1 DEF Busy, Counted, At, Untraced, Owed
<1>3. NotReading.at = "idle" /\ NotReading.recent = <<>>
  BY DEF NotReading, Loaded
<1>4. TypeOK'
  BY DEF TypeOK
<1>5. Lead'
  <2>1. traces' = <<>> /\ Failures(traces)' = Failures(<<>>)
    BY DEF Failures
  <2>2. QED
    BY <1>1, <1>2, <2>1, FailuresEmpty, FS_EmptySet DEF Lead
<1>6. ReadersOK'
  BY <1>1, <1>3 DEF ReadersOK
<1>7. DownOK' /\ GoOnly'
  BY DEF DownOK, GoOnly
<1>8. AnswersCoverTraces'
  BY DEF AnswersCoverTraces, Covers, Failures
<1>9. QED
  BY <1>4, <1>5, <1>6, <1>7, <1>8

LEMMA MetricsInvariant == Spec => []MetricsInv
<1>1. MetricsInv /\ [Next]_vars => MetricsInv'
  <2> SUFFICES ASSUME MetricsInv, [Next]_vars PROVE MetricsInv'
    OBVIOUS
  <2>1. ASSUME NEW r \in Request, Arrive(r) \/ Serve(r)
        PROVE  MetricsInv'
    BY <2>1, RequestsKeep
  <2>2. ASSUME NEW k \in Reader, Read(k)
        PROVE  MetricsInv'
    BY <2>2, ReadsKeep
  <2>3. CASE Stop \/ Start
    BY <2>3, StopKeeps, StartKeeps
  <2>4. CASE UNCHANGED vars
    BY <2>4 DEF vars, MetricsInv, TypeOK, Lead, ReadersOK, DownOK, GoOnly, AnswersCoverTraces,
                Covers, Failures, Busy, Counted, At
  <2>5. QED
    BY <2>1, <2>2, <2>3, <2>4 DEF Next
<1>2. QED
  BY InitMetrics, <1>1, PTL DEF Spec

LEMMA MetricsTyped == Spec => []TypeOK
<1>1. MetricsInv => TypeOK
  BY DEF MetricsInv
<1>2. QED
  BY MetricsInvariant, <1>1, PTL

(* Every answer of either service accounts for the traces it shows: loaded *)
(* between any steps of any requests, for any limit, over restarts.        *)
THEOREM AnswersAccount == Spec => []AnswersCoverTraces
<1>1. MetricsInv => AnswersCoverTraces
  BY DEF MetricsInv
<1>2. QED
  BY MetricsInvariant, <1>1, PTL

-----------------------------------------------------------------------------
(* The balance of counters and traces.                                     *)

Untold == {"serving", "failed", "counted", "aborted"}

(* CountersAddUp, by the places of the requests; and no request of an      *)
(* earlier start is among them when the service starts again.              *)
Balance ==
  /\ requests = Len(traces) + Cardinality(At(pc, Untold))
  /\ errors = Cardinality(Failures(traces)) + Cardinality(At(pc, Owed))
NoneLeft == \A r \in Request : pc[r] \in {"idle", "gone"}
BalanceInv == (up => Balance) /\ (~up => NoneLeft)

LEMMA EmptyBalance ==
  ASSUME NoneLeft, requests = 0, errors = 0, traces = <<>>
  PROVE  Balance
<1>1. At(pc, Untold) = {} /\ At(pc, Owed) = {}
  BY DEF NoneLeft, At, Untold, Owed
<1>2. QED
  BY <1>1, FailuresEmpty, FS_EmptySet DEF Balance

LEMMA InitBalance == Init => BalanceInv
<1>1. Init => NoneLeft
  BY DEF Init, NoneLeft
<1>2. QED
  BY <1>1, EmptyBalance DEF Init, BalanceInv

LEMMA RequestBalance ==
  ASSUME TypeOK, Balance, NEW r \in Request, Arrive(r) \/ Serve(r)
  PROVE  Balance' /\ up'
<1> DEFINE u == Cardinality(At(pc, Untold))
           o == Cardinality(At(pc, Owed))
           t == Cardinality(Failures(traces))
<1>1. traces \in Seq(TraceRecord) /\ Len(traces) \in Nat /\ requests \in Nat /\ errors \in Nat
  BY DEF TypeOK
<1>2. t \in Nat
  BY <1>1, FailuresFinite
<1>3. requests = Len(traces) + u /\ errors = t + o
  BY DEF Balance
<1>4. ASSUME NEW p \in {"serving", "failed", "counted", "traced", "aborted"}, Become(r, p)
      PROVE  /\ u \in Nat /\ u' \in Nat /\ o \in Nat /\ o' \in Nat
             /\ pc[r] = "idle" /\ p = "serving" => u' = u + 1 /\ o' = o
             /\ pc[r] = "serving" /\ p \in {"failed", "aborted"} => u' = u /\ o' = o
             /\ pc[r] = "serving" /\ p = "traced" => u' = u - 1 /\ o' = o
             /\ pc[r] = "failed" /\ p = "counted" => u' = u /\ o' = o + 1
             /\ pc[r] = "counted" /\ p = "traced" => u' = u - 1 /\ o' = o - 1
  <2>1. \A D : Moves(r, p, D)
    BY <1>4, CountMoves, Zenon
  <2>2. Moves(r, p, Untold) /\ Moves(r, p, Owed)
    BY <2>1, Zenon
  <2>3. At(pc, Untold)' = At(pc', Untold) /\ At(pc, Owed)' = At(pc', Owed)
    BY DEF At, Untold, Owed
  <2>4. /\ u \in Nat /\ u' \in Nat
        /\ pc[r] \notin Untold /\ p \in Untold => u' = u + 1
        /\ pc[r] \in Untold /\ p \notin Untold => u' = u - 1
        /\ (pc[r] \in Untold <=> p \in Untold) => u' = u
    BY <2>2, <2>3 DEF Moves
  <2>5. /\ o \in Nat /\ o' \in Nat
        /\ pc[r] \notin Owed /\ p \in Owed => o' = o + 1
        /\ pc[r] \in Owed /\ p \notin Owed => o' = o - 1
        /\ (pc[r] \in Owed <=> p \in Owed) => o' = o
    BY <2>2, <2>3 DEF Moves
  <2> HIDE DEF u, o
  <2>6. QED
    BY <2>4, <2>5 DEF Untold, Owed
<1>5. \A bad \in BOOLEAN : Trace(r, bad) \in TraceRecord /\ Trace(r, bad).bad = bad
  BY DEF Trace, TraceRecord
<1>6. ASSUME NEW bad \in BOOLEAN, Push(r, bad)
      PROVE  Len(traces)' = Len(traces) + 1 /\ (bad => t' = t + 1) /\ (~bad => t' = t)
  BY <1>1, <1>5, <1>6, FailuresPush DEF Push
<1>7. traces' = traces => t' = t
  OBVIOUS
<1>8. up /\ UNCHANGED <<chosen, up, starts, client>>
  BY Zenon DEF Arrive, Serve, GoServed, GoCountError, GoTraceError, NodeFinish, NodeAbort
<1>9. ASSUME requests' = Len(traces)' + u', errors' = t' + o'
      PROVE  Balance'
  BY <1>9 DEF Balance, Untold, Owed
<1> HIDE DEF u, o, t
<1>10. ASSUME Arrive(r) PROVE Balance'
  <2>1. Become(r, "serving") /\ pc[r] = "idle" /\ requests' = requests + 1
        /\ errors' = errors /\ traces' = traces
    BY <1>10 DEF Arrive
  <2>2. u' = u + 1 /\ o' = o /\ u \in Nat /\ o \in Nat
    BY <1>4, <2>1
  <2>3. QED
    BY <1>1, <1>2, <1>3, <1>7, <1>9, <2>1, <2>2
<1>11. ASSUME GoServed(r) PROVE Balance'
  <2>1. pc[r] = "serving" /\ requests' = requests /\ errors' = errors
    BY <1>11 DEF GoServed
  <2>2. CASE Push(r, FALSE) /\ Become(r, "traced")
    <3>1. u' = u - 1 /\ o' = o /\ u \in Nat /\ o \in Nat
      BY <1>4, <2>1, <2>2
    <3>2. Len(traces)' = Len(traces) + 1 /\ t' = t
      BY <1>6, <2>2
    <3>3. QED
      BY <1>1, <1>2, <1>3, <1>9, <2>1, <3>1, <3>2
  <2>3. CASE Become(r, "failed") /\ UNCHANGED traces
    <3>1. u' = u /\ o' = o /\ u \in Nat /\ o \in Nat
      BY <1>4, <2>1, <2>3
    <3>2. QED
      BY <1>1, <1>2, <1>3, <1>7, <1>9, <2>1, <2>3, <3>1
  <2>4. QED
    BY <1>11, <2>2, <2>3 DEF GoServed
<1>12. ASSUME GoCountError(r) PROVE Balance'
  <2>1. Become(r, "counted") /\ pc[r] = "failed" /\ requests' = requests
        /\ errors' = errors + 1 /\ traces' = traces
    BY <1>12 DEF GoCountError
  <2>2. u' = u /\ o' = o + 1 /\ u \in Nat /\ o \in Nat
    BY <1>4, <2>1
  <2>3. QED
    BY <1>1, <1>2, <1>3, <1>7, <1>9, <2>1, <2>2
<1>13. ASSUME GoTraceError(r) PROVE Balance'
  <2>1. Become(r, "traced") /\ pc[r] = "counted" /\ Push(r, TRUE)
        /\ requests' = requests /\ errors' = errors
    BY <1>13 DEF GoTraceError
  <2>2. u' = u - 1 /\ o' = o - 1 /\ u \in Nat /\ o \in Nat
    BY <1>4, <2>1
  <2>3. Len(traces)' = Len(traces) + 1 /\ t' = t + 1
    BY <1>6, <2>1
  <2>4. QED
    BY <1>1, <1>2, <1>3, <1>9, <2>1, <2>2, <2>3
<1>14. ASSUME NEW bad \in BOOLEAN, NodeFinish(r, bad)
       PROVE  Balance'
  <2>1. Become(r, "traced") /\ pc[r] = "serving" /\ Push(r, bad) /\ requests' = requests
        /\ (bad => errors' = errors + 1) /\ (~bad => errors' = errors)
    BY <1>14 DEF NodeFinish
  <2>2. u' = u - 1 /\ o' = o /\ u \in Nat /\ o \in Nat
    BY <1>4, <2>1
  <2>3. Len(traces)' = Len(traces) + 1 /\ (bad => t' = t + 1) /\ (~bad => t' = t)
    BY <1>6, <2>1
  <2>4. QED
    BY <1>1, <1>2, <1>3, <1>9, <2>1, <2>2, <2>3
<1>15. ASSUME NodeAbort(r) PROVE Balance'
  <2>1. Become(r, "aborted") /\ pc[r] = "serving" /\ UNCHANGED counters
    BY <1>15 DEF NodeAbort
  <2>2. u' = u /\ o' = o /\ u \in Nat /\ o \in Nat
    BY <1>4, <2>1
  <2>3. QED
    BY <1>1, <1>2, <1>3, <1>7, <1>9, <2>1, <2>2 DEF counters
<1>16. Balance'
  BY <1>10, <1>11, <1>12, <1>13, <1>14, <1>15 DEF Serve
<1>17. QED
  BY <1>8, <1>16, Zenon

LEMMA StepBalance ==
  ASSUME TypeOK, BalanceInv, [Next]_vars
  PROVE  BalanceInv'
<1>1. ASSUME NEW r \in Request, Arrive(r) \/ Serve(r) PROVE BalanceInv'
  <2>1. up
    BY <1>1 DEF Arrive, Serve, GoServed, GoCountError, GoTraceError, NodeFinish, NodeAbort
  <2>2. QED
    BY <1>1, <2>1, RequestBalance DEF BalanceInv
<1>2. ASSUME UNCHANGED <<up, counters, pc>> PROVE BalanceInv'
  BY <1>2 DEF BalanceInv, Balance, NoneLeft, At, Failures, counters
<1>3. ASSUME NEW k \in Reader, Read(k) PROVE BalanceInv'
  BY <1>2, <1>3 DEF Read, GoLoadTraces, GoLoadRequests, GoLoadErrors, NodeAnswer, PollFails
<1>4. CASE Stop
  <2>1. NoneLeft'
    BY <1>4 DEF Stop, NoneLeft, TypeOK
  <2>2. QED
    BY <1>4, <2>1 DEF Stop, BalanceInv
<1>5. CASE Start
  <2>1. NoneLeft' /\ requests' = 0 /\ errors' = 0 /\ traces' = <<>>
    BY <1>5 DEF Start, BalanceInv, NoneLeft
  <2>2. At(pc, Untold)' = {} /\ At(pc, Owed)' = {}
    BY <2>1 DEF NoneLeft, At, Untold, Owed
  <2>3. Failures(traces)' = Failures(<<>>)
    BY <2>1 DEF Failures
  <2>4. Balance'
    BY <2>1, <2>2, <2>3, FailuresEmpty, FS_EmptySet DEF Balance
  <2>5. QED
    BY <1>5, <2>4 DEF Start, BalanceInv
<1>6. CASE UNCHANGED vars
  BY <1>2, <1>6 DEF vars, counters
<1>7. QED
  BY <1>1, <1>3, <1>4, <1>5, <1>6 DEF Next

(* For any number of requests and restarts, and however the Go goroutines  *)
(* interleave, no request and no error is counted twice or forgotten, and  *)
(* no trace is ever dropped: a service that stays up holds one for every   *)
(* request that finished (metrics_handler.go, metrics-handler.js).         *)
THEOREM CountersAccount == Spec => []CountersAddUp
<1>1. BalanceInv => CountersAddUp
  <2>1. At(pc, Untold) = {r \in Request : pc[r] \in {"serving", "failed", "counted", "aborted"}}
    BY DEF At, Untold
  <2>2. At(pc, Owed) = {r \in Request : pc[r] = "counted"}
    BY DEF At, Owed
  <2>3. QED
    BY <2>1, <2>2 DEF BalanceInv, Balance, CountersAddUp
<1>2. TypeOK /\ BalanceInv /\ [Next]_vars => BalanceInv'
  BY StepBalance
<1>3. QED
  BY MetricsTyped, InitBalance, <1>1, <1>2, PTL DEF Spec

=============================================================================
