--------------------------- MODULE HealthMonitor ---------------------------
(* The health dot of a service: the readiness probe with its limit, the    *)
(* query of the metrics bar that polls it, and the settings that say how   *)
(* often.  The two services' probes and queries are alike and apart, so    *)
(* the model follows one of them; the badge is the worse of two such dots. *)
EXTENDS Integers

CONSTANTS NoNumber,    \* what localStorage holds when it is not a number
          Default,     \* 2000 and 5000
          Minimum,     \* 1000
          Values,      \* the numbers a user types, or localStorage holds
          MaxActs,     \* bound: edits, saves, loads and logouts
          MaxTroubles  \* bound: changes of the service, answers lost, writes of
                       \* localStorage that throw, saves of other tabs, losses of
                       \* the browser's connection

Interval == {"health", "metrics"}

ASSUME MonitorAssumption ==
  /\ Minimum \in Nat \ {0} /\ Values \subseteq Int /\ NoNumber \notin Int
  /\ Default \in [Interval -> Nat \ {0}]
  /\ MaxActs \in Nat /\ MaxTroubles \in Nat

VARIABLES service,  \* ready; its database refuses or hangs; or the process is down
          query,    \* of the health endpoint, and the poll under way
          online,   \* whether the query library takes the browser to be online
          cutOff,   \* whether the last poll that ended did not reach the service
          stored,   \* localStorage
          foreign,  \* the intervals another tab has stored since this one did
          inForce,  \* the settings context
          shown,    \* the metrics bar is on the page: it is not on /login
          open, edit, error, saved, timers,  \* the settings panel
          acts, troubles

settings == <<stored, foreign, inForce>>
panel == <<open, edit, error, saved, timers>>
monitor == <<query, online, cutOff>>
vars == <<service, monitor, settings, shown, panel, acts, troubles>>

Act == acts < MaxActs /\ acts' = acts + 1 /\ UNCHANGED troubles
Trouble == troubles < MaxTroubles /\ troubles' = troubles + 1
NoError == [k \in Interval |-> FALSE]

-----------------------------------------------------------------------------
(* The query. fetch: idle, paused (it began while the browser was          *)
(* offline), sent, probing (in the handler), or the answer on its way: ok, *)
(* refused (503) or unreachable (no answer, or none that is JSON). cut:    *)
(* the poll has met a process that is down or a network that fails.        *)

Fetching(data, err) ==
  [status |-> IF ~data THEN "pending" ELSE IF err = "none" THEN "success" ELSE "error",
   data |-> data, err |-> IF data THEN err ELSE "none",
   fetch |-> IF online THEN "sent" ELSE "paused", cut |-> FALSE]

(* The first fetch of a document.                                          *)
FirstFetch ==
  [status |-> "pending", data |-> FALSE, err |-> "none", fetch |-> "sent", cut |-> FALSE]

Answered(result, cut) == query' = [query EXCEPT !.fetch = result, !.cut = cut]

(* classifyHealth.                                                         *)
Dot ==
  CASE query.status # "error" /\ query.data -> "healthy"
    [] query.status = "error" /\ query.err = "unreachable" -> "offline"
    [] query.status = "error" /\ query.err # "unreachable" /\ query.data -> "stale"
    [] OTHER -> "unhealthy"

(* A timer that is not set again after an error.                           *)
PollsWhileWell == shown /\ inForce["health"] > 0 /\ query.status # "error"

(* The timer of the bar's observer, which does not look at the outcome.    *)
Polls == shown /\ inForce["health"] > 0

Refetch ==
  /\ query.fetch = "idle"
  /\ query' = Fetching(query.data, query.err)
  /\ UNCHANGED <<service, online, cutOff, settings, shown, panel, acts, troubles>>

Poll == Polls /\ Refetch
Focus == shown /\ Refetch   \* the window gets the focus

Arrive ==
  /\ query.fetch = "sent"
  /\ IF service = "down" THEN Answered("unreachable", TRUE) ELSE Answered("probing", FALSE)
  /\ UNCHANGED <<service, online, cutOff, settings, shown, panel, acts, troubles>>

(* A ping without the race: the proxy gives up first, with a page of its own.*)
HungProxied == "unreachable"

(* handleReady races the ping against 500 ms.                              *)
Hung == "refused"

Probe ==
  /\ query.fetch = "probing"
  /\ CASE service = "ready" -> Answered("ok", FALSE)
       [] service = "refusing" -> Answered("refused", FALSE)
       [] service = "hanging" -> Answered(Hung, FALSE)
       [] OTHER -> Answered("unreachable", TRUE)
  /\ UNCHANGED <<service, online, cutOff, settings, shown, panel, acts, troubles>>

Lost ==
  /\ query.fetch \notin {"idle", "paused", "unreachable"} /\ Trouble
  /\ Answered("unreachable", TRUE)
  /\ UNCHANGED <<service, online, cutOff, settings, shown, panel, acts>>

(* getHealth returns or throws; retry is false.                            *)
Ends ==
  /\ query.fetch \in {"ok", "refused", "unreachable"}
  /\ query' = IF query.fetch = "ok"
              THEN [status |-> "success", data |-> TRUE, err |-> "none",
                    fetch |-> "idle", cut |-> FALSE]
              ELSE [status |-> "error", data |-> query.data, err |-> query.fetch,
                    fetch |-> "idle", cut |-> FALSE]
  /\ cutOff' = query.cut
  /\ UNCHANGED <<service, online, settings, shown, panel, acts, troubles>>

(* The browser's connection. A poll that begins without it is not sent.    *)
GoesOffline ==
  /\ online /\ Trouble
  /\ online' = FALSE
  /\ UNCHANGED <<service, query, cutOff, settings, shown, panel, acts>>

(* old: what is cached has gone stale.                                     *)
GoesOnline(old) ==
  /\ ~online
  /\ online' = TRUE
  /\ query' = IF query.fetch = "idle" /\ shown /\ (old \/ ~query.data)
              THEN [Fetching(query.data, query.err) EXCEPT !.fetch = "sent"] ELSE query
  /\ UNCHANGED <<service, cutOff, settings, shown, panel, acts, troubles>>

(* A poll that was paused is sent when the page is in sight again.         *)
Resume ==
  /\ online /\ query.fetch = "paused"
  /\ query' = [query EXCEPT !.fetch = "sent"]
  /\ UNCHANGED <<service, online, cutOff, settings, shown, panel, acts, troubles>>

Becomes(s) ==
  /\ service # s /\ Trouble
  /\ service' = s
  /\ UNCHANGED <<monitor, settings, shown, panel, acts>>

-----------------------------------------------------------------------------
(* The settings.                                                           *)

(* Any number.                                                             *)
ReadAnyNumber(raw, k) == IF raw = NoNumber THEN Default[k] ELSE raw

ReadValue(raw, k) ==
  IF raw = NoNumber THEN Default[k] ELSE IF raw > 0 THEN raw ELSE Default[k]

(* SettingsPanel is mounted with the bar.                                  *)
Mounted(intervals) ==
  /\ edit' = intervals /\ error' = NoError /\ saved' = FALSE /\ timers' = 0 /\ open' = FALSE
  /\ shown' = TRUE

(* A document is loaded at one of the pages with the bar. The library      *)
(* takes a browser to be online until it hears otherwise.                  *)
Load ==
  /\ Act
  /\ inForce' = [k \in Interval |-> ReadValue(stored[k], k)]
  /\ foreign' = {}
  /\ Mounted(inForce')
  /\ query' = FirstFetch /\ cutOff' = FALSE
  /\ online' = TRUE
  /\ UNCHANGED <<service, stored>>

(* A Logout button: to /login. What is cached and in force stays; a first  *)
(* fetch that is paused is given up.                                       *)
Leave ==
  /\ shown /\ Act
  /\ shown' = FALSE /\ open' = FALSE
  /\ query' = IF query.fetch = "paused" /\ ~query.data
              THEN [query EXCEPT !.fetch = "idle"] ELSE query
  /\ UNCHANGED <<service, online, cutOff, settings, edit, error, saved, timers>>

(* old: what is cached has gone stale, or had failed without data.         *)
Return(old) ==
  /\ ~shown /\ Mounted(inForce)
  /\ query' = IF query.fetch = "idle" /\ (old \/ ~query.data)
              THEN Fetching(query.data, query.err) ELSE query
  /\ UNCHANGED <<service, online, cutOff, settings, acts, troubles>>

(* The button in the top bar, Escape, the backdrop.  Edits stay.           *)
Toggle ==
  /\ shown /\ open' = ~open
  /\ UNCHANGED <<service, monitor, settings, shown, edit, error, saved, timers, acts, troubles>>

Edit(k, v) ==
  /\ open /\ Act
  /\ edit' = [edit EXCEPT ![k] = v]
  /\ error' = [error EXCEPT ![k] = FALSE]
  /\ UNCHANGED <<service, monitor, settings, shown, open, saved, timers>>

(* The first n of updateHealthInterval, updateMetricsInterval.             *)
FirstOf(n) == {k \in Interval : n = 2 \/ (n = 1 /\ k = "health")}

(* setState before setItem.                                                *)
AppliedEarly(n) == FirstOf(IF n = 2 THEN 2 ELSE n + 1)

(* Of the writes that n did not throw: setItem comes before setState.      *)
Applied(n) == FirstOf(n)

(* Both intervals or neither, unless localStorage throws.  The fields then *)
(* follow what is in force, if that has changed.                           *)
SaveIntervals ==
  /\ open /\ acts < MaxActs /\ acts' = acts + 1
  /\ error' = [k \in Interval |-> edit[k] < Minimum]
  /\ IF error' # NoError
     THEN UNCHANGED <<settings, edit, saved, timers, troubles>>
     ELSE \E n \in 0..2 :
            /\ IF n < 2
               THEN Trouble /\ UNCHANGED <<saved, timers>>
               ELSE saved' = TRUE /\ timers' = timers + 1 /\ UNCHANGED troubles
            /\ stored' = [k \in Interval |-> IF k \in FirstOf(n) THEN edit[k] ELSE stored[k]]
            /\ inForce' = [k \in Interval |-> IF k \in Applied(n) THEN edit[k] ELSE inForce[k]]
            /\ foreign' = foreign \ FirstOf(n)
            /\ edit' = IF inForce' # inForce THEN inForce' ELSE edit
  /\ UNCHANGED <<service, monitor, shown, open>>

(* The message of a save goes two seconds after it, or after an earlier one.*)
SavedEnds ==
  /\ shown /\ timers > 0
  /\ timers' = timers - 1 /\ saved' = FALSE
  /\ UNCHANGED <<service, monitor, settings, shown, open, edit, error, acts, troubles>>

(* No tab hears of what another stores.                                    *)
OtherTab(k, v) ==
  /\ v >= Minimum /\ Trouble
  /\ stored' = [stored EXCEPT ![k] = v]
  /\ foreign' = foreign \cup {k}
  /\ UNCHANGED <<service, monitor, inForce, shown, panel, acts>>

-----------------------------------------------------------------------------
Init ==
  /\ service = "ready"
  /\ query = FirstFetch /\ online = TRUE /\ cutOff = FALSE
  /\ stored \in [Interval -> Values \cup {NoNumber}] /\ foreign = {}
  /\ inForce = [k \in Interval |-> ReadValue(stored[k], k)]
  /\ shown = TRUE /\ open = FALSE /\ edit = inForce
  /\ error = NoError /\ saved = FALSE /\ timers = 0
  /\ acts = 0 /\ troubles = 0

Request == Resume \/ Arrive \/ Probe \/ Ends

Panel ==
  \/ Load \/ Leave \/ (\E old \in BOOLEAN : Return(old)) \/ Toggle \/ SaveIntervals \/ SavedEnds
  \/ \E k \in Interval, v \in Values : Edit(k, v) \/ OtherTab(k, v)

Next ==
  \/ Request \/ Poll \/ Focus \/ Lost \/ Panel
  \/ GoesOffline \/ (\E old \in BOOLEAN : GoesOnline(old))
  \/ \E s \in {"ready", "refusing", "hanging", "down"} : Becomes(s)

Spec == Init /\ [][Next]_vars

(* The timers of a page in sight fire, and its paused polls resume when    *)
(* the browser is online; proxies and services do not hang. Nobody need    *)
(* bring the browser online, or keep the page from being left.             *)
FairSpec == Spec /\ WF_vars(Poll) /\ WF_vars(Request)

-----------------------------------------------------------------------------
(* Every variable has its type. An interval in force is positive: the      *)
(* panel refuses what is below Minimum, and readValue takes the default    *)
(* for 0, for a negative number and for what is no number. So polls cannot *)
(* be turned off, contrary to openspec/specs/ux-live-metrics/spec.md, line *)
(* 24, where an interval of 0 does that and the dots keep the last known   *)
(* state.                                                                  *)
TypeOK ==
  /\ service \in {"ready", "refusing", "hanging", "down"} /\ cutOff \in BOOLEAN
  /\ online \in BOOLEAN
  /\ query \in [status : {"pending", "success", "error"}, data : BOOLEAN,
                err : {"none", "refused", "unreachable"},
                fetch : {"idle", "paused", "sent", "probing", "ok", "refused", "unreachable"},
                cut : BOOLEAN]
  /\ stored \in [Interval -> Int \cup {NoNumber}] /\ foreign \subseteq Interval
  /\ inForce \in [Interval -> Nat \ {0}] /\ edit \in [Interval -> Int]
  /\ error \in [Interval -> BOOLEAN] /\ timers \in Nat
  /\ shown \in BOOLEAN /\ open \in BOOLEAN /\ saved \in BOOLEAN
  /\ acts \in 0..MaxActs /\ troubles \in 0..MaxTroubles

(* A dot says "offline" only of a service that the last poll did not reach:*)
(* a database that refuses or hangs makes it unhealthy or stale.           *)
OfflineIsUnreachable == Dot = "offline" => cutOff

(* A reload keeps the intervals in force, a save that failed halfway       *)
(* included, but for those that another tab has stored since.              *)
ReloadKeepsIntervals == \A k \in Interval \ foreign : inForce[k] = ReadValue(stored[k], k)

(* On a page in sight, once the browser stays online, the dot catches up   *)
(* with the service: green at last, or never green any more, and gray      *)
(* again and again while the process is down. It does so whatever was      *)
(* stored or saved, for a 0 in localStorage is read as the default (see    *)
(* TypeOK) and not as "no polling". The colours are those of               *)
(* classifyHealth: the scenario "Service unhealthy" of openspec/specs/web- *)
(* dashboards/spec.md, lines 18-21, has every service that does not answer *)
(* red, but the code gray (a fetch that fails, as ux-live-metrics/spec.md, *)
(* line 16) or amber (a 503 over cached data). While the browser is        *)
(* offline no poll is sent, and the dot stays what it was.                 *)
DotCatchesUp ==
  <>[](shown /\ online) =>
    /\ <>[](service = "ready") => <>[](Dot = "healthy")
    /\ <>[](service # "ready") => <>[](Dot # "healthy")
    /\ <>[](service = "down") => []<>(Dot = "offline")

=============================================================================
