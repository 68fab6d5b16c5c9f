------------------------ MODULE HealthMonitorProofs ------------------------
(* What holds of HealthMonitor for any intervals and bounds: its types, in *)
(* particular that every interval in force is positive; that "offline" is  *)
(* said of a service out of reach; and that a reload keeps intervals.      *)
EXTENDS HealthMonitor, TLAPS

Query == [status : {"pending", "success", "error"}, data : BOOLEAN,
          err : {"none", "refused", "unreachable"},
          fetch : {"idle", "paused", "sent", "probing", "ok", "refused", "unreachable"},
          cut : BOOLEAN]

QueryTyped ==
  /\ service \in {"ready", "refusing", "hanging", "down"} /\ cutOff \in BOOLEAN
  /\ online \in BOOLEAN
  /\ query \in Query
SettingsTyped ==
  /\ stored \in [Interval -> Int \cup {NoNumber}] /\ foreign \subseteq Interval
  /\ inForce \in [Interval -> Nat \ {0}] /\ edit \in [Interval -> Int]
PanelTyped ==
  /\ error \in [Interval -> BOOLEAN] /\ timers \in Nat
  /\ shown \in BOOLEAN /\ open \in BOOLEAN /\ saved \in BOOLEAN
BoundsTyped == acts \in 0..MaxActs /\ troubles \in 0..MaxTroubles

(* TypeOK, by groups of variables.                                         *)
LEMMA TypeParts == TypeOK <=> QueryTyped /\ SettingsTyped /\ PanelTyped /\ BoundsTyped
BY DEF TypeOK, QueryTyped, SettingsTyped, PanelTyped, BoundsTyped, Query

LEMMA ReadTyped ==
  ASSUME NEW k \in Interval, NEW raw \in Int \cup {NoNumber}
  PROVE  ReadValue(raw, k) \in Nat \ {0}
BY MonitorAssumption DEF ReadValue

LEMMA FetchingTyped ==
  ASSUME NEW data \in BOOLEAN, NEW err \in {"none", "refused", "unreachable"}
  PROVE  Fetching(data, err) \in Query
BY DEF Fetching, Query

LEMMA FirstFetchTyped ==
  FirstFetch \in Query /\ FirstFetch.err = "none" /\ FirstFetch.fetch = "sent"
BY DEF FirstFetch, Query

(* "unreachable" is said of a poll that was cut off, and kept until the    *)
(* next poll has ended.                                                    *)
PollInv ==
  /\ query.err = "unreachable" => cutOff
  /\ query.fetch = "unreachable" => query.cut

LEMMA FetchStep ==
  ASSUME QueryTyped, PollInv, query' = Fetching(query.data, query.err), UNCHANGED cutOff
  PROVE  query' \in Query /\ PollInv'
<1>1. query.data \in BOOLEAN /\ query.err \in {"none", "refused", "unreachable"}
  BY DEF QueryTyped, Query
<1>2. query' \in Query
  BY <1>1, FetchingTyped
<1>3. query'.err \in {query.err, "none"} /\ query'.fetch \in {"paused", "sent"}
  BY DEF Fetching
<1>4. QED
  BY <1>2, <1>3 DEF PollInv

(* A fetch that is paused, resumed or given up.                            *)
LEMMA FetchSet ==
  ASSUME QueryTyped, PollInv, UNCHANGED cutOff, NEW fetch \in {"idle", "paused", "sent"},
         query' = [query EXCEPT !.fetch = fetch]
  PROVE  query' \in Query /\ PollInv'
<1>1. query' \in Query /\ query'.err = query.err /\ query'.fetch = fetch
  BY DEF QueryTyped, Query
<1>2. QED
  BY <1>1 DEF PollInv

LEMMA AnsweredStep ==
  ASSUME QueryTyped, PollInv, UNCHANGED cutOff, NEW cut \in BOOLEAN,
         NEW result \in {"probing", "ok", "refused", "unreachable"},
         Answered(result, cut), result = "unreachable" => cut
  PROVE  query' \in Query /\ PollInv'
<1>1. query' = [query EXCEPT !.fetch = result, !.cut = cut]
  BY DEF Answered
<1>2. query' \in Query /\ query'.err = query.err /\ query'.fetch = result /\ query'.cut = cut
  BY <1>1 DEF QueryTyped, Query
<1>3. QED
  BY <1>2 DEF PollInv

LEMMA EndsStep ==
  ASSUME QueryTyped, PollInv, Ends
  PROVE  QueryTyped' /\ PollInv'
<1>1. query.data \in BOOLEAN /\ query.cut \in BOOLEAN /\ cutOff' = query.cut
      /\ UNCHANGED <<service, online>>
  BY DEF QueryTyped, Query, Ends
<1>2. CASE query.fetch = "ok"
  <2>1. query' = [status |-> "success", data |-> TRUE, err |-> "none",
                  fetch |-> "idle", cut |-> FALSE]
    BY <1>2 DEF Ends
  <2>2. query' \in Query
    BY <2>1 DEF Query
  <2>3. QED
    BY <1>1, <2>1, <2>2 DEF QueryTyped, PollInv
<1>3. CASE query.fetch \in {"refused", "unreachable"}
  <2>1. query' = [status |-> "error", data |-> query.data, err |-> query.fetch,
                  fetch |-> "idle", cut |-> FALSE]
    BY <1>3 DEF Ends
  <2>2. query' \in Query
    BY <1>1, <1>3, <2>1 DEF Query
  <2>3. query'.err = query.fetch /\ query'.fetch = "idle"
    BY <2>1
  <2>4. QED
    BY <1>1, <2>2, <2>3 DEF QueryTyped, PollInv
<1>4. QED
  BY <1>2, <1>3 DEF Ends

(* The query, over every step.                                             *)
LEMMA QueryStep ==
  ASSUME TypeOK, PollInv, Next
  PROVE  QueryTyped' /\ PollInv'
<1> USE TypeParts
<1>0. QueryTyped
  OBVIOUS
<1>1. CASE Poll \/ Focus
  BY <1>0, <1>1, FetchStep DEF Poll, Focus, Refetch, QueryTyped
<1>2. CASE Arrive
  BY <1>0, <1>2, AnsweredStep DEF Arrive, QueryTyped
<1>3. CASE Probe
  BY <1>0, <1>3, AnsweredStep DEF Probe, Hung, QueryTyped
<1>4. CASE Lost
  BY <1>0, <1>4, AnsweredStep DEF Lost, QueryTyped
<1>5. CASE Ends
  BY <1>0, <1>5, EndsStep
<1>6. CASE Load
  BY <1>0, <1>6, FirstFetchTyped DEF Load, QueryTyped, PollInv
<1>7. ASSUME NEW old, Return(old)
      PROVE  QueryTyped' /\ PollInv'
  <2>1. CASE query' = Fetching(query.data, query.err)
    BY <1>0, <1>7, <2>1, FetchStep DEF Return, QueryTyped
  <2>2. CASE UNCHANGED query
    BY <1>0, <1>7, <2>2 DEF Return, QueryTyped, PollInv
  <2>3. QED
    BY <1>7, <2>1, <2>2 DEF Return
<1>8. CASE Toggle \/ SaveIntervals \/ SavedEnds
           \/ \E k \in Interval, v \in Values : Edit(k, v) \/ OtherTab(k, v)
  <2>1. UNCHANGED <<service, monitor>>
    BY <1>8 DEF Toggle, SaveIntervals, SavedEnds, Edit, OtherTab
  <2>2. QED
    BY <1>0, <2>1 DEF monitor, QueryTyped, PollInv
<1>9. ASSUME NEW s \in {"ready", "refusing", "hanging", "down"}, Becomes(s)
      PROVE  QueryTyped' /\ PollInv'
  BY <1>0, <1>9 DEF Becomes, monitor, QueryTyped, PollInv
<1>10. CASE Leave
  <2>1. UNCHANGED <<service, online, cutOff>>
    BY <1>10 DEF Leave
  <2>2. UNCHANGED query \/ query' = [query EXCEPT !.fetch = "idle"]
    BY <1>10 DEF Leave
  <2>3. QED
    BY <1>0, <2>1, <2>2, FetchSet DEF QueryTyped, PollInv
<1>11. CASE Resume
  <2>1. UNCHANGED <<service, online, cutOff>> /\ query' = [query EXCEPT !.fetch = "sent"]
    BY <1>11 DEF Resume
  <2>2. QED
    BY <1>0, <2>1, FetchSet DEF QueryTyped
<1>12. CASE GoesOffline
  BY <1>0, <1>12 DEF GoesOffline, QueryTyped, PollInv
<1>13. ASSUME NEW old, GoesOnline(old)
       PROVE  QueryTyped' /\ PollInv'
  <2>1. UNCHANGED <<service, cutOff>> /\ online' \in BOOLEAN
    BY <1>13 DEF GoesOnline
  <2>2. CASE UNCHANGED query
    BY <1>0, <2>1, <2>2 DEF QueryTyped, PollInv
  <2>3. CASE query' = [Fetching(query.data, query.err) EXCEPT !.fetch = "sent"]
    <3>1. query.data \in BOOLEAN /\ query.err \in {"none", "refused", "unreachable"}
      BY <1>0 DEF QueryTyped, Query
    <3>2. Fetching(query.data, query.err) \in Query
          /\ Fetching(query.data, query.err).err \in {query.err, "none"}
      BY <3>1, FetchingTyped DEF Fetching
    <3>3. query' \in Query /\ query'.err \in {query.err, "none"} /\ query'.fetch = "sent"
      BY <2>3, <3>2 DEF Query
    <3>4. QED
      BY <1>0, <2>1, <3>3 DEF QueryTyped, PollInv
  <2>4. QED
    BY <1>13, <2>2, <2>3 DEF GoesOnline
<1>14. QED
  BY <1>1, <1>2, <1>3, <1>4, <1>5, <1>6, <1>7, <1>8, <1>9, <1>10, <1>11, <1>12, <1>13
  DEF Next, Request, Panel

-----------------------------------------------------------------------------
(* The settings and the panel.                                             *)

(* Steps of the query and of the service.                                  *)
LEMMA MonitorSteps ==
  ASSUME \/ Request \/ Poll \/ Focus \/ Lost
         \/ GoesOffline \/ \E old \in BOOLEAN : GoesOnline(old)
         \/ \E s \in {"ready", "refusing", "hanging", "down"} : Becomes(s)
  PROVE  UNCHANGED <<settings, shown, panel, acts>>
BY DEF Request, Resume, Arrive, Probe, Ends, Poll, Focus, Refetch, Lost,
                  GoesOffline, GoesOnline, Becomes

LEMMA BoundsStep ==
  ASSUME TypeOK, Next
  PROVE  BoundsTyped'
<1> DEFINE acted == UNCHANGED acts \/ (acts < MaxActs /\ acts' = acts + 1)
           troubled == UNCHANGED troubles \/ (troubles < MaxTroubles /\ troubles' = troubles + 1)
<1> USE DEF Act, Trouble
<1>1. ASSUME \/ Request \/ Poll \/ Focus \/ Lost
             \/ GoesOffline \/ \E old \in BOOLEAN : GoesOnline(old)
             \/ \E s \in {"ready", "refusing", "hanging", "down"} : Becomes(s)
      PROVE  acted /\ troubled
  BY <1>1 DEF Request, Resume, Arrive, Probe, Ends, Poll, Focus, Refetch, Lost,
                  GoesOffline, GoesOnline, Becomes
<1>2. ASSUME Load \/ Leave \/ Toggle \/ SavedEnds \/ \E old \in BOOLEAN : Return(old)
      PROVE  acted /\ troubled
  BY <1>2 DEF Load, Leave, Toggle, SavedEnds, Return
<1>3. ASSUME SaveIntervals
      PROVE  acted /\ troubled
  BY <1>3 DEF SaveIntervals
<1>4. ASSUME \E k \in Interval, v \in Values : Edit(k, v) \/ OtherTab(k, v)
      PROVE  acted /\ troubled
  BY <1>4 DEF Edit, OtherTab
<1>5. acted /\ troubled
  BY <1>1, <1>2, <1>3, <1>4 DEF Next, Panel
<1>6. BoundsTyped
  BY TypeParts
<1>7. QED
  BY <1>5, <1>6, MonitorAssumption DEF BoundsTyped

LEMMA SaveStep ==
  ASSUME TypeOK, ReloadKeepsIntervals, SaveIntervals
  PROVE  SettingsTyped' /\ PanelTyped' /\ ReloadKeepsIntervals'
<1> USE TypeParts
<1>0. SettingsTyped /\ PanelTyped
  OBVIOUS
<1>1. error' = [k \in Interval |-> edit[k] < Minimum] /\ UNCHANGED <<shown, open>>
  BY DEF SaveIntervals
<1>2. \A k \in Interval : (edit[k] < Minimum) \in BOOLEAN
  OBVIOUS
<1>3. error' \in [Interval -> BOOLEAN]
  BY <1>1, <1>2
<1>4. CASE error' # NoError
  <2>1. UNCHANGED <<settings, edit, saved, timers>>
    BY <1>4 DEF SaveIntervals
  <2>2. QED
    BY <1>0, <1>1, <1>3, <2>1 DEF settings, SettingsTyped, PanelTyped, ReloadKeepsIntervals
<1>5. CASE error' = NoError
  <2>1. ASSUME NEW k \in Interval
        PROVE  edit[k] \in Int /\ edit[k] >= Minimum /\ ReadValue(edit[k], k) = edit[k]
    <3>1. edit[k] \in Int /\ ~(edit[k] < Minimum)
      BY <1>0, <1>1, <1>5 DEF SettingsTyped, NoError
    <3>2. edit[k] # NoNumber /\ edit[k] > 0 /\ edit[k] >= Minimum
      BY <3>1, MonitorAssumption
    <3>3. QED
      BY <3>1, <3>2 DEF ReadValue
  <2>2. PICK n \in 0..2 :
          /\ stored' = [k \in Interval |-> IF k \in FirstOf(n) THEN edit[k] ELSE stored[k]]
          /\ inForce' = [k \in Interval |-> IF k \in Applied(n) THEN edit[k] ELSE inForce[k]]
          /\ foreign' = foreign \ FirstOf(n)
          /\ edit' = IF inForce' # inForce THEN inForce' ELSE edit
          /\ IF n < 2 THEN UNCHANGED <<saved, timers>> ELSE saved' = TRUE /\ timers' = timers + 1
    BY <1>5 DEF SaveIntervals
  <2>3. \A k \in Interval : edit[k] \in Nat \ {0}
    BY <2>1, MonitorAssumption
  <2>4. SettingsTyped'
    BY <1>0, <2>2, <2>3 DEF SettingsTyped
  <2>5. PanelTyped'
    <3>1. timers' \in Nat
      BY <1>0, <2>2 DEF PanelTyped
    <3>2. saved' = TRUE \/ UNCHANGED saved
      BY <2>2
    <3>3. QED
      BY <1>0, <1>1, <1>3, <3>1, <3>2 DEF PanelTyped
  <2>6. ReloadKeepsIntervals'
    <3>1. SUFFICES ASSUME NEW k \in Interval \ foreign'
                   PROVE  inForce'[k] = ReadValue(stored'[k], k)
      BY DEF ReloadKeepsIntervals, ReadValue
    <3>2. CASE k \in FirstOf(n)
      BY <2>1, <2>2, <3>2 DEF Applied
    <3>3. CASE k \notin FirstOf(n)
      <4>1. k \notin foreign /\ inForce'[k] = inForce[k] /\ stored'[k] = stored[k]
        BY <2>2, <3>3 DEF Applied
      <4>2. QED
        BY <4>1 DEF ReloadKeepsIntervals
    <3>4. QED
      BY <3>2, <3>3
  <2>7. QED
    BY <2>4, <2>5, <2>6
<1>6. QED
  BY <1>4, <1>5

LEMMA SettingsStep ==
  ASSUME TypeOK, ReloadKeepsIntervals, Next
  PROVE  SettingsTyped' /\ PanelTyped' /\ ReloadKeepsIntervals'
<1> USE TypeParts
<1>0. SettingsTyped /\ PanelTyped /\ NoError \in [Interval -> BOOLEAN]
  BY DEF NoError
<1>1. ASSUME UNCHANGED settings, edit' \in [Interval -> Int], PanelTyped'
      PROVE  SettingsTyped' /\ PanelTyped' /\ ReloadKeepsIntervals'
  BY <1>0, <1>1 DEF settings, SettingsTyped, ReloadKeepsIntervals
<1>2. CASE \/ Request \/ Poll \/ Focus \/ Lost
           \/ GoesOffline \/ \E old \in BOOLEAN : GoesOnline(old)
           \/ \E s \in {"ready", "refusing", "hanging", "down"} : Becomes(s)
  BY <1>0, <1>1, <1>2, MonitorSteps DEF panel, PanelTyped, SettingsTyped
<1>3. CASE Load
  <2>1. \A k \in Interval : ReadValue(stored[k], k) \in Nat \ {0}
    BY <1>0, ReadTyped DEF SettingsTyped
  <2>2. /\ inForce' = [k \in Interval |-> ReadValue(stored[k], k)] /\ UNCHANGED stored
        /\ foreign' = {} /\ edit' = inForce' /\ PanelTyped'
    BY <1>0, <1>3 DEF Load, Mounted, PanelTyped
  <2>3. SettingsTyped'
    BY <1>0, <2>1, <2>2 DEF SettingsTyped
  <2>4. ReloadKeepsIntervals'
    BY <2>2 DEF ReloadKeepsIntervals
  <2>5. QED
    BY <2>2, <2>3, <2>4
<1>4. CASE Leave \/ Toggle \/ SavedEnds
  <2>1. UNCHANGED <<settings, edit, error>> /\ timers' \in Nat
    BY <1>0, <1>4 DEF Leave, Toggle, SavedEnds, PanelTyped
  <2>2. shown' \in BOOLEAN /\ open' \in BOOLEAN /\ saved' \in BOOLEAN
    <3>1. CASE Leave
      BY <1>0, <3>1 DEF Leave, PanelTyped
    <3>2. CASE Toggle
      <4>1. open' = ~open /\ UNCHANGED <<shown, saved>>
        BY <3>2 DEF Toggle
      <4>2. QED
        BY <1>0, <4>1 DEF PanelTyped
    <3>3. CASE SavedEnds
      BY <1>0, <3>3 DEF SavedEnds, PanelTyped
    <3>4. QED
      BY <1>4, <3>1, <3>2, <3>3
  <2>3. PanelTyped'
    BY <1>0, <2>1, <2>2 DEF PanelTyped
  <2>4. QED
    BY <1>0, <1>1, <2>1, <2>3 DEF SettingsTyped
<1>5. ASSUME NEW old, Return(old)
      PROVE  SettingsTyped' /\ PanelTyped' /\ ReloadKeepsIntervals'
  <2>1. UNCHANGED settings /\ edit' = inForce /\ PanelTyped'
    BY <1>0, <1>5 DEF Return, Mounted, PanelTyped
  <2>2. inForce \in [Interval -> Int]
    BY <1>0 DEF SettingsTyped
  <2>3. QED
    BY <1>1, <2>1, <2>2
<1>6. ASSUME NEW k \in Interval, NEW v \in Values, Edit(k, v)
      PROVE  SettingsTyped' /\ PanelTyped' /\ ReloadKeepsIntervals'
  <2>1. v \in Int
    BY MonitorAssumption
  <2>2. UNCHANGED settings /\ edit' \in [Interval -> Int] /\ PanelTyped'
    BY <1>0, <1>6, <2>1 DEF Edit, SettingsTyped, PanelTyped
  <2>3. QED
    BY <1>1, <2>2
<1>7. ASSUME NEW k \in Interval, NEW v \in Values, OtherTab(k, v)
      PROVE  SettingsTyped' /\ PanelTyped' /\ ReloadKeepsIntervals'
  <2>1. /\ v \in Int /\ stored' = [stored EXCEPT ![k] = v] /\ foreign' = foreign \cup {k}
        /\ UNCHANGED <<inForce, shown, panel>>
    BY <1>7, MonitorAssumption DEF OtherTab
  <2>2. SettingsTyped' /\ PanelTyped'
    BY <1>0, <2>1 DEF panel, SettingsTyped, PanelTyped
  <2>3. \A j \in Interval \ foreign' : j \notin foreign /\ stored'[j] = stored[j]
    BY <1>0, <2>1 DEF SettingsTyped
  <2>4. ReloadKeepsIntervals'
    BY <2>1, <2>3 DEF ReloadKeepsIntervals
  <2>5. QED
    BY <2>2, <2>4
<1>8. QED
  BY <1>2, <1>3, <1>4, <1>5, <1>6, <1>7, SaveStep DEF Next, Panel

-----------------------------------------------------------------------------
MonitorInv == TypeOK /\ PollInv /\ ReloadKeepsIntervals

LEMMA InitMonitor == Init => MonitorInv
<1> SUFFICES ASSUME Init PROVE MonitorInv
  OBVIOUS
<1>1. stored \in [Interval -> Int \cup {NoNumber}]
  BY MonitorAssumption DEF Init
<1>2. inForce = [k \in Interval |-> ReadValue(stored[k], k)]
  BY DEF Init
<1>3. \A k \in Interval : ReadValue(stored[k], k) \in Nat \ {0}
  BY <1>1, ReadTyped
<1>4. SettingsTyped
  BY <1>1, <1>2, <1>3 DEF Init, SettingsTyped
<1>5. QueryTyped /\ PollInv
  BY FirstFetchTyped DEF Init, QueryTyped, PollInv
<1>6. PanelTyped /\ BoundsTyped
  <2>1. PanelTyped
    BY DEF Init, NoError, PanelTyped
  <2>2. BoundsTyped
    BY MonitorAssumption DEF Init, BoundsTyped
  <2>3. QED
    BY <2>1, <2>2
<1>7. ReloadKeepsIntervals
  BY <1>2 DEF ReloadKeepsIntervals
<1>8. QED
  BY <1>4, <1>5, <1>6, <1>7, TypeParts DEF MonitorInv

LEMMA MonitorStep ==
  ASSUME MonitorInv, [Next]_vars
  PROVE  MonitorInv'
<1>1. CASE Next
  <2>1. QueryTyped' /\ PollInv' /\ SettingsTyped' /\ PanelTyped' /\ BoundsTyped'
        /\ ReloadKeepsIntervals'
    BY <1>1, QueryStep, SettingsStep, BoundsStep DEF MonitorInv
  <2>2. TypeOK'
    BY <2>1 DEF TypeOK, QueryTyped, SettingsTyped, PanelTyped, BoundsTyped, Query
  <2>3. QED
    BY <2>1, <2>2 DEF MonitorInv
<1>2. CASE UNCHANGED vars
  BY <1>2 DEF vars, monitor, settings, panel, MonitorInv, TypeOK, PollInv, ReloadKeepsIntervals
<1>3. QED
  BY <1>1, <1>2

(* Spec keeps the types, the polls' invariant and the intervals.           *)
THEOREM MonitorInvariant == Spec => []MonitorInv
BY InitMonitor, MonitorStep, PTL DEF Spec

(* Every variable has its type: whatever localStorage held and whoever     *)
(* wrote it, an interval in force is positive (readValue reads 0 as the    *)
(* default), so the timer of the polls is always set.                      *)
THEOREM TypeCorrect == Spec => []TypeOK
<1>1. MonitorInv => TypeOK
  BY DEF MonitorInv
<1>2. QED
  BY <1>1, MonitorInvariant, PTL

(* "offline" is said only of a service the last poll did not reach.        *)
THEOREM OfflineMeansUnreachable == Spec => []OfflineIsUnreachable
<1>1. MonitorInv => OfflineIsUnreachable
  BY DEF MonitorInv, PollInv, OfflineIsUnreachable, Dot
<1>2. QED
  BY <1>1, MonitorInvariant, PTL

(* Storage and context stay in step over saves that fail halfway.          *)
THEOREM ReloadsKeepIntervals == Spec => []ReloadKeepsIntervals
<1>1. MonitorInv => ReloadKeepsIntervals
  BY DEF MonitorInv
<1>2. QED
  BY <1>1, MonitorInvariant, PTL

=============================================================================
