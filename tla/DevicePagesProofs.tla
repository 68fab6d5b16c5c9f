------------------------- MODULE DevicePagesProofs -------------------------
(* What holds of DevicePages for any devices and any bounds: its types,    *)
(* that pages show the user's own changes, that dialog and progress mark   *)
(* belong to a deletion that is under way, and that loads and mutations    *)
(* run down.                                                               *)
EXTENDS DevicePages, TLAPS

Data == [version : Nat, ids : SUBSET Device] \cup {None}
Query == [status : {"pending", "success", "error"}, data : Data,
          fetch : {"idle", "sent", "read"}, got : Data,
          tries : {0, 1}, stale : BOOLEAN, raced : BOOLEAN]
Flow == [kind : {"none", "create", "update", "delete", "event"}, dev : Device \cup {None},
         at : {"free", "sent", "applied", "failed", "waiting", "refetching"},
         mounted : BOOLEAN]

ServicesTyped ==
  /\ born \subseteq Device /\ live \subseteq born /\ stored \subseteq born \ live
  /\ key \in Key /\ version \in Nat /\ due \in Nat
QueryTyped == query \in Query
PageTyped ==
  /\ path \in {"devices", "events"} \cup Device
  /\ selected \in Device \cup {None} /\ formOpen \in BOOLEAN /\ eventPending \in BOOLEAN
DialogsTyped ==
  /\ createOpen \in BOOLEAN /\ editing \in Device \cup {None}
  /\ deleteTarget \in Device \cup {None}
FlowTyped == flow \in [Slot -> Flow] /\ refreshing \in BOOLEAN
BoundsTyped == submits \in 0..MaxSubmits /\ troubles \in 0..MaxTroubles

(* TypeOK, by groups of variables.                                         *)
LEMMA TypeParts ==
  TypeOK <=> /\ ServicesTyped /\ QueryTyped /\ PageTyped
             /\ DialogsTyped /\ FlowTyped /\ BoundsTyped
BY DEF TypeOK, ServicesTyped, QueryTyped, PageTyped, DialogsTyped, FlowTyped, BoundsTyped,
       Data, Query, Flow

LEMMA FetchingTyped ==
  ASSUME NEW q \in Query
  PROVE  Fetching(q) \in Query
BY DEF Fetching, Query, Data

LEMMA MountsTyped ==
  ASSUME QueryTyped, NEW keys, NEW old \in BOOLEAN, Mounts(keys, old)
  PROVE  QueryTyped'
BY FetchingTyped DEF QueryTyped, Mounts

LEMMA InvalidateTyped ==
  ASSUME QueryTyped, NEW keys, Invalidate(keys)
  PROVE  QueryTyped'
<1> DEFINE marked == [query EXCEPT !.stale = TRUE]
           raced == [query EXCEPT !.stale = TRUE, !.raced = @ \/ query.fetch = "read"]
<1>1. marked \in Query /\ raced \in Query
  BY DEF QueryTyped, Query
<1>2. Fetching(marked) \in Query
  BY <1>1, FetchingTyped
<1>3. QED
  BY <1>1, <1>2 DEF QueryTyped, Invalidate

LEMMA AnswerTyped ==
  ASSUME ServicesTyped
  PROVE  Answer \in Data
BY DEF ServicesTyped, Answer, Data

LEMMA QueryStep ==
  ASSUME TypeOK, Next
  PROVE  QueryTyped'
<1> USE TypeParts
<1> QueryTyped
  OBVIOUS
<1>1. CASE Read
  BY <1>1, AnswerTyped DEF Read, QueryTyped, Query, Data
<1>2. CASE Succeeds
  <2>1. query.got \in Data /\ query.raced \in BOOLEAN
    BY DEF QueryTyped, Query
  <2>2. NoQuery \in Query
    BY DEF NoQuery, Query, Data
  <2>3. QED
    BY <1>2, <2>1, <2>2 DEF Succeeds, QueryTyped, Query
<1>3. CASE Refused \/ Lost
  <2> DEFINE failed == [query EXCEPT !.fetch = "idle", !.got = None, !.tries = 0, !.status = "error"]
  <2>1. failed \in Query
    BY DEF QueryTyped, Query, Data
  <2>2. [Fetching(query) EXCEPT !.tries = 1] \in Query
    BY FetchingTyped DEF QueryTyped, Query
  <2>3. QED
    BY <1>3, <2>1, <2>2 DEF Refused, Lost, Fails, QueryTyped
<1>4. CASE Refetch
  BY <1>4, FetchingTyped DEF Refetch, QueryTyped
<1>5. CASE Pages
  <2>1. ASSUME NEW old \in BOOLEAN, NEW d \in Device,
               GoDevices(old) \/ EmptyCreate(old) \/ GoDetail(d, old) \/ Select(d, old)
        PROVE  QueryTyped'
    BY <2>1, MountsTyped DEF GoDevices, EmptyCreate, GoDetail, Select
  <2>2. ASSUME NEW old \in BOOLEAN, GoDevices(old) \/ EmptyCreate(old)
        PROVE  QueryTyped'
    BY <2>2, MountsTyped DEF GoDevices, EmptyCreate
  <2>3. ASSUME NEW d \in Device, OpenDelete(d) \/ OpenEdit(d) \/ SubmitEvent(d)
        PROVE  UNCHANGED query
    BY <2>3 DEF OpenDelete, OpenEdit, SubmitEvent, Opens, Submit
  <2>4. ASSUME \/ OpenCreate \/ CloseDelete \/ CloseForm \/ Unselect \/ OpenEvent \/ CloseEvent
               \/ SubmitCreate \/ SubmitEdit \/ ConfirmDelete
        PROVE  UNCHANGED query
    BY <2>4 DEF OpenCreate, CloseDelete, CloseForm, Unselect, OpenEvent, CloseEvent,
                SubmitCreate, SubmitEdit, ConfirmDelete, Opens, Submit
  <2>5. QED
    BY <1>5, <2>1, <2>2, <2>3, <2>4 DEF Pages, QueryTyped
<1>6. ASSUME NEW i \in Slot, Done(i) \/ RefreshDeleted(i)
      PROVE  QueryTyped'
  BY <1>6, InvalidateTyped DEF Done, RefreshDeleted
<1>7. ASSUME NEW i \in Slot, Handle(i) \/ Undone(i) \/ Refetched(i) \/ Lose(i)
      PROVE  UNCHANGED query
  BY <1>7 DEF Handle, Undone, Refetched, Lose
<1>8. ASSUME NEW d \in Device, NEW kind, Deliver(d) \/ OtherClient(kind, d)
      PROVE  UNCHANGED query
  BY <1>8 DEF Deliver, OtherClient
<1>9. QED
  BY <1>1, <1>2, <1>3, <1>4, <1>5, <1>6, <1>7, <1>8 DEF Next, Cache, Mutation, QueryTyped

-----------------------------------------------------------------------------
(* The other variables.                                                    *)

(* Steps of the cache and of the pages leave the services alone.           *)
LEMMA PageSteps ==
  ASSUME Cache \/ Lost \/ Refetch \/ Pages
  PROVE  UNCHANGED <<services, due>>
<1>1. CASE Cache \/ Lost \/ Refetch
  BY <1>1 DEF Cache, Read, Succeeds, Refused, Lost, Fails, Refetch
<1>2. CASE Pages
  <2>1. ASSUME NEW old, GoDevices(old) \/ EmptyCreate(old)
        PROVE  UNCHANGED <<services, due>>
    BY <2>1 DEF GoDevices, EmptyCreate
  <2>2. ASSUME NEW old, NEW d, GoDetail(d, old) \/ Select(d, old)
        PROVE  UNCHANGED <<services, due>>
    BY <2>2 DEF GoDetail, Select
  <2>3. ASSUME NEW d, OpenDelete(d) \/ OpenEdit(d) \/ SubmitEvent(d)
        PROVE  UNCHANGED <<services, due>>
    BY <2>3 DEF OpenDelete, OpenEdit, SubmitEvent, Opens, Submit
  <2>4. ASSUME \/ OpenCreate \/ CloseDelete \/ CloseForm \/ Unselect \/ OpenEvent \/ CloseEvent
               \/ SubmitCreate \/ SubmitEdit \/ ConfirmDelete
        PROVE  UNCHANGED <<services, due>>
    BY <2>4 DEF OpenCreate, CloseDelete, CloseForm, Unselect, OpenEvent, CloseEvent,
                SubmitCreate, SubmitEdit, ConfirmDelete, Opens, Submit
  <2>5. QED
    BY <1>2, <2>1, <2>2, <2>3, <2>4 DEF Pages
<1>3. QED
  BY <1>1, <1>2

LEMMA ApplyTyped ==
  ASSUME ServicesTyped, NEW kind, NEW d \in Device, Apply(kind, d), UNCHANGED due
  PROVE  ServicesTyped'
<1>1. version' \in Nat
  BY DEF Apply, Bump, ServicesTyped
<1>2. CASE kind = "create"
  BY <1>1, <1>2 DEF Apply, Accepted, ServicesTyped
<1>3. CASE kind = "delete"
  BY <1>1, <1>3 DEF Apply, Accepted, ServicesTyped
<1>4. CASE kind \notin {"create", "delete"}
  BY <1>1, <1>4 DEF Apply, Accepted, ServicesTyped
<1>5. QED
  BY <1>2, <1>3, <1>4

(* A mutation under way is about a device.                                 *)
FlowOfDevice == \A i \in Slot : flow[i].at # "free" => flow[i].dev \in Device

LEMMA ServicesStep ==
  ASSUME TypeOK, FlowOfDevice, Next
  PROVE  ServicesTyped'
<1> USE TypeParts
<1> ServicesTyped
  OBVIOUS
<1>1. CASE Cache \/ Lost \/ Refetch \/ Pages
  BY <1>1, PageSteps DEF services, ServicesTyped
<1>2. ASSUME NEW i \in Slot, Handle(i)
      PROVE  ServicesTyped'
  <2>1. UNCHANGED due /\ flow[i].dev \in Device
    BY <1>2 DEF Handle, FlowOfDevice
  <2>2. CASE Apply(flow[i].kind, flow[i].dev)
    BY <2>1, <2>2, ApplyTyped
  <2>3. CASE UNCHANGED services
    BY <2>1, <2>3 DEF services, ServicesTyped
  <2>4. QED
    BY <1>2, <2>2, <2>3 DEF Handle
<1>3. ASSUME NEW i \in Slot, Done(i) \/ RefreshDeleted(i)
      PROVE  ServicesTyped'
  BY <1>3 DEF Done, RefreshDeleted, Asked, services, ServicesTyped
<1>4. ASSUME NEW i \in Slot, Undone(i) \/ Refetched(i) \/ Lose(i)
      PROVE  ServicesTyped'
  BY <1>4 DEF Undone, Refetched, Lose, services, ServicesTyped
<1>5. ASSUME NEW d \in Device, Deliver(d)
      PROVE  ServicesTyped'
  BY <1>5 DEF Deliver, Bump, ServicesTyped
<1>6. ASSUME NEW d \in Device, NEW kind, OtherClient(kind, d)
      PROVE  ServicesTyped'
  BY <1>6, ApplyTyped DEF OtherClient
<1>7. QED
  BY <1>1, <1>2, <1>3, <1>4, <1>5, <1>6 DEF Next, Mutation

LEMMA PageStep ==
  ASSUME TypeOK, Next
  PROVE  PageTyped' /\ DialogsTyped' /\ BoundsTyped'
<1> USE TypeParts, PagesAssumption
<1> PageTyped /\ DialogsTyped /\ BoundsTyped
  OBVIOUS
<1> USE DEF PageTyped, DialogsTyped, BoundsTyped, dialogs, eventForm, bounds, Trouble
<1>1. CASE Cache \/ Lost \/ Refetch
  BY <1>1 DEF Cache, Read, Succeeds, Refused, Lost, Fails, Refetch
<1>2. CASE Pages
  <2>1. ASSUME NEW old, GoDevices(old) \/ EmptyCreate(old)
        PROVE  PageTyped' /\ DialogsTyped' /\ BoundsTyped'
    BY <2>1 DEF GoDevices, EmptyCreate
  <2>2. ASSUME NEW old, NEW d \in Device, GoDetail(d, old) \/ Select(d, old)
        PROVE  PageTyped' /\ DialogsTyped' /\ BoundsTyped'
    BY <2>2 DEF GoDetail, Select
  <2>3. ASSUME NEW d \in Device, OpenDelete(d) \/ OpenEdit(d)
        PROVE  PageTyped' /\ DialogsTyped' /\ BoundsTyped'
    BY <2>3 DEF OpenDelete, OpenEdit, Opens
  <2>4. ASSUME OpenCreate \/ CloseDelete \/ CloseForm \/ Unselect \/ OpenEvent \/ CloseEvent
        PROVE  PageTyped' /\ DialogsTyped' /\ BoundsTyped'
    BY <2>4 DEF OpenCreate, CloseDelete, CloseForm, Unselect, OpenEvent, CloseEvent, Opens
  <2>a. ASSUME NEW kind, NEW d, Submit(kind, d), eventPending' \in BOOLEAN
        PROVE  PageTyped' /\ DialogsTyped' /\ BoundsTyped'
    BY <2>a DEF Submit
  <2>5. ASSUME \/ \E d \in Device : SubmitEvent(d)
               \/ SubmitCreate \/ SubmitEdit \/ ConfirmDelete
        PROVE  PageTyped' /\ DialogsTyped' /\ BoundsTyped'
    <3>1. eventPending' \in BOOLEAN
      BY <2>5 DEF SubmitEvent, SubmitCreate, SubmitEdit, ConfirmDelete
    <3>2. \E kind, d : Submit(kind, d)
      BY <2>5 DEF SubmitEvent, SubmitCreate, SubmitEdit, ConfirmDelete
    <3>3. QED
      BY <2>a, <3>1, <3>2
  <2>6. QED
    BY <1>2, <2>1, <2>2, <2>3, <2>4, <2>5 DEF Pages
<1>3. ASSUME NEW i \in Slot, Done(i) \/ Undone(i)
      PROVE  PageTyped' /\ DialogsTyped' /\ BoundsTyped'
  BY <1>3 DEF Done, Undone
<1>4. ASSUME NEW i \in Slot, Handle(i) \/ RefreshDeleted(i) \/ Refetched(i) \/ Lose(i)
      PROVE  PageTyped' /\ DialogsTyped' /\ BoundsTyped'
  BY <1>4 DEF Handle, RefreshDeleted, Refetched, Lose
<1>5. ASSUME NEW d \in Device, NEW kind, Deliver(d) \/ OtherClient(kind, d)
      PROVE  PageTyped' /\ DialogsTyped' /\ BoundsTyped'
  BY <1>5 DEF Deliver, OtherClient
<1>6. QED
  BY <1>1, <1>2, <1>3, <1>4, <1>5 DEF Next, Mutation

-----------------------------------------------------------------------------
(* The flows.  A slot is free or holds a mutation of a device; only        *)
(* deletions wait and refetch; and one deletion is under way at a time.    *)
FlowFits(f) ==
  /\ f.at = "free" <=> f.kind = "none"
  /\ f.at # "free" => f.dev \in Device
  /\ f.at \in {"waiting", "refetching"} => f.kind = "delete"
FlowsFit == \A i \in Slot : FlowFits(flow[i])
OneDeletion == \A i, j \in Slot : UnderWay(i) /\ UnderWay(j) => i = j
FlowInv == FlowsFit /\ OneDeletion /\ DialogIsOfPendingDeletion /\ ProgressIsReal

LEMMA NoFlowFits == NoFlow \in Flow /\ FlowFits(NoFlow)
BY DEF NoFlow, Flow, FlowFits

(* Steps that end flows which await a refetch, or none.                    *)
LEMMA AwaitEndsStep ==
  ASSUME FlowTyped, FlowInv, NEW ended \in BOOLEAN, AwaitEnds(ended), UNCHANGED deleteTarget
  PROVE  FlowTyped' /\ FlowInv'
<1> DEFINE over == {i \in Slot : ended /\ flow[i].at = "refetching"}
<1>1. /\ flow' = [i \in Slot |-> IF i \in over THEN NoFlow ELSE flow[i]]
      /\ refreshing' = (refreshing /\ over = {})
  BY DEF AwaitEnds
<1>2. FlowTyped'
  BY <1>1, NoFlowFits DEF FlowTyped
<1>3. FlowsFit'
  BY <1>1, NoFlowFits DEF FlowsFit, FlowInv, FlowFits
<1>4. \A i \in Slot : UnderWay(i)' => UnderWay(i) /\ flow'[i] = flow[i]
  BY <1>1 DEF UnderWay, Deleting, NoFlow
<1>5. OneDeletion' /\ DialogIsOfPendingDeletion'
  BY <1>4 DEF OneDeletion, DialogIsOfPendingDeletion, FlowInv
<1>6. ProgressIsReal'
  BY <1>1 DEF ProgressIsReal, FlowInv, Deleting
<1>7. QED
  BY <1>2, <1>3, <1>5, <1>6 DEF FlowInv

LEMMA SubmitStep ==
  ASSUME FlowTyped, FlowInv, NEW kind \in {"create", "update", "delete", "event"},
         NEW d \in Device, Submit(kind, d), refreshing' \in BOOLEAN,
         kind = "delete" => ~Pending("delete") /\ deleteTarget = d,
         kind # "delete" => UNCHANGED refreshing
  PROVE  FlowTyped' /\ FlowInv'
<1> DEFINE sent == [kind |-> kind, dev |-> d, at |-> "sent", mounted |-> TRUE]
<1>1. PICK i \in Slot : flow[i].at = "free" /\ flow' = [flow EXCEPT ![i] = sent]
  BY DEF Submit
<1>2. sent \in Flow /\ FlowFits(sent)
  BY DEF Flow, FlowFits
<1>3. flow' \in [Slot -> Flow] /\ flow'[i] = sent /\ \A j \in Slot \ {i} : flow'[j] = flow[j]
  BY <1>1, <1>2 DEF FlowTyped
<1>4. FlowTyped' /\ FlowsFit'
  BY <1>2, <1>3 DEF FlowTyped, FlowsFit, FlowInv, FlowFits
<1>5. UNCHANGED deleteTarget
  BY DEF Submit, dialogs
<1>6. \A j \in Slot : UnderWay(j)' => (UnderWay(j) /\ j # i) \/ (kind = "delete" /\ j = i)
  BY <1>3 DEF UnderWay, Deleting
<1>7. kind = "delete" => \A j \in Slot : ~UnderWay(j)
  BY DEF Pending, UnderWay, Deleting
<1>8. OneDeletion'
  BY <1>6, <1>7 DEF OneDeletion, FlowInv
<1>9. DialogIsOfPendingDeletion'
  BY <1>3, <1>5, <1>6, <1>7 DEF DialogIsOfPendingDeletion, FlowInv
<1>10. ProgressIsReal'
  <2>1. ~Deleting(i)
    BY <1>1 DEF FlowInv, FlowsFit, FlowFits, Deleting
  <2>2. kind = "delete" => Deleting(i)'
    BY <1>3 DEF Deleting
  <2>3. \A j \in Slot : Deleting(j) => Deleting(j)'
    BY <1>3, <2>1 DEF Deleting
  <2>4. QED
    BY <2>2, <2>3 DEF ProgressIsReal, FlowInv
<1>11. QED
  BY <1>4, <1>8, <1>9, <1>10 DEF FlowInv

(* A flow that only moves on, or an event's that loses its page.           *)
LEMMA MovesStep ==
  ASSUME FlowTyped, FlowInv, UNCHANGED <<deleteTarget, refreshing>>, flow' \in [Slot -> Flow],
         \A i \in Slot : /\ flow'[i].kind = flow[i].kind /\ flow'[i].dev = flow[i].dev
                         /\ \/ flow'[i].at = flow[i].at
                            \/ /\ flow[i].at \in {"sent", "applied"}
                               /\ flow'[i].at \in {"applied", "failed"}
  PROVE  FlowTyped' /\ FlowInv'
<1>1. FlowTyped'
  BY DEF FlowTyped
<1>2. FlowsFit'
  BY DEF FlowsFit, FlowInv, FlowFits
<1>3. \A i \in Slot : UnderWay(i)' => UnderWay(i)
  BY DEF UnderWay, Deleting
<1>4. OneDeletion' /\ DialogIsOfPendingDeletion'
  BY <1>3 DEF OneDeletion, DialogIsOfPendingDeletion, FlowInv
<1>5. ProgressIsReal'
  BY DEF ProgressIsReal, FlowInv, Deleting
<1>6. QED
  BY <1>1, <1>2, <1>4, <1>5 DEF FlowInv

(* A flow i that ends with its page, or goes on as a deletion that waits.  *)
LEMMA EndsStep ==
  ASSUME FlowTyped, FlowInv, NEW i \in Slot, NEW f \in Flow, FlowFits(f),
         flow' = [flow EXCEPT ![i] = f], f.at \in {"free", "waiting", "refetching"},
         refreshing' \in BOOLEAN, refreshing' => refreshing,
         Deleting(i) /\ f.kind # "delete" => ~refreshing',
         deleteTarget' = IF UnderWay(i) THEN None ELSE deleteTarget
  PROVE  FlowTyped' /\ FlowInv'
<1>1. flow' \in [Slot -> Flow] /\ flow'[i] = f /\ \A j \in Slot \ {i} : flow'[j] = flow[j]
  BY DEF FlowTyped
<1>2. FlowTyped' /\ FlowsFit'
  BY <1>1 DEF FlowTyped, FlowsFit, FlowInv, FlowFits
<1>3. \A j \in Slot : UnderWay(j)' => UnderWay(j) /\ j # i
  BY <1>1 DEF UnderWay, Deleting
<1>4. OneDeletion'
  BY <1>3 DEF OneDeletion, FlowInv
<1>5. DialogIsOfPendingDeletion'
  BY <1>1, <1>3 DEF DialogIsOfPendingDeletion, OneDeletion, FlowInv
<1>6. ProgressIsReal'
  BY <1>1 DEF ProgressIsReal, FlowInv, Deleting
<1>7. QED
  BY <1>2, <1>4, <1>5, <1>6 DEF FlowInv

LEMMA DoneStep ==
  ASSUME FlowTyped, FlowInv, NEW i \in Slot, Done(i) \/ Undone(i)
  PROVE  FlowTyped' /\ FlowInv'
<1> DEFINE next == IF Done(i) /\ Deleting(i) THEN [flow[i] EXCEPT !.at = "waiting"] ELSE NoFlow
<1>1. flow[i] \in Flow /\ FlowFits(flow[i])
  BY DEF FlowTyped, FlowInv, FlowsFit
<1>2. next \in Flow /\ FlowFits(next)
  BY <1>1, NoFlowFits DEF Done, Flow, FlowFits, Deleting
<1>3. flow' = [flow EXCEPT ![i] = next]
  BY DEF Done, Undone, Deleting
<1>4. flow[i].at \in {"applied", "failed"}
  BY DEF Done, Undone
<1>5. next.at \in {"free", "waiting"} /\ (Done(i) /\ Deleting(i) => next.kind = "delete")
  BY <1>1 DEF NoFlow, Deleting, Flow
<1>6. deleteTarget' = IF UnderWay(i) THEN None ELSE deleteTarget
  BY <1>4 DEF Done, Undone, UnderWay, Deleting
<1>7. refreshing' \in BOOLEAN /\ (refreshing' => refreshing)
  <2>1. CASE Done(i)
    BY <2>1 DEF Done, FlowTyped
  <2>2. CASE Undone(i)
    <3>1. refreshing' = (refreshing /\ flow[i].kind # "delete")
      BY <2>2 DEF Undone
    <3>2. QED
      BY <3>1 DEF FlowTyped
  <2>3. QED
    BY <2>1, <2>2
<1>8. Undone(i) /\ Deleting(i) => ~refreshing'
  BY DEF Undone, Deleting
<1> HIDE DEF next
<1>9. QED
  BY <1>2, <1>3, <1>5, <1>6, <1>7, <1>8, EndsStep

LEMMA RefreshStep ==
  ASSUME FlowTyped, FlowInv, NEW i \in Slot, RefreshDeleted(i)
  PROVE  FlowTyped' /\ FlowInv'
<1>1. flow[i] \in Flow /\ FlowFits(flow[i]) /\ flow[i].at = "waiting" /\ UNCHANGED deleteTarget
  BY DEF FlowTyped, FlowInv, FlowsFit, RefreshDeleted, dialogs
<1>2. Deleting(i) /\ ~UnderWay(i)
  BY <1>1 DEF FlowFits, Deleting, UnderWay
<1>3. CASE DeletedList \notin Observed
  <2>1. flow' = [flow EXCEPT ![i] = NoFlow] /\ refreshing' = FALSE
    BY <1>3 DEF RefreshDeleted
  <2>2. NoFlow.at = "free"
    BY DEF NoFlow
  <2>3. QED
    BY <1>1, <1>2, <2>1, <2>2, NoFlowFits, EndsStep
<1>4. CASE DeletedList \in Observed
  <2> DEFINE awaits == [flow[i] EXCEPT !.at = "refetching"]
             over == {j \in Slot : Restarts(Refreshed) /\ flow[j].at = "refetching"}
  <2>1. /\ flow' = [j \in Slot |-> IF j = i THEN awaits ELSE IF j \in over THEN NoFlow ELSE flow[j]]
        /\ refreshing' = (refreshing /\ over = {})
    BY <1>4 DEF RefreshDeleted, AwaitsAfter
  <2>2. awaits \in Flow /\ FlowFits(awaits) /\ awaits.kind = "delete" /\ awaits.at = "refetching"
    BY <1>1 DEF Flow, FlowFits
  <2> HIDE DEF awaits, over
  <2>3. FlowTyped' /\ FlowsFit'
    BY <2>1, <2>2, NoFlowFits DEF FlowTyped, FlowsFit, FlowInv
  <2>4. \A j \in Slot : UnderWay(j)' => UnderWay(j) /\ flow'[j] = flow[j]
    BY <2>1, <2>2 DEF UnderWay, Deleting, NoFlow
  <2>5. OneDeletion' /\ DialogIsOfPendingDeletion'
    BY <1>1, <2>4 DEF OneDeletion, DialogIsOfPendingDeletion, FlowInv
  <2>6. ProgressIsReal'
    BY <2>1, <2>2 DEF ProgressIsReal, Deleting
  <2>7. QED
    BY <2>3, <2>5, <2>6 DEF FlowInv
<1>5. QED
  BY <1>3, <1>4

LEMMA RefetchedStep ==
  ASSUME FlowTyped, FlowInv, NEW i \in Slot, Refetched(i)
  PROVE  FlowTyped' /\ FlowInv'
<1>1. ~UnderWay(i) /\ NoFlow.at = "free"
  BY DEF Refetched, UnderWay, NoFlow
<1>2. /\ flow' = [flow EXCEPT ![i] = NoFlow] /\ refreshing' = FALSE
      /\ UNCHANGED deleteTarget
  BY DEF Refetched, dialogs
<1>3. QED
  BY <1>1, <1>2, NoFlowFits, EndsStep

(* The dialog of a pending deletion is open: no other opens, and it stays. *)
LEMMA DialogStep ==
  ASSUME FlowTyped, FlowInv, UNCHANGED <<flow, refreshing>>,
         deleteTarget = None \/ ~Pending("delete") \/ UNCHANGED deleteTarget
  PROVE  FlowTyped' /\ FlowInv'
<1>1. FlowTyped' /\ FlowsFit' /\ ProgressIsReal'
  BY DEF FlowTyped, FlowsFit, FlowInv, ProgressIsReal, Deleting
<1>2. OneDeletion'
  BY DEF OneDeletion, FlowInv, UnderWay, Deleting
<1>3. \A i \in Slot : UnderWay(i)' => UnderWay(i)
  BY DEF UnderWay, Deleting
<1>4. (\E i \in Slot : UnderWay(i)) => deleteTarget # None /\ Pending("delete")
  <2>1. ASSUME NEW i \in Slot, UnderWay(i)
        PROVE  deleteTarget # None /\ Pending("delete")
    <3>1. Pending("delete")
      BY <2>1 DEF UnderWay, Deleting, Pending
    <3>2. flow[i].dev \in Device /\ deleteTarget = flow[i].dev
      BY <2>1 DEF UnderWay, FlowInv, FlowsFit, FlowFits, DialogIsOfPendingDeletion
    <3>3. QED
      BY <3>1, <3>2, PagesAssumption
  <2>2. QED
    BY <2>1
<1>5. DialogIsOfPendingDeletion'
  BY <1>3, <1>4 DEF DialogIsOfPendingDeletion, FlowInv
<1>6. QED
  BY <1>1, <1>2, <1>5 DEF FlowInv

LEMMA FlowStep ==
  ASSUME TypeOK, FlowInv, Next
  PROVE  FlowTyped' /\ FlowInv'
<1> USE TypeParts
<1>0. FlowTyped /\ DialogsTyped /\ PageTyped
  OBVIOUS
<1>1. CASE Read
  BY <1>0, <1>1, DialogStep DEF Read, dialogs
<1>2. CASE Succeeds \/ Refused \/ Lost \/ Refetch
  <2>1. UNCHANGED deleteTarget
    BY <1>2 DEF Succeeds, Refused, Lost, Fails, Refetch, dialogs
  <2>2. \E ended \in BOOLEAN : AwaitEnds(ended)
    BY <1>2 DEF Succeeds, Refused, Lost, Fails, Refetch
  <2>3. QED
    BY <1>0, <2>1, <2>2, AwaitEndsStep
<1>3. CASE Pages
  <2>1. ASSUME NEW old, GoDevices(old)
        PROVE  FlowTyped' /\ FlowInv'
    <3>1. \A i \in Slot : flow[i] \in Flow
      BY <1>0 DEF FlowTyped
    <3>2. /\ flow' = [i \in Slot |-> IF flow[i].kind = "event"
                                     THEN [flow[i] EXCEPT !.mounted = FALSE] ELSE flow[i]]
          /\ UNCHANGED <<deleteTarget, refreshing>>
      BY <2>1 DEF GoDevices, dialogs
    <3>3. \A i \in Slot : /\ flow'[i] \in Flow /\ flow'[i].kind = flow[i].kind
                          /\ flow'[i].dev = flow[i].dev /\ flow'[i].at = flow[i].at
      BY <3>1, <3>2 DEF Flow
    <3>4. flow' \in [Slot -> Flow]
      BY <3>2, <3>3
    <3>5. QED
      BY <1>0, <3>2, <3>3, <3>4, MovesStep
  <2>2. ASSUME NEW old, NEW d, EmptyCreate(old) \/ GoDetail(d, old) \/ Select(d, old)
        PROVE  FlowTyped' /\ FlowInv'
    BY <1>0, <2>2, DialogStep DEF EmptyCreate, GoDetail, Select, dialogs
  <2>3. ASSUME NEW d, OpenDelete(d) \/ OpenEdit(d) \/ OpenCreate
        PROVE  FlowTyped' /\ FlowInv'
    BY <1>0, <2>3, DialogStep DEF OpenDelete, OpenEdit, OpenCreate, Opens, NoDialog
  <2>4. CASE CloseDelete \/ CloseForm \/ Unselect \/ OpenEvent \/ CloseEvent
    BY <1>0, <2>4, DialogStep DEF CloseDelete, CloseForm, Unselect, OpenEvent, CloseEvent, dialogs
  <2>5. CASE SubmitCreate
    <3>1. PICK d \in Device : Submit("create", d)
      BY <2>5 DEF SubmitCreate, Fresh
    <3>2. QED
      BY <1>0, <2>5, <3>1, SubmitStep DEF SubmitCreate, FlowTyped
  <2>6. CASE SubmitEdit
    <3>1. editing \in Device
      BY <1>0, <2>6 DEF SubmitEdit, DialogsTyped
    <3>2. QED
      BY <1>0, <2>6, <3>1, SubmitStep DEF SubmitEdit, FlowTyped
  <2>7. CASE ConfirmDelete
    <3>1. deleteTarget \in Device
      BY <1>0, <2>7 DEF ConfirmDelete, DialogsTyped
    <3>2. QED
      BY <1>0, <2>7, <3>1, SubmitStep DEF ConfirmDelete
  <2>8. ASSUME NEW d \in Device, SubmitEvent(d)
        PROVE  FlowTyped' /\ FlowInv'
    BY <1>0, <2>8, SubmitStep DEF SubmitEvent, FlowTyped
  <2>9. QED
    BY <1>3, <2>1, <2>2, <2>3, <2>4, <2>5, <2>6, <2>7, <2>8 DEF Pages
<1>4. ASSUME NEW i \in Slot, Handle(i) \/ Lose(i)
      PROVE  FlowTyped' /\ FlowInv'
  <2>1. PICK place \in {"applied", "failed"} : flow' = [flow EXCEPT ![i].at = place]
    BY <1>4 DEF Handle, Lose, Reaches
  <2>2. flow[i].at \in {"sent", "applied"} /\ UNCHANGED <<deleteTarget, refreshing>>
    BY <1>4 DEF Handle, Lose, dialogs
  <2>3. /\ flow' \in [Slot -> Flow]
        /\ \A j \in Slot : /\ flow'[j].kind = flow[j].kind /\ flow'[j].dev = flow[j].dev
                           /\ flow'[j].at = IF j = i THEN place ELSE flow[j].at
    BY <1>0, <2>1 DEF FlowTyped, Flow
  <2>4. QED
    BY <1>0, <2>2, <2>3, MovesStep
<1>5. ASSUME NEW i \in Slot, Done(i) \/ Undone(i) \/ RefreshDeleted(i) \/ Refetched(i)
      PROVE  FlowTyped' /\ FlowInv'
  BY <1>0, <1>5, DoneStep, RefreshStep, RefetchedStep
<1>6. ASSUME NEW d, NEW kind, Deliver(d) \/ OtherClient(kind, d)
      PROVE  FlowTyped' /\ FlowInv'
  BY <1>0, <1>6, DialogStep DEF Deliver, OtherClient, dialogs
<1>7. QED
  BY <1>1, <1>2, <1>3, <1>4, <1>5, <1>6 DEF Next, Cache, Mutation

-----------------------------------------------------------------------------
(* The cache.  An answer that is not raced, and data at rest that are not  *)
(* stale, show what was asked for; and data on the page are never stale at *)
(* rest, because what comes onto the page is fetched anew if it is stale.  *)
Knows(d) == d # None => d.version >= due
CacheInv ==
  /\ query.status = "success" => query.data # None
  /\ due <= version
  /\ query.fetch = "read" /\ ~query.raced => Knows(query.got)
  /\ Idle /\ query.status = "success" /\ ~query.raced /\ ~query.stale => Knows(query.data)
  /\ key \in Observed /\ Idle /\ query.status = "success" => ~query.stale

(* A fetch that begins.                                                    *)
LEMMA FetchStep ==
  ASSUME ServicesTyped, NEW q \in Query, query' = Fetching(q), due' <= version'
  PROVE  CacheInv'
<1>1. Fetching(q).fetch = "sent" /\ (Fetching(q).status = "success" => Fetching(q).data # None)
  BY DEF Fetching, Query
<1>2. query'.fetch = "sent" /\ (query'.status = "success" => query'.data # None)
  BY <1>1
<1>3. QED
  BY <1>2 DEF CacheInv, Idle

(* A step that leaves the query alone.                                     *)
LEMMA QuietStep ==
  ASSUME ServicesTyped, QueryTyped, CacheInv, UNCHANGED <<key, query, due>>,
         version' \in Nat, version' >= version, key \in Observed' => key \in Observed
  PROVE  CacheInv'
BY DEF CacheInv, Knows, Idle, ServicesTyped

LEMMA MountsStep ==
  ASSUME ServicesTyped, QueryTyped, CacheInv, UNCHANGED <<services, due>>,
         NEW keys, NEW old, Mounts(keys, old), key \in Observed' => key \in Observed \cup keys
  PROVE  CacheInv'
<1>1. UNCHANGED <<key, version>> /\ due' <= version'
  BY DEF services, CacheInv
<1>2. CASE key \in keys /\ Idle /\ (query.data = None \/ query.stale \/ old)
  BY <1>1, <1>2, FetchStep DEF Mounts, QueryTyped
<1>3. CASE ~(key \in keys /\ Idle /\ (query.data = None \/ query.stale \/ old))
  <2>1. UNCHANGED query
    BY <1>3 DEF Mounts
  <2>2. key \in keys /\ Idle => ~query.stale
    BY <1>3
  <2>3. QED
    BY <1>1, <2>1, <2>2 DEF CacheInv, Knows, Idle
<1>4. QED
  BY <1>2, <1>3

LEMMA InvalidateStep ==
  ASSUME ServicesTyped, QueryTyped, CacheInv, UNCHANGED <<services, path, selected>>,
         NEW keys, NEW asked, Invalidate(keys), Asked(asked), asked \subseteq keys
  PROVE  CacheInv'
<1>1. UNCHANGED <<key, version>> /\ due' \in Nat /\ due' <= version' /\ Observed' = Observed
  BY DEF services, CacheInv, Asked, ServicesTyped, Observed
<1>2. CASE Restarts(keys)
  <2>1. [query EXCEPT !.stale = TRUE] \in Query
    BY DEF QueryTyped, Query
  <2>2. QED
    BY <1>1, <1>2, <2>1, FetchStep DEF Invalidate
<1>3. CASE ~Restarts(keys) /\ key \in keys
  <2>1. query' = [query EXCEPT !.stale = TRUE, !.raced = @ \/ query.fetch = "read"]
    BY <1>3 DEF Invalidate
  <2>2. /\ query'.stale /\ query'.raced = (query.raced \/ query.fetch = "read")
        /\ query'.fetch = query.fetch /\ query'.data = query.data /\ query'.status = query.status
    BY <2>1 DEF QueryTyped, Query
  <2>3. ~(key \in Observed /\ Idle)
    BY <1>3 DEF Restarts
  <2>4. QED
    BY <1>1, <2>2, <2>3 DEF CacheInv, Idle
<1>4. CASE key \notin keys
  <2>1. UNCHANGED <<query, due>>
    BY <1>4 DEF Invalidate, Restarts, Asked
  <2>2. QED
    BY <1>1, <2>1, QuietStep DEF ServicesTyped
<1>5. QED
  BY <1>2, <1>3, <1>4

(* What a mutation changes it invalidates: the keys match by prefix.       *)
LEMMA InvalidatesChanges ==
  ASSUME NEW kind, NEW d \in Device
  PROVE  Changes(kind, d) \subseteq Invalidates(kind, d)
<1>1. DeviceList \in Key /\ DetailOf(d) \in Key /\ TimelineOf(d) \in Key
  BY DEF Key
<1>2. DeviceList \in Under(<<"devices">>)
  BY <1>1 DEF Under, DeviceList
<1>3. DetailOf(d) \in Under(<<"devices">>)
  BY <1>1 DEF Under, DetailOf
<1>4. TimelineOf(d) \in Under(<<"events">>)
  BY <1>1 DEF Under, TimelineOf
<1>5. QED
  BY <1>2, <1>3, <1>4 DEF Changes, Invalidates

LEMMA RefreshedDeletedList == {DeletedList} \subseteq Refreshed
BY DEF Refreshed, Under, Key, DeletedList

LEMMA CacheSteps ==
  ASSUME TypeOK, CacheInv, Cache \/ Lost \/ Refetch
  PROVE  CacheInv'
<1> USE TypeParts
<1>0. ServicesTyped /\ QueryTyped /\ UNCHANGED <<key, version, due, path, selected>>
  BY PageSteps DEF services, Cache, Read, Succeeds, Refused, Lost, Fails, Refetch
<1>1. Observed' = Observed /\ due \in Nat /\ version \in Nat /\ due <= version
  BY <1>0 DEF Observed, ServicesTyped, CacheInv
<1>2. CASE Read
  <2>1. /\ query'.fetch = "read" /\ query'.status = query.status /\ query'.data = query.data
        /\ query'.got \in {None, Answer}
    BY <1>0, <1>2 DEF Read, QueryTyped, Query
  <2>2. query'.got # None => query'.got.version >= due'
    <3>1. Answer.version = version
      BY DEF Answer
    <3>2. QED
      BY <1>0, <1>1, <2>1, <3>1
  <2>3. QED
    BY <1>0, <1>1, <2>1, <2>2 DEF CacheInv, Idle, Knows
<1>3. CASE Succeeds
  <2>1. query' = [NoQuery EXCEPT !.data = query.got, !.status = "success", !.raced = query.raced]
    BY <1>3 DEF Succeeds
  <2>2. /\ query'.data = query.got /\ query'.status = "success" /\ query'.raced = query.raced
        /\ query'.fetch = "idle" /\ query'.stale = FALSE
    BY <2>1 DEF NoQuery
  <2>3. query.got # None /\ (~query.raced => Knows(query.got))
    BY <1>3 DEF Succeeds, CacheInv
  <2>4. QED
    BY <1>0, <1>1, <2>2, <2>3 DEF CacheInv, Idle, Knows
<1>4. CASE (Refused \/ Lost) /\ Again
  <2>1. query' = [Fetching(query) EXCEPT !.tries = 1] /\ Fetching(query) \in Query
    BY <1>0, <1>4, FetchingTyped DEF Refused, Lost, Fails, QueryTyped
  <2>2. query'.fetch = Fetching(query).fetch /\ query'.status = Fetching(query).status
        /\ query'.data = Fetching(query).data
    BY <2>1 DEF Query
  <2>3. Fetching(query).fetch = "sent" /\ (Fetching(query).status = "success" => Fetching(query).data # None)
    BY <1>0 DEF Fetching, QueryTyped, Query
  <2>4. QED
    BY <1>0, <1>1, <2>2, <2>3 DEF CacheInv, Idle
<1>5. CASE (Refused \/ Lost) /\ ~Again
  <2>1. query' = [query EXCEPT !.fetch = "idle", !.got = None, !.tries = 0, !.status = "error"]
    BY <1>5 DEF Refused, Lost, Fails
  <2>2. query'.status = "error" /\ query'.fetch = "idle"
    BY <1>0, <2>1 DEF QueryTyped, Query
  <2>3. QED
    BY <1>0, <1>1, <2>2 DEF CacheInv, Idle
<1>6. CASE Refetch
  BY <1>0, <1>1, <1>6, FetchStep DEF Refetch, QueryTyped
<1>7. QED
  BY <1>2, <1>3, <1>4, <1>5, <1>6 DEF Cache

LEMMA PagesCache ==
  ASSUME TypeOK, CacheInv, Pages
  PROVE  CacheInv'
<1> USE TypeParts
<1>0. ServicesTyped /\ QueryTyped /\ PageTyped /\ UNCHANGED <<services, key, version, due>>
  BY PageSteps DEF services
<1>1. version' \in Nat /\ version' >= version
  BY <1>0 DEF ServicesTyped
<1>2. ASSUME NEW old, GoDevices(old) \/ EmptyCreate(old)
      PROVE  CacheInv'
  <2>1. Mounts({DeletedList}, old) /\ UNCHANGED selected /\ path' = "devices"
    BY <1>2 DEF GoDevices, EmptyCreate
  <2>2. key \in Observed' => key \in Observed \cup {DeletedList}
    BY <1>0, <2>1, PagesAssumption DEF Observed
  <2>3. QED
    BY <1>0, <2>1, <2>2, MountsStep
<1>3. ASSUME NEW old, NEW d \in Device, GoDetail(d, old)
      PROVE  CacheInv'
  <2>1. Mounts({DetailOf(d), TimelineOf(d)}, old) /\ path' = d /\ selected' = None
    BY <1>3 DEF GoDetail
  <2>2. key \in Observed' => key \in Observed \cup {DetailOf(d), TimelineOf(d)}
    BY <1>0, <2>1, PagesAssumption DEF Observed
  <2>3. QED
    BY <1>0, <2>1, <2>2, MountsStep
<1>4. ASSUME NEW old, NEW d \in Device, Select(d, old)
      PROVE  CacheInv'
  <2>1. Mounts({TimelineOf(d)}, old) /\ UNCHANGED path /\ selected' = d
    BY <1>4 DEF Select
  <2>2. key \in Observed' => key \in Observed \cup {TimelineOf(d)}
    BY <1>0, <2>1, PagesAssumption DEF Observed
  <2>3. QED
    BY <1>0, <2>1, <2>2, MountsStep
<1>5. ASSUME UNCHANGED <<query, path>>, selected' \in {selected, None}
      PROVE  CacheInv'
  <2>1. key \in Observed' => key \in Observed
    BY <1>0, <1>5 DEF Observed
  <2>2. QED
    BY <1>0, <1>1, <1>5, <2>1, QuietStep
<1>6. CASE \/ \E d \in Device : OpenDelete(d) \/ OpenEdit(d)
           \/ OpenCreate \/ CloseDelete \/ CloseForm \/ Unselect \/ OpenEvent \/ CloseEvent
  <2>1. UNCHANGED <<query, path>> /\ selected' \in {selected, None}
    BY <1>6 DEF OpenDelete, OpenEdit, OpenCreate, Opens, CloseDelete, CloseForm, Unselect,
                OpenEvent, CloseEvent
  <2>2. QED
    BY <1>5, <2>1
<1>7. CASE SubmitCreate \/ SubmitEdit \/ ConfirmDelete \/ \E d \in Device : SubmitEvent(d)
  <2>1. \E kind, d : Submit(kind, d)
    BY <1>7 DEF SubmitCreate, SubmitEdit, ConfirmDelete, SubmitEvent
  <2>2. UNCHANGED <<query, path, selected>>
    BY <2>1 DEF Submit
  <2>3. QED
    BY <1>5, <2>2
<1>8. QED
  BY <1>2, <1>3, <1>4, <1>6, <1>7 DEF Pages

LEMMA CacheStep ==
  ASSUME TypeOK, CacheInv, FlowInv, Next
  PROVE  CacheInv'
<1> USE TypeParts
<1>0. ServicesTyped /\ QueryTyped
  OBVIOUS
<1>1. CASE Cache \/ Lost \/ Refetch
  BY <1>1, CacheSteps
<1>2. CASE Pages
  BY <1>2, PagesCache
<1>3. ASSUME NEW i \in Slot, Done(i)
      PROVE  CacheInv'
  <2>1. flow[i].dev \in Device
    BY <1>3 DEF Done, FlowInv, FlowsFit, FlowFits
  <2>2. Changes(flow[i].kind, flow[i].dev) \subseteq Invalidates(flow[i].kind, flow[i].dev)
    BY <2>1, InvalidatesChanges
  <2>3. /\ Invalidate(Invalidates(flow[i].kind, flow[i].dev))
        /\ Asked(Changes(flow[i].kind, flow[i].dev)) /\ UNCHANGED <<services, path, selected>>
    BY <1>3 DEF Done
  <2>4. QED
    BY <1>0, <2>2, <2>3, InvalidateStep
<1>4. ASSUME NEW i \in Slot, RefreshDeleted(i)
      PROVE  CacheInv'
  BY <1>0, <1>4, RefreshedDeletedList, InvalidateStep DEF RefreshDeleted
<1>5. ASSUME UNCHANGED <<key, query, due, path, selected>>, version' \in Nat, version' >= version
      PROVE  CacheInv'
  <2>1. Observed' = Observed
    BY <1>5 DEF Observed
  <2>2. QED
    BY <1>0, <1>5, <2>1, QuietStep
<1>6. version' \in {version, version + 1} => version' \in Nat /\ version' >= version
  BY <1>0 DEF ServicesTyped
<1>7. ASSUME NEW i \in Slot, Undone(i) \/ Refetched(i) \/ Lose(i) \/ Handle(i)
      PROVE  CacheInv'
  <2>1. UNCHANGED <<key, query, due, path, selected>> /\ version' \in {version, version + 1}
    BY <1>7 DEF Undone, Refetched, Lose, Handle, Apply, Bump, services
  <2>2. QED
    BY <1>5, <1>6, <2>1
<1>8. ASSUME NEW d, NEW kind, Deliver(d) \/ OtherClient(kind, d)
      PROVE  CacheInv'
  <2>1. UNCHANGED <<key, query, due, path, selected>> /\ version' \in {version, version + 1}
    BY <1>8 DEF Deliver, OtherClient, Apply, Bump
  <2>2. QED
    BY <1>5, <1>6, <2>1
<1>9. QED
  BY <1>1, <1>2, <1>3, <1>4, <1>7, <1>8 DEF Next, Mutation

-----------------------------------------------------------------------------
(* Every step keeps the three together.                                    *)
PagesInv == TypeOK /\ FlowInv /\ CacheInv

LEMMA InitPages == Init => PagesInv
<1> SUFFICES ASSUME Init PROVE PagesInv
  OBVIOUS
<1>1. Fetching(NoQuery) \in Query /\ NoQuery \in Query
  <2>1. NoQuery \in Query
    BY DEF NoQuery, Query, Data
  <2>2. QED
    BY <2>1, FetchingTyped
<1>2. QueryTyped
  BY <1>1 DEF Init, QueryTyped
<1>3. ServicesTyped /\ PageTyped /\ DialogsTyped /\ BoundsTyped
  <2>1. ServicesTyped
    BY PagesAssumption DEF Init, ServicesTyped
  <2>2. PageTyped /\ DialogsTyped
    BY DEF Init, PageTyped, DialogsTyped
  <2>3. BoundsTyped
    BY PagesAssumption DEF Init, BoundsTyped
  <2>4. QED
    BY <2>1, <2>2, <2>3
<1>4. FlowTyped
  BY NoFlowFits DEF Init, FlowTyped
<1>5. FlowInv
  <2>1. FlowsFit /\ \A i \in Slot : ~UnderWay(i)
    BY NoFlowFits DEF Init, FlowsFit, UnderWay, Deleting, NoFlow
  <2>2. QED
    BY <2>1 DEF Init, FlowInv, OneDeletion, DialogIsOfPendingDeletion, ProgressIsReal
<1>6. CacheInv
  <2>1. query.status # "success" /\ query.fetch # "read"
    BY <1>1 DEF Init, Fetching, NoQuery
  <2>2. QED
    BY <2>1 DEF Init, CacheInv, Idle
<1>7. QED
  BY <1>2, <1>3, <1>4, <1>5, <1>6, TypeParts DEF PagesInv

LEMMA PagesStep ==
  ASSUME PagesInv, [Next]_vars
  PROVE  PagesInv'
<1>1. CASE Next
  <2>1. FlowOfDevice
    BY DEF PagesInv, FlowInv, FlowsFit, FlowFits, FlowOfDevice
  <2>2. /\ ServicesTyped' /\ QueryTyped' /\ PageTyped' /\ DialogsTyped' /\ FlowTyped'
        /\ BoundsTyped' /\ FlowInv' /\ CacheInv'
    BY <1>1, <2>1, ServicesStep, QueryStep, PageStep, FlowStep, CacheStep DEF PagesInv
  <2>3. QED
    BY <2>2, TypeParts DEF PagesInv, TypeOK, ServicesTyped, QueryTyped, PageTyped,
          DialogsTyped, FlowTyped, BoundsTyped, Data, Query, Flow
<1>2. CASE UNCHANGED vars
  BY <1>2 DEF vars, services, eventForm, dialogs, bounds, PagesInv, TypeOK, Key, DeviceList,
    DeletedList, DetailOf, TimelineOf, FlowInv, FlowsFit, FlowFits, OneDeletion,
    DialogIsOfPendingDeletion, ProgressIsReal, UnderWay, Deleting, CacheInv, Knows, Idle,
    Observed
<1>3. QED
  BY <1>1, <1>2

(* Spec keeps the types, the flows' and the cache's invariant.             *)
THEOREM PagesInvariant == Spec => []PagesInv
BY InitPages, PagesStep, PTL DEF Spec

(* Every variable of the pages has its type, for any devices and bounds.   *)
THEOREM TypeCorrect == Spec => []TypeOK
<1>1. PagesInv => TypeOK
  BY DEF PagesInv
<1>2. QED
  BY <1>1, PagesInvariant, PTL

LEMMA RestShowsDue ==
  ASSUME PagesInv, Rests
  PROVE  query.data.version >= due
BY DEF PagesInv, CacheInv, Rests, Knows, Idle

(* A list, detail page or timeline at rest shows every change its user was *)
(* told of: what onSuccess invalidates covers what the mutation changed.   *)
THEOREM OwnWritesAreShown == Spec => []OwnWritesShown
<1>1. PagesInv => OwnWritesShown
  BY RestShowsDue DEF OwnWritesShown
<1>2. QED
  BY <1>1, PagesInvariant, PTL

(* The deleted devices at rest show the deletions stored at the refresh of *)
(* handleDeleteDevice, five seconds after the deletion.                    *)
THEOREM DeletionsAreShown == Spec => []DeletionsShown
<1>1. PagesInv => DeletionsShown
  BY RestShowsDue DEF DeletionsShown
<1>2. QED
  BY <1>1, PagesInvariant, PTL

(* A deletion under way is the one DeleteDialog shows, on any page.        *)
THEOREM DialogBelongs == Spec => []DialogIsOfPendingDeletion
<1>1. PagesInv => DialogIsOfPendingDeletion
  BY DEF PagesInv, FlowInv
<1>2. QED
  BY <1>1, PagesInvariant, PTL

(* The mark of the deleted devices is on only while handleDeleteDevice has *)
(* its finally before it.                                                  *)
THEOREM ProgressBelongs == Spec => []ProgressIsReal
<1>1. PagesInv => ProgressIsReal
  BY DEF PagesInv, FlowInv
<1>2. QED
  BY <1>1, PagesInvariant, PTL

-----------------------------------------------------------------------------
(* How loads and mutations run down.                                       *)

Place == {"free", "sent", "applied", "failed", "waiting", "refetching"}

LEMMA LeftTyped ==
  ASSUME FlowTyped, NEW i \in Slot
  PROVE  flow[i].at \in Place /\ MutationLeft(i) \in Nat
<1>1. flow[i].at \in Place
  BY DEF FlowTyped, Flow, Place
<1>2. QED
  BY <1>1 DEF MutationLeft, Place

(* A mutation that stays where it is, or ends, is set back nowhere.        *)
LEMMA StaysOrEnds ==
  ASSUME FlowTyped, NEW i \in Slot, flow'[i].at \in {flow[i].at, "free"}
  PROVE  MutationLeft(i)' <= MutationLeft(i)
<1>1. flow[i].at \in Place /\ MutationLeft(i) \in Nat
  BY LeftTyped
<1>2. CASE flow'[i].at = flow[i].at
  <2>1. MutationLeft(i)' = MutationLeft(i)
    BY <1>2 DEF MutationLeft
  <2>2. QED
    BY <1>1, <2>1
<1>3. CASE flow'[i].at = "free"
  <2>1. MutationLeft(i)' = 0
    BY <1>3 DEF MutationLeft
  <2>2. QED
    BY <1>1, <2>1
<1>4. QED
  BY <1>2, <1>3

(* Where a mutation's own steps, and the loss of a request, lead.          *)
LEMMA MutationMoves ==
  ASSUME FlowTyped, NEW i \in Slot, Mutation(i) \/ Lose(i)
  PROVE  /\ MutationLeft(i)' < MutationLeft(i)
         /\ \A j \in Slot \ {i} : flow'[j].at \in {flow[j].at, "free"}
<1> USE DEF Place
<1>1. flow[i] \in Flow /\ NoFlow.at = "free"
  BY DEF FlowTyped, NoFlow
<1>2. ASSUME NEW f, flow' = [flow EXCEPT ![i] = f]
      PROVE  flow'[i] = f /\ \A j \in Slot \ {i} : flow'[j].at \in {flow[j].at, "free"}
  BY <1>2 DEF FlowTyped
<1>3. ASSUME NEW place, flow' = [flow EXCEPT ![i].at = place]
      PROVE  flow'[i].at = place /\ \A j \in Slot \ {i} : flow'[j].at \in {flow[j].at, "free"}
  BY <1>1, <1>3 DEF FlowTyped, Flow
<1>4. CASE Handle(i) \/ Lose(i)
  <2>1. PICK place \in {"applied", "failed"} :
          /\ flow' = [flow EXCEPT ![i].at = place]
          /\ flow[i].at = "sent" \/ (flow[i].at = "applied" /\ place = "failed")
    BY <1>4 DEF Handle, Lose, Reaches
  <2>2. flow'[i].at = place /\ \A j \in Slot \ {i} : flow'[j].at \in {flow[j].at, "free"}
    BY <1>3, <2>1
  <2>3. QED
    BY <2>1, <2>2 DEF MutationLeft
<1>5. CASE Done(i)
  <2> DEFINE f == IF flow[i].kind = "delete" THEN [flow[i] EXCEPT !.at = "waiting"] ELSE NoFlow
  <2>1. flow[i].at = "applied" /\ flow' = [flow EXCEPT ![i] = f]
    BY <1>5 DEF Done
  <2>2. f.at \in {"waiting", "free"}
    BY <1>1 DEF Flow
  <2> HIDE DEF f
  <2>3. flow'[i] = f /\ \A j \in Slot \ {i} : flow'[j].at \in {flow[j].at, "free"}
    BY <1>2, <2>1
  <2>4. QED
    BY <2>1, <2>2, <2>3 DEF MutationLeft
<1>6. CASE Undone(i) \/ Refetched(i)
  <2>1. flow[i].at \in {"failed", "refetching"} /\ flow' = [flow EXCEPT ![i] = NoFlow]
    BY <1>6 DEF Undone, Refetched
  <2>2. flow'[i] = NoFlow /\ \A j \in Slot \ {i} : flow'[j].at \in {flow[j].at, "free"}
    BY <1>2, <2>1
  <2>3. QED
    BY <1>1, <2>1, <2>2 DEF MutationLeft
<1>7. CASE RefreshDeleted(i)
  <2>1. flow[i].at = "waiting"
    BY <1>7 DEF RefreshDeleted
  <2>2. CASE flow' = [flow EXCEPT ![i] = NoFlow]
    <3>1. flow'[i] = NoFlow /\ \A j \in Slot \ {i} : flow'[j].at \in {flow[j].at, "free"}
      BY <1>2, <2>2
    <3>2. QED
      BY <1>1, <2>1, <3>1 DEF MutationLeft
  <2>3. CASE AwaitsAfter(i, Restarts(Refreshed))
    <3> DEFINE awaits == [flow[i] EXCEPT !.at = "refetching"]
               over == {j \in Slot : Restarts(Refreshed) /\ flow[j].at = "refetching"}
    <3>1. flow' = [j \in Slot |-> IF j = i THEN awaits ELSE IF j \in over THEN NoFlow ELSE flow[j]]
      BY <2>3 DEF AwaitsAfter
    <3>2. awaits.at = "refetching"
      BY <1>1 DEF Flow
    <3> HIDE DEF awaits, over
    <3>3. flow'[i] = awaits /\ \A j \in Slot \ {i} : flow'[j] \in {flow[j], NoFlow}
      BY <3>1
    <3>4. QED
      BY <1>1, <2>1, <3>2, <3>3 DEF MutationLeft
  <2>4. QED
    BY <1>7, <2>2, <2>3 DEF RefreshDeleted
<1>8. QED
  BY <1>4, <1>5, <1>6, <1>7 DEF Mutation

(* The other steps end a mutation, begin one, or leave it where it is.     *)
LEMMA OthersStayOrEnd ==
  ASSUME FlowTyped, NEW i \in Slot, flow[i].at # "free",
         \/ Cache \/ Lost \/ Refetch \/ Pages
         \/ \E d : Deliver(d) \/ \E kind : OtherClient(kind, d)
  PROVE  flow'[i].at \in {flow[i].at, "free"}
<1>1. flow[i] \in Flow /\ NoFlow.at = "free"
  BY DEF FlowTyped, NoFlow
<1>2. CASE flow' = flow
  BY <1>2
<1>3. ASSUME NEW ended, AwaitEnds(ended)
      PROVE  flow'[i].at \in {flow[i].at, "free"}
  BY <1>1, <1>3 DEF AwaitEnds
<1>4. ASSUME NEW kind, NEW d, Submit(kind, d)
      PROVE  flow'[i].at \in {flow[i].at, "free"}
  BY <1>4 DEF Submit, FlowTyped
<1>5. ASSUME NEW old, GoDevices(old)
      PROVE  flow'[i].at \in {flow[i].at, "free"}
  BY <1>1, <1>5 DEF GoDevices, Flow
<1>6. CASE Cache \/ Lost \/ Refetch
  BY <1>2, <1>3, <1>6 DEF Cache, Read, Succeeds, Refused, Lost, Fails, Refetch
<1>7. CASE Pages
  <2>1. ASSUME NEW old, NEW d, EmptyCreate(old) \/ GoDetail(d, old) \/ Select(d, old)
        PROVE  flow' = flow
    BY <2>1 DEF EmptyCreate, GoDetail, Select
  <2>2. ASSUME NEW d, OpenDelete(d) \/ OpenEdit(d) \/ OpenCreate
        PROVE  flow' = flow
    BY <2>2 DEF OpenDelete, OpenEdit, OpenCreate, Opens
  <2>3. CloseDelete \/ CloseForm \/ Unselect \/ OpenEvent \/ CloseEvent => flow' = flow
    BY DEF CloseDelete, CloseForm, Unselect, OpenEvent, CloseEvent
  <2>4. ASSUME NEW d, SubmitCreate \/ SubmitEdit \/ ConfirmDelete \/ SubmitEvent(d)
        PROVE  \E kind, e : Submit(kind, e)
    BY <2>4 DEF SubmitCreate, SubmitEdit, ConfirmDelete, SubmitEvent
  <2>5. QED
    BY <1>2, <1>4, <1>5, <1>7, <2>1, <2>2, <2>3, <2>4 DEF Pages
<1>8. ASSUME NEW d, NEW kind, Deliver(d) \/ OtherClient(kind, d)
      PROVE  flow'[i].at \in {flow[i].at, "free"}
  BY <1>2, <1>8 DEF Deliver, OtherClient
<1>9. QED
  BY <1>6, <1>7, <1>8

(* A load gets nearer to its end with every answer and every error.        *)
LEMMA AnswersLower ==
  ASSUME QueryTyped, Cache \/ Lost
  PROVE  LoadLeft' \in Nat /\ LoadLeft' < LoadLeft
<1>1. /\ query \in Query /\ query.tries \in {0, 1}
      /\ query.fetch \in {"idle", "sent", "read"}
  BY DEF QueryTyped, Query
<1>2. CASE Read
  <2>1. query.fetch = "sent" /\ query'.fetch = "read" /\ query'.tries = query.tries
    BY <1>1, <1>2 DEF Read, Query
  <2>2. QED
    BY <1>1, <2>1 DEF LoadLeft
<1>3. CASE Succeeds
  <2>1. query.fetch = "read" /\ query'.fetch = "idle"
    BY <1>3 DEF Succeeds, NoQuery
  <2>2. QED
    BY <1>1, <2>1 DEF LoadLeft
<1>4. CASE Refused \/ Lost
  <2>1. query.fetch \in {"sent", "read"} /\ Fails
    BY <1>1, <1>4 DEF Refused, Lost, Idle
  <2>2. CASE Again
    <3>1. query' = [Fetching(query) EXCEPT !.tries = 1] /\ Fetching(query) \in Query
      BY <1>1, <2>1, <2>2, FetchingTyped DEF Fails
    <3>2. Fetching(query).fetch = "sent"
      BY <1>1 DEF Fetching, Query
    <3>3. query'.fetch = "sent" /\ query'.tries = 1
      BY <3>1, <3>2 DEF Query
    <3>4. QED
      BY <2>1, <2>2, <3>3 DEF LoadLeft, Again
  <2>3. CASE ~Again
    <3>1. query'.fetch = "idle"
      BY <1>1, <2>1, <2>3 DEF Fails, Query
    <3>2. QED
      BY <1>1, <2>1, <3>1 DEF LoadLeft
  <2>4. QED
    BY <2>2, <2>3
<1>5. QED
  BY <1>2, <1>3, <1>4 DEF Cache

(* Who may begin a load again.                                             *)
LEMMA BegunAgain ==
  ASSUME QueryTyped, FlowTyped, [Next]_vars, LoadLeft' > LoadLeft
  PROVE  Refetch \/ Pages \/ \E i \in Slot : MutationLeft(i)' < MutationLeft(i)
<1>1. LoadLeft \in Nat
  BY DEF QueryTyped, Query, LoadLeft
<1>2. ~(query' = query)
  BY <1>1 DEF LoadLeft
<1>3. ~(Cache \/ Lost)
  <2> SUFFICES ASSUME Cache \/ Lost PROVE FALSE
    OBVIOUS
  <2>1. LoadLeft' \in Nat /\ LoadLeft' < LoadLeft
    BY AnswersLower
  <2>2. QED
    BY <1>1, <2>1
<1>4. ASSUME NEW i \in Slot, Mutation(i) \/ Lose(i)
      PROVE  MutationLeft(i)' < MutationLeft(i)
  BY <1>4, MutationMoves
<1>5. ASSUME NEW d, NEW kind, Deliver(d) \/ OtherClient(kind, d)
      PROVE  query' = query
  BY <1>5 DEF Deliver, OtherClient
<1>6. QED
  BY <1>2, <1>3, <1>4, <1>5 DEF Next, vars

LEMMA StepRunsDown ==
  ASSUME TypeOK, Next
  PROVE  /\ Cache => LoadLeft' < LoadLeft
         /\ \A i \in Slot : /\ Mutation(i) => MutationLeft(i)' < MutationLeft(i)
                            /\ flow[i].at # "free" => MutationLeft(i)' <= MutationLeft(i)
         /\ LoadLeft' > LoadLeft =>
              Refetch \/ Pages \/ \E i \in Slot : MutationLeft(i)' < MutationLeft(i)
<1>1. QueryTyped /\ FlowTyped
  BY TypeParts
<1>2. Cache => LoadLeft' < LoadLeft
  BY <1>1, AnswersLower
<1>3. ASSUME NEW i \in Slot, Mutation(i)
      PROVE  MutationLeft(i)' < MutationLeft(i)
  BY <1>1, <1>3, MutationMoves
<1>4. ASSUME NEW i \in Slot, flow[i].at # "free"
      PROVE  MutationLeft(i)' <= MutationLeft(i)
  <2>1. ASSUME NEW j \in Slot, Mutation(j) \/ Lose(j)
        PROVE  MutationLeft(i)' <= MutationLeft(i)
    <3>1. CASE i = j
      <4>1. MutationLeft(i)' < MutationLeft(i) /\ MutationLeft(i) \in Nat
        BY <1>1, <2>1, <3>1, MutationMoves, LeftTyped
      <4>2. MutationLeft(i)' \in Nat
        BY <4>1 DEF MutationLeft
      <4>3. QED
        BY <4>1, <4>2
    <3>2. CASE i # j
      <4>1. flow'[i].at \in {flow[i].at, "free"}
        BY <1>1, <2>1, <3>2, MutationMoves
      <4>2. QED
        BY <1>1, <4>1, StaysOrEnds
    <3>3. QED
      BY <3>1, <3>2
  <2>2. ASSUME \/ Cache \/ Lost \/ Refetch \/ Pages
               \/ \E d : Deliver(d) \/ \E kind : OtherClient(kind, d)
        PROVE  MutationLeft(i)' <= MutationLeft(i)
    <3>1. flow'[i].at \in {flow[i].at, "free"}
      BY <1>1, <1>4, <2>2, OthersStayOrEnd
    <3>2. QED
      BY <1>1, <3>1, StaysOrEnds
  <2>3. QED
    BY <2>1, <2>2 DEF Next
<1>5. LoadLeft' > LoadLeft =>
        Refetch \/ Pages \/ \E i \in Slot : MutationLeft(i)' < MutationLeft(i)
  BY <1>1, BegunAgain
<1>6. QED
  BY <1>2, <1>3, <1>4, <1>5

(* Whatever fails, is cut off or comes late, loads and mutations have      *)
(* boundedly many steps left, for any devices and any number of mutations. *)
THEOREM PagesRunDown == Spec => LoadsRunDown
<1>1. PagesInv /\ [Next]_vars =>
        [/\ Cache => LoadLeft' < LoadLeft
         /\ \A i \in Slot : /\ Mutation(i) => MutationLeft(i)' < MutationLeft(i)
                            /\ flow[i].at # "free" => MutationLeft(i)' <= MutationLeft(i)
         /\ LoadLeft' > LoadLeft =>
              Refetch \/ Pages \/ \E i \in Slot : MutationLeft(i)' < MutationLeft(i)]_vars
  BY StepRunsDown DEF PagesInv
<1>2. QED
  BY <1>1, PagesInvariant, PTL DEF Spec, LoadsRunDown

=============================================================================
