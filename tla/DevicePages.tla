---------------------------- MODULE DevicePages ----------------------------
(* The pages of the web UI that show and change devices and their events:  *)
(* the layout route /devices, its child /devices/$id, and /events, which   *)
(* no link joins to the others.  Their data live in a cache of queries     *)
(* (TanStack Query, modelled from how the hooks use it); their forms send  *)
(* mutations, and an acknowledged mutation invalidates queries.            *)
(* The queries do not depend on each other, so the model follows one of    *)
(* them, any one, and what the others show may be anything.  The token of  *)
(* the session does not change here: see Session.                          *)
EXTENDS Naturals

CONSTANTS Device, None,
          Slot,       \* bound: the mutations not over at one time
          Worlds,     \* bound: the sets of devices the page may begin with
          MaxSubmits, \* bound: the forms and dialogs submitted
          MaxTroubles \* bound: requests and answers lost, fetches cut off by a
                      \* Retry, and changes other clients make

ASSUME PagesAssumption ==
  /\ Worlds \subseteq SUBSET Device
  /\ MaxSubmits \in Nat /\ MaxTroubles \in Nat
  /\ None \notin Device
  /\ Device \cap {"devices", "events", "device.deleted"} = {}

VARIABLES born, live,   \* the Go service: devices created, and not yet deleted
          stored,       \* the Node service: devices whose deletion is stored
          key, query,   \* the query that is followed, and its cache entry
          version, due, \* the changes of what its answer shows; when asked
          path, selected, formOpen, eventPending,
          createOpen, editing, deleteTarget, refreshing,
          flow,         \* the mutations, each with what its page does next
          submits, troubles

services == <<key, born, live, stored, version>>
dialogs == <<createOpen, editing, deleteTarget>>
eventForm == <<formOpen, eventPending>>
bounds == <<submits, troubles>>
vars == <<services, query, due, path, selected, eventForm, dialogs, refreshing, flow, bounds>>

DeviceList == <<"devices">>
DetailOf(d) == <<"devices", d>>
DeletedList == <<"events", "device.deleted">>
TimelineOf(d) == <<"events", d>>
Key == {DeviceList, DeletedList} \cup UNION {{DetailOf(d), TimelineOf(d)} : d \in Device}
Under(prefix) == {k \in Key : \A n \in DOMAIN prefix : n \in DOMAIN k /\ k[n] = prefix[n]}

NoQuery == [status |-> "pending", data |-> None, fetch |-> "idle", got |-> None,
            tries |-> 0, stale |-> FALSE, raced |-> FALSE]
NoFlow == [kind |-> "none", dev |-> None, at |-> "free", mounted |-> FALSE]

-----------------------------------------------------------------------------
(* The cache.  raced: a change was acknowledged while an answer that may   *)
(* not show it was on its way, and that answer could not be cut off.       *)

(* The queries with an observer on the page.                               *)
Observed ==
  {DeviceList}
  \cup (IF path = "devices" THEN {DeletedList} ELSE {})
  \cup (IF selected # None THEN {TimelineOf(selected)} ELSE {})
  \cup (IF path \in Device THEN {DetailOf(path), TimelineOf(path)} ELSE {})

Trouble == troubles < MaxTroubles /\ troubles' = troubles + 1
Idle == query.fetch = "idle"
Visible(k) == key = k => query.status = "success"
Shows(k, d) == Visible(k) /\ (key = k => d \in query.data.ids)
Fetching(q) == [q EXCEPT !.fetch = "sent", !.got = None, !.tries = 0, !.raced = FALSE,
                         !.status = IF q.data = None THEN "pending" ELSE @]

(* An observer that comes: with no data, or data that were invalidated or  *)
(* are older than the stale time, it fetches unless a fetch is under way.  *)
Mounts(keys, old) ==
  query' = IF key \in keys /\ Idle /\ (query.data = None \/ query.stale \/ old)
           THEN Fetching(query) ELSE query

(* invalidateQueries cuts a fetch off and starts another, but joins the    *)
(* first load, and only marks a query nobody observes.                     *)
Restarts(keys) == key \in keys \cap Observed /\ (Idle \/ query.data # None)

Invalidate(keys) ==
  query' = IF Restarts(keys) THEN Fetching([query EXCEPT !.stale = TRUE])
           ELSE IF key \in keys
           THEN [query EXCEPT !.stale = TRUE, !.raced = @ \/ query.fetch = "read"]
           ELSE query

(* The finally forgotten.                                                  *)
AwaitEndsSilently(ended) ==
  /\ flow' = [i \in Slot |-> IF ended /\ flow[i].at = "refetching" THEN NoFlow ELSE flow[i]]
  /\ UNCHANGED refreshing

(* The refetch that flows await has ended: handleDeleteDevice is over.     *)
AwaitEnds(ended) ==
  LET over == {i \in Slot : ended /\ flow[i].at = "refetching"} IN
  /\ flow' = [i \in Slot |-> IF i \in over THEN NoFlow ELSE flow[i]]
  /\ refreshing' = (refreshing /\ over = {})

Answer ==
  [version |-> version,
   ids |-> IF key = DeviceList THEN live ELSE IF key = DeletedList THEN stored ELSE {}]

(* The service reads: no answer but an error for a device it has not.      *)
Read ==
  /\ query.fetch = "sent"
  /\ query' = [query EXCEPT !.fetch = "read",
                 !.got = IF \E d \in Device \ live : key = DetailOf(d) THEN None ELSE Answer]
  /\ UNCHANGED <<services, due, path, selected, eventForm, dialogs, refreshing, flow, bounds>>

Succeeds ==
  /\ query.fetch = "read" /\ query.got # None
  /\ query' = [NoQuery EXCEPT !.data = query.got, !.status = "success", !.raced = query.raced]
  /\ AwaitEnds(key = DeletedList)
  /\ UNCHANGED <<services, due, path, selected, eventForm, dialogs, bounds>>

(* No limit.                                                               *)
AgainAlways == key \in Observed

(* retry: 1, while someone observes.                                       *)
Again == query.tries = 0 /\ key \in Observed

(* An error, or no answer in time.                                         *)
Fails ==
  /\ query' = IF Again THEN [Fetching(query) EXCEPT !.tries = 1]
              ELSE [query EXCEPT !.fetch = "idle", !.got = None, !.tries = 0, !.status = "error"]
  /\ AwaitEnds(key = DeletedList /\ ~Again)
  /\ UNCHANGED <<services, due, path, selected, eventForm, dialogs, submits>>

(* The error after the last try swallowed.                                 *)
RefusedAtFirst == query.fetch = "read" /\ query.got = None /\ Again /\ Fails /\ UNCHANGED troubles

Refused == query.fetch = "read" /\ query.got = None /\ Fails /\ UNCHANGED troubles

Lost == ~Idle /\ Fails /\ Trouble

(* The window gets the focus, or a Retry button; a Retry may cut off a     *)
(* fetch under way, which counts as a fault.                               *)
Refetch ==
  /\ key \in Observed
  /\ \/ Idle /\ UNCHANGED troubles
     \/ ~Idle /\ query.status = "error" /\ query.data # None /\ Trouble
  /\ query' = Fetching(query)
  /\ AwaitEnds(key = DeletedList /\ ~Idle)
  /\ UNCHANGED <<services, due, path, selected, eventForm, dialogs, submits>>

(* What is awaited of a query that is not followed.                        *)
Refetched(i) ==
  /\ flow[i].at = "refetching" /\ key # DeletedList
  /\ flow' = [flow EXCEPT ![i] = NoFlow] /\ refreshing' = FALSE
  /\ UNCHANGED <<services, query, due, path, selected, eventForm, dialogs, bounds>>

-----------------------------------------------------------------------------
(* The pages.                                                              *)

(* From a detail page back to the list.  What the detail page still waits  *)
(* for finds it gone.                                                      *)
GoDevices(old) ==
  /\ path \in Device /\ path' = "devices"
  /\ formOpen' = FALSE /\ eventPending' = FALSE
  /\ flow' = [i \in Slot |-> IF flow[i].kind = "event"
                             THEN [flow[i] EXCEPT !.mounted = FALSE] ELSE flow[i]]
  /\ Mounts({DeletedList}, old)
  /\ UNCHANGED <<services, due, selected, dialogs, refreshing, bounds>>

(* A card's Details button, or the browser's history.  The list stays      *)
(* mounted with its dialogs; the deleted devices and their dialog do not.  *)
GoDetail(d, old) ==
  /\ path = "devices" /\ path' = d
  /\ selected' = None
  /\ Mounts({DetailOf(d), TimelineOf(d)}, old)
  /\ UNCHANGED <<services, due, eventForm, dialogs, refreshing, flow, bounds>>

NoDialog == ~createOpen /\ editing = None /\ deleteTarget = None /\ selected = None

(* The button of an empty grid goes to /devices/create, which comes back:  *)
(* no form opens, and the deleted devices are mounted anew.                *)
EmptyCreate(old) ==
  /\ path = "devices" /\ NoDialog /\ Visible(DeviceList)
  /\ key = DeviceList => query.data.ids = {}
  /\ Mounts({DeletedList}, old)
  /\ UNCHANGED <<services, due, path, selected, eventForm, dialogs, refreshing, flow, bounds>>

Opens(target, open, edited) ==
  /\ path = "devices" /\ NoDialog
  /\ deleteTarget' = target /\ createOpen' = open /\ editing' = edited
  /\ UNCHANGED <<services, query, due, path, selected, eventForm, refreshing, flow, bounds>>

OpenDelete(d) == Shows(DeviceList, d) /\ Opens(d, FALSE, None)
OpenCreate == Opens(None, TRUE, None)
OpenEdit(d) == Shows(DeviceList, d) /\ Opens(None, FALSE, d)

Pending(kind) == \E i \in Slot : flow[i].kind = kind /\ flow[i].at \in {"sent", "applied", "failed"}

(* Without the guard of handleClose.                                       *)
CloseDeleteAnyway ==
  /\ path = "devices" /\ deleteTarget # None
  /\ deleteTarget' = None
  /\ UNCHANGED <<services, query, due, path, selected, eventForm, createOpen, editing,
                 refreshing, flow, bounds>>

CloseDelete ==
  /\ path = "devices" /\ deleteTarget # None /\ ~Pending("delete")
  /\ deleteTarget' = None
  /\ UNCHANGED <<services, query, due, path, selected, eventForm, createOpen, editing,
                 refreshing, flow, bounds>>

(* The forms' dialogs close whatever is pending.                           *)
CloseForm ==
  /\ path = "devices" /\ (createOpen \/ editing # None)
  /\ \/ createOpen /\ createOpen' = FALSE /\ UNCHANGED editing
     \/ editing # None /\ editing' = None /\ UNCHANGED createOpen
  /\ UNCHANGED <<services, query, due, path, selected, eventForm, deleteTarget, refreshing,
                 flow, bounds>>

(* /events offers what the list last showed, an error or not.              *)
Listed(d) == key = DeviceList => query.data # None /\ d \in query.data.ids

(* The Details of a deleted device, or the filter of /events.              *)
Select(d, old) ==
  /\ selected # d
  /\ \/ /\ path = "devices" /\ NoDialog /\ ~refreshing
        /\ Shows(DeletedList, d) /\ (key = DeletedList => Idle)
     \/ path = "events" /\ Listed(d)
  /\ selected' = d
  /\ Mounts({TimelineOf(d)}, old)
  /\ UNCHANGED <<services, due, path, eventForm, dialogs, refreshing, flow, bounds>>

Unselect ==
  /\ selected # None /\ selected' = None
  /\ UNCHANGED <<services, query, due, path, eventForm, dialogs, refreshing, flow, bounds>>

(* "New Event" clears the form of a detail page, what is pending too; the  *)
(* "Create Event" of /events only shows the form.                          *)
OpenEvent ==
  /\ ~formOpen /\ formOpen' = TRUE
  /\ \/ path \in Device /\ Visible(DetailOf(path)) /\ eventPending' = FALSE
     \/ path = "events" /\ UNCHANGED eventPending
  /\ UNCHANGED <<services, query, due, path, selected, dialogs, refreshing, flow, bounds>>

CloseEvent ==
  /\ formOpen /\ formOpen' = FALSE
  /\ path \in Device => Visible(DetailOf(path))
  /\ UNCHANGED <<services, query, due, path, selected, eventPending, dialogs, refreshing,
                 flow, bounds>>

-----------------------------------------------------------------------------
(* The mutations.                                                          *)

Fresh == Device \ (born \cup {flow[i].dev : i \in Slot})

Submit(kind, d) ==
  /\ submits < MaxSubmits /\ submits' = submits + 1
  /\ \E i \in {j \in Slot : flow[j].at = "free"} :
       /\ i = CHOOSE j \in Slot : flow[j].at = "free"
       /\ flow' = [flow EXCEPT ![i] = [kind |-> kind, dev |-> d, at |-> "sent", mounted |-> TRUE]]
  /\ UNCHANGED <<services, query, due, path, selected, formOpen, dialogs, troubles>>

SubmitCreate ==
  /\ path = "devices" /\ createOpen /\ ~Pending("create")
  /\ \E d \in Fresh : d = (CHOOSE e \in Fresh : TRUE) /\ Submit("create", d)
  /\ UNCHANGED <<eventPending, refreshing>>

SubmitEdit ==
  /\ path = "devices" /\ editing # None /\ ~Pending("update")
  /\ Submit("update", editing)
  /\ UNCHANGED <<eventPending, refreshing>>

ConfirmDelete ==
  /\ path = "devices" /\ deleteTarget # None /\ ~Pending("delete")
  /\ Submit("delete", deleteTarget)
  /\ refreshing' = TRUE
  /\ UNCHANGED eventPending

(* The form of /events has a choice of the devices of the list.            *)
SubmitEvent(d) ==
  /\ formOpen /\ ~eventPending
  /\ \/ path = d /\ Visible(DetailOf(d))
     \/ path = "events" /\ Listed(d)
  /\ Submit("event", d)
  /\ eventPending' = TRUE
  /\ UNCHANGED refreshing

Changes(kind, d) == IF kind = "event" THEN {TimelineOf(d)} ELSE {DeviceList, DetailOf(d)}
Bump(keys) == version' = IF key \in keys THEN version + 1 ELSE version

Accepted(kind, d) ==
  CASE kind = "create" -> d \notin born
    [] kind = "event" -> TRUE
    [] OTHER -> d \in live

Apply(kind, d) ==
  /\ Accepted(kind, d)
  /\ born' = IF kind = "create" THEN born \cup {d} ELSE born
  /\ live' = CASE kind = "create" -> live \cup {d}
               [] kind = "delete" -> live \ {d}
               [] OTHER -> live
  /\ Bump(Changes(kind, d))
  /\ UNCHANGED <<key, stored>>

Reaches(i, place) == flow' = [flow EXCEPT ![i].at = place]

(* The service handles the request.                                        *)
Handle(i) ==
  /\ flow[i].at = "sent"
  /\ \/ Apply(flow[i].kind, flow[i].dev) /\ Reaches(i, "applied")
     \/ /\ ~Accepted(flow[i].kind, flow[i].dev)
        /\ Reaches(i, "failed") /\ UNCHANGED services
  /\ UNCHANGED <<query, due, path, selected, eventForm, dialogs, refreshing, bounds>>

(* The request is lost, or its answer.                                     *)
Lose(i) ==
  /\ flow[i].at \in {"sent", "applied"} /\ Trouble
  /\ Reaches(i, "failed")
  /\ UNCHANGED <<services, query, due, path, selected, eventForm, dialogs, refreshing,
                 submits>>

Asked(keys) == due' = IF key \in keys THEN version ELSE due

(* The list and not what is under it.                                      *)
InvalidatesExactly(kind, d) ==
  IF kind = "event" THEN Under(<<"events">>) ELSE {DeviceList}

Invalidates(kind, d) ==
  CASE kind = "event" -> Under(<<"events">>)
    [] kind = "update" -> Under(<<"devices">>) \cup Under(<<"devices", d>>)
    [] OTHER -> Under(<<"devices">>)

(* The answer: onSuccess of the hook, then the page goes on.               *)
Done(i) ==
  LET f == flow[i] IN
  /\ f.at = "applied"
  /\ Invalidate(Invalidates(f.kind, f.dev))
  /\ Asked(Changes(f.kind, f.dev))
  /\ flow' = [flow EXCEPT ![i] = IF f.kind = "delete" THEN [f EXCEPT !.at = "waiting"] ELSE NoFlow]
  /\ createOpen' = (createOpen /\ f.kind # "create")
  /\ editing' = IF f.kind = "update" THEN None ELSE editing
  /\ deleteTarget' = IF f.kind = "delete" THEN None ELSE deleteTarget
  /\ formOpen' = (formOpen /\ ~(f.kind = "event" /\ f.mounted))
  /\ eventPending' = (eventPending /\ ~(f.kind = "event" /\ f.mounted))
  /\ UNCHANGED <<services, path, selected, refreshing, bounds>>

(* The error: the form stays as it is, the dialog of a deletion closes.    *)
Undone(i) ==
  LET f == flow[i] IN
  /\ f.at = "failed"
  /\ flow' = [flow EXCEPT ![i] = NoFlow]
  /\ deleteTarget' = IF f.kind = "delete" THEN None ELSE deleteTarget
  /\ refreshing' = (refreshing /\ f.kind # "delete")
  /\ eventPending' = (eventPending /\ ~(f.kind = "event" /\ f.mounted))
  /\ UNCHANGED <<services, query, due, path, selected, formOpen, createOpen, editing, bounds>>

(* What handleDeleteDevice invalidates; the other is no query's key.       *)
RefreshedOther == Under(<<"events", "deleted">>)
Refreshed == Under(DeletedList)

(* i awaits the refetch; the flows that awaited one it cut off are over.   *)
AwaitsAfter(i, cut) ==
  LET over == {j \in Slot : cut /\ flow[j].at = "refetching"} IN
  /\ flow' = [j \in Slot |-> IF j = i THEN [flow[i] EXCEPT !.at = "refetching"]
                             ELSE IF j \in over THEN NoFlow ELSE flow[j]]
  /\ refreshing' = (refreshing /\ over = {})

(* Five seconds after a deletion.                                          *)
RefreshDeleted(i) ==
  /\ flow[i].at = "waiting"
  /\ Invalidate(Refreshed)
  /\ Asked({DeletedList})
  /\ IF DeletedList \in Observed
     THEN AwaitsAfter(i, Restarts(Refreshed))
     ELSE flow' = [flow EXCEPT ![i] = NoFlow] /\ refreshing' = FALSE
  /\ UNCHANGED <<services, path, selected, eventForm, dialogs, bounds>>

-----------------------------------------------------------------------------
(* What goes on elsewhere.                                                 *)

OtherClient(kind, d) ==
  /\ Trouble
  /\ kind = "create" => d \in Fresh
  /\ Apply(kind, d)
  /\ UNCHANGED <<query, due, path, selected, eventForm, dialogs, refreshing, flow,
                 submits>>

(* An event published before the device is deleted.                        *)
DeliverEarly(d) ==
  /\ d \in born \ stored
  /\ stored' = stored \cup {d}
  /\ Bump({DeletedList, TimelineOf(d)})
  /\ UNCHANGED <<key, born, live, query, due, path, selected, eventForm, dialogs, refreshing,
                 flow, bounds>>

(* The pipeline: the consumer stores the event of a deletion.              *)
Deliver(d) ==
  /\ d \in born \ live /\ d \notin stored
  /\ stored' = stored \cup {d}
  /\ Bump({DeletedList, TimelineOf(d)})
  /\ UNCHANGED <<key, born, live, query, due, path, selected, eventForm, dialogs, refreshing,
                 flow, bounds>>

-----------------------------------------------------------------------------
Init ==
  /\ live \in Worlds /\ born = live /\ stored = {}
  /\ key \in Key /\ version = 0 /\ due = 0
  /\ path \in {"devices", "events"} \cup Device
  /\ selected = None /\ formOpen = FALSE /\ eventPending = FALSE
  /\ createOpen = FALSE /\ editing = None /\ deleteTarget = None /\ refreshing = FALSE
  /\ query = IF key \in Observed THEN Fetching(NoQuery) ELSE NoQuery
  /\ flow = [i \in Slot |-> NoFlow]
  /\ submits = 0 /\ troubles = 0

Cache == Read \/ Succeeds \/ Refused
Mutation(i) == Handle(i) \/ Done(i) \/ Undone(i) \/ RefreshDeleted(i) \/ Refetched(i)

Pages ==
  \/ \E old \in BOOLEAN :
       GoDevices(old) \/ EmptyCreate(old) \/ \E d \in Device : GoDetail(d, old) \/ Select(d, old)
  \/ \E d \in Device : OpenDelete(d) \/ OpenEdit(d) \/ SubmitEvent(d)
  \/ OpenCreate \/ CloseDelete \/ CloseForm \/ Unselect \/ OpenEvent \/ CloseEvent
  \/ SubmitCreate \/ SubmitEdit \/ ConfirmDelete

Next ==
  \/ Cache \/ Lost \/ Refetch \/ Pages
  \/ \E i \in Slot : Mutation(i) \/ Lose(i)
  \/ \E d \in Device : Deliver(d) \/ \E kind \in {"create", "update", "delete"} : OtherClient(kind, d)

Spec == Init /\ [][Next]_vars

(* Services and proxies answer or time out, and so do the timers.          *)
FairSpec == Spec /\ WF_vars(Cache) /\ (\A i \in Slot : WF_vars(Mutation(i)))

-----------------------------------------------------------------------------
(* Every variable has its type.                                            *)
TypeOK ==
  /\ born \subseteq Device /\ live \subseteq born /\ stored \subseteq born \ live
  /\ key \in Key /\ version \in Nat /\ due \in Nat
  /\ query \in [status : {"pending", "success", "error"},
                data : [version : Nat, ids : SUBSET Device] \cup {None},
                fetch : {"idle", "sent", "read"},
                got : [version : Nat, ids : SUBSET Device] \cup {None},
                tries : {0, 1}, stale : BOOLEAN, raced : BOOLEAN]
  /\ path \in {"devices", "events"} \cup Device
  /\ selected \in Device \cup {None} /\ formOpen \in BOOLEAN /\ eventPending \in BOOLEAN
  /\ createOpen \in BOOLEAN /\ editing \in Device \cup {None}
  /\ deleteTarget \in Device \cup {None} /\ refreshing \in BOOLEAN
  /\ flow \in [Slot -> [kind : {"none", "create", "update", "delete", "event"},
                        dev : Device \cup {None},
                        at : {"free", "sent", "applied", "failed", "waiting", "refetching"},
                        mounted : BOOLEAN]]
  /\ submits \in 0..MaxSubmits /\ troubles \in 0..MaxTroubles

(* The followed query is on the page, loaded, and not being loaded again.  *)
Rests == key \in Observed /\ Idle /\ query.status = "success" /\ ~query.raced

(* What a list, a detail page or a timeline shows at rest has every change *)
(* the user was told of: the onSuccess of the hooks refetch enough.  Only  *)
(* a load that was answered and not cut off in between may miss one.       *)
OwnWritesShown == Rests /\ key # DeletedList => query.data.version >= due

(* What the deleted devices show at rest has every deletion that was       *)
(* stored when handleDeleteDevice last asked for them.                     *)
DeletionsShown == Rests /\ key = DeletedList => query.data.version >= due

Deleting(i) == flow[i].kind = "delete"
UnderWay(i) == Deleting(i) /\ flow[i].at \in {"sent", "applied", "failed"}

(* While a deletion is pending, DeleteDialog is that deletion's, whatever  *)
(* page the user looks at meanwhile: its end closes no other dialog.       *)
DialogIsOfPendingDeletion == \A i \in Slot : UnderWay(i) => deleteTarget = flow[i].dev

(* The "refreshing" mark of the deleted devices is never left behind: some *)
(* handleDeleteDevice is still to reach its finally.                       *)
ProgressIsReal == refreshing => \E i \in Slot : Deleting(i)

(* The steps a load and a mutation have still to take: a load is sent and  *)
(* read, at most twice; a deletion is sent, handled, answered, waits, and  *)
(* awaits a refetch.                                                       *)
LoadLeft == CASE query.fetch = "sent" -> 4 - 2 * query.tries
              [] query.fetch = "read" -> 3 - 2 * query.tries
              [] OTHER -> 0
MutationLeft(i) == CASE flow[i].at = "sent" -> 4
                     [] flow[i].at = "applied" -> 3
                     [] flow[i].at = "waiting" -> 2
                     [] flow[i].at \in {"failed", "refetching"} -> 1
                     [] OTHER -> 0

(* Loads and mutations run down: each of their steps brings them nearer to *)
(* the end, and nothing sets a mutation back.  A load is begun again by    *)
(* the user or by a mutation that itself gets nearer to its end, so that   *)
(* two deletions may cut off each other's refetch, but not for ever.       *)
LoadsRunDown ==
  [][/\ Cache => LoadLeft' < LoadLeft
     /\ \A i \in Slot : /\ Mutation(i) => MutationLeft(i)' < MutationLeft(i)
                        /\ flow[i].at # "free" => MutationLeft(i)' <= MutationLeft(i)
     /\ LoadLeft' > LoadLeft =>
          Refetch \/ Pages \/ \E i \in Slot : MutationLeft(i)' < MutationLeft(i)
    ]_vars

(* Loads end, with 404s and lost answers too, and so does every deletion,  *)
(* also one whose refetch another deletion has cut off.                    *)
PagesComeToRest == []<>(Idle /\ ~refreshing)

=============================================================================
