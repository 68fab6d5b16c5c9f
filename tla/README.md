# A TLA+ development for asset-tracker

asset-tracker registers devices in a Go service (Postgres), announces every
change of a device on a Kafka topic, and keeps a timeline of the announcements
in a Node service (MongoDB); a React application shows both.  This directory
holds TLA+ modules translated from that code, TLC configurations that check
them on small instances, and theorems that TLAPS proves for every value of the
constants.  `PROJECT.json` lists the components, the runs, the mutants that
show each property can fail, the source lines behind every definition, the
findings and the hazards.

## The system

| component | state it keeps | operations | talks to |
|---|---|---|---|
| Go device service (`go-service/internal`) | the `devices` table; each handler's locals | POST, PUT, DELETE, GET `/devices` | Postgres (one statement at a time), the publisher |
| event publisher (`create_device.go:37` and alike, `kafka_event_publisher.go`) | one goroutine per successful write, its attempt | stamp, WriteMessages, retry, give up | Kafka |
| Go process (`cmd/main.go`) | running, draining, closed | SIGTERM, Shutdown with 10 s, Close, pool.Close | all of the above |
| Node event consumer (`kafka-event-consumer.js`) | position in the partition, the message in hand | start, handle a message, stop | Kafka consumer group, MongoDB |
| Node event API (`event-handler.js`, `log-event.js`, `event.js`, `list-events.js`, `mongo-event-repository.js`) | the `events` collection | POST, GET `/events` | MongoDB |
| Node process (`index.js`) | starting, serving, stopping, closed | boot, signal, second signal, exit | consumer, MongoDB |
| request metrics of both services | counters, list of traces | count, trace, list | - |
| health probes of both services (`health_handler.go`, `health-handler.js`) | none | live, ready (500 ms limit) | the databases |
| authentication (`auth_handler.go`, `auth_middleware.go`) | none; a signed token | login, check | - |
| web UI session (`AuthContext.tsx`, `__root.tsx`, `lib/api`) | token in localStorage and in React state | login, logout, late 401 answers | Go service |
| web UI device pages (`devices.tsx`, `devices.$id.tsx`, `events.tsx`, their components and hooks) | query cache, dialogs, forms, refresh flag | load, refetch, create, edit, delete, delayed refresh, log an event | both services |
| web UI metrics (`use-metrics.ts`, `LiveMetrics.tsx`) | two queries per service | poll, show | both services |
| web UI health and settings (`use-health.ts`, `health-status.ts`, `SettingsContext.tsx`, `SettingsPanel.tsx`) | a query per service; the intervals in localStorage, in force and in the panel | poll, classify, edit, save | both services |

What makes it hard: handlers interleave between their SQL statements; events
are published by goroutines that outlive the answer and race each other; the
publisher and Kafka's writer both retry; a process may crash between commit and
append, or between insert and offset commit; the group may take a partition
from a replica whose handler still awaits MongoDB; shutdown closes clients that
goroutines and handlers still use; and validation is written three times
(`device.go`, `kafka-event-consumer.js`, `event.js`) with different rules.  In
the browser, answers come while their page is gone, a form is closed and opened
again, or a list is being loaded; one flag and one dialog serve several
deletions; and tabs share localStorage but not what they made of it.

## Modules

| module | what it is |
|---|---|
| `DeviceService` | the Go service: handlers, use cases, table, publishers, process |
| `DeviceRegistry` | what the service promises: an atomic table and a log of announcements |
| `MCDeviceService` | instances of `DeviceService` for TLC |
| `DeviceServiceProofs` | TypeOK, EventsAreTrue, AnswersMatchTable, CopiesBounded and PublishersRunDown, proved |
| `DeviceServiceOrderProofs` | LifecycleOrder, CreatedStampedFirst and ReadsAreCurrent, proved |
| `DeviceServiceRefinement` | DeviceService implements DeviceRegistry, proved |
| `EventService` | the Node service: consumer, POST /events, process, in a consumer group |
| `EventLedger` | what the consumers promise together: one log, read in order, committed forward |
| `MCEventService` | instances of `EventService` for TLC |
| `EventServiceProofs` | TypeOK, NothingLostSilently, DuplicatesNeedRedelivery and StoredAreListable, proved, and that EventService implements EventLedger |
| `RequestMetrics` | both services' request counters and traces, their two endpoints, the dashboard card that polls them |
| `MCRequestMetrics` | an instance of `RequestMetrics` for TLC |
| `RequestMetricsProofs` | AnswersCoverTraces and CountersAddUp, proved |
| `Session` | the browser session: token in localStorage and in each tab's React state, navigation, login, logout, 401 answers |
| `MCSession` | instances of `Session` for TLC |
| `SessionProofs` | TypeOK, TokenlessPagesAreForeign and RedirectsRunDown, proved |
| `DevicePages` | the pages of devices and events: query cache, mutations, dialogs, forms, the delayed refresh |
| `MCDevicePages` | an instance of `DevicePages` for TLC |
| `DevicePagesProofs` | all five invariants of `DevicePages` and LoadsRunDown, proved |
| `HealthMonitor` | a readiness probe, the query that polls it, its dot, the settings |
| `MCHealthMonitor` | an instance of `HealthMonitor` for TLC |
| `HealthMonitorProofs` | all three invariants of `HealthMonitor`, proved |

`DeviceRegistry` is the specification `DeviceService` implements, `EventLedger`
the one `EventService` implements.  `DevicePages`
stands on both services as their promises show them: a write is one step of
`Apply`, as in the registry, and `Deliver` is what `EventService` does with the
event of a deletion, if and when it does.

### DeviceService

A request is a record `call[r]` with a program counter `pc[r]`: `idle`, `find`
(about to run FindByID), `write` (about to run INSERT, UPDATE or DELETE),
`spawn` (the statement's answer reached the use case), `reply`, `done`, or
`lost` (its process died).  A step is one SQL statement with everything the
handler does around it, so handlers interleave exactly where the code waits.
A statement may also fail: without effect (`FailStatement`), or after it took
effect (`acked = FALSE` in `Commit`).  `Spawn` is the `go func`: the event of a
creation is stamped with `CreatedAt`, the others read the clock in their
goroutine (`Stamp`).  `Send` is an append Kafka's writer makes while a
WriteMessages call runs; `WriteEnds` and `WriteRetriable` are how a call
returns.  The writer asks for no acknowledgement (`kafka.Writer` defaults to
RequireNone), so what the call returns says nothing of what arrived.
`Signal`, `CloseDrained`, `CloseTimedOut` and `Exit` are `main` after the
signal; `Crash` and `Restart` may come at any time.

Abstracted: a clock is a counter of instants read; rows carry a name and a
type; ids come from a finite set; the topic has one partition, as the compose
file's broker creates it.  Left out because they keep no state: CORS, logging,
and the token check.

`DeviceRegistry` is the abstract view.  The mapping takes the table as it is,
the change of a request from its committed call, and an announcement from each
message without its timestamp.  A SQL statement that takes effect is a registry
operation, an append announces one, and every other step is invisible.  The
registry lets a deletion be announced under any name the device ever had: that
is all the code guarantees: an update may commit between FindByID and DELETE.

### EventService

The topic is a sequence, an offset an index into it.  A replica's consumer has
a `position`, a message in `hand` (its handler awaits MongoDB) and a flag
`fenced` that says the assignment that handler works under is over.  The group
(`Assign`, `Revoke`) and the library's commits (`AutoCommit`, `Disconnect`) are
external and may happen at any time.  `Discard`, `Take`, `Saved` and
`SaveFails` are `#handleMessage`: what cannot be stored is skipped, an error of
MongoDB is swallowed, and in every case the message counts as processed.
`copies[n]` counts the documents stored for offset n.  As long as the group has
committed nothing, every `Assign` begins at the end of the topic
(`fromBeginning: false`); `skipped` are the offsets passed over so, and `began` is
how long the topic was when the group began to read.  What came after that can be
passed over too, and lost without an error: a message in hand at a crash, or one
that came while no replica ran, if nothing was committed before.
NothingLostSilently excuses it by name; AtLeastOnce does not.
POST /events stops at
`await parseBody` and at `await insertOne`.  `Signal`, `Disconnect`,
`CloseMongo` and `Exit` are `shutdown` in `index.js`; `SignalAgain` is the
second signal, whose `disconnect` returns at once while the first still waits.
`server.close` waits for open exchanges but also stops the timer that enforces
node's request timeout, and `shutdown` never calls exit, so an exchange whose body
does not arrive (`AwaitsBody`) keeps the process alive: that is the one exception
ShutdownCompletes makes.

A payload is JSON or not, `null` or an object; an object is four fields with
values from small sets, enough to tell apart what `#validate`, `createEvent`
and the queries of `list-events.js` accept.

`EventLedger` is the abstract view: a log, the offset the group has committed,
and for each event whether it is settled (stored, refused, or given up with an
error, or passed over before the first commit), while readers hold events they are
about to store.  An event is taken
only when everything before it is settled and it was not committed, and the
offset moves forward, past settled events only.  Two things a reader might expect
are not promised, because the code does not keep them: an event may be in two
hands at once (the old owner's handler still awaits MongoDB), and may be stored
twice.  Under the mapping a `Take` is the ledger's, `Saved` and `SaveFails` end
it, `AutoCommit` and `Disconnect` commit, an assignment before the first commit
is `Begin`, and every other step of the group, the process and POST is invisible.

### RequestMetrics

A behaviour is of one service, chosen in `Init`: the Go service, whose handlers
run on concurrent goroutines, or the Node service, whose callbacks run to their
end.  A Go request is counted (`Arrive`), served (`GoServed`), counted as an
error if its status is 400 or more (`GoCountError`) and traced (`GoTraceError`,
or at once in `GoServed`), and each of these may interleave with the three loads
of an answer: traces, `requests_total`, `errors_total` (`GoLoadTraces`,
`GoLoadRequests`, `GoLoadErrors`; /metrics has the last two).  A Node request is
counted when it arrives; 'finish' traces it and counts its error in one callback
(`NodeFinish`), and never comes if the client has gone (`NodeAbort`).  The
readers are the card's two queries, which send no limit, and another client
that sends any.  `Stop` and `Start` are a restart, which begins with zero.  The
card keeps a query's last data when a poll fails; it hides the counters while
their query is in error, and goes on showing the traces of before.

The list of traces is never trimmed (`Push`), as the repository's README and both
services' tests want it; CountersAddUp says that none is dropped, however many
there are, and the run lets the list outgrow the largest answer.

What the code lets happen, and the properties allow: a Go answer may show more
errors than requests, because it loads errors last; the card may for a while
show traces of a process that is gone.  The two limit parsers disagree on a
limit that is no number (50 in Go, 1 in Node), and the comment at
`metrics_handler.go:70` gives the default for every limit that is not positive
where the code gives 1.

### Session

Tabs of one browser share `stored`, the token in localStorage; each has a copy
of its own, `token[b]`, read when its document was loaded (`Load`) and changed
by its login and logout.  `checkAuth` looks at the first on every navigation
(`CheckAuth`, which the redirect to /login runs again), the hooks' requests carry
the second (`Send`).  A 401 (`Refused`) may be late and refuse another token than
the one of now; `handleLogout` clears both copies all the same and loads /login.
The service's clock and the browser's pass a token's expiry in either order
(`Lapse`, `Age`).  `path` tells the login page from all the pages behind
`checkAuth`.  Left out: how a token is signed, and requests to the Node service,
which does not look at it.  A user acts on a page that has settled; requests,
logins and answers under way need not wait for that.

Two things the code does that a user would notice: a tab that was loaded before
another tab logged in is let in without a token of its own, and a create sent from there carries "Bearer null", whose 401 logs out the tab
that did log in; and a late 401 of an earlier login ends a later one.
Besides, `checkAuth` removes an expired token from storage only: the tab's React
state keeps it until the next login, logout or load.  No document says that the two
agree, and no property claims it.

### DevicePages

The pages keep no data: what they show is in the cache of TanStack Query, which
the module models from how the hooks use it.  No query depends on another, so
a behaviour follows one of them, `key`, chosen in `Init`: the list of devices,
a device, the deleted devices, or a timeline.  What the other queries show may
be anything, which only allows more.  `version` counts the changes of what the
followed answer shows, and an answer carries the version it read (`Read`), so
that what is on the page (`query.data.version`) can be compared with what the
user has a right to see (`due`, the version when a mutation was acknowledged or
`handleDeleteDevice` asked for a refresh).  `Invalidate` is invalidateQueries,
which cuts a refetch off and starts another, joins the first load of a query
without data, and only marks a query that no mounted hook observes;
`Mounts` fetches such a query when its hook comes back.  `raced` records the one
case in which a page may rest on an older answer: the first load had been read by
the service when the change was acknowledged, and was joined, not cut off.

A mutation is a slot of `flow`: `sent`, `applied` or `failed`; a deletion then is
`waiting` (the five seconds) and `refetching` (the awaited invalidation), and
ends in the finally that resets `refreshing`.  `Done` and `Undone` are what the
hooks' onSuccess and the pages' code after `mutateAsync` do, whatever the user
has opened, closed or left meanwhile: a form that was cancelled and opened anew
is closed by the earlier answer (`createOpen`, `editing`, `formOpen` do not say
whose they are), and only the delete dialog refuses to close while its deletion is
pending (`CloseDelete`).  `RefreshDeleted` invalidates the key it spells out
itself.  `OtherClient`, `Lost`, `Lose` and `Deliver` are the rest of the world.

Left out: what is typed and how the schemas refuse it (a refused form changes
nothing), the toggle that unfolds the deleted devices, the unreachable edit and
delete states of the detail page (nothing sets them), garbage collection of
unused cache entries, and the pausing of requests while the browser is offline.

### HealthMonitor

A behaviour follows one service and one query.  `Probe` is the readiness
handler: a ping raced against 500 ms (`Hung`), so that a database that hangs is
answered 503 long before a proxy would give up.  `Ends` is `getHealth`, which
throws a TypeError for no answer and for one that is not JSON, and an object for
a status that is not ok.  `Dot` is `classifyHealth` over the query's state; the
badge of the metrics bar is the worse of two such dots and has no state of its
own.  The bar is on every page but /login (`shown`), and its timer does not look
at the outcome of a poll (`Polls`).

`online` is what the query library takes the browser to be.  A poll that begins
while it is offline is `paused` and not sent, and the dot stays what it was; when
the browser is online again the poll goes on (`Resume`), and what has gone stale
is fetched (`GoesOnline`).  A loaded document is taken to be online.

The intervals exist three times: in localStorage (`stored`), in the settings
context (`inForce`) and in the panel's fields (`edit`).  `ReadValue` is what a
load makes of any string there.  `SaveIntervals` writes one interval after the
other, and the write may throw before either; `Applied` is what the context holds
then.  A 0 in localStorage is read as the default and the panel refuses it, so no
stored or saved value turns polling off.  `foreign` are the intervals another tab has stored since, which this tab
is not told of.  `SavedEnds` may be the timer of an earlier save, which hides the
message of a later one too early; no property is about that.

## Runs

Every property has a mutant: a plausible bug in a definition that models code
under which TLC finds the property violated.

| run | bounds | what it shows |
|---|---|---|
| `service_races` | 3 writes, 2 ids, 1 valid body, 1 attempt | EventsAreTrue, LifecycleOrder, AnswersMatchTable, CreatedStampedFirst under every interleaving of three writers, a crash and a shutdown |
| `service_registry` | 2 requests of all five kinds, 3 bodies (one invalid), 2 attempts, 2 starts | TypeOK, ReadsAreCurrent, ImplementsRegistry |
| `service_liveness` | 2 writes, 2 attempts, 1 start | CopiesBounded, PublishersRunDown, PublishersEnd, ShutdownEnds |
| `event_delivery` | 2 replicas, 2 messages, 2 starts each, 1 rebalance | TypeOK, NothingLostSilently, DuplicatesNeedRedelivery, ImplementsLedger |
| `event_progress` | 1 replica, 2 starts, 2 messages of every kind, 1 POST | StoredAreListable, EventsSettle, ShutdownCompletes |
| `request_metrics` | 2 requests with the card, 3 with the other client, 2 starts, default limit 1, largest limit 2 | AnswersCoverTraces, CountersAddUp, CardCatchesUp |
| `session` | 2 tabs, 2 logins, 1 request under way per tab, 2 expiries | TokenlessPagesAreForeign, RedirectsRunDown, NavigationsSettle |
| `device_pages` | 1 device, 2 mutations under way, 2 submissions, 1 fault (a loss, a cut-off fetch or a change by another client) | TypeOK, OwnWritesShown, DeletionsShown, DialogIsOfPendingDeletion, ProgressIsReal, LoadsRunDown, PagesComeToRest |
| `health_monitor` | 3 numbers (none an interval may be, one too small, one to type), 3 acts of the user, 2 faults | TypeOK, OfflineIsUnreachable, ReloadKeepsIntervals, DotCatchesUp |
| `topic_order`, `shutdown_flush`, `at_least_once` | the smallest instance | a document's claim the code does not keep |

The bounds suffice for these properties because each relates at most two
requests or two replicas and one device or offset: three writers give every
pair of writes a third that disturbs it, two ids give a second device, two
messages give a message something to block.  Identical requests and replicas
are symmetric in the safety runs; liveness runs use no symmetry.  In
`request_metrics` no answer affects another, so the readers are taken in turn;
two requests make one that is traced and one that is not yet, or two traces of
which a limit leaves one out, and a third, which is not let in where the card
polls (`ThirdApart`), makes more traces than the largest answer holds.  Deadlock is checked there, and not in the runs of
the two services: their requests, messages and starts are bounded and a process may stay
down.  `session` takes two tabs, since a third only repeats what a second does
to the first, two logins, for an old token and a new one, and both expiries of
one token or one of each; deadlock is checked, and none is possible: a user can
always load a page.  In `event_delivery` one message stands for all that cannot be read, since a
consumer skips them alike and nothing is posted there.  In `device_pages` one device is enough because one query is
followed: a second device would only be another key; two submissions are two
deletions, a form opened twice, or an event and the deletion of its device; the
proofs cover the rest.  In `health_monitor` two faults are a service that goes
down and comes back, a service that goes down while the browser is offline, or a
save cut short beside the save of another tab; three
acts are an edit, a save and a reload.  Deadlock is checked in both.

## Fairness

`DeviceService`: a handler whose statement has returned goes on, and a
publisher's call returns (the writer has a write timeout) and its sleep ends;
`main` goes on after its signal.  No statement need ever return, since the code
sets no timeout on one; `ShutdownEnds` therefore says that the publisher is
closed whatever the handlers do, and that `main` returns if statements return
(the deferred `pool.Close` waits for connections in use, without a limit).

`EventService`: the event loop runs what is ready, MongoDB answers or the
driver raises an error, the group gives the partition to a running consumer, and
`disconnect` returns when no handler is in progress.  Crashes, signals, boots,
messages and commits are never forced, and no request body need arrive: before the
signal node's request timeout would end one that stalls, after `server.close`
nothing in the process does.

`RequestMetrics`: requests that were accepted are served, and the card of a
visible page goes on polling, also after a failed poll: `refetchInterval` does
not depend on the outcome, and `SettingsContext.tsx` refuses an interval that is
not positive.  The browser is taken to be online, for polls pause when it is not
(`HealthMonitor` has that).  `Start` is not fair: the compose file restarts nothing.

`Session`: the router resolves a navigation it has begun, and the browser loads
the address that was set.  Users, answers and clocks are not forced.

`DevicePages`: an answer or an error comes to every request (the services and
nginx have limits), and a timer of five seconds ends.  Users, other clients and
the pipeline are not forced.

`HealthMonitor`: the interval timer of a page in sight fires, a paused poll resumes
there once the browser is online, and a request ends.  The dot is promised to catch
up only while the metrics bar stays on the page and the browser stays online, which
nothing forces: browsers stop timers of hidden pages, /login has no bar, and no poll
is sent offline.

## What the documents say and the code does not do

* `kafka_event_publisher.go:53`: the key ensures ordering per device.  Two
  goroutines race for the partition (`topic_order`).  What does hold, and is
  proved: the created event has the oldest timestamp.
* `README.md:66`: shutdown flushes messages.  `main` does not wait for the
  publisher goroutines (`shutdown_flush`).
* `specs/phase3.md:35`: each event is processed at least once.  The consumer
  swallows the error of a failed insert and commits (`at_least_once`), also the
  error of a MongoDB client that a second signal closed under it.  And before the
  group's first commit a message in hand at a crash is passed over by the next
  assignment, which begins at the end of the topic (`kafka-event-consumer.js:51`).

More were met that no run is spent on, since the models show them and the
properties allow for them:

* `specs/phase3.md:28`: a deleted event has the name before deletion.  An update
  that commits between FindByID and DELETE makes it an older name; `Announce`
  of `DeviceRegistry` says what does hold.
* `openspec/specs/web-auth/spec.md:34`: with a valid token in storage a
  protected page renders normally.  The hooks do not look at storage: a tab
  loaded before another tab's login has none (`TokenlessPagesAreForeign` says
  that this is the only way).
* `README.md:66`, again: in-flight requests complete.  On the Node side a POST whose
  body arrives after MongoDB was closed is answered 500 (`RejectEvent`), and one
  whose body never arrives keeps the process from exiting (`ShutdownCompletes`).
* `openspec/specs/ux-live-metrics/spec.md:98-106`: the traces are a ring of 200, the
  oldest overwritten; lines 111 and 117: an answer has at most 200.  The code
  appends for ever and answers up to 10000 (`metrics_handler.go:38`, `:85`).  Here
  the documents contradict one another: `README.md:63` has "all traces preserved
  for process lifetime (no cap, no eviction)", and the comments and tests of both
  handlers agree with it.  CountersAddUp follows those, and is what a ring would
  break.
* `openspec/specs/ux-live-metrics/spec.md:24`: an interval of 0 disables polling
  and the dots keep the last known state.  `readValue` reads a 0 as the default
  and the panel refuses it, so polls go on: TypeOK and DotCatchesUp of
  `HealthMonitor` hold of the code and not of that line.
* `openspec/specs/web-dashboards/spec.md:18-21`: a service that answers non-200 or
  times out is shown red.  A fetch that fails is a TypeError and the dot gray, as
  `ux-live-metrics/spec.md:16` has it; a 503 over cached data is amber.
* `openspec/specs/ux-live-metrics/spec.md:17`: after a 503 the dot is red.  It is
  amber when an earlier poll had succeeded (`Dot`: an error that is no
  TypeError over cached data is stale); the rules at lines 32 and 33 of the
  same file say both.

ADR 002 (no outbox) and ADR 004 (no idempotent consumer) accept that an event
can be lost before it is published and stored twice after a redelivery; the
models allow both, and the properties say what holds nevertheless.

## Proofs

`tlapm` checks every proof from nothing in about fifteen minutes.  The only
assumptions are those on constants, named in the modules that declare them.

* `DeviceServiceProofs`: the inductive invariant is `TypeOK` with `HandlersOK`
  (what a program counter implies of its call: a handler at `write` holds a
  valid row, one that was answered 2xx has committed), `PublishersOK` (a
  publisher exists only for a committed, answered write) and `EventsAreTrue`.
  Without the first two an append could announce anything.  `CopiesInv` bounds
  the copies of an event by what its publisher can have sent: every attempt
  behind it in full, and what the current one has sent so far (`Sendable`).
  `PublishersRunDown` is the part of PublishersEnd that no fairness is needed
  for: `StepsLeft` counts the steps a publisher can still take, each of its
  steps lowers it, and no crash, shutdown or other request raises it or starts
  the publisher again.  It needs that the attempt and the copies stay within their
  bounds, and that one not yet stamped is at its first attempt (`FirstAttempt`).
  Whether the steps are taken is what TLC checks, under fairness; the run has one
  process, and that the next one leaves the publishers of the last alone is in the
  proof.
* `DeviceServiceOrderProofs`: `LifecycleOrder` needs that a creation about to
  INSERT owns an id nobody else has used (`FreshIds`) and that a deleted device
  has no row (`DeletedIsGone`); `CreatedStampedFirst` needs that an event of an
  existing device was stamped after the device's `CreatedAt` was read
  (`CreatedBefore`).  `ReadsAreCurrent`, an action property, needs an invariant
  about the table and not about the reader: a device whose creation or update
  committed has a row until a deletion commits (`RowsStay`).
* `DeviceServiceRefinement`: every step of the service is a registry step or a
  stutter.  A creation needs that no change has used the id
  (`CreatedIdsAreNew`), the announcement of a deletion that its name is one the
  device had (`DeletionsHaveOrigin`).
* `EventServiceProofs`: a commit copies the owner's position, so everything
  below the position must be settled (`ReadOK`: stored, refused, in error, or passed
  over before the first commit, so that the theorem does not say more than the code
  keeps until then), and a handler that returns
  moves the position past the message it held, so it must hold the one at the
  position (`HandOK`).  For the duplicates, copies, holders and the owner still
  to read are counted together: every assignment delivers an offset once.
  `ValidInv` says that what is stored, held after its parsing, or being posted
  has passed createEvent, which is what StoredAreListable needs.  The refinement
  of `EventLedger` adds the order of the offsets (`LedgerInv`): what was passed over
  lies before what was committed (`SkippedOK`, `PassedOK`), and the owner stands
  at or beyond the committed offset and beyond what was passed over (`AheadOK`),
  so that no commit moves the group back.
* `RequestMetricsProofs`: the counters lead the traces (`Lead`: a failed trace is
  counted before it is pushed, a request before it is served), and so does what
  a reader has loaded, since it loads the traces first and counters only grow
  until a restart, which ends every reader (`ReadersOK`, `DownOK`).  For
  `CountersAddUp` the lead is made an equation: each step moves one request from
  one set of the sum to another, and the counters with it (`Balance`); a stopped
  service leaves none under way (`NoneLeft`).
* `SessionProofs`: the login in storage is also in the React state of the tab it
  belongs to (`OwnLoginHeld`), so the page that checkAuth lets in with an empty
  state is let in by a login of another tab (`PagesExplained`).  `RedirectsRunDown`
  is the part of NavigationsSettle that needs no fairness: a redirect of checkAuth
  removes the token it redirects for, so its second run arrives, and the removal
  lengthens no redirect of another tab.
* `DevicePagesProofs`: `PagesInv` is `TypeOK`, `FlowInv` and `CacheInv`.
  `FlowInv` adds to DialogIsOfPendingDeletion and ProgressIsReal that one deletion
  is under way at a time (`OneDeletion`: the dialog's buttons are disabled while
  one is pending), without which the end of one could close the dialog of
  another.  `CacheInv` says that an answer on its way which is not raced, and
  data at rest which are not stale, have what was asked for; and that data on the
  page are never stale at rest, since `Mounts` fetches them.  The link to the
  mutations is `InvalidatesChanges`: what onSuccess invalidates, by prefix, covers
  what the mutation changed.  `LoadsRunDown` is the part of PagesComeToRest that needs
  no fairness: `LoadLeft` and `MutationLeft` count the steps to the end, and only the
  user, or a mutation whose own count falls, begins a load again.
* `HealthMonitorProofs`: `PollInv` ties the error on the page and the answer on
  its way to a poll that was cut off; ReloadKeepsIntervals is inductive with
  the types, since the steps that take an interval out of `foreign`, a load
  and a save, leave it the same in force and in storage.

Every invariant, action property and refinement the runs check is proved.
Only model-checked is all liveness (`PublishersEnd`, `ShutdownEnds`,
`EventsSettle`, `ShutdownCompletes`, `CardCatchesUp`, `NavigationsSettle`,
`PagesComeToRest`, `DotCatchesUp`), which is out of the prover's reach.

## Not modelled

* The order of a timeline: `mongo-event-repository.js:42` sorts RFC3339Nano
  strings, which drop trailing zeros, so two instants of one second can compare
  the wrong way round.  The models' instants are counters; a property would be
  about the digits of one format and nothing else.
* The pipeline as one state space.  `DeviceService` says what can be on the topic,
  `EventService` takes any topic, and `DevicePages` any time of delivery, so each
  covers the others' outcomes; their product is out of TLC's reach and would
  show nothing that these do not, except which names the two validations
  disagree on (a name of blanks is registered and has no timeline).
* A consumer that is started twice (nothing does), the signature of a token, CORS
  and logging (no state), the filters of the trace table and other layout, the
  static routes, the seed script (a client), and the deployment files
  (configuration; what they imply is assumed above).
