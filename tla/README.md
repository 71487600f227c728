# Verification of FuelTracks

FuelTracks is a GPS fleet tracker: devices report over TCP, a server parses
the packets and appends them to Redis Streams, a writer process and the API
process consume the streams through consumer groups, and a React application
shows and administers the fleet. This directory holds TLA+ models of the parts
that carry its state, the TLC configurations that check them, and TLAPS proofs.

## 1. The system

```
 devices --TCP--> tcp-server --XADD--> tracking:stream --group--> writer process --> gps_points, vehicle_latest_state
                      |                      `--------group--> API: locationSubscriber --> Socket.io rooms, alerts:stream
                      |---XADD--> alerts:stream ------group--> API: alertSubscriber --> alerts, e-mail, Socket.io
                      |---XADD--> raw:stream
                      `---SET---> vehicle:state:{imei}, vehicle:online:{imei}
 browsers --HTTP, Socket.io--> API (middleware, controllers, services, models) --> Postgres / Timescale, Redis
```

Every process is started and restarted by PM2 (`ecosystem.config.js`), one
instance of each. All of them are single-threaded Node programs: what
interleaves are the callbacks between two `await`s, the processes, Redis and
Postgres, and in the browser the answers of requests that nobody cancels.

### The pipeline

| component | state | operations | hard behaviour | what makes it correct |
|---|---|---|---|---|
| `backend/streams/redisStreams.js` | the consumer's place in a stream | ensureGroup, readNew, readPending, ack, runConsumerLoop | crash between delivery and XACK, lost replies, trimming, consumer names | every delivered entry is handled again until acknowledged |
| `writer/server.js`, writes of `gpsModel.js` | three buffers, flushes in flight, IDs to acknowledge; the tables | processBatch, flushNow, timer, start, shutdown | flushes overlap each other and the loop; statements fail half-way; signals | acknowledged means stored; nothing is held twice; every report is stored in the end |
| `tcp-server/publisher.js` | the streams, vehicle:state, vehicle:online | publishLocation, publishAlert, publishRawMessage | a pipeline of three commands, errors swallowed, MAXLEN | a handled packet is in the stream |
| `tcp-server/server.js` | buffers and sessions of sockets, caps, connectedDevices | data, processPacket, processConcoxPacket, close | the async data handler overlaps itself; caps counted per packet | places under a cap are open sockets; nothing after the login is discarded |
| `tcp-server/parser/` | none | framing, fields, acknowledgements, validation | chunks cut anywhere, noise, damage | an intact packet arrives with its meaning |
| `backend/subscribers/locationSubscriber.js` | IMEI and geofence caches, geofence keys | processBatch, resolveVehicle, invalidateImei | state key overwritten by the publisher, cache refilled while invalidated, key SET before its alert | stored before shown; a crossing not cut off has its alert; caches follow the database |
| `backend/subscribers/alertSubscriber.js` | alerts, notifications | processBatch | redelivery | saved before acknowledged, sent no more often than saved |

### The API

| component | state | operations | hard behaviour | what makes it correct |
|---|---|---|---|---|
| `vehicleController`, `vehicleModel` | vehicles, `vehicle:imei:*`, imeiCache | create, update, delete, migrate; the resolvers | cache refilled by a read from before a change | a stale entry has a known cause |
| `adminController` (organisations, users, groups), `auditService` | rows, assignments, audit log | create, update, delete | a handler is several transactions; the entry comes after the answer | answers and entries say what was written |
| `vehicleModel`, `groupModel`, `geofenceModel`, `routeModel` (assignments) | link tables | DELETE and INSERTs of a list | overlapping replacements, deadlock | older rows are gone, new ones there |
| `OnboardController`, `billingController`, quotas, edit page | devices, limits, expiry dates | onboard, set limits, delete, renew | read first, write later | quota and paid years kept but for overlaps |
| `reportRepository`, reports of `gpsModel` | none | nine reports | NULL ignition, resets, late points | reports agree with each other |
| lists and counts of `vehicleModel`, `orgModel`, `groupModel`, `userModel`, `gpsModel` | none | findAll, getDashboardStats, ... | each query has its own idea of who sees what | lists, details and counts agree |
| history, alerts, messages, audit log | rows | count and page | rows arrive between the statements; rows of one time come in any order | every row is on a page, but where a page ends among rows of one time |
| `geofenceRouteController`, geofence cache | zones, assignments, a cache | CRUD, assign, resolveGeofences | nothing invalidates the cache | a change takes effect within the time to live |
| `rateLimit` | token buckets | take, evict, prune | eviction at the cap, lazy refill | as often as an own bucket would allow |
| `geocodeController`, `geocodeUtils` | browser cache, LRU, Redis, time of the last call | reverse, shared requests | sleep between check and call | a call waits for those it knows of; true addresses |
| `modules/profile` | the profile row, a process-wide key | get, update, change password | overlapping saves, restart with another key | no save is lost |
| `trackingSocket` | rooms | join, leave, disconnect | membership read asynchronously | rooms follow the page |

### The browser

| component | state | hard behaviour | what makes it correct |
|---|---|---|---|
| `AuthContext`, `axios`, `SocketContext` | token, token of the way back, socket, per tab and shared | answers of any age, 401s, impersonation, two tabs | token and socket belong to the user shown |
| `useVehicles`, `VehicleMap`, `VehicleDetailPage` | list, updates, room | answers against updates | the list is the latest |
| users, groups, organisations, zones, vehicles, devices pages and their modals | list, form, details | answers that say nothing of who asked | what was not touched is kept; one record per form |
| reports, history, messages, audit pages | controls, question, rows | answers overtake each other | what is shown answers what was asked |
| their date ranges | none | time zones, ends of days | a day is that day |
| history, route and fleet map | points, index, table, lines | new points under a running playback | the played point is on the map and in the table |
| `OnBoardDevicePage` | quota, rows, submission | quota changes, double submission | what the page tells is so |
| renewals pages, payment dialog | price, licences | stale price, lost answer | charged as shown, paid as told |

`PROJECT.json` lists every component with its files and status, and the
hazards of this code one by one, each at its line, with the properties that
cover it.

## 2. The modules

```
StreamGroup            one stream with one consumer group
  ConsumerLoop         runConsumerLoop, on top of it
    Writer             the writer process              --implements--> TrackingIngest
    SubscriberLoop     a batch handled entry by entry, one await at a time
      AlertSubscriber
      LocationSubscriber
TcpServer              the three ports and their connection to Redis
ConcoxPackets <- ConcoxStream      bytes of the Concox port  \  composed by
TextPackets   <- TextStream        lines of the text ports   /  MCProtocols
VehicleRegistry, Tenancy, Licences, RateLimit, Zones, Geocode, OrgProfile      MCServices
Replacement                                                                    MCReplacement
Session, LiveDashboard, AdminPages, QueryPages, DayRanges, Playback,
OnboardPage, Renewals, FleetViews, FeedPages, Reports                          MCConsole
```

`MCWriter`, `MCLocationSubscriber` and `MCTcpServer` give values to the
constants of theirs; `AlertSubscriber` needs none. The constants of the models that
MCServices composes are its own constants, which `services.cfg` gives their values, so
that what is proved of it is proved for all of them. So it is with MCConsole, where
each model but two has its values in one record, a constant (`ForReports`,
`ForPages`, `ForViews`, ...), for which `console.cfg` takes a small one of the module
(`SmallReports`, `SmallPages`, `SmallViews`, ...). Only the names of pages and roles, which
the code fixes, are in the module itself. The proofs are in
`WriterProofs`, `AlertProofs`, `LocationProofs`, `TcpProofs`, `ReplacementProofs`,
`ServicesProofs`, `PageProofs` and, on top of it, `ConsoleProofs`.

The models below MCServices and MCConsole share no state in the program, or
only through what one of them already contains. They are checked together: the
variable `which` says which model a behaviour is one of, and each model finds
its variables in the first of a row of places. So one run explores each of
them exactly as a run of its own would.

One action is what runs between two `await`s of one chain of callbacks. An
awaited call that can fail has an action for its success and one for its
failure, and where the reply may be lost after the effect has happened, the
failure may come with or without the effect.

### Pipeline

**StreamGroup** (`redisStreams.js:30-95`). `stream` is everything ever added,
an entry is named by its position; `trimmed` is what MAXLEN has removed, and the
group is `lastDelivered`, `pel` and, of the pending entries, the `owned` ones:
those under the name of the process that runs now. `XAdd`, `EnsureGroup`,
`Deliver`, `PendingEntries` and `XAck` are the commands the library sends.

**ConsumerLoop** (`redisStreams.js:110-152`). `pc` is where the loop is, `mode`
whether it is still in its one pass over the pending entries (`Recover`), reads
new ones (`Poll`) or was stopped. With `StableName = FALSE` a restart
begins under a new consumer name, as it does when neither `HOSTNAME` nor
`CONSUMER_NAME` is set, and `owned` starts empty.

**Writer** (`writer/server.js`, and the writes of `gpsModel.js`).
`processBatch` is `DropMalformed`, `RecordUnknown`, `BufferRow` and
`ResolveThrows`, one entry at a time; `flushNow` is `TakeBuffers`, then
`SavePoints`, `UpsertStates` or `FlushFails` with `Requeue`. It has three kinds
of caller, the loop, each callback of the timer (`Timers`) and the signal
handler, each with a `flight` of its own: what it has taken and how far it is.
The upsert is refused when it holds two rows of one vehicle, as Postgres does.

**TrackingIngest** is what a writer promises, without buffers, processes or
restarts: a report is published, delivered, stored and acknowledged, and is
pending from its delivery to its acknowledgement. `ImplementsIngest` is the
refinement.

**SubscriberLoop** is the part the two subscribers of the API process have in
common: the entries of a batch in order, `at` the await the current one is at,
`Handled` for `acked.push`, and `Failed` for the catch block that goes on with
the next entry. **AlertSubscriber**: lookup, `saveAlert`, `dispatchAlert`, with
the number of rows and of notifications of each alert. **LocationSubscriber**:
the lookup, the read of the previous state, the two writes, the alert checks on
the keys in Redis, the XADDs to `alerts:stream`, the broadcast; and next to it
the publisher, which SETs the same state key after its XADD. A key with a time to live may
be gone when it is read (`MayBeGone`). `lost` and `astray` note what a handling costs that is
left with a geofence alert in its queue (`GiveUp`).

**TcpServer** (`tcp-server/server.js`, `publisher.js`). `chunks` are the data
events so far and `task` the activation of the async handler that each one
started: at which packet it is and at which await. `commands` is what the Redis
connection has under way: Redis takes them in order (`RedisReply`), refuses one
(`RedisRefuses`), or the connection breaks and everything is sent again
(`Reconnect`). Activations whose await is over run in any order, which is more
than the microtask queue does. A packet on a text port is one action,
`TextPacket`: the ReferenceError of `processPacket` ends the process.

**ConcoxPackets, ConcoxStream** (`concoxParser.js`, `concoxCrc.js`, with the packets
as `deviceSimulator.js` and `verifyConcox.js` build them). The packets are real
bytes: built, checksummed, damaged, cut into chunks and parsed. Each message is
written in MCProtocols next to what it means according to the protocol, so that
parser and builder cannot agree on a common mistake. **TextPackets, TextStream**
(`parser/` of BSTPL-17 and AIS140, `packetValidator.js`) do the same with
fields in place of bytes; a number is itself, a word is a word.

### API

**VehicleRegistry**: a step is one statement, one Redis command, or what a
handler does between two awaits. A resolver asks the hash (`ReadHash`, which may fail and
is then taken for a miss), keeps the answer in its map (`KeepEntry`), or reads the row
(`ReadRow`) and stores it later (`StoreRow`): four steps, between which every handler
fits. A handler's DEL may fail, and nobody hears of it (`InvalidateFails`). `excused` collects
the IMEIs whose entries one of the named causes may have left stale, and `StaleHasCause`
says that there is no other cause.

**Tenancy**: a handler is a check that reads, the write of the row, the filter of a
dealer's list, the replacement of the assignments and the audit entry, with the answer
before the last. The write may be refused by what the schema asks of it (`Accepted`: the
organisation exists, the e-mail is nobody else's) and any statement may fail
(`StatementFails`). An update of a user may move it to another organisation, and a dealer's
list is then filtered by the organisation that was fixed at the write (`Wrote`, `Filter`),
not by that of the row. Who is a dealer is a matter of the type, which an update may change.
**Replacement** takes the replacement of a list
apart, down to the row locks of READ COMMITTED, for three kinds of table: with
a unique constraint and ON CONFLICT (groups, zones), without one, and with one
row per vehicle (routes).

**Licences**: the quota is read, then compared, then devices are inserted, with
the waits and the deadlock of unique indexes; a renewal reads the expiry,
writes and commits; the edit page writes back what it was opened with. `excess`
and `laps` count the overlaps that may cost something.

**Zones, RateLimit, Geocode, OrgProfile** follow one file each. `Zones` keeps
the `history` of what was assigned, to say what a cached list may be; `RateLimit`
has for each address the bucket it ought to have (`earned`); `Geocode` the calls
upstream with their time; `OrgProfile` what was last written of each column.

**Reports** are operators on the points of a vehicle, in the order in which the
SQL windows compute them, checked on every combination of points. **FleetViews**
has the WHERE clauses of the lists, the details and the counts, over rows that
change by deactivation, migration and assignment. **FeedPages** is
LIMIT/OFFSET paging of rows that keep coming, the same for histories, alerts, messages
and the audit log: `slipped` counts the rows that came between the count of a page and
its rows. The queries order by a time alone, so each read may have the rows of one time in
another of the `Orders` that ORDER BY permits; `cut` notes the times among whose rows a page
ended.

### Browser

**Session**: storage shared by the tabs, one or more, each tab's user, socket and
requests under way. **LiveDashboard**: the list, the page and the map of one browser, the
queues of the socket in both directions, the rooms on the server.
**AdminPages**: six pages with a list, a form of a near and a far part (the
device limits, the vehicles of a group or a zone), the panel of details, and
others who write the same records. **QueryPages**: thirteen pages of the form
"controls, question, rows", told apart by a table of what asks and when.
**DayRanges** turns their controls into times. **Playback** is what the three
maps draw and play. **OnboardPage** and **Renewals** are those pages with the
server's part in one step; Licences has the server's overlaps.

### What is abstracted

- Payloads are records of what the checks look at. A batch and a buffer are sets
  of stream positions, handled in order. Shapes of zones, columns of a row and
  texts are versions: what a property can tell apart.
- Time: where the code compares the clock and nothing is said about durations,
  both outcomes are possible. RateLimit, Geocode, Zones, DayRanges and Renewals
  have a clock.
- `MAXLEN ~` trims lazily; the model trims at once, which is the earliest it may.
- SIGTERM of the API process calls `process.exit` without waiting: a crash.
- LocationSubscriber leaves out the writer, which writes the same two tables
  from another group: a fault of one of the two is then not repaired by the other.
- TcpServer names Concox packets by their type and whether they carry a fix; the
  bytes are ConcoxStream's. A device sends its login first and once per connection.
- A place in Playback is a number of kilometres along a road; in the packets,
  coordinates are the integers the devices send.

## 3. What is checked

All runs have `CHECK_DEADLOCK FALSE`: once the bounds on entries, requests or
acts are reached, the system is idle and really has nothing to do. That nothing
waits for ever where it must not is stated by the two liveness properties.

| run | question | distinct states, time |
|---|---|---|
| `writer_safety` | Is anything acknowledged and not stored, held twice, shown without history; does the writer implement the promise — with every fault | 570 k, 100 s |
| `writer_liveness` | Is every delivered report stored and acknowledged in the end, through crashes, signals and database failures (`EventuallyAcked`), and is a pending entry always in the writer's hands once recovery is over (`PendingIsHeld`) | 13 k, 20 s |
| `alert_safety` | Is an alert saved before it is acknowledged, sent no more often than saved, and final once acknowledged — with every fault | 71 k, 5 s |
| `location_safety` | The same for reports: stored before acknowledged, stored before shown, final once acknowledged; do the geofence key and the alerts agree, and has each crossing raised its alert, but where the handling was cut off — with every fault, and with keys that expire | 4.1 M, LOCTIME s |
| `tcp_safety` | Are the places under a port's cap its open sockets; is a report discarded that came after the answer to the login; are the streams exactly what was handled — with lost connections, refusals and crashes | 1.5 M, 160 s |
| `protocols` | Do intact packets arrive with what they were built from, however the stream is cut, and does damage or noise harm only its neighbours | 160 k, 170 s |
| `replacement` | Of three overlapping replacements of assignments: are older rows gone, is what was asked for there, does every one end | 200 k, 100 s |
| `services` | Tenancy, registry and caches, licences, rate limit, zones, geocoding, profile: does each keep its promise while requests overlap | 1.2 M, SERVTIME s |
| `console` | Reports and lists, live dashboard, sessions, and the pages of users and administrators: is what they show and store what was asked | CONSTATES, CONTIME s |
| `tcp_text`, `registry_deleted`, `location_retry` | violated: section 6 | seconds |

One of these runs leaves faults out on purpose. `writer_liveness` uses
`SlowFleetSpec`, in which no vehicle reports twice, since two reports of one
vehicle in a flush wedge the writer for good, and it has no `xack` or `resolve`
fault, since an entry whose lookup or XACK failed is left until the next
restart (section 6).

In `location_safety` the process may die, and Redis may fail, between the SET of the
geofence key (220, 226) and the XADD of its alert (242). The retry then finds the key
changed already and is acknowledged without the alert. `FenceAlertFollowsKey` and
`CrossingRaised` say that this is the only way to lose one, neither a failing
database nor a lost reply, a redelivery, a trimmed stream or a key that expires; and that
key and alerts agree again from the next crossing. `AlertsSurviveRetry` is what the comment
in the code says, without the exception, and `location_retry` finds it violated.

### Properties that name causes

Much of the API and of the browser is written without locks, versions or
cancelled requests, and what such code promises is promised only while certain
things do not overlap. There the property says so exactly: a stale cache entry,
a device above the quota, a paid month that is missing, a socket in the wrong
room, a form that stores what nobody typed has **one of the causes the module
names**, each a definition with the line it comes from. The model has every
overlap; the property fails when there is another way to reach the bad state.
`StaleHasCause` (VehicleRegistry), `ExcessHasCause` and `ShortfallHasCause`
(Licences), `DashboardHolds`, `SessionHolds`, `PageHolds`, `QueryHolds`,
`PlaybackHolds`, `OnboardHolds`, `RenewalsHold`, `ViewsHold`,
`FenceAlertFollowsKey` and `CrossingRaised` are of this kind. Such a property does not
catch its named causes, which do happen, and it says so in the hazards' notes; section 6
lists them for a maintainer who wants to remove them.

Where the source itself claims more, a property without the exception states the claim and a run
shows it violated (`AlertsSurviveRetry`, `DeletedIsForgotten`, `TextIsPublished`), or section 6
quotes it.

### Bounds

- `MaxEntries` (2 or 3): entries in a stream. Two entries are the fewest that
  can share a batch, a flush or a vehicle; the third lets one arrive during the
  flush of the others.
- `BatchSize = 2`, `BatchMaxRows = 2`: both a full and a partial batch, and both
  a flush by rows and by time, occur.
- `MaxLen`: below `MaxEntries` in the safety runs, so that trimming hits
  delivered, pending and unread entries; not below it in the liveness run, since
  a trimmed entry is never stored.
- `PendingCount`: at least the number of entries in the liveness run, so that one
  page of XPENDING holds them all. A longer list is not drained.
- `Timers`: two callbacks of the timer inside `flushNow` at once, next to the
  loop and the signal handler, are the fewest that overlap each other.
- `Many = 2`: counts of saves and mails stop there; "more often" needs one and two.
- Payloads: `MCPayloads` has two vehicles or a known and an unknown one, and an
  entry that is not JSON. `MixedReports` makes the checks of idling and of the
  geofence fire, in and out, with a report from a device's memory (not live) and an unknown
  device.
- `MaxChunks = 2` of one to three packets each: two activations of one socket
  overlap, and the second may come before or after the answer to the login. The
  chunks hold every kind of packet, with and without a fix. `MaxPublished = 2`
  bounds what reconnections add to the streams again. Two text devices for one
  place: one is rejected while the other holds it and takes it after.
- MCProtocols: two streams of the Concox port and one of each text port, with every
  kind of message the parsers tell apart, in chunks of 1 (every boundary), 7 or 5
  (boundaries inside every field) and all at once; one damage per stream, by a value
  that is harmless, a start mark or delimiter, or a wrong length; coordinates on both
  sides of the equator and of Greenwich, and on the equator.
- MCReplacement: three transactions over 2 × 2 keys. Two overlap, the third is
  before or after them; lists in both orders wait for each other in a circle.
- MCServices: two requests overlap (three in Licences, so that one is before or
  after two that overlap), one vehicle or IMEI, two rows of it, two organisations, two users
  and two e-mails, so that one is taken; devices alone and together, in both orders and twice. The
  rate limit has room for two buckets and three addresses, so that one is evicted; the
  geocoder has a cache of one, two places and three calls, of which two may be known or unknown
  to the third. Clocks run to 3 or 5 units, long
  enough for every period the code compares (`Ttl`, `Gap`, `IdleAfter`) to pass
  after something has happened.
- MCConsole: `Acts` of 3 to 5 bounds what the user does, two requests of one
  kind are under way, two records, two vehicles, pages of two rows: a stale answer
  needs two questions, and a stale answer to a form needs an opening, a closing and
  an opening. Reports have up to four points of five kinds (moving, idling,
  stopped, without ignition, after a reset of the odometer), the paged lists up to five
  rows in pages of two.
  DayRanges has time zones on both sides of UTC and a day of thirty-two ticks in
  which a second, a minute and a millisecond differ. The session has three users above
  each other and one tab with three tokens or two with two (`Issues`), so that an
  impersonation meets another login, and at most two requests under way (`AtOnce`):
  beyond that nobody clicks; the program has no such limit.

The histories of a vehicle, sockets, ports, groups and records are independent
of one another in the code, so that more of them add no new kind of step; the
proofs below do not depend on the bounds that are constants of the modules.
Symmetry is used for sets whose members only one model has and which nothing
orders or singles out: the vehicles, times and timer callbacks of `MCWriter`, the
text sockets, `Records`, and the sets `Ones`, `Twos` and `Askers` of Tenancy and
VehicleRegistry. No liveness property is checked under symmetry.

### Fairness

`Writer!Fairness` is used by `writer_liveness`. Weak fairness of `Start` is PM2
(`ecosystem.config.js` restarts the process), and of `LoopStep`, the timer's
actions and `ExitUnflushed` is the event loop, which runs what is ready. Strong
fairness of `SavePoints`, `LoopFlushed`, `TimerFlushed` and `ExitFlushed` says that a
statement that is tried again and again succeeds at some time, when Postgres can
execute it at all: an upsert with two rows of one key is never enabled and no
fairness makes it succeed. Nobody has to publish and no fault has to happen.
`EventuallyAcked` is conditional on `StaysUp`: a process that is killed for ever
finishes nothing.

`Replacement!Fairness` is weak fairness of the steps of each transaction that
has begun: Postgres executes a statement that waits for nothing, grants a lock
that is free, and ends one of the transactions that wait in a circle. No
transaction has to begin.

## 4. What is proved

Eight modules of theorems, for every value of the constants under the
named assumptions of each module (finite or infinite fleets, any batch size,
stream length, number of timer callbacks, any set of faults; any transactions,
keys, lists and kinds of table; any organisations, users, devices, clients, places
and overlapping requests; any tabs, tokens, messages under way, records, questions,
routes, rows and sizes of a page). All are about the specifications the runs check, and a
theorem that names a property of a run states the very definition the run has.

| theorem | states |
|---|---|
| `TypeCorrect`, `Invariance` (WriterProofs) | `Spec => []TypeOK`, `Spec => []WriterInv` |
| `AckedStored`, `HeldInOnePlace`, `StateRowHasPoint` | the three safety properties of the writer |
| `PendingHeld` | `PendingIsHeld`: nothing pending is forgotten once recovery is over |
| `Implementation` | `Spec => ImplementsIngest` |
| `AlertInvariance`, `AlertTypeCorrect`, `AlertAckedSaved`, `AlertSentSaved`, `AlertFinality` (AlertProofs) | the invariant, the types and the properties of the alert subscriber |
| `LocationInvariance`, `LocationTypeCorrect`, `LocationAckedStored`, `LocationShownStored`, `LocationFinality` (LocationProofs) | the same for the location subscriber |
| `FenceFollows`, `CrossingsRaised` | under any faults, crashes and failures of Redis among them: the geofence key and the alerts agree, and no crossing is acknowledged without its alert, but where a handling was cut off between the two |
| `TcpTypeCorrect`, `PlacesHold`, `AnsweredKnown` (TcpProofs) | types, caps and sessions of the TCP server |
| `PublishedHandled`, `HandledPublished` | what is in a stream was handled and not discarded; what was handled is in the stream |
| `ReplacementInvariance`, `ReplacementTypeCorrect`, `OlderRowsGone`, `AskedThere` (ReplacementProofs) | constraints of the tables; older assignments are gone, and those asked for are there |
| `ServicesInvariant`, `ServicesTypeCorrect` (ServicesProofs) | each of the seven models of MCServices keeps its invariant and its types |
| `StaleCaused` | `StaleHasCause` of the registry and its caches, with each lookup in its four steps and a DEL that may fail |
| `LicencesHeld` | `ExcessHasCause` and `ShortfallHasCause` of the licences |
| `TenancyHeld` | `EntriesMatchWrites` and `AnswerIsTrue` of the administration, whichever statement fails or is refused |
| `ServicesHeld` | `LimitIsKept`, `ZonesAreRecent`, `GeocodeHolds`, `ProfileHolds`; of geocoding, that a call comes a second after each that its request knew of, not that any two calls are a second apart, which is false (section 6) |
| `ConsoleInvariant`, `ConsoleTypes` (ConsoleProofs) | each of the eleven models of MCConsole keeps its invariant and its types |
| `SessionHeld` | `TokenIsOfUser`, `WayBackIsOwn`, `SocketIsOfUser` of each tab |
| `DashboardHeld` | `ListIsCurrent` and `RoomsFollowPage` of the live dashboard |
| `PagesHeld` | `PageHolds`, `QueryHolds`, `RangesHold`, `PlaybackHolds`, `OnboardHolds` and `RenewalsHold` of the pages |
| `ViewsHeld` | `ViewsHold` of lists, details and counts, and `EveryRowIsSeen` of the paged lists, whatever order each read has the rows of one time in |

One of them has hypotheses besides the assumptions. `PendingHeld` is about a process
with a stable name (`StableName`) whose Redis, lookups and XACKs do not fail (`Quiet`),
for behaviours in which MAXLEN removes nothing and the pending entries fit in one XPENDING:
without any one of these an entry is left until a restart, or for good (section 6). The
database may fail and the process may crash or be stopped at any time.

**The writer.** `AckedIsStored` is not inductive: an entry gets acknowledged
because a caller of `flushNow` holds its ID, so `WriterInv` must say what it means to
hold one. `Progress`: IDs at phase "states" have their points, IDs at "xack" have
both rows. `BuffersAligned`: the three arrays, and the three parts of a flight, hold
the same rows, so that a flush of the points is a flush of the IDs. `OnePlace`:
an ID is in one place only, or a second flush could put back what a first one is
about to acknowledge. `RowsKnown`: what is buffered has a vehicle.
`AckedSettled` covers IDs that `processBatch` returns after a flush. Both
tables only grow, and a state row is never removed (`latestState[v] # 0` is
stable), so `Settled` is stable. The proof goes action by action; the lemmas say what
the two statements, the loop and the stream operations keep.

`PendingIsHeld` is proved with one more invariant, on top of `WriterInv`. A restart
empties the writer's hands while the PEL stays, so `PendingInv` says that during recovery
what is not in hand is still owned under the same name, that the page XPENDING returned
is all of it (this is where the PEL must fit in one), and from then on that each pending
entry is in the batch, acked, buffered or in a flight. It is preserved only by steps from
states in which nothing was trimmed and the PEL fits, so the theorem carries that as a
temporal hypothesis, `[](...)`, instead of assuming it of one state.

**The refinement** maps `acknowledged` to `done`, `pel` to `pending` and
`gpsPoints` to `table`. A flush is `Store`, an XACK `Acknowledge`, which needs
`WriterInv`; everything else, crashes included, changes nothing
the promise talks about.

**The subscribers** have the same loop, whose lemmas come first in both modules: `LoopHolds` says that a batch is
pending, that `acked` and `batch` are disjoint, and where the loop can be while
they are not empty. On top of it each module says of the current entry what has been done
for it (`CurrentIsDone`) and of `acked` what it implies (`ListedIsStored`).
Finality follows from `LoopHolds`: only pending entries are handled, and an
acknowledged entry never becomes pending again.

**The geofence.** That a key which says "inside" has its alert fails between the
two writes, so the invariant has to say where that may be: `KeyIsBacked` names the entry
the loop is at, its alert being still in the handler's `queue`, or a vehicle that is `astray`,
and `CrossingIsBacked` says that an entry at which the key changed has its alert, or is that
entry, or is `lost`. The handler is followed from the GET of the key to the last XADD. The lemma
`FenceGivenUp` is about the entry being left on the way, by a crash or a refused XADD: only
what is then in its queue becomes `lost` and `astray`. Before the check the queue holds nothing
about a geofence (`MovingTypes`), so that an earlier crash costs nothing.

**The TCP server.** `PlacesHold` counts sets: opening a socket adds one to
`Open(p)`, closing removes one that is there, so that the guard `current > 0` of
`releaseConnection` never bites. For `AnsweredIsKnown` the invariant says that an answered
socket has a session or is closed, that a running handler of a chunk that came
after the answer finds the session, and that the death of the process closes
every connection made, so that no answered socket gets a chunk without a session.

The types of the TCP server are not obvious either: a count of connections is a
natural number only because a socket that closes was counted (`Counted`). What is in the
streams is followed along the life of a command: an activation begins with a packet, leaves it,
asks Redis for its XADD (`Begun`, `Left`, `AskedFor`), the command is under way (`Sent`),
and Redis executes it, refuses it, or the connection breaks and everything is sent again, which adds
it a second time and never a third packet's. `PublishInv` goes along it backwards, from
the entry to the packet, `HandledInv` forwards, from the packet that was passed to an entry,
a refusal or a command that is still to be executed (`UnderWay`, `Delivered`).

**The replacement of assignments.** That older rows are gone after a commit must be
known of the transaction before it commits, and so of what its DELETE saw:
`OlderAreTaken` follows the older rows of a key from the snapshot (`seen`) to what is
removed (`out`) to the commit. It needs `Ages`: rows in the table are of
committed transactions and a transaction adds only rows of its own, so that
nothing that appears later can be older than a snapshot already taken.
`Unique` is the constraint in the form in which it is inductive: not only the
table, but what each open transaction sees is free of collisions, and so is
what two of them are about to add, which is where an INSERT that waits for the
rows others hold is needed. The proof takes from each action what its own record
becomes (`Sound`), and from `Commit` what happens to the others.

`AskedIsThere` needs the other direction: what a transaction inserted stays until
somebody takes it. `Asked` says of an open transaction that each pair it has inserted so
far is in its rows or was in its snapshot and is in the table still (`Seen`, `Removals`), that a row it
removed to make room comes again (`Redone`), and of a committed one that what is missing is
`Excused` by a transaction that committed after its DELETE.

**The API.** A behaviour of MCServices is one of seven models, and `ServicesInv` says of
each its own invariant over the places `s1` to `s9`. All seven follow one pattern: a request
is of one of a few kinds (sets of records), told apart by how far it is, each kind saying
what the request has read, and the invariant says what the reading is worth now.

- *Registry.* `RegistryInv` is the types and `StaleHasCause` itself, which is inductive
  once a request's kind says what IMEI and entry it has in hand: a cached entry is current, or
  the IMEI is excused, or a request that will invalidate it is under way. Each statement either
  leaves the row as it is, is followed by its invalidation, or excuses; a DEL that fails excuses
  when the hash has a stale entry. What a resolver has in hand is of no account until it is
  stored, and is then compared with the row.
- *Licences.* That a tier exceeds its limit only by `excess` needs room for what an
  onboarding is about to insert: `OnboardSound` says that an onboarding that has counted and
  was not excused still has room for its whole batch (`RoomFor`), that its devices and vehicles
  go in step, and `Apart` that no two onboardings insert one vehicle. `WriteSound` says the same of dates: what a
  renewal is about to write falls short of what is owed by no more than the writes it has
  not read (`lapped`).
- *Tenancy.* `Answered` says of each request, by its kind (`ToCome`, `Serving`, `Served`),
  what its answer, its `changed` tables and the entries of the log are so far (`Told`); the foreign
  keys are in `TableTypes`. `Fitting` says what a request of each kind may name, and with what
  `Accepted` reads in the statement itself a user that moves is still of an organisation that is there.
- *Rate limiter.* `Agrees` says that each bucket, were it refilled now, has what its address
  has `earned`; `Buckets` bounds the tokens and keeps the keys apart, and the lemma about `Prune`
  says that only buckets which would be full again are dropped, since half an hour idle fills one.
- *Zones.* `Was` says that a list is what a vehicle had at some time of an interval, which
  only grows; `Since` turns the age of a cached list into that interval.
- *Geocoding.* `OneWaits` says that at most one request at the API waits for a browser and
  place, and that the browser knows it; with it an answer ends the only waiting. `Spaced` is about
  a call and the ones its request knew of (`after`), and says of a request that sleeps that it
  will wake a second after those, while the time of the last call bounds them all. The lemmas on `CacheSet` and
  `LruGet` say what a bounded map keeps.
- *Profile.* `SameAsStored` relates each column to what was last written of it, the key by
  its text and the process that encrypted it; `Recorded` says that what a save has read is still
  there when it writes and that it changed only what was sent, unless it was overtaken.

**The browser.** A behaviour of MCConsole is one of eleven models, and `ConsoleInv` says of
each its own invariant over the places `s1` to `s14`. PageProofs has the pages that ask, store
and pay, and the points of the reports; ConsoleProofs the session, the dashboard, the lists and
counts, the routes, and what follows for all of them. Requests carry nothing that tells whose
answer they get, so each invariant says of what is under way what it is still good for.

- *Session.* `Proper` says of a tab that it has a socket exactly while it has a user, and is at
  the login page when it has none and waits for nothing, or for a login: a login is only ever
  answered in a tab without a user. `Owned` says whose the socket is; that is lost only when one
  user follows another in a tab (`switched`), and found again with the next socket. `Sends` is
  about the token in the storage and a tab that no longer waits for `/me`: what touches
  the token in another tab, or by an answer that is too late, makes the tab one of `disturbed`.
  `WayInv` is about the way back: without one the token is the owner's, with one the way back is, and
  then there is a token, unless it was `leftOver` from a session that ended without a logout.
- *Dashboard.* `ListInv` says that each shown vehicle is `missed`, or shown as it is, or that an
  update which says how it is is on its way (`Current`), and that none on its way is newer than
  its vehicle; so a handled update that says nothing of now is named by the model when it makes the
  list older. For the rooms, `RoomsInv` looks at the messages under way: a room that the socket is in or
  waits for is the page's, or its leave is on its way (`WillLeave`), or it was entered `astray`; a
  join on its way is the page's or has its leave behind it (`LeavesAfter`); and the room of a page
  with a map is entered, being checked, or to be joined by a message with no leave of it behind
  (`WillJoin`), unless the map is `deaf`. When the queues are empty this is `RoomsFollowPage`.

- *Administrator's pages* (`PageInv`). `Reads` says of each copy of a record, in the list, in an
  answer under way, in a form or in a request, that the record holds it still or was written
  since. So what a form stores without being typed was read of its record, which `NearKept` and
  `FarKept` need; what slips through is `muddled`. `FollowInv` looks at what is under way: the newest
  answer has the rows of now, or another list is still asked for, or nothing is left that
  could replace a list that is right. `OnceInv` says that the form which wrote a row is submitted
  no more, for which `CountInv` counts the writes that are still to come.
- *Queries* (`QueryInv`). `QueryRows` is about the newest request: it is for what was asked last, or was
  overtaken (`late`). When none is under way the rows answer the last question, or one of the
  exceptions was noted. `QueryControls` keeps the controls to that question.
- *Date ranges* (`RangeInv`). What was asked is a day, by the page (`AskedInv`), and a history whose
  range is as long as a day begins at a midnight (`HistoryInv`), without which the buttons
  "today" and "yesterday" could show a day that is not one. The work is arithmetic without
  numerals: a tick, a second, a minute and a day are any numbers that divide each other, and the
  lemmas say what multiples, quotients and rests of them are.
- *Playback* (`PlayInv`). `ShownInv` says that the points are what the page makes of rows that the server
  sent, `PlayedInv` that the index is within them unless it was touched while a request was under way. What
  `Substituted`, `GoodRows` and `Segments` make of a route of any length is then proved along the
  route: they are functions on `0..n`, defined step by step, and the lemma `Induction` (a set of numbers
  that has zero and with each number the next has all) takes a set, which the provers
  can instantiate, where the library's theorem takes an operator. So the lines that are drawn have every position in
  its order, and break exactly where two are too far apart.
- *Onboarding* (`OnboardInv`). `FormInv` and `CheckInv` say what page and submission have in common: the
  rows, unless they were `edited` meanwhile, the tier and what it came to; `MineInv` follows the
  devices that are one's own from the submission to what the page tells of it.
- *Renewals* (`RenewalInv`). An amount names the change of the price it was read from (`Read`), so that the one on the
  button was right at some time; the ledger has one own entry for each payment that was told,
  lost, or is still to be told (`LedgerInv`); and a licence that was paid ends a year from
  that day or later, in the table and in the list (`YearsInv`).
- *Lists, details and counts.* `ViewsTypeOK` is inductive: `ViewsHold` is about the WHERE clauses in
  every state of the tables. That the sizes of organisations add up to the number of their
  vehicles is shown one organisation after the other.
- *Paged lists* (`FeedInv`). `Beyond` counts: a row that was there and has not been seen is of
  a time among whose rows a page ended (`cut`), or has as many strictly newer ones as fit on the
  pages turned, in whichever order the read had them. A row that comes can only push it further
  back, and what comes between count and rows is counted by `slipped`, which is why the last page
  may miss that many.
- *Reports.* Only the types (`PointsInv`): each point is one that its vehicle sends.

The assumptions that these proofs needed and the code justifies are named in their modules: a
day has at least four minutes (DayRanges); what is no record, `None` or `Gone`, is not one
(AdminPages, Renewals, OnboardPage, QueryPages); a page has some filter and some range to
choose (QueryPages); the sets of records, organisations and groups
are finite (AdminPages, FleetViews), as the tables are; a route is a sequence of rows ordered by their
time, as `getRoute` sorts them (Playback).

**Only model-checked**: the liveness properties (`EventuallyAcked`,
`EveryReplacementEnds`), which are out of the prover's reach, as is every statement about
ENABLED; `DeletedIsForgotten`, `AlertsSurviveRetry` and `TextIsPublished`, which are false; `ReportsHold` of `console`, and everything of
`protocols`. The properties of `protocols` are about chosen packets: bytes in which no other packet is
hidden, next to noise and damage that make none. They do not hold of any bytes whatever, and for
those that were chosen they are a computation, which TLC does. `ReportsHold` compares sums over
sets of points; the sums are the community modules' `MapThenSumSet`, which takes an operator, and the laws
of it that telescoping distances need (a sum over a union, an order of the terms) are an induction over data with an operator
as its parameter.

## 5. Mutants

Each property of a passing run has at least one mutant: a form of one definition
with a plausible bug (`FailedAcked`, `RequeueWithoutStates`, `CheckFenceLate`,
`LoginAckFirst`, `InsertAtOnce`, `DeleteSpares`...), defined next to the
definition it changes and listed in `PROJECT.json`. A property that gathers several models
(`ServicesHold`, `PagesHold`, `ViewsHold`...) has at least one for each of them. Under
a mutant the run's configuration violates the property.

## 6. What the models found

Three disagreements with what the repository says of itself have a run:

- **A packet on a text port ends the TCP server** (`tcp_text`). The `finally`
  block of `processPacket` (404) reads `socket`, which is not a parameter (268):
  a ReferenceError on every path, an unhandled rejection, the end of the
  process (Node 15 and later; nothing installs a handler). Concox devices lose
  their connections with it.
- **A deleted vehicle stays in the caches** (`registry_deleted`). `deleteVehicle`
  looks for an IMEI in a row that has only an id, and invalidates nothing; and
  `findByImei` finds deleted rows, so that the next packet caches them again.
- **A crossing loses its alert** (`location_retry`). The geofence key is SET (220, 226)
  before the alert is added (242). When the process dies, or the XADD fails, between the two,
  the entry is handled again, finds the vehicle inside already and is acknowledged without
  the alert, contrary to the "retried indefinitely which is safe" of
  `locationSubscriber.js:261-263`.

What follows has no run of its own. It is a cause that a model names, a fault
that a run leaves out, or was met while translating the code.

**Pipeline**
- Two reports of one vehicle in a flush wedge the writer: Postgres refuses an
  upsert with two rows of one key (`gpsModel.js:119`), the rows go back together
  (`writer/server.js:203`), and so does everything after them.
- A pending entry waits for a restart: the loop asks for pending entries once per
  life (`redisStreams.js:107-108`), although 142 promises the next iteration.
- Entries of a dead consumer are orphans: with the default consumer name no later
  life sees them (`redisStreams.js:78`, contrary to 12-13).
- Ignition alerts are missed: the publisher replaces the state key right after its
  XADD, so that the subscriber mostly compares a report with itself
  (`locationSubscriber.js:137-138`).
- There is no backpressure: `__track` is defined on no socket
  (`tcp-server/server.js:501`, contrary to 22-24).
- `invalidateGeofences` (`locationSubscriber.js:299`) has no caller, although
  289-291 tell when to call it; a changed zone takes effect after the time to live.
- A coordinate that is exactly 0 counts as missing (`gpsConverter.js:19`,
  `convertCoords` of the AIS140 parser); clones without the fix bit are believed.
  `deviceSimulator.js` only ever writes N and E.

**Caches and the registry**
- An entry filled from a read that is older than a change stays in the shared hash
  without limit, although `vehicleController.js:14-15` says five minutes, and so does a stale one
  when the DEL of `invalidateImei` fails, which is swallowed (`locationSubscriber.js:296`). No
  fault is needed: a consumer reads the row, `updateVehicle` moves the vehicle, "we rewrite the
  hash" (`vehicleController.js:321`) and deletes it, and the consumer stores the old organisation; the
  warming in `createVehicle` is undone by its own DEL (190-200);
  `migrateVehicle` touches no cache and writes no audit entry.
- A deleted device cannot be onboarded again.
- `findAll` with a small viewport counts without the join it filters by
  (`vehicleModel.js:112-130`) and fails.

**Handlers that are several transactions**
- `createUser` keeps the user when the assignment of groups fails; an update
  without columns returns no row and throws after the answer, so that its audit entry is
  missing (`adminController.js:169, 407, 609`).
- Users and organisations are deleted for good, although `orgModel.js:110` and
  `userModel.js:130` say otherwise.
- Two overlapping replacements of one list leave the union of both.
- Overlapping onboardings exceed the quota, contrary to the "Quota enforcement" of
  `OnboardController.js:53`: both count before either commits, and nothing is locked.
  Overlapping renewals lose an extension, and the edit page writes back the expiry date it was
  opened with; either way "Payment verified and license extended" (`billingController.js:65`)
  has been answered for a year that is not there.
- The server charges the price of the moment, whatever the dialog showed; a lost
  answer tells "Payment failed" of a payment that is recorded.
- An e-mail that is taken is reported as a device that is
  (`OnboardController.js`, code 23505).

**Limits, geocoding, profile**
- Nominatim is called more than once in a second, contrary to the "1 request per second,
  queue-based" of `geocodeController.js:46`. `callNominatim` compares the clock with the last call,
  sleeps for the rest of the second, and calls without comparing again (57-62), so that all
  requests that looked at the same last call wake together; the queue and the flag that 49-50
  declare are used nowhere. `CallsAreSpaced` is what is left of the promise. Nor do requests
  "for the same coord all wait for ONE upstream Nominatim call" (19-21): nothing remembers a
  call under way, and each request that misses LRU and Redis makes its own. Only a browser shares its
  own requests (`RequestsAreShared`).
- `server.js` of the API announces "Skip /health and /metrics" and "Other GET
  routes get user-read + IP-read"; neither is so.
- `geocodeUtils.js:78` says that only successful resolutions are cached; 'Unknown
  Location' is cached, too. `warmGeocodeCache` calls an endpoint that does not exist.
- Saving the maps tab with an empty key names a column that does not exist; a
  key saved is lost by a restart without it in the environment.

**Lists and reports**
- A row is missed, or shown twice, when rows arrive while pages are turned, and without any
  arriving when a page ends among rows of one time: the queries order by `device_time`,
  `received_at` or `created_at` alone (`gpsModel.js:305, 344`, `auditController.js:86`), and all
  alerts of one report have its `device_time`.
- `getUserVehicles` lists a vehicle once per group; the list of devices shows a
  dealer only those of the own organisation; customers' lists go by group but
  details by organisation; `getDashboardStats` reads a field that tokens lack.
- The page of the consolidated report sends no organisation, so a superadmin
  always gets an error; a dealer's reports without a vehicle leave out the organisations below.
- A 0 of the odometer between others inflates the distance.
- Histories lack the last minute of a day, the audit log the last millisecond; the
  default date of the reports is the date in UTC.
- `getRoute` takes the oldest 5000 rows, so that "End / Latest" is not the latest.

**Browser**
- A late 401, or the answer to an old `getMe`, removes a newer token, or the one of
  another tab; after an impersonation the socket stays in the former rooms.
- The answers of lists carry nothing that tells which question they answer: an old one
  replaces a newer list, resets a form that is being filled in, or brings a panel
  back; a group saved before its vehicles were loaded keeps those of the group opened
  before; limits saved before the quota came are zero.
- Onboarding rows can be edited while they are submitted, and the edit is lost; a second
  submission after success tells "already registered"; the quota compared is the one
  of the own organisation even when the devices go to another.
- The playback index can point behind the new points when play, slider or row is used
  while a request is under way; the map shows the route of a vehicle that is no longer selected
  when its answer is late.

## 7. The plan

Done: the pipeline from the bytes of a packet to the database and the dashboard,
each process with its faults; the API's state; the pages of the browser.
In this order:

1. `ReportsAgree` with sums written as functions along the rows, as Playback's lines are, so that
   what the reports compute can be proved for any number of points; the rows that survive a
   damaged neighbour in the text ports.
2. **TrackingPipeline**: Writer and LocationSubscriber on the same two tables, from
   two groups. Abstract specification: the state row of a vehicle is its newest
   stored report. Expected to fail when a flush is repeated after a later one
   (`gpsModel.js:119` compares no times), so the question is under which faults it holds.
3. Abstract specifications for the cache of the registry (a read may be late, never
   wrong) and for a page (it shows an answer to its last question), with the
   detailed models as refinements under the assumption that no named cause occurs.

## 8. Not modelled

- The notification service (mail and push with no state of its own beyond what
  `AlertSubscriber` counts), connections and pools of Postgres and Redis,
  metrics and logging.
- Bootstrap of the API and the wiring of its routes; authentication, role and error
  middleware look at one request and keep nothing. The order of the limiters is in RateLimit.
- The migration page, placeholder and unrouted pages; layout, widgets, formatting,
  charts and the drawing of maps: what a user sees of a state, not the state.
- SQL text and the schema, beyond the constraints and the locks the models rely on.
- One-shot scripts, migrations and deployment files: they run alone and keep no
  state that two actors share.

What a modelled component lacks is in its note in `PROJECT.json`.
