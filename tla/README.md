# STF: specifications, model checks and proofs

TLA+ modules of STF (Smartphone Test Farm): of its back end (`src/lib`), of the
part of its web page that sends touches (`src/res`) and of its runtime for iPhones
(`src/tools`); the TLC configurations that check them on small instances; and
theorems about them that TLAPS checks. Every definition is taken from the code;
`PROJECT.json` maps each to its lines. Paths below are relative to `src/lib/`
unless they begin with `doc/`, `test/`, `tools/` or `res/`.

## The system

STF gives people remote control of phones. Its units are separate processes
that talk over ZeroMQ (protobuf messages) and share one RethinkDB database:

    web page -- websocket, api --(PUSH)--> app triproxy --> processor(s) --> dev triproxy --> provider, device workers
                      ^                         |                 |                      |           |
                      +--------(SUB)------------+              RethinkDB               reaper      ios-provider
                                                                   |                                  | HTTP, loopback
                                                     groups engine (scheduler, watchers)       runtime, one per iPhone

| Component | State | Operations | Hard because |
| --- | --- | --- | --- |
| provider (`units/provider`) | per plugged device a closure with registration, timer, `willStop`, `worker`; the port pool | tracker events `add`, `change`, `remove`; registration or 15 s; timers of 100 ms and 500 ms; exit of a worker | a closure outlives its device, events wait for the registration, timers race removals |
| device worker: group plugin (`units/device/plugins/group.ts`) | `currentGroup`, the channel manager's channels and idle timers | GroupMessage, AutoGroupMessage, UngroupMessage, time-out, SIGTERM | every handler is a chain of promises: what one decided on may have changed when it acts |
| device worker: screen (`plugins/screen/stream.ts`) | the frame producer's running and desired state, shell and socket; the set of watchers; the frame loop | a watcher comes or leaves, rotation, minicap's start, banner, end; frames | what is asked for during a start or a stop waits in a queue that forgets |
| device worker: forwards (`plugins/forward`) | `handlersById` and the connections | create, remove, reset at release, end of a connection | a connection ends long after it was told to, and is known by an id that may be used again |
| device worker: touch (`plugins/touch`, `wire/touch-gesture.ts`, `wire/seqqueue.ts`) | the gestures in order, the packets of each, timers, the fingers on the screen | start, packet, end, cancel, time-out, release | packets of several pages arrive late, twice removed from order, or never |
| device worker: minitouch and VNC (`plugins/touch/index.ts`, `plugins/vnc`) | the consumer's running and desired state, what waits to be written, staged and active contacts; connections and their buttons | touches, reset at join and release, restart | what is pressed, released and reset while minitouch restarts is written later |
| processor (`units/processor`) | none but what is under way | one handler per message: write the row, relay | writes are not waited for, several instances share the messages |
| reaper (`units/reaper`) | a TtlSet of the devices that beat | heartbeats, introductions, absences, time-outs | it hears its own messages; it loads before it listens |
| database (`db/api.ts`) | rows of devices, groups, users | one query each, atomic; nothing spans two | read, check and write are three queries |
| API (`units/api`) | requests under way, with the rows they locked | reservations of devices, groups, quotas, users, origin groups | locks with retries and time-outs, answers by broadcast |
| websocket (`units/websocket`) | one session's channels and gestures | relays of device commands, group.invite, group.kick, touches | nothing but touches is checked against the row, and the row is late |
| groups engine: scheduler (`units/groups-engine/scheduler`) | ticks under way | activates, shortens, deletes groups | works on snapshots, competes with the API for locks |
| groups engine: watchers (`units/groups-engine/watchers`) | change feeds | move devices between groups, evict users, answer moves | jobs of two changes overlap; tickets are overwritten |
| iOS bridge (`units/ios-provider`) | `owner`, queue of operations, poll, viewers, `installId` | join, leave, commands, installations, keepalive, status, loss of the phone | one thing at a time, over connections that are cut off when the holder changes |
| iOS runtime (`tools/ios-prototype`) | session of WebDriverAgent, queue of actions, installations | actions, power, screenshot, start, cancel; recovery; restart | what was begun for someone goes on after they have left |
| triproxy | none | relays in order | taken as the FIFO channel of one publisher |
| storage, auth, app, log, notify, command line | mostly I/O | | see "Not modelled" |

What makes each correct, in a sentence: a phone has one holder, who is told the
truth about it; the row of a device shows that holder and whether the phone is
there; a usable phone has one worker; ports are neither lost nor shared; no
phone is booked twice, nobody is charged for what they do not have, and a
booking that is over ends; a device is in the group it was moved to, and nobody
holds it who is not of that group; who watches sees the current screen; fingers
do on the phone what they did on the page, and do not stay there; nothing that
was begun for one holder is done to, or left for, the next.

## The modules

Several models are of code that keeps its promises only if certain things do not
happen at a bad moment. Leaving those out would hide what is right about the
rest. So what may happen at bad moments is chosen once per behaviour, from a
constant (`overlapping` from `Overlaps`, `uses` from `Uses`, `scenario` from
`Scenarios`, `calm`, `prompt`), and a property names what it needs
(`"update" \in scenario => ...`). The constants of a run list the combinations
that are explored; the theorems hold for all.

### Reservation, DeviceGroup

`Reservation` is what a device promises: it is free or held by one user under a
reservation id that was never used before. `DeviceGroup` is the group plugin of
a worker as it is written, with the channel manager. A turn of the event loop
emits up to `Batch` events (`received`), then drains Bluebird's queue of
continuations (`jobs`); a job carries what `plugin.get` settled with when it was
called. Variables are the code's (`currentGroup`, `channels`), `announced` is
what a listener of JoinGroup/LeaveGroup messages knows. Time is abstracted: an
idle timer may fire at any moment while its channel is registered.

So with `Batch` above 1 the handlers of a turn cross: a release is matched, a timer or
SIGTERM fires, and another user asks, between what a join found and what it does.
(Bluebird drains its queue in a `setImmediate`, so messages, timers and signals of one
turn come before it.) `DeviceGroup` implements `Reservation` all the same
(`ImplementsReservation`, an INSTANCE with a refinement mapping of `currentGroup`), for
every `Batch`, with one exception that `contested` (history) tells of: when two joins of
a turn both found the device free, the second replaces the reservation of the first. A
handler that finds no group is one continuation later than one that finds a group,
because `.then` is passed over first (`JoinMissed`): what was queued meanwhile comes before.

### Screen, StateQueue, Forward, Worker, WorkerProofs

`StateQueue` is the queue of the states that a service is to be in. `Screen` is the `FrameProducer` (`runningState`, `desiredState`: its StateQueue;
`stage`: the I/O that its chain of promises waits for; `output`, `socket`: the
shell that runs minicap and the connection to it; `failures`: its FailCounter),
with the set of clients and the loop that sends them frames. Every I/O may fail,
since each has a time-out.

`Forward` is the ForwardManager: connections being created, open and ending, and
`handlers`, the list by id. The destinations of a forward come and go with its
connection and are left out.

`Worker` composes both with `DeviceGroup` in one process (two INSTANCEs that
share `phase` and the tenure): a release resets the forwards, SIGTERM stops the
producer, an exit or crash takes all with it. A worker with `Uses` without
"screen" and "forward" is `DeviceGroup` alone; "turn" lets a turn emit more than one
event in the run (the theorems have no such condition).

### DeviceOwnership, DeviceOwnershipProofs

One device's row across provider, worker, processors, API and web clients. The
worker is `DeviceGroup` reduced to what its messages say (`held`, `issued`);
`deviceOut` are the messages on their way to the processors, `writes[p]` the
queries processor p has issued and not finished (one RethinkDB connection
finishes them in order), `row` the row. It covers crashes and respawns, unplugs
and replugs, late retirements, the reaper's reports, the reboot claim
(`restoreOwner`) with its expiry, and the orders of API and web clients.

Assumed: messages of one worker arrive in the order they were sent (PUSH and
DEALER over one triproxy); the new worker of a replugged device boots after the
old one ended (`Provider` shows when that holds); the insertion of the row of a
device that was never seen before is one write.

### Presence, PresenceProofs

The `present` flag: provider, heartbeats, processor, reaper and its TtlSet.
`overlapping` says which operations may begin while messages are under way. An
entry of the TtlSet may time out at any moment.

A device is reported absent twice: when it is removed (`Removed`), and when its worker
has exited cleanly (`Retire`, `units/provider/index.ts:331`), which may be after the
device is back and has a new worker. Until then the old one beats: `retiring` counts the
workers that were told to stop, `orphans` those that a crash had put off and that were
started after the removal, whom nobody stops. `worker` is that of the present scope. A
crash (`Crash`, `Perish`) and the end of the provider (`Vanish`) are reported by nobody.

### Provider, ProviderProofs

Every `add` of ADB's tracker opens a scope (`scopes`): the closure of that
handler. `todo` are the callbacks that wait for its registration, `timer` the
100 ms timer, `delays` the respawns that a crash put off by 500 ms. `workers`
are the processes, `ports` the pool in its order. In a `calm` behaviour ADB's
events wait until a device has settled; most promises need that, and the port
pool does not.

### Booking, BookingProofs

Transient groups of one owner: the rows with their two locks, the owner's
quotas, the API requests with the row that they locked, the scheduler's ticks
with the rows they read. Every query is a step. `scenario` says which operations
do not overlap with any other; `Focus` are the groups whose owner leaves it to the
scheduler to end them. Dates are a first start, a
length and a number of repetitions one `Period` apart, as `computeGroupDates`
makes them.

Abstracted: a lock is taken in one attempt, or the request has no effect (the
retries are `GroupLock`'s); the three unlocks that end `addGroupDevices` are one
step; the users of a group are `Origin`'s.

### GroupLock, GroupLockProofs

The lock of a row, with what `Booking` leaves out: `setIntervalWrapper`
(`util/apiutil.ts`) begins an attempt every 50 to 550 ms whether or not the last
one was answered (`attempts[c][i]`), ticks begin every second whether or not the
last one has ended, and a groups engine that starts clears every lock. In a
`prompt` behaviour the database answers an attempt before the next begins.

### Origin, OriginProofs

Which group a device belongs to: the rows of groups and devices, moves between
origin groups (`controllers/devices.ts`), bookings as what takes a device and
gives it back, additions and removals of users (`controllers/groups.ts`), the
change feeds and both watchers, whose jobs overlap: they make a bag (`jobs`), since
the queries of one change may overtake another's. Every query is a step.
The tickets by which a watcher answers an API request, the 5 s time-out of that
request, and the orders to the worker to release a device are included; a watcher goes on, and a ticket is treated, after its request has timed out.

A request is answered before the lists of the groups follow (`watchers/devices.ts:276`),
and what that breaks is under "What the checks found". `"relist" \in scenario` is the
condition on the caller under which it does not: before a device is moved again, or
its group deleted, `Chain(d)`, what is still to be done about its origin, has come to
an end. Other devices and groups do not wait.

Dates are abstracted: a booking is active or not. Two bookings that have a device in
common and are both active have dates that overlap, so `checkConflicts` finds that one
(`Book`), and the scheduler, which takes bookings in the order in which they start, has
ended the one before it begins the next (`Activate`), unless something under way had its
lock.

### Touch

From `screen-touch.ts` on the page through the websocket unit to the worker's
gesture queue and the packets it plays. Sequence numbers are modulo `Cycle`
(100 in the code, 8 here), `MinSafe` (4, here 2) packets let a missing one be
skipped, `MaxPending` (8, here 2) gestures may wait. Packets of several app
triproxies overtake each other, and above ZeroMQ's high-water mark they are lost.
`row` is the reservation as the websocket unit last read it. The packets that one
event of a page emits are one step; `log` and `played` are history.

Left out: limits of 128 sources and 256 packets, retirement of the oldest ids, the
check of clocks, ids of old pages, and coordinates.

### TouchProtocol, Minitouch, Control

`Minitouch` is the other half of the plugin, from where a packet is played to the
phone: the `TouchConsumer` with its `writeQueue`, its running and desired state and
what its chain of promises waits for (as in `Screen`, with the same `StateQueue`);
`TouchProtocol` with what is `active` and `staged`, and `pressed`, the fingers that
this minitouch has on the screen; and VNC clients, who write past the queue of
gestures, with a contact that a gesture may hold as well. A gesture is here any
sequence of packets that ends in a finish or a reset. `Control` composes it with
`Touch`: a behaviour is about the one or the other (the holder comes and goes in both
with the event of the group plugin), since between them there is a function call
per packet and nothing comes back.

### IosRuntime, IosBridge, Ios, IosProofs

`IosRuntime` is the process beside an iPhone: the HTTP server, the loop that
keeps a session of WebDriverAgent (`loop`, `wda`, `instance`, `generation`), the
queue of `execute` (`actions`), and the installations of apps (`jobs`,
`accepting`, `active`). `IosBridge` makes of it a device of the system: the
holder, the queue of operations with what its head waits for, the poll, the
viewers of the screen. `Ios` composes them over `inbox` (what the server has yet
to read) and `replies`. The bridge is a second implementation of `Reservation`.

The number of a reservation stands for its epoch, its lease and its abort
signal, which change together. Assumed: the server reads what came over the
loopback in the order it was written. Requests that only read (`GET /device`,
status, keepalive) are reads, merged with their answers; the two saves of a
start that is refused are one. Time-outs and expiry are nondeterministic.
Left out: gestures and keys as commands, health, telemetry, frames, the upload of
screenshots.

## The runs

| Run | Instance | What it shows |
| --- | --- | --- |
| `worker` | 2 users, 3 reservations (2 with forwards), `Batch` 2; 2 clients, 2 rotations; 2 ids, 2 ports, 3 connections; 9 `Uses` | Whatever a turn emits, unless two of its joins both find the device free: `AcknowledgedIsHeld`, an acknowledgement names the latest reservation, which is held or was released since; `HeldIsKnown`, when the turn is over, the holder and nobody else is registered, timed, subscribed and announced; `ImplementsReservation`; `NothingIsInherited`, no forward outlives its tenure. `ScreenIsCurrent`: a producer at rest captures the current rotation. `FollowsWatchers`: it runs if and only if somebody watches, in the end. `FramesFlow`: the loop that sends frames does not die. (Each of the last four named here, `NothingIsInherited` and those of the screen, names the bad moments that break it.) |
| `ownership` | 1 processor, 2 users | `RowTellsTheTruth`: once the worker's messages are written, row and worker agree. `ClaimIsTheOwners`: a claim on an owned row is its owner's. `RowCatchesUp`: every change of holder gets to the row. |
| `ownership_processors` | 2 processors | violation of `OwnerIsShown`: their writes are not ordered. |
| `presence` | one restart of the reaper, 2 workers that outlive their device, 3 messages under way | `BeatingIsPresent`: a device whose worker is up is shown as present in the end, whatever introductions, heartbeats, removals, retirements and time-outs overlap (not a restart of the reaper). `PresentIsWatched`, the reaper watches what is present, and `LostIsAbsentIfPrompt`, a lost device is absent for good, if only heartbeats overlap. |
| `provider` | 2 devices of which one races, 3 scopes, calm and not | `PortsAreConserved` under any timing; `OneWorkerPerDevice`, `UsableIsWorked` and `CalmlyRemovedIsStopped` if calm: a removal or change waits until nothing is under way in the device's scopes, but workers still crash and retire after it. |
| `provider_removed` | 1 device, any timing | violation of `RemovedIsStopped`: removal within the respawn's delay. |
| `booking` | 2 groups, 1 device, 2 requests, 1 tick; updates and ticks alone, or all overlaps on one group | `NoDoubleBooking` and `QuotaIsExact`, with every overlap of the requests that may. `OneHolder`: the two locks of a row make up one. `OverIsDeleted`: the scheduler gets its group in the end. |
| `booking_race` | updates overlap | violation of `DevicesAreBookedOnce`. |
| `group_lock` | 1 request, 2 ticks, 2 attempts each, 1 restart | `MutualExclusion` as long as the groups engine does not restart. `NoLockIsLeft` if the database is prompt. `EveryCallerIsTold`. |
| `origin` | root and 1 more origin group, 2 bookings, 2 devices (1 in the scenarios with users), 1 user, 2 requests, 4 scenarios | Once all is quiet: `OriginsAgree`, devices and origin groups agree, with moves of both devices, time-outs, additions and deletions overlapping, if a device is not moved again nor its group deleted before the lists follow its last move ("relist"), and what ends or begins bookings waits; `CurrentIsRight`, a device is in its active booking or its origin, if what ends or begins bookings waits, and "relist" holds or no origin group was deleted; `NoOutsider`, nobody holds a device of a group they are not in, if invitations and removals of users wait as well. `AnswerIsTrue`: who is told that a move is done finds it done, however the requests of two devices, their tickets and time-outs overlap, unless one about this device has timed out or a deletion overlaps. |
| `touch` | 2 pages, 2 fingers, 2 gestures each, 1 loss, 7 scenarios; 2 more with minitouch, 1 VNC client, 1 failure, 2 writes that wait | `NoStrayFinger`: a finger on the screen is one of the gesture under way. `PlayedInOrder`, `BegunInOrder`. `LiftedInTheEnd`: with nothing lost, no finger stays once the pages have lifted theirs. `NothingBlocks`: whatever waits for something that was lost has a timer. `NothingIsStuck`: when all is written, what is pressed is held by the holder of the device, however minitouch was restarted (without VNC clients who leave with a button down or move on after the release). |
| `ios` | 2 users, 2 reservations, 2 installations, 1 recovery, 1 restart, 14 `Uses` | `ImplementsReservation`. `ReleaseIsEffective`: nothing begins for who has released. `SessionOutlivesAction`: no session is closed under an action. `InstallIsOwned`: what is being installed is known to the bridge as the holder's, or being canceled. `NeverBusyForGood`: an installation ends, and lets the next begin. |

Each property of a passing run has a mutant, a plausible bug of the code that
breaks it (`PROJECT.json`); the mutated operators stand before the ones they
mutate.

**Bounds.** Two users are enough for one to take what another loses; a third
plays the part of the second. Three reservations let a device go from one
user's to another's and back; with forwards, two. Two events in a turn are one and
the one that crosses it (a join and a release, a release and a timer, a signal and a
join). Queues of two or three messages hold a message
and one that overtakes or contradicts it. Two groups and one device make a
conflict, two requests a race; two bookings of a device make one follow the other; two
devices make two moves that both wait for an answer, and whose tickets overwrite each
other; two workers that outlive their device beat and retire while a third is up; two repetitions make a first date that is over
and a second that is not; `MaxTime` is past the last date there can be. Two
clients let one come while the other leaves, two ids and ports let a new forward
take the id of one and the port of another. A cycle of 8 has a window of 4, and
gestures of up to 14 packets go round it; they are made of two fingers' events, so a
lost packet can be a down, a move or an up. Two installations are one and
the one that must wait. Bounds
stand in guards of what begins a chain of steps, not of what goes on with one,
so no run misses the end of something that it began. `MaxDrift` stops requests
once the charged duration has drifted below zero, which it does when ticks
overlap with requests (each overlap may credit the owner once more). `origin`
takes its two requests as symmetric; its properties are invariants and an action
property, for which that is sound.

**Fairness.** Only what the code does by itself is fair:
delivery of messages, continuations, queries, timers, the next second. Nobody
has to plug a phone, ask for it, or give it back. `Beat` is strongly fair in
`Presence`: the interval goes on for as long as the worker lives, but the model's
bound on messages may disable it now and then; and so is `Reap` of a device of which no
worker beats, for the same reason. `Booking`'s ticks are weakly
fair and its requests are not limited, so `OverIsDeleted` says that requests
cannot starve the scheduler. In `Worker` the chain of a producer goes on (its I/O
has time-outs), a fatal error ends the process, and SIGTERM ends it within 10 s.
In `GroupLock` the database answers and intervals fire. In `Ios` what the phone
does ends, because every request to WebDriverAgent and every run of go-ios has a
time-out, and the steps of an installation follow each other.

**Deadlock** is not checked where the system may stop: in `Provider`, `Booking`,
`Worker`, `Origin`, `Touch`, `GroupLock` and `Ios` the bounds are used up or
nobody asks for anything.

## What the checks found

With a run each (`PROJECT.json`, "findings"):

* `ownership_processors`: with more than one processor (`doc/DEPLOYMENT.md:386`)
  the owner on the row may be wrong until the next join or leave.
* `provider_removed`: a respawn is not called off by the removal of the device
  (`units/provider/index.ts:346`).
* `booking_race`: `updateGroup` looks for conflicts without a lock on the
  devices (`units/api/controllers/groups.ts:897`).

Without a run of their own; each is why some property names a condition, and
shows up when the condition is dropped:

* Group plugin: `plugin.join` acts on what `plugin.get` found a turn ago
  (`units/device/plugins/group.ts:62`). Two GroupMessages in one turn both find the
  device free, and the second takes it from the first, which is acknowledged all the
  same (`contested`); the second stays without an alias, an idle timer and an
  announcement, because the channel manager throws. Everything else that crosses in a
  turn does no harm.
* Reaper: a lost device may be shown as present (`doc/DEPLOYMENT.md:467` says it
  will not) if a time-out of the TtlSet overlaps with a late heartbeat: the reaper
  hears its own DeviceAbsentMessage after the heartbeat and forgets the device; so does a
  late heartbeat of a worker that retires, with the provider's DeviceAbsentMessage. And a
  reaper that starts while the absence of a worker that has retired is under way loads the
  device as present and misses the report: its row says absent for as long as the new
  worker beats, since nothing is new to the reaper.
* Screen (`plugins/screen/stream.ts`): a `restart()` while a stop waits for a
  start to end revives a producer that nobody watches, and a later restart is then
  lost (217). A start that failed is not tried again (172). Sending to a WebSocket
  that is closing never resolves, and the loop of frames waits for it (577, 609).
  A frame that takes longer than a restart is read by the new parser, or by none.
* Forwards: the end of a connection removes what is listed under its id, which
  may be a newer one (`forward/util/manager.ts:163`); a forward that is still opening
  at a release is added in the next tenure (`forward/index.ts:111`).
* Touch: a packet that is lost while no finger is held is waited for until the
  numbers have gone round and a later one has its number; a gesture that never ended keeps its fingers down
  when the next one overflows while it waits; fingers whose Up and end are both lost stay
  down until the next gesture. Touches queued while minitouch restarts
  are played later, possibly in the next tenure (`plugins/touch/index.ts:128`), and
  `TouchProtocol.active` survives the restart; both are harmless but for VNC clients:
  one that is gone with its button down lifts nothing (`plugins/vnc/index.ts:328`), and
  one that keeps its half of the connection open presses after the release.
* Bookings: a tick that overlaps with another one may write dates back that the other
  has dropped (`groups-engine/scheduler/index.ts:62`), so `NoDoubleBooking` asks that they follow each other.
* Locks: an attempt that takes the lock after its caller was told of failure
  leaves it taken until the groups engine restarts; that restart clears the locks of
  live requests (`db/api.ts:236`).
* Origin groups: a request is answered before the lists follow, so deleting a group or
  moving the same device back at once leaves a device in no list or with an origin group
  that is gone (`watchers/devices.ts:282`); a booking that ends while its device moves is
  overtaken (`db/api.ts:1208`). A request that has timed out and one that follows it at
  the same device share its ticket's effects: the second may be told of a move that the
  first one's ticket undoes.
* iOS bridge: an answer about an old installation that crosses the start of a new
  one forgets the new one, which a release then does not cancel (it expires 10 s
  later; `units/ios-provider/bridge.ts:240`, 448). A GroupMessage that is matched in
  the turn in which the phone is lost is joined by a device that is not registered.
  A command carries no generation, so "Commands from the previous session are dropped"
  (`doc/ios-provider.md:36`) rests on the check made just before it is sent. By reading: the status may
  say that an installation is settled before its last save, and a crash then
  reports it as interrupted; the child process of go-ios outlives a crash of the runtime.
* By reading only: `prepareForAgentDeath` relaunches the service and not the agent
  (`plugins/service.ts:291`); overlapping starts and stops of logcat leave a reader
  behind (`plugins/logcat.ts:39`); a ConnectStart that arrives in the turn of the
  release, or later, opens a connection that is nobody's.

## What is proved

Each theorem holds for every value of the constants that satisfies the named
assumptions (`NoneIsNoUser`, `BatchIsPositive`, `CallersAssumption`, `FinitelyManyDevices`,
`DatabaseIsFinite`, `InstallsAreCounted`, ...), which the runs evaluate.

**`WorkerProofs`.** Of the group plugin, for any users and any number of events in a turn
(`Batch`): `TypeCorrect`; `ReservationIsFresh` (`ReservationIsLatest`, which no run lists
since it is proved); and, unless two joins of one turn both found the device free,
`AcknowledgementIsTrue` (`AcknowledgedIsHeld`), `HoldingIsKnown` (`HeldIsKnown`) and
`ReservationImplemented` (`ImplementsReservation`, the refinement of `Reservation`). They
rest on the inductive invariant `IInv`, proved as `Invariant`. The properties speak of
the head of the queue and of the ends of turns; `IInv` says what the continuations that
wait in the middle of a turn will find when they run:

* `Ordered`: which kinds can wait behind each other. At most one join is about to take
  the device; behind it there is no leave, since that would have found a group when it
  was queued; and behind a join that will be answered no message waits for its match.
* `StillTrue`: a join that found the device free still would; a leave finds the group
  that it was queued for, or none; and an acknowledgement names the latest reservation,
  which is held or was released since.
* `Settling`: once an acknowledgement waits, nothing that waits with it leads to a join.
* `LiveIsKnown`: channels, alias, timers, subscription and announcement are those of
  `currentGroup`, or its idle timer has fired and the leave is in the queue (`Leaving`).

Of the worker: a step of the whole worker is a step of its group plugin or a stutter
of it (`GroupSteps`, hence `GroupImplemented`: `WorkerSpec => Spec`), which carries the
theorems above over to the worker. `NoForwardIsInherited` (`NothingIsInherited`, with the
same exception) from `ForwardInv`: numbers stand for connections (`Numbered`), listed ports
are distinct (`PortsListedOnce`), and an id stands for one connection whose number the
manager knows (`Orderly`), so that `removeAll` finds every open one; that the
tenure which ends with a release is the one that the forwards are of is `StillTrue` and
`Ordered` of the group plugin: no leave meets a group that it was not queued for. `ScreenCurrent` (`ScreenIsCurrent`) from `ScreenInv`: where the chain of
promises waits tells the state (`StageFits`); who watches was told (`ToldAll`); and
without overlapping restarts the waiting states are one of the few queues that `push`
can leave behind (`Fits`), and a producer that nothing more is asked of was launched
with the latest configuration (`Fresh`). The property alone is not inductive: it says
nothing of a start or stop that is still going on.

**`DeviceOwnershipProofs`.** For any users, any number of processors, with and
without `AutoRestoreOwner`, and any bounds: `TypeCorrect`, and `ClaimIsOwners`
(`ClaimIsTheOwners`), which is inductive over `TypeOK`: `RowIsWritten` lists the four
ways the row changes, and `WrittenKeepsOwnClaim` shows of every write that it
sets an owner only together with dropping the claim, and a claim only from the
owner. No order of the writes matters, which is why it holds with several
processors while `OwnerIsShown` does not. For one processor: `RowIsTrue`
(`RowTellsTheTruth`), from the inductive `RowInv`. The property speaks of empty queues
only; `RowInv` says where the worker's last word is when they are not: in `deviceOut`,
or in the processor's writes, or in the row, with nothing about the same subject
(readiness, owner) behind it (`Arrives`). Each kind of step moves that word on: it is
said (`ArrivesAtOnce`), followed by something else (`ArrivesBehind`), handed to the
processor (`ArrivesFurther`) or written (`ArrivesThere`). With two processors a write
may overtake the last word, and the run `ownership_processors` shows that it does.

**`PresenceProofs`.** For any bounds, with workers that outlive their device, beat and
report an absence of their own: `TypeCorrect`, and `Watching` (`PresentIsWatched`) from the
inductive `PromptInv`: if only heartbeats overlap, an absence on its way has only
heartbeats behind it, and nothing before it (`ReportedIsAlone`, `RelayedIsAlone`);
what the reaper said to be present, it knows (`PresentIsKnown`); while it starts
only heartbeats are under way, and what it loaded is the row (`StartsQuietly`); and a
present device that the TtlSet lacks is about to be absent or to be added
(`UnknownIsTemporary`).

**`ProviderProofs`.** `TypeCorrect`. `PortsConserved` (`PortsAreConserved`) under any
timing, from `PortsInv`: a group of ports is somewhere, and no two places of the pool
and live workers have the same, which needs no counting.
`OneWorker` (`OneWorkerPerDevice`) from `CalmInv`: in a calm behaviour every scope but
the newest of a device is over (`OlderAreGone`), a scope has one live worker
(`OnePerScope`), and every scope knows what ADB lists but for one waiting event
(`Informed`), has no timer or stopping worker while an event waits (`Still`), is about to
spawn only for a usable device without a worker (`Sparing`), and knows the worker
that is up (`Holding`). `PortsSuffice`
(`WorkersHavePorts`, which no run lists since it is proved): with as many port groups
as devices, calm workers never lack ports: at a spawn the device has no live worker, so those of
the others cannot hold every group (`PortsForAll`).

**`GroupLockProofs`.** `TypeCorrect`; `Exclusion` (`MutualExclusion`): before any
restart at most one attempt or caller has the lock, and the row says so (`OneClaim`);
and `NothingIsLeft` (`NoLockIsLeft`): if the database is prompt, a caller has at most
one attempt and still waits for it (`OneAttempt`), so a taken lock is claimed by
somebody (`LockedIsClaimed`).

**`BookingProofs`.** Any dates, quotas and numbers of groups, devices, requests and
ticks. `TypeCorrect` and `LockHasOneHolder` (`OneHolder`) from `LockInv`: rows have
their own ids; a group that is being created is nobody else's (`CreationIsAlone`); who
owns a group has one of its row's two locks set (`OwnedIsLocked`); a group that was deleted
and is not settled yet is gone (`SettlingIsGone`); and owners, of either kind, differ
(`OneOwner`). `OneHolder` is not inductive alone: it does not say what is in the row.
`NumberOfGroupsIsExact` (`NumberIsExact`, the first half of `QuotaIsExact`) from `CountInv`: what is
charged is the rows, the creations that have not inserted theirs and the deletions that
have not settled theirs, each once. `NoDeviceIsBookedTwice` (`NoDoubleBooking`) from
`BookingInv`. Always: a request goes on with the row as it is (`RowIsKept`, because it
owns it), and two additions under way have different devices (`DeviceIsLocked`). If
schedules are changed one at a time: a tick has the dates of the rows as they are until
it writes them (`DatesAreKept`), and what a conflict check found is still true
(`CheckedIsFree`), because whatever else happens makes groups smaller (`Shrinks`): fewer
devices, or dates that lie `Within` the old ones. The arithmetic of it is
`DroppedIsWithin` (a tick that drops dates), `NotWidenedIsWithin` (an update that
`updateGroup` does not check) and `WithinOverlapsLess`.

`QuotasAreExact` (`QuotaIsExact`), of hours as well as of groups, from `QuotaInv`: if
ticks do not overlap with requests, what the owner is charged for is the sum of an
account for each group (`Balanced`). A group's account is what its row says, but for one
request or tick (`Paid`): a request is charged before it writes, and pays back after it
has deleted; a tick pays back after it has written or deleted. Three things keep that
so. Who has the lock of a group is the only one who changes its account
(`NobodyElseIsCharged`). Durations are always those of devices and dates, in rows and
in what requests and ticks carry, and a tick's list is that of the rows as they are
(`ExactInv`), so the difference that is charged is the difference of the rows. And a
quota that is not exceeded never refuses to be charged less (`DurationGrows`), so a
removal, a deletion and a tick, which write whether or not they are charged, are
charged. The sum is a recursive function over sets in the community module
(`MapThenSumSet`), and what it adds up to is an induction: `Count` (a set of numbers that
has 0 and with each the next one has all) follows from the well-foundedness of the
numbers, and from it, on the size of the set, that the function exists (`SumsUpTo`), that
it is the only one (`SumsAreOne`) and that the order does not matter (`TotalWithout`);
then one account is changed at a time (`AccountChanges`), and in the end the accounts are
those of the rows (`AccountsOfRows`).

**`IosProofs`.** `TypeCorrect`. `ReservationImplemented` (`ImplementsReservation`): also
with several messages between the halves of a join, because the bridge asks for the
holder again after the match. `SessionKept` (`SessionOutlivesAction`) from `KeptInv`:
the property; that the running action is the first (`FirstRuns`); that what runs is
of the session that is open, or of the one before it while that is drained
(`RunsInTime`); and that a ready runtime has its session open (`ReadyIsOpen`).
`ReleaseTakesEffect` (`ReleaseIsEffective`) from `HeldInv`: what the runtime has yet to
do or to read was asked for by the operation at the head of the bridge's queue
(`ActionsAreWanted`, `RequestsAreWanted`), or the runtime will read that its connection
has closed, after the request; and an operation that waits for the runtime is of the
reservation in force (`FirstIsHeld`), the only one that watches (`ViewersAreOwners`).
That an answer lets no request go on under the next operation takes `AskedOnce`: the
request of an exchange, or its answer, is in one place of all between the two
processes, once.

`InstallOwned` (`InstallIsOwned`): in a behaviour in which the bridge does not die, no
request fails and no answers cross (`Plain`, which the property itself presupposes), an
installation that goes on is known to the bridge. Four invariants, each of which needs
those before it:

* `NumberedInv`: installations have the numbers 1, 2, ... in the order in which they are
  asked for, and the queue keeps that order. That is how the model stands for fresh ids
  of clients.
* `AskedInv`: whatever of a start is on its way to the runtime, or is being accepted
  there, is the request of the first operation, with its id and reservation.
* `KnownInv`: what the runtime knows of was asked for, under a reservation that had begun
  (`AllAreFit`), and nothing later in the queue is older than it; so what is asked for
  now is not yet known (`StartIsNew`), and a start is never mistaken for a repetition.
* `OwnedInv`: the answer to the first operation says what is still so when it is read
  (`AnswersAreTrue`), an answer to a keepalive is about the installation it asked for
  (`KeepaliveIsRight`), and what goes on is kept alive for its owner, or being started
  for the owner of the operation, or being canceled for the one who has gone
  (`GoingIsOwned`).

Every action of the two processes is first brought into one of nine forms for the bridge
(`BridgeDoes`) and ten for the runtime (`RuntimeDoes`), with what installations see of it
and no more; the four invariants are proved from those.

**`OriginProofs`.** Any groups, devices, users and requests, and any number of changes on
their way. All that a run checks of `Origin` speaks of the moments when nothing is under
way, and follows only from an account of every change, job and order that still is. What
counts is `ToDo`: the jobs at the watchers and those that the changes in both feeds will
make, whichever feed they are in; `Singles` are those to be done once. Every step is
brought into one form (`Turn`): it does one job of those and makes others, whatever the
lengths of the feeds. Then, each resting on the ones before:

* `TypeCorrect`.
* `LocksExclude`: what a request holds is locked, no two hold the same (`HeldInv`), and
  the row that an addition of a device to a booking goes on with is the row as it is
  (`RowInv`).
* `TicketsAreTheirOwn`: a ticket under way of a device about which no request has timed
  out is to be treated once, and its request waits for its signature and for no other
  message (`TicketInv`), whatever becomes of requests about other devices, whose tickets
  stay as their requests made them (`TicketsMatch`); hence `AnswersAreTrue`
  (`AnswerIsTrue`), because the lock of the device keeps every other move from it until
  the answer is read, and the deletion of a group, which moves devices without their
  lock, is alone.
* `ListsAgree` (`OriginsAgree`). A move changes three rows, one after the other: the
  group's ticket, the device, and the lists of both groups. Each device is in one of five
  stages (`Stage`): at rest, with a ticket, with a group that is gone, moved, or being
  taken out of one list and put into another; `Chain(d)` is what there is to do about
  its origin in that stage, and `Listed(d)` the groups that list it meanwhile. Each link
  of the chain is to be done once and makes the next, whatever is done about other
  devices in the same groups meanwhile (`SameChain`); that the group of a ticket still
  exists is its lock, or, after a time-out, what "relist" asks of a deletion.
* `PlacesAgree` (`CurrentIsRight`). A device in none of its groups is on its way back
  from a booking, with nothing else under way (`BackInv`); a job that puts it into a
  booking is about the one that is active (`JobsAgree`), of which there is one at most
  (`OneBooking`); and its class is that of the group that it is in (`Placed`).
* `HoldersAreInside` (`NoOutsider`). But for somebody who has just been invited
  (`Invited`) or has just joined (`Told`), the row knows who holds the device, and if
  they are not in its group they will be told to leave: an order is under way, or a job
  that gives it and still finds the same group and the same owner (`Leaving`). That a
  removal makes such a job for every device that the user can hold there, although the
  watcher goes by the list of the group, is `ListsAgree` and `PlacesAgree`.

`Located` is the conjunction of all but the last, and inductive; the invariants of the run
are not, since they say nothing of a state in which something is still to be done.

Only model-checked:

* `Touch` and what it is composed with: the queue of gestures plays, skips and promotes
  with folds over what waits, and each of them would take an induction of its own, over
  sequences, as the sum of the quotas does over sets;
* all liveness, because fairness and ENABLED are out of the prover's reach. (There are no
  RECURSIVE operators.)

## Not modelled, and why

* Of the API: the list of devices as clients see it, answers and transactions
  (`addUserDevice` waits 5 s for any message on its channel,
  `units/api/controllers/user.ts:152`; `wire/`), remote connect, the creation and
  deletion of users and devices, keys and tokens. Planned, but for plain reads and
  writes.
* Of the groups engine: the yearly renewal of origin groups
  (`updateOriginGroupLifetime`), and the watcher of users, which only tells web clients.
* Of a worker: the service and agent on the phone, the RFB protocol of VNC and its
  authentication, connect, logcat, shell, install: I/O with ADB and with
  processes on the phone. What was read of them is under "What the checks found".
* Usage, status and the remote connect URL of a device: fields that are written
  and relayed, on which nothing here depends.
* The provider's statistics, its own shutdown, and the filter of weird devices.
* The triproxy: a relay without state.
* The web application apart from touches: the modelled clients may ask for
  anything at any time.
* Of the iPhone: gestures and keys as commands (they are `command`s here), health,
  telemetry, the frames of its screen and the upload of screenshots.
* Storage, caches, auth, app, log and notify units, the command line and service
  discovery: I/O and request handlers with no state that outlives a request.

## Plan

1. **Session**: a module for the plugins whose process on the phone is tied to a
   tenure (connect, logcat), composed with `Worker` as `Forward` is.
2. **Answers**: `addUserDevice`, `remoteConnect` and `deleteUserDeviceBySerial` waiting
   for a broadcast with a 5 s time-out; the web client's transactions
   (`wire/`, `res/app/src/core/transaction.ts`); a request is answered once.
3. **Proofs**: that gestures are played in their order (`Touch`), by an induction over
   what waits.
