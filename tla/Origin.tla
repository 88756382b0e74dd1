------------------------------- MODULE Origin -------------------------------
(***************************************************************************)
(* The groups that a device belongs to.  A device has an origin group,     *)
(* which an administrator changes (units/api/controllers/devices.ts), and  *)
(* a current one: its origin, or the booking that is active.  The API and  *)
(* the scheduler only write rows; the watchers of the groups engine        *)
(* (units/groups-engine/watchers) read the change feeds of the two tables  *)
(* and write what follows from a change: the groups of the devices, the    *)
(* devices of the origin groups, and orders to release a device.           *)
(*                                                                         *)
(* The watchers do not wait: the queries of one change (a `job') overlap   *)
(* with those of the next.  Every query is a step.  Dates, quotas, names   *)
(* and the messages to web clients are left out.                           *)
(***************************************************************************)
EXTENDS Naturals, FiniteSets, Sequences, Bags, TLC

CONSTANTS
    Root,           \* the root group, an origin group that always exists
    Others,         \* other origin groups
    Bookings,       \* transient groups
    Devices, Users,
    Requests,       \* API requests that may be served at a time
    None,
    Scenarios,      \* what does not overlap, and the devices it is about
    MaxAsked,       \* bound: operations, if moves do not overlap
    MaxOverlapping  \* bound: operations and devices that they move, if they do

Origins == {Root} \cup Others
Groups  == Origins \cup Bookings

NoTicket == [serial |-> None, signature |-> 0]

GroupRows == [users : SUBSET Users, devices : SUBSET Devices, active : BOOLEAN,
              ticket : [serial : Devices \cup {None}, signature : Nat]]
DeviceRows == [id : Groups, origin : Origins,
               class : {"standard", "once", "bookable"}, owner : Users \cup {None}]
GroupChanges == [id : Groups, old : GroupRows, new : GroupRows \cup {None}]
DeviceChanges == [serial : Devices, old : DeviceRows, new : DeviceRows]
RequestRows == [op : {"move", "book", "delete"}, serial : Devices \cup {None},
                from : Origins \cup {None}, to : Groups,
                held : SUBSET (Groups \cup Devices),
                at : {"lockFrom", "lockGroup", "lockDevice", "lockOrigin", "write",
                      "delete", "deleteRow", "check", "ask", "wait", "unlock"},
                row : GroupRows \cup {None}, signature : Nat]

ASSUME NoneIsNothing ==
    None \notin Groups \cup Devices \cup Users \cup GroupRows \cup DeviceChanges
                  \cup RequestRows
ASSUME BookingsAreNoOrigins == Origins \cap Bookings = {}
ASSUME GroupsAreNoDevices == Groups \cap Devices = {}
ASSUME FinitelyManyDevices == IsFiniteSet(Devices)
ASSUME BoundsAreNumbers == MaxAsked \in Nat /\ MaxOverlapping \in Nat

VARIABLES
    groups,     \* the rows of the groups
    devices,    \* the rows of the devices
    locks,      \* the groups and devices that are locked
    holder,     \* who holds a device, according to its worker
    orders,     \* orders to the worker that are under way
    groupFeed,  \* changes that the watcher of groups has not seen yet
    deviceFeed, \* and the watcher of devices
    jobs,       \* what the watchers are doing
    requests,   \* the API requests under way
    answers,    \* DeviceOriginGroupMessages under way
    asked,      \* operations so far
    late,       \* the devices about which a request has timed out
    standard,   \* the origin groups of class standard; others are bookable
    scenario,   \* the operations that do not overlap with anything in this
                \* behaviour; "relist" if a device is not moved, nor its
                \* group deleted, until the lists are written after its
                \* last move; and the devices that requests are about
    alone       \* such an operation was the last to begin

vars == <<groups, devices, locks, holder, orders, groupFeed, deviceFeed, jobs,
          requests, answers, asked, late, standard, scenario, alone>>

tables   == <<groups, devices, groupFeed, deviceFeed>>
control  == <<holder, orders>>
api      == <<locks, requests, answers, late>>
sequence == <<asked, standard, scenario, alone>>

Class(g) == CASE g \in standard -> "standard"
              [] g \in Bookings -> "once"
              [] OTHER          -> "bookable"

Group(g, users) ==
    [users |-> users, devices |-> IF g = Root THEN Devices ELSE {},
     active |-> g \in Origins, ticket |-> NoTicket]

Init ==
    /\ standard \in SUBSET Others
    /\ \E users \in SUBSET Users :
           groups = [g \in Groups |->
                        Group(g, IF g \in Origins THEN Users ELSE users)]
    /\ devices = [d \in Devices |-> [id |-> Root, origin |-> Root,
                                     class |-> Class(Root), owner |-> None]]
    /\ locks = {}
    /\ holder = [d \in Devices |-> None]
    /\ orders = {}
    /\ groupFeed = <<>>
    /\ deviceFeed = <<>>
    /\ jobs = EmptyBag
    /\ requests = [r \in Requests |-> None]
    /\ answers = {}
    /\ asked = 0
    /\ late = {}
    /\ scenario \in Scenarios
    /\ alone = FALSE

Exists(g) == groups[g] # None
Serving == {r \in Requests : requests[r] # None}

\* Nothing is under way.
Quiet ==
    /\ orders = {}
    /\ groupFeed = <<>> /\ deviceFeed = <<>> /\ jobs = EmptyBag
    /\ Serving = {}
    /\ \A d \in Devices : devices[d].owner = holder[d]

\* What does not overlap waits for the others, and they wait for it.
Begin(op) ==
    /\ IF "move" \in scenario
       THEN asked < MaxAsked
       ELSE asked + Cardinality(scenario \cap Devices) < MaxOverlapping
    /\ op \in scenario \/ alone => Quiet
    /\ asked' = asked + 1
    /\ alone' = (op \in scenario)
    /\ UNCHANGED <<standard, scenario>>

\* The change feeds tell what they are about only.
GroupWritten(g, row) ==
    /\ groups' = [groups EXCEPT ![g] = row]
    /\ groupFeed' = IF row = groups[g] THEN groupFeed
                    ELSE Append(groupFeed, [id |-> g, old |-> groups[g], new |-> row])

DeviceWritten(d, row) ==
    /\ devices' = [devices EXCEPT ![d] = row]
    /\ deviceFeed' =
           IF row.id = devices[d].id /\ row.origin = devices[d].origin THEN deviceFeed
           ELSE Append(deviceFeed, [serial |-> d, old |-> devices[d], new |-> row])
-----------------------------------------------------------------------------
(***************************************************************************)
(* What follows from a change.  A job is one chain of queries of its       *)
(* treatment by a watcher.                                                 *)
(***************************************************************************)
Job(kind, d, g) == [kind |-> kind, serial |-> d, group |-> g, user |-> None,
                    signature |-> 0, change |-> None]

\* watchers/groups.ts: the first of these cases that applies.
GroupJobs(c) ==
    LET row     == IF c.new = None THEN c.old ELSE c.new
        changed == (c.old.devices \cup row.devices) \ (c.old.devices \cap row.devices)
        lost    == IF c.new = None THEN c.old.devices ELSE changed
        added   == c.new # None /\ Cardinality(row.devices) > Cardinality(c.old.devices)
        removed == c.old.users \ row.users
    IN  IF row.ticket # c.old.ticket
        THEN {[Job("ticket", row.ticket.serial, c.id)
                 EXCEPT !.signature = row.ticket.signature]}
        ELSE IF c.old.active # row.active /\ row.devices # {}
        THEN {IF row.active THEN Job("current", d, c.id) ELSE Job("fromOrigin", d, None) :
                d \in row.devices}
        ELSE IF lost # {} /\ row.active /\ c.id \in Bookings
        THEN {IF added THEN Job("current", d, c.id) ELSE Job("fromOrigin", d, None) :
                d \in lost}
        ELSE IF c.new = None
        THEN IF c.id \in Origins THEN {Job("toRoot", d, Root) : d \in lost} ELSE {}
        ELSE IF row.active
        THEN {[Job("evict", x[1], c.id) EXCEPT !.user = x[2]] :
                x \in c.old.devices \X removed}
        ELSE {}

\* watchers/devices.ts.
DeviceJob(c) == [Job("device", c.serial, c.new.id) EXCEPT !.change = c]

\* What the watchers are doing, and will do about the changes on their way.
ToDo ==
    (UNION {GroupJobs(groupFeed[i]) : i \in DOMAIN groupFeed})
        \cup {DeviceJob(deviceFeed[i]) : i \in DOMAIN deviceFeed}
        \cup BagToSet(jobs)

\* What is done about the origin of a device.
Unmoved(j) == j.kind = "device" /\ j.change.old.origin = j.change.new.origin

Chained(j) ==
    \/ j.kind \in {"ticket", "toRoot", "drop", "add"}
    \/ j.kind = "device" /\ ~Unmoved(j)

Chain(d) == {j \in ToDo : j.serial = d /\ Chained(j)}

-----------------------------------------------------------------------------
(***************************************************************************)
(* The API requests (units/api/controllers/devices.ts and groups.ts).      *)
(***************************************************************************)
At(r, at) == requests[r] # None /\ requests[r].at = at
Goto(r, at) == requests' = [requests EXCEPT ![r].at = at]

\* What a request asks: `to' is the group that gets the device, or is deleted.
AskFor(r, op, d, from, to) ==
    /\ requests[r] = None
    /\ Begin(op)
    /\ requests' = [requests EXCEPT ![r] =
           [op |-> op, serial |-> d, from |-> from, to |-> to, held |-> {},
            at |-> IF from = None THEN "lockGroup" ELSE "lockFrom",
            row |-> None, signature |-> asked + 1]]
    /\ UNCHANGED <<tables, control, jobs, locks, answers, late>>

\* addOriginGroupDevices; or removeOriginGroupDevices, which locks the group
\* that it takes the device from as well, and moves the device to the root.
Ask(r) ==
    \/ \E d \in Devices \cap scenario, g \in Origins : AskFor(r, "move", d, None, g)
    \/ \E d \in Devices \cap scenario, g \in Origins \ {Root} : AskFor(r, "move", d, g, Root)
    \/ \E d \in Devices \cap scenario, b \in Bookings : AskFor(r, "book", d, None, b)
    \/ \E g \in Origins \ {Root} : AskFor(r, "delete", None, None, g)

\* The devices of an origin group, by their rows or by its own.
Concerned(g) == {d \in Devices : devices[d].origin = g \/ (Exists(g) /\ d \in groups[g].devices)}

\* A request waits for the answer to a ticket.
Awaited(ticket) ==
    \E r \in Serving : At(r, "wait") /\ requests[r].signature = ticket.signature

\* A lock is taken, or the request ends because it is not available.
Lock(r, what, available, then) ==
    /\ IF available /\ what \notin locks
       THEN /\ locks' = locks \cup {what}
            /\ requests' = [requests EXCEPT ![r] = [then EXCEPT !.held = @ \cup {what}]]
       ELSE /\ Goto(r, "unlock")
            /\ UNCHANGED locks
    /\ UNCHANGED <<tables, control, jobs, sequence, answers, late>>

LockFrom(r) ==
    /\ At(r, "lockFrom")
    /\ Lock(r, requests[r].from, Exists(requests[r].from),
            [requests[r] EXCEPT !.at = "lockGroup"])

\* Mutant: a group is deleted although something is under way in it.
LockGroupToChange(r) ==
    LET q == requests[r]
    IN  /\ At(r, "lockGroup")
        /\ IF q.op = "delete" /\ Exists(q.to)
           THEN /\ requests' = [requests EXCEPT ![r] =
                                   [q EXCEPT !.row = groups[q.to], !.at = "delete"]]
                /\ UNCHANGED <<tables, control, jobs, sequence, locks, answers, late>>
           ELSE Lock(r, q.to, Exists(q.to),
                     [q EXCEPT !.row = groups[q.to],
                               !.at = IF q.serial \in groups[q.to].devices THEN "unlock"
                                      ELSE "lockDevice"])

\* lockutil.lockGroup or lockGroupByOwner, which return the row.  A device
\* that the group has already is not looked at.
LockGroup(r) ==
    LET q == requests[r]
    IN  /\ At(r, "lockGroup")
        /\ Lock(r, q.to, Exists(q.to),
                [q EXCEPT !.row = groups[q.to],
                          !.at = IF q.op = "delete" THEN "delete"
                                 ELSE IF q.serial \in groups[q.to].devices THEN "unlock"
                                 ELSE "lockDevice"])

\* lockDeviceByOrigin, or lockBookableDevice, whose caller goes on to lock the
\* origin of the row that it returns.
LockDevice(r) ==
    LET q == requests[r]
        device == devices[q.serial]
    IN  /\ At(r, "lockDevice")
        /\ Lock(r, q.serial, q.op = "book" => device.class # "standard",
                IF q.op = "book" THEN [q EXCEPT !.from = device.origin, !.at = "lockOrigin"]
                                 ELSE [q EXCEPT !.at = "check"])

LockOrigin(r) ==
    /\ At(r, "lockOrigin")
    /\ Lock(r, requests[r].from, Exists(requests[r].from),
            [requests[r] EXCEPT !.at = "write"])

\* The other bookings of a device.
Rivals(b, d) ==
    {x \in Bookings \ {b} : Exists(x) /\ d \in groups[x].devices}

\* checkConflicts, and dbapi.addGroupDevices with the row that was locked.  (The
\* dates of other bookings may conflict with this one's; those of bookings
\* that are both active do.)
Book(r) ==
    LET q == requests[r]
        rivals == Rivals(q.to, q.serial)
    IN  /\ At(r, "write")
        /\ Goto(r, "unlock")
        /\ \/ /\ \A b \in rivals : ~(groups[b].active /\ q.row.active)
              /\ Exists(q.to)
              /\ GroupWritten(q.to, [groups[q.to] EXCEPT
                                         !.devices = q.row.devices \cup {q.serial}])
           \/ /\ rivals # {}
              /\ UNCHANGED <<groups, groupFeed>>
        /\ UNCHANGED <<devices, deviceFeed, control, jobs, sequence, locks,
                       answers, late>>

Booked(ds) == \E b \in Bookings : Exists(b) /\ groups[b].devices \cap ds # {}

\* deleteGroups: not a bookable group with a booked device.
CheckDelete(r) ==
    LET q == requests[r]
    IN  /\ At(r, "delete")
        /\ Goto(r, IF q.to \notin standard /\ Booked(q.row.devices) THEN "unlock"
                                                                ELSE "deleteRow")
        /\ UNCHANGED <<tables, control, jobs, sequence, locks, answers, late>>

DeleteRow(r) ==
    /\ At(r, "deleteRow")
    /\ "relist" \in scenario =>
           /\ \A d \in Concerned(requests[r].to) : Chain(d) = {}
           /\ \A j \in ToDo : j.kind = "ticket" /\ j.group = requests[r].to => Awaited(j)
    /\ Goto(r, "unlock")
    /\ GroupWritten(requests[r].to, None)
    /\ UNCHANGED <<devices, deviceFeed, control, jobs, sequence, locks,
                   answers, late>>

\* isUpdateDeviceOriginGroupAllowed: a booked device does not move to a
\* standard group (the owner of the bookings is in every group).
Check(r) ==
    /\ At(r, "check")
    /\ Goto(r, IF Booked({requests[r].serial}) /\ requests[r].to \in standard
               THEN "unlock" ELSE "ask")
    /\ UNCHANGED <<tables, control, jobs, sequence, locks, answers, late>>

\* askUpdateDeviceOriginGroup: a signed ticket in the row of the group.
AskTicket(r) ==
    LET q == requests[r]
    IN  /\ At(r, "ask")
        /\ "relist" \in scenario => Chain(q.serial) = {}
        /\ Goto(r, "wait")
        /\ IF Exists(q.to)
           THEN GroupWritten(q.to, [groups[q.to] EXCEPT
                    !.ticket = [serial |-> q.serial, signature |-> q.signature]])
           ELSE UNCHANGED <<groups, groupFeed>>
        /\ UNCHANGED <<devices, deviceFeed, control, jobs, sequence, locks,
                       answers, late>>

\* Mutant: any request's message is an answer.
AnsweredByAny(r) ==
    /\ At(r, "wait")
    /\ answers # {}
    /\ Goto(r, "unlock")
    /\ UNCHANGED <<tables, control, jobs, sequence, locks, answers, late>>

\* The message with its signature, or 5 s without.
Answered(r) ==
    /\ At(r, "wait")
    /\ requests[r].signature \in answers
    /\ answers' = answers \ {requests[r].signature}
    /\ Goto(r, "unlock")
    /\ UNCHANGED <<tables, control, jobs, sequence, locks, late>>

TimeOut(r) ==
    /\ At(r, "wait")
    /\ "timeout" \notin scenario
    /\ answers' = answers \ {requests[r].signature}
    /\ Goto(r, "unlock")
    /\ late' = late \cup {requests[r].serial}
    /\ UNCHANGED <<tables, control, jobs, sequence, locks>>

\* The unlocks, sent one after the other.
Unlock(r) ==
    /\ At(r, "unlock")
    /\ locks' = locks \ requests[r].held
    /\ requests' = [requests EXCEPT ![r] = None]
    /\ UNCHANGED <<tables, control, jobs, sequence, answers, late>>

Serve(r) ==
    \/ LockFrom(r)
    \/ LockGroup(r)
    \/ LockDevice(r)
    \/ LockOrigin(r)
    \/ Book(r)
    \/ CheckDelete(r)
    \/ DeleteRow(r)
    \/ Check(r)
    \/ AskTicket(r)
    \/ Answered(r)
    \/ Unlock(r)
-----------------------------------------------------------------------------
(***************************************************************************)
(* Other changes of a group, whose lock makes one step of them: the API's  *)
(* and the scheduler's.                                                    *)
(***************************************************************************)
Change(op, g, row) ==
    /\ Exists(g) /\ g \notin locks
    /\ Begin(op)
    /\ GroupWritten(g, row)
    /\ UNCHANGED <<devices, deviceFeed, control, jobs, api>>

\* updateGroupDates: a booking begins, or one of its repetitions ends.  (The
\* bookings of a device do not overlap, see Booking, and the scheduler takes
\* them in the order in which they start: the one before has ended, unless
\* its lock was taken by something that is under way.)
Activate(b) ==
    /\ Exists(b) /\ ~groups[b].active
    /\ "schedule" \in scenario =>
           \A d \in groups[b].devices : \A x \in Rivals(b, d) : ~groups[x].active
    /\ Change("schedule", b, [groups[b] EXCEPT !.active = TRUE])

Deactivate(b) ==
    /\ Exists(b) /\ groups[b].active
    /\ Change("schedule", b, [groups[b] EXCEPT !.active = FALSE])

\* deleteUserGroup, of a booking.
EndBooking(b) ==
    /\ Exists(b)
    /\ Change("schedule", b, None)

\* removeGroupDevices.
Unbook(b, d) ==
    /\ Exists(b) /\ d \in groups[b].devices
    /\ Change("unbook", b, [groups[b] EXCEPT !.devices = @ \ {d}])

\* removeGroupUsers, addGroupUsers.
RemoveUser(g, u) ==
    /\ Exists(g) /\ u \in groups[g].users
    /\ Change("users", g, [groups[g] EXCEPT !.users = @ \ {u}])

AddUser(g, u) ==
    /\ Exists(g) /\ u \notin groups[g].users
    /\ Change("users", g, [groups[g] EXCEPT !.users = @ \cup {u}])
-----------------------------------------------------------------------------
(***************************************************************************)
(* The device's worker and the row's owner (DeviceOwnership has these in   *)
(* detail).                                                                *)
(***************************************************************************)
\* A user may ask for a device of the groups that it is in.
Invite(u, d) ==
    /\ devices[d].owner = None
    /\ Exists(devices[d].id) /\ u \in groups[devices[d].id].users
    /\ Begin("invite")
    /\ orders' = orders \cup {[serial |-> d, user |-> u]}
    /\ UNCHANGED <<tables, holder, jobs, api>>

\* The worker joins a user if it is free; UngroupMessage (user = None) makes
\* it leave.
Obey(order) ==
    LET d == order.serial
    IN  /\ orders' = orders \ {order}
        /\ holder' = [holder EXCEPT ![d] =
               IF order.user = None \/ @ = None THEN order.user ELSE @]
        /\ UNCHANGED <<tables, jobs, api, sequence>>

\* The processor writes what the worker reported.
WriteOwner(d) ==
    /\ devices[d].owner # holder[d]
    /\ DeviceWritten(d, [devices[d] EXCEPT !.owner = holder[d]])
    /\ UNCHANGED <<groups, groupFeed, control, jobs, api, sequence>>
-----------------------------------------------------------------------------
(***************************************************************************)
(* The watchers.  The jobs make a bag, for the queries of one may overtake *)
(* another's.                                                              *)
(***************************************************************************)
WatchGroups ==
    /\ groupFeed # <<>>
    /\ groupFeed' = Tail(groupFeed)
    /\ jobs' = jobs (+) SetToBag(GroupJobs(Head(groupFeed)))
    /\ UNCHANGED <<groups, devices, deviceFeed, control, api, sequence>>

WatchDevices ==
    /\ deviceFeed # <<>>
    /\ deviceFeed' = Tail(deviceFeed)
    /\ jobs' = jobs (+) SetToBag({DeviceJob(Head(deviceFeed))})
    /\ UNCHANGED <<groups, devices, groupFeed, control, api, sequence>>

\* What jobs there are, by what they are about.
Jobs ==
    {j \in [kind : {"ticket", "toRoot", "current", "fromOrigin", "readGroup", "back",
                    "evict", "device", "drop", "add"},
            serial : Devices, group : Groups \cup {None}, user : Users \cup {None},
            signature : Nat, change : DeviceChanges \cup {None}] :
        /\ j.kind \in {"ticket", "readGroup", "back", "drop", "add"} => j.group \in Origins
        /\ j.kind = "toRoot" => j.group = Root
        /\ j.kind = "current" => j.group \in Bookings
        /\ j.kind = "evict" => j.group \in Groups
        /\ j.kind = "device" => j.change \in DeviceChanges /\ j = DeviceJob(j.change)}

\* A job is done, or goes on as others.
Then(job, next) == jobs' = (jobs (-) SetToBag({job})) (+) SetToBag(next)
Done(job) == Then(job, {})

\* Mutant: a device that is booked is taken out of its booking.
MovedAnyway(device, g) ==
    [device EXCEPT !.origin = g, !.id = g, !.class = Class(g)]

\* dbapi.updateDeviceOriginGroup: a device that is in its origin group is in
\* the new one.
Moved(device, g) ==
    IF device.id = device.origin
    THEN [device EXCEPT !.origin = g, !.id = g, !.class = Class(g)]
    ELSE [device EXCEPT !.origin = g]

\* doUpdateDeviceOriginGroup, and the message to the request that waits.
TreatTicket(job) ==
    /\ job.kind = "ticket"
    /\ DeviceWritten(job.serial, Moved(devices[job.serial], job.group))
    /\ answers' = answers \cup
           {job.signature : r \in {q \in Serving : requests[q].signature = job.signature}}
    /\ Done(job)
    /\ UNCHANGED <<groups, groupFeed, control, locks, requests, late, sequence>>

\* treatGroupDeletion, of an origin group.
MoveToRoot(job) ==
    /\ job.kind = "toRoot"
    /\ DeviceWritten(job.serial, Moved(devices[job.serial], Root))
    /\ Done(job)
    /\ UNCHANGED <<groups, groupFeed, control, api, sequence>>

\* dbapi.updateDeviceCurrentGroup.
MakeCurrent(job) ==
    /\ job.kind = "current"
    /\ DeviceWritten(job.serial, [devices[job.serial] EXCEPT
                                      !.id = job.group, !.class = Class(job.group)])
    /\ Done(job)
    /\ UNCHANGED <<groups, groupFeed, control, api, sequence>>

\* dbapi.updateDeviceCurrentGroupFromOrigin: the device and its origin group
\* are read, then written.  Without the group it throws.
ReadOrigin(job) ==
    /\ job.kind = "fromOrigin"
    /\ Then(job, {Job("readGroup", job.serial, devices[job.serial].origin)})
    /\ UNCHANGED <<tables, control, api, sequence>>

ReadGroup(job) ==
    /\ job.kind = "readGroup"
    /\ Then(job, IF Exists(job.group) THEN {[job EXCEPT !.kind = "back"]} ELSE {})
    /\ UNCHANGED <<tables, control, api, sequence>>

GoBack(job) ==
    LET device == devices[job.serial]
    IN  /\ job.kind = "back"
        /\ DeviceWritten(job.serial, [device EXCEPT !.id = device.origin,
                                                    !.class = Class(job.group)])
        /\ Done(job)
        /\ UNCHANGED <<groups, groupFeed, control, api, sequence>>

\* sendReleaseDeviceControl.
Release(d) == orders' = orders \cup {[serial |-> d, user |-> None]}

\* treatGroupUsersChange: a user that was removed loses the devices of the
\* group that it holds.
Evict(job) ==
    /\ job.kind = "evict"
    /\ IF devices[job.serial].id = job.group /\ devices[job.serial].owner = job.user
       THEN Release(job.serial) ELSE UNCHANGED orders
    /\ Done(job)
    /\ UNCHANGED <<tables, holder, api, sequence>>

\* Mutant: an owner that is not in the new group keeps the device.
TreatDeviceOnly(job) ==
    LET old == job.change.old
        new == job.change.new
    IN  /\ job.kind = "device"
        /\ Then(job, IF Exists(job.group) /\ new.origin # old.origin
                     THEN {Job("drop", job.serial, old.origin),
                           Job("add", job.serial, new.origin)}
                     ELSE {})
        /\ UNCHANGED <<tables, control, api, sequence>>

\* watchers/devices.ts: getGroup of the current group.  An owner that is not
\* in it loses the device, and the origin groups' devices are brought up to
\* date.  Nothing is done if the group is gone.
TreatDevice(job) ==
    LET old == job.change.old
        new == job.change.new
    IN  /\ job.kind = "device"
        /\ IF /\ Exists(job.group) /\ new.id # old.id
              /\ new.owner # None /\ new.owner \notin groups[job.group].users
           THEN Release(job.serial) ELSE UNCHANGED orders
        /\ Then(job, IF Exists(job.group) /\ new.origin # old.origin
                     THEN {Job("drop", job.serial, old.origin),
                           Job("add", job.serial, new.origin)}
                     ELSE {})
        /\ UNCHANGED <<tables, holder, api, sequence>>

\* removeOriginGroupDevice and addOriginGroupDevice.
Relist(job) ==
    /\ job.kind \in {"drop", "add"}
    /\ IF Exists(job.group)
       THEN GroupWritten(job.group, [groups[job.group] EXCEPT
                !.devices = IF job.kind = "add" THEN @ \cup {job.serial}
                                                ELSE @ \ {job.serial}])
       ELSE UNCHANGED <<groups, groupFeed>>
    /\ Done(job)
    /\ UNCHANGED <<devices, deviceFeed, control, api, sequence>>

Work(job) ==
    \/ TreatTicket(job)
    \/ MoveToRoot(job)
    \/ MakeCurrent(job)
    \/ ReadOrigin(job)
    \/ ReadGroup(job)
    \/ GoBack(job)
    \/ Evict(job)
    \/ TreatDevice(job)
    \/ Relist(job)

Next ==
    \/ \E r \in Requests : Ask(r)
    \/ \E r \in Requests : Serve(r)
    \/ \E r \in Requests : TimeOut(r)
    \/ \E b \in Bookings : Activate(b)
    \/ \E b \in Bookings : Deactivate(b)
    \/ \E b \in Bookings : EndBooking(b)
    \/ \E b \in Bookings, d \in Devices : Unbook(b, d)
    \/ \E g \in Groups, u \in Users : RemoveUser(g, u)
    \/ \E g \in Groups, u \in Users : AddUser(g, u)
    \/ \E u \in Users, d \in Devices : Invite(u, d)
    \/ \E order \in orders : Obey(order)
    \/ \E d \in Devices : WriteOwner(d)
    \/ WatchGroups
    \/ WatchDevices
    \/ \E job \in BagToSet(jobs) : Work(job)

Spec == Init /\ [][Next]_vars
-----------------------------------------------------------------------------
(***************************************************************************)
(* Properties.                                                             *)
(***************************************************************************)
\* An origin group is always active, and a ticket is about a device.
Possible(c) ==
    /\ c.id \in Origins => c.old.active /\ (c.new # None => c.new.active)
    /\ c.new # None /\ c.new.ticket # c.old.ticket =>
           c.id \in Origins /\ c.new.ticket.serial \in Devices

\* What a request is about, and where it may be.
Proper(q) ==
    /\ q.op = "move" =>
           /\ q.serial \in Devices /\ q.to \in Origins
           /\ q.at \in {"lockFrom", "lockGroup", "lockDevice", "check", "ask", "wait",
                       "unlock"}
    /\ q.op = "book" =>
           /\ q.serial \in Devices /\ q.to \in Bookings
           /\ q.at \in {"lockGroup", "lockDevice", "lockOrigin", "write", "unlock"}
    /\ q.op = "delete" =>
           /\ q.to \in Origins \ {Root}
           /\ q.at \in {"lockGroup", "delete", "deleteRow", "unlock"}
    /\ q.at \in {"lockFrom", "lockOrigin"} => q.from # None
    /\ q.at \notin {"lockFrom", "lockGroup", "unlock"} => q.row # None

\* Types.
GroupsOK ==
    /\ groups \in [Groups -> GroupRows \cup {None}]
    /\ Exists(Root)
    /\ \A g \in Origins : Exists(g) => groups[g].active
    /\ groupFeed \in Seq(GroupChanges)
    /\ \A i \in DOMAIN groupFeed : Possible(groupFeed[i])
DevicesOK ==
    /\ devices \in [Devices -> DeviceRows]
    /\ deviceFeed \in Seq(DeviceChanges)
JobsOK == IsABag(jobs) /\ BagToSet(jobs) \subseteq Jobs
ControlOK ==
    /\ holder \in [Devices -> Users \cup {None}]
    /\ orders \subseteq [serial : Devices, user : Users \cup {None}]
RequestsOK ==
    /\ requests \in [Requests -> RequestRows \cup {None}]
    /\ \A r \in Serving : Proper(requests[r])
    /\ locks \subseteq Groups \cup Devices
    /\ answers \subseteq Nat /\ late \subseteq Devices
SequenceOK ==
    /\ asked \in Nat
    /\ standard \subseteq Others
    /\ scenario \in Scenarios
    /\ alone \in BOOLEAN
TypeOK ==
    GroupsOK /\ DevicesOK /\ JobsOK /\ ControlOK /\ RequestsOK /\ SequenceOK

\* Once nothing is under way, the origin group of a device exists and lists it,
\* and no other origin group does, however moves of several devices, bookings,
\* deletions of the groups and time-outs overlapped; if a device that has moved
\* is not moved again, nor its group deleted, until the watcher has written the
\* lists, and if bookings do not begin, end or lose a device meanwhile.  The
\* code does not wait for the lists: the request is answered before, so that
\* the lists of the second move may be written first, or a group deleted that
\* does not list the device yet; and nothing is listed for a device whose row
\* still shows a booking that is gone.
OriginsAgree ==
    {"relist", "schedule", "unbook"} \subseteq scenario /\ Quiet =>
        \A d \in Devices :
            /\ Exists(devices[d].origin)
            /\ \A g \in Origins :
                   Exists(g) => (d \in groups[g].devices <=> devices[d].origin = g)

\* Once nothing is under way, a device is in the booking of it that is active,
\* or else in its origin, and has the class of that group, however moves,
\* additions and deletions overlapped; if a booking does not begin, end or lose
\* a device meanwhile, whose queries could be overtaken, and if a move waits
\* for the lists of the last one or no origin group was deleted: a device whose
\* origin is gone stays in a booking that is over.
CurrentIsRight ==
    /\ {"schedule", "unbook"} \subseteq scenario /\ Quiet
    /\ "relist" \in scenario \/ \A g \in Origins : Exists(g)
    =>
        \A d \in Devices :
            LET active == {b \in Bookings : /\ Exists(b) /\ groups[b].active
                                            /\ d \in groups[b].devices}
            IN  /\ devices[d].id \in IF active = {} THEN {devices[d].origin} ELSE active
                /\ devices[d].class = Class(devices[d].id)

\* Once nothing is under way, whoever holds a device is in its current group:
\* a holder whose device was moved or booked, however moves and additions
\* overlapped, has lost it if it is not in the new group.  Holds if a move
\* waits for the lists of the last one, and if an invitation or the removal of
\* a user waits for all else: the watchers look at the owner in the row, which
\* an invitation that is under way is not yet, and at the list of the group's
\* devices.
NoOutsider ==
    {"relist", "schedule", "unbook", "invite", "users"} \subseteq scenario /\ Quiet =>
        \A d \in Devices :
            holder[d] # None /\ Exists(devices[d].id)
                => holder[d] \in groups[devices[d].id].users

\* A request that is answered has moved its device, however requests about this
\* device and others overlap, wait for their answers or time out: the answer is
\* to its own ticket, which no other one has overtaken; if none of the requests
\* about this device has timed out and unlocked what its ticket is still about
\* to change, and no origin group was deleted meanwhile.
AnswerIsTrue ==
    [][ \A r \in Requests :
            /\ At(r, "wait") /\ requests[r].at # requests'[r].at
            /\ "delete" \in scenario /\ requests[r].serial \notin late'
            => devices[requests[r].serial].origin = requests[r].to ]_vars

\* Requests are alike, and bookings.
Symmetry == Permutations(Requests) \cup Permutations(Bookings)
=============================================================================
