------------------------------- MODULE Booking -------------------------------
(***************************************************************************)
(* The booking of devices: the group rows of the database with their locks *)
(* and their owner's quotas (db/api.ts), the API requests that change them *)
(* (units/api/controllers/groups.ts) and the scheduler of the groups       *)
(* engine (units/groups-engine/scheduler/index.ts).                        *)
(*                                                                         *)
(* Every query is a step of its own, and a request goes on with the row    *)
(* that its lock returned.  The groups are transient ones (class once,     *)
(* hourly, ...) of one owner, the devices those of one bookable group.     *)
(* Users, names and permissions are left out.                              *)
(***************************************************************************)
EXTENDS Integers, FiniteSets, Sequences, FiniteSetsExt

CONSTANTS
    Groups,         \* group ids
    None,           \* "no row", "no request", "no tick", "no argument"
    Devices,        \* devices of the bookable group
    Requests,       \* API requests that may be served at a time
    Ticks,          \* ticks of the scheduler that may overlap
    Scenarios,      \* sets of operations that do not overlap with another one
    Focus,          \* bound: the groups there are if everything overlaps
    MaxNumber,      \* quotas allocated to the owner: number of groups
    MaxDuration,    \* and duration of their bookings
    Period,         \* CLASS_DURATION of the repeated classes
    MaxStart, MaxTimes,     \* bounds: the dates that requests ask for
    MaxTime,        \* bound: the clock
    MaxDrift        \* bound: how far the charged duration may drift below 0
                    \* (see QuotaIsExact) before requests are no longer made

ASSUME QuotasAreNumbers == MaxNumber \in Nat /\ MaxDuration \in Nat
ASSUME PeriodIsPositive == Period \in Nat \ {0}
ASSUME DatesAreNumbers == MaxStart \in Nat /\ MaxTimes \in Nat
ASSUME DatabaseIsFinite == IsFiniteSet(Groups) /\ IsFiniteSet(Devices)
ASSUME FocusIsOnGroups == Focus \subseteq Groups

VARIABLES
    groups,     \* the rows
    lock,       \* their locks
    deviceLock, \* the devices that are locked
    originLock, \* the user lock of the bookable group
    consumed,   \* the quotas that the owner consumes
    requests,   \* the API requests under way
    ticks,      \* the ticks under way
    now,        \* the clock
    scenario    \* what does not overlap with anything in this run

vars == <<groups, lock, deviceLock, originLock, consumed, requests, ticks,
          now, scenario>>

Operations == {"create", "add", "remove", "update", "delete", "tick"}
-----------------------------------------------------------------------------
(***************************************************************************)
(* Dates, as they are computed (util/apiutil.ts).                          *)
(***************************************************************************)
\* computeGroupDates: `times' dates of the same length, one period apart.
Schedules == [start : 0..MaxStart, length : 1..Period, times : 1..MaxTimes]
Start(s, i) == s.start + (i - 1) * Period
Stop(s, i)  == Start(s, i) + s.length

\* checkConflicts, of two schedules.
Overlap(s, t) ==
    \E i \in 1..s.times, j \in 1..t.times :
        /\ Start(s, i) < Stop(t, j)
        /\ Stop(s, i) > Start(t, j)

\* computeDuration.
Duration(devices, s) == Cardinality(devices) * s.length * s.times

Row(g, state, s) ==
    [id |-> g, state |-> state, isActive |-> FALSE, dates |-> s,
     devices |-> {}, duration |-> 0]

Free == [user |-> FALSE, admin |-> FALSE]

Exists(g) == groups[g] # None
Used == IF scenario = {} THEN Focus ELSE Groups
Rows == {groups[g] : g \in {h \in Groups : Exists(h)}}

Init ==
    /\ groups = [g \in Groups |-> None]
    /\ lock = [g \in Groups |-> Free]
    /\ deviceLock = {}
    /\ originLock = FALSE
    /\ consumed = [number |-> 0, duration |-> 0]
    /\ requests = [r \in Requests |-> None]
    /\ ticks = [t \in Ticks |-> None]
    /\ now = 0
    /\ scenario \in Scenarios

\* The rows, what a request and what a tick knows.
States == {"pending", "ready"}
Dates == [start : Nat, length : 1..Period, times : 1..MaxTimes]
GroupRows ==
    [id : Groups, state : States \cup {"waiting"}, isActive : BOOLEAN,
     dates : Dates, devices : SUBSET Devices, duration : Nat]

Creations == [op : {"create"}, at : {"insert"}, group : GroupRows]
Additions ==
    [op : {"add"}, held : SUBSET {"device", "origin"}, group : GroupRows,
     device : Devices,
     at : {"lockDevice", "lockOrigin", "check", "charge", "write", "unlock"}]
Removals ==
    [op : {"remove"}, held : {{}}, group : GroupRows, device : Devices,
     at : {"charge", "write", "unlock"}]
Updates ==
    [op : {"update"}, held : {{}}, group : GroupRows, state : States,
     dates : Dates, at : {"check", "charge", "write", "unlock"}]
Deletions == [op : {"delete"}, at : {"delete", "settle"}, group : GroupRows]
Served == Creations \cup Additions \cup Removals \cup Updates \cup Deletions

Decisions ==
    [do : {"nothing", "delete", "becomeUnactive", "becomeActive", "clean"},
     drop : Nat]
Scheduled ==
    [at : {"lock", "write", "charge", "settle", "unlock"}, tried : BOOLEAN,
     todo : Seq([group : GroupRows, todo : Decisions])]

ASSUME NoneIsNothing == None \notin GroupRows \cup Served \cup Scheduled

rows     == <<groups, lock>>
devices  == <<deviceLock, originLock>>
timing   == <<now, scenario>>
-----------------------------------------------------------------------------
(***************************************************************************)
(* The API requests.  A request carries the row that it locked, and what   *)
(* it writes is computed from that.                                        *)
(***************************************************************************)
Serving    == {r \in Requests : requests[r] # None}
Scheduling == {t \in Ticks : ticks[t] # None}
Busy == {requests[r].op : r \in Serving} \cup {"tick" : t \in Scheduling}

\* What does not overlap waits for the others, and they wait for it.
MayStart(op) ==
    IF op \in scenario THEN Busy = {} ELSE Busy \cap scenario = {}

GroupsOf(t) == {ticks[t].todo[i].group.id : i \in DOMAIN ticks[t].todo}

At(r, at) == requests[r] # None /\ requests[r].at = at
Goto(r, at) == requests' = [requests EXCEPT ![r].at = at]
Hold(r, what, at) ==
    requests' = [requests EXCEPT ![r].at = at, ![r].held = @ \cup {what}]
Done(r) == requests' = [requests EXCEPT ![r] = None]

\* updateUserGroupDuration: the difference is charged if the quota allows it.
Charged(old, new) ==
    IF consumed.duration - old + new <= MaxDuration
    THEN [consumed EXCEPT !.duration = @ - old + new]
    ELSE consumed

\* createGroup: reserveUserGroupInstance, if the quota allows it, and a fresh
\* id.
CreateGroup(r, g, state, dates) ==
    /\ requests[r] = None
    /\ MayStart("create")
    /\ ~Exists(g)
    /\ \A q \in Serving : requests[q].group.id # g
    /\ \A t \in Scheduling : g \notin GroupsOf(t)
    /\ consumed.number + 1 <= MaxNumber
    /\ consumed' = [consumed EXCEPT !.number = @ + 1]
    /\ requests' = [requests EXCEPT ![r] =
           [op |-> "create", at |-> "insert", group |-> Row(g, state, dates)]]
    /\ UNCHANGED <<rows, devices, ticks, timing>>

Insert(r) ==
    LET g == requests[r].group
    IN  /\ At(r, "insert")
        /\ groups' = [groups EXCEPT ![g.id] = g]
        /\ Done(r)
        /\ UNCHANGED <<lock, devices, consumed, ticks, timing>>

\* lockGroupByOwner is the first query of every other request; one that is
\* refused (the group is gone, or locked at every attempt) has no effect.
\* The request goes on with the row `g' that was returned.
Lock(r, g, op, request) ==
    /\ requests[r] = None
    /\ MayStart(op)
    /\ Exists(g)
    /\ lock[g] = Free
    /\ lock' = [lock EXCEPT ![g].user = TRUE]
    /\ requests' = [requests EXCEPT ![r] = request]
    /\ UNCHANGED <<groups, devices, consumed, ticks, timing>>

\* addGroupDevices, of a device that the group has not got yet.
AddDevice(r, g, d) ==
    /\ Exists(g) /\ d \notin groups[g].devices
    /\ Lock(r, g, "add", [op |-> "add", at |-> "lockDevice", held |-> {},
                          group |-> groups[g], device |-> d])

\* removeGroupDevices, of a device that the group has got.
RemoveDevice(r, g, d) ==
    /\ Exists(g) /\ d \in groups[g].devices
    /\ Lock(r, g, "remove", [op |-> "remove", at |-> "charge", held |-> {},
                             group |-> groups[g], device |-> d])

\* Mutant: a later first date is not looked at.
WidenedByTimes(old, new) ==
    \/ new.start < old.start
    \/ new.times > old.times
    \/ (new.times = 1) # (old.times = 1)

\* updateGroup looks for conflicts unless the dates shrink.
Widened(old, new) ==
    \/ new.start < old.start
    \/ Stop(new, 1) > Stop(old, 1)
    \/ new.times > old.times
    \/ (new.times = 1) # (old.times = 1)        \* another class

\* updateGroup, of a pending group: of another one only the name is updated.
UpdateGroup(r, g, state, dates) ==
    /\ Exists(g) /\ groups[g].state = "pending"
    /\ groups[g].state # state \/ groups[g].dates # dates
    /\ Lock(r, g, "update",
            [op |-> "update", held |-> {}, group |-> groups[g],
             at |-> IF Widened(groups[g].dates, dates) THEN "check" ELSE "charge",
             state |-> state, dates |-> dates])

\* deleteGroups.
DeleteGroup(r, g) ==
    /\ Exists(g)
    /\ Lock(r, g, "delete", [op |-> "delete", at |-> "delete",
                             group |-> groups[g]])

\* lockBookableDevice.
LockDevice(r) ==
    LET d == requests[r].device
    IN  /\ At(r, "lockDevice")
        /\ IF d \in deviceLock
           THEN /\ Goto(r, "unlock")
                /\ UNCHANGED deviceLock
           ELSE /\ deviceLock' = deviceLock \cup {d}
                /\ Hold(r, "device", "lockOrigin")
        /\ UNCHANGED <<rows, originLock, consumed, ticks, timing>>

\* lockGroup, of the device's origin group.
LockOrigin(r) ==
    /\ At(r, "lockOrigin")
    /\ IF originLock
       THEN /\ Goto(r, "unlock")
            /\ UNCHANGED originLock
       ELSE /\ originLock' = TRUE
            /\ Hold(r, "origin", "check")
    /\ UNCHANGED <<rows, deviceLock, consumed, ticks, timing>>

\* checkConflicts, with every other group as it is now.
Check(r) ==
    LET q     == requests[r]
        dates == IF q.op = "add" THEN q.group.dates ELSE q.dates
        used  == IF q.op = "add" THEN {q.device} ELSE q.group.devices
        conflicts == {g \in Rows : /\ g.id # q.group.id
                                   /\ used \cap g.devices # {}
                                   /\ Overlap(dates, g.dates)}
    IN  /\ At(r, "check")
        /\ Goto(r, IF conflicts = {} THEN "charge" ELSE "unlock")
        /\ UNCHANGED <<rows, devices, consumed, ticks, timing>>

\* The row that a request is about to write.
Changed(q) ==
    LET used  == CASE q.op = "add"    -> q.group.devices \cup {q.device}
                   [] q.op = "remove" -> q.group.devices \ {q.device}
                   [] q.op = "update" -> q.group.devices
        dates == IF q.op = "update" THEN q.dates ELSE q.group.dates
    IN  [q.group EXCEPT !.devices = used, !.dates = dates,
                        !.duration = Duration(used, dates)]

\* addGroupDevices, removeGroupDevices, updateUserGroup: the quota first.
Charge(r) ==
    LET q   == requests[r]
        old == q.group.duration
        new == Changed(q).duration
    IN  /\ At(r, "charge")
        /\ consumed' = Charged(old, new)
        /\ Goto(r, IF \/ consumed' # consumed
                      \/ q.op = "remove"
                      \/ q.op = "update" /\ new = old
                   THEN "write" ELSE "unlock")
        /\ UNCHANGED <<rows, devices, ticks, timing>>

\* updateGroup, of the fields the request is about.
Write(r) ==
    LET q == requests[r]
        g == Changed(q)
    IN  /\ At(r, "write")
        /\ groups' = [groups EXCEPT ![g.id] =
               IF q.op = "update"
               THEN [@ EXCEPT !.dates = g.dates, !.duration = g.duration,
                              !.state = q.state, !.isActive = FALSE]
               ELSE [@ EXCEPT !.devices = g.devices, !.duration = g.duration]]
        /\ Goto(r, "unlock")
        /\ UNCHANGED <<lock, devices, consumed, ticks, timing>>

\* unlockGroup, unlockDevice and unlockGroup of the origin.
Unlock(r) ==
    LET q == requests[r]
    IN  /\ At(r, "unlock")
        /\ lock' = [lock EXCEPT ![q.group.id].user = FALSE]
        /\ deviceLock' = IF "device" \in q.held THEN deviceLock \ {q.device}
                                                ELSE deviceLock
        /\ originLock' = (originLock /\ "origin" \notin q.held)
        /\ Done(r)
        /\ UNCHANGED <<groups, consumed, ticks, timing>>

\* deleteUserGroup: the row, read again, then what it consumed.
RowDeleted(g) ==
    /\ groups' = [groups EXCEPT ![g] = None]
    /\ lock' = [lock EXCEPT ![g] = Free]

\* Mutant: the group still counts.
SettledDuration(g) == Charged(g.duration, 0)

Settled(g) ==
    [Charged(g.duration, 0) EXCEPT !.number = IF @ >= 1 THEN @ - 1 ELSE @]

DeleteRow(r) ==
    LET g == requests[r].group.id
    IN  /\ At(r, "delete")
        /\ RowDeleted(g)
        /\ requests' = [requests EXCEPT ![r].group = groups[g],
                                        ![r].at = "settle"]
        /\ UNCHANGED <<devices, consumed, ticks, timing>>

Settle(r) ==
    /\ At(r, "settle")
    /\ consumed' = Settled(requests[r].group)
    /\ Done(r)
    /\ UNCHANGED <<rows, devices, ticks, timing>>
-----------------------------------------------------------------------------
(***************************************************************************)
(* The scheduler.  A tick works through the rows that it read when it      *)
(* began, whatever has become of them.                                     *)
(***************************************************************************)
\* What is to be done about a row at a time: to delete it, or to drop the
\* first of its dates and set isActive.
Todo(do, drop) == [do |-> do, drop |-> drop]

Decision(g, time) ==
    LET left  == {i \in 1..g.dates.times : time < Stop(g.dates, i)}
        first == Min(left)
    IN  IF g.state = "pending" THEN Todo("nothing", 0)
        ELSE IF (g.isActive \/ g.state = "waiting") /\ 1 \notin left
        THEN IF g.dates.times = 1 THEN Todo("delete", 0)
                                  ELSE Todo("becomeUnactive", 1)
        ELSE IF g.isActive THEN Todo("nothing", 0)
        ELSE IF left = {} THEN Todo("delete", 0)
        ELSE IF time >= Start(g.dates, first)
        THEN Todo("becomeActive", first - 1)
        ELSE IF first > 1 THEN Todo("clean", first - 1)
        ELSE Todo("nothing", 0)

\* An order of a set of things to do, by the first date.
Ordered(todo) ==
    {s \in [1..Cardinality(todo) -> todo] :
        \A i, j \in DOMAIN s :
            i < j => /\ s[i] # s[j]
                     /\ s[i].group.dates.start <= s[j].group.dates.start}

\* getReadyGroupsOrderByIndex, without the rows nothing is done about.
Read(t) ==
    LET due == {[group |-> g, todo |-> Decision(g, now)] : g \in Rows}
        todo == {d \in due : d.todo.do # "nothing"}
    IN  /\ ticks[t] = None
        /\ MayStart("tick")
        /\ todo # {}
        /\ \E s \in Ordered(todo) :
              ticks' = [ticks EXCEPT ![t] =
                           [at |-> "lock", tried |-> FALSE, todo |-> s]]
        /\ UNCHANGED <<rows, devices, consumed, requests, timing>>

Step(t, at) == ticks[t] # None /\ ticks[t].at = at
Continue(t, at) == ticks' = [ticks EXCEPT ![t].at = at]
NextGroup(t) ==
    ticks' = [ticks EXCEPT ![t] =
                 IF Len(@.todo) = 1 THEN None
                 ELSE [at |-> "lock", tried |-> FALSE, todo |-> Tail(@.todo)]]

\* The row as it was read, and what is to be done about it.
Due(t)  == Head(ticks[t].todo).group
What(t) == Head(ticks[t].todo).todo

\* Mutant: it has the group whoever holds it.
AdminLockAnyway(t) ==
    LET g == Due(t).id
    IN  /\ Step(t, "lock")
        /\ Exists(g)
        /\ lock' = [lock EXCEPT ![g] = [user |-> TRUE, admin |-> TRUE]]
        /\ Continue(t, "write")
        /\ UNCHANGED <<groups, devices, consumed, requests, timing>>

\* Mutant: it waits its turn like a request.
AdminLockPolitely(t) ==
    LET g == Due(t).id
    IN  /\ Step(t, "lock")
        /\ Exists(g)
        /\ lock' = [lock EXCEPT ![g].user = TRUE]
        /\ ticks' = [ticks EXCEPT ![t].tried = TRUE,
                                  ![t].at = IF lock[g].user THEN @ ELSE "write"]
        /\ UNCHANGED <<groups, devices, consumed, requests, timing>>

\* adminLockGroup: it takes the admin lock at once, so no request locks the
\* group any more, but has the group only if no request holds it.
AdminLock(t) ==
    LET g == Due(t).id
    IN  /\ Step(t, "lock")
        /\ Exists(g)
        /\ lock' = [lock EXCEPT ![g] = [user |-> TRUE, admin |-> TRUE]]
        /\ ticks' = [ticks EXCEPT ![t].tried = TRUE,
                                  ![t].at = IF lock[g].user THEN @ ELSE "write"]
        /\ UNCHANGED <<groups, devices, consumed, requests, timing>>

\* The group is gone: nothing that follows has an effect.
AdminLockSkipped(t) ==
    /\ Step(t, "lock")
    /\ ~Exists(Due(t).id)
    /\ NextGroup(t)
    /\ UNCHANGED <<rows, devices, consumed, requests, timing>>

\* It was held at every attempt.  A group that is over waits.
AdminLockRefused(t) ==
    LET g == Due(t).id
    IN  /\ Step(t, "lock")
        /\ ticks[t].tried
        /\ Exists(g)
        /\ groups' = IF What(t).do \in {"delete", "becomeUnactive"}
                     THEN [groups EXCEPT ![g].isActive = FALSE,
                                         ![g].state = "waiting"]
                     ELSE groups
        /\ NextGroup(t)
        /\ UNCHANGED <<lock, devices, consumed, requests, timing>>

\* updateGroupDates: dates and duration are those of the row that was read.
Dropped(g, drop) ==
    [g.dates EXCEPT !.start = @ + drop * Period, !.times = @ - drop]

UpdateDates(t) ==
    LET g     == Due(t)
        dates == Dropped(g, What(t).drop)
    IN  /\ Step(t, "write")
        /\ What(t).do # "delete"
        /\ groups' = [groups EXCEPT ![g.id] = [@ EXCEPT
                         !.dates = dates,
                         !.duration = Duration(g.devices, dates),
                         !.isActive = (What(t).do = "becomeActive"),
                         !.state = "ready"]]
        /\ Continue(t, "charge")
        /\ UNCHANGED <<lock, devices, consumed, requests, timing>>

UpdateQuota(t) ==
    LET g == Due(t)
    IN  /\ Step(t, "charge")
        /\ consumed' = Charged(g.duration,
                               Duration(g.devices, Dropped(g, What(t).drop)))
        /\ Continue(t, "unlock")
        /\ UNCHANGED <<rows, devices, requests, timing>>

\* deleteUserGroup, which reads the row again.
DeleteOver(t) ==
    LET g == Due(t).id
    IN  /\ Step(t, "write")
        /\ What(t).do = "delete"
        /\ RowDeleted(g)
        /\ ticks' = [ticks EXCEPT ![t].at = "settle",
                                  ![t].todo[1].group = groups[g]]
        /\ UNCHANGED <<devices, consumed, requests, timing>>

SettleOver(t) ==
    /\ Step(t, "settle")
    /\ consumed' = Settled(Due(t))
    /\ Continue(t, "unlock")
    /\ UNCHANGED <<rows, devices, requests, timing>>

\* adminUnlockGroup.
AdminUnlock(t) ==
    /\ Step(t, "unlock")
    /\ lock' = [lock EXCEPT ![Due(t).id] = Free]
    /\ NextGroup(t)
    /\ UNCHANGED <<groups, devices, consumed, requests, timing>>

Time ==
    /\ now < MaxTime
    /\ now' = now + 1
    /\ UNCHANGED <<rows, devices, consumed, requests, ticks, scenario>>

Serve(r) ==
    \/ Insert(r)
    \/ LockDevice(r)
    \/ LockOrigin(r)
    \/ Check(r)
    \/ Charge(r)
    \/ Write(r)
    \/ Unlock(r)
    \/ DeleteRow(r)
    \/ Settle(r)

Schedule(t) ==
    \/ Read(t)
    \/ AdminLock(t)
    \/ AdminLockSkipped(t)
    \/ AdminLockRefused(t)
    \/ UpdateDates(t)
    \/ UpdateQuota(t)
    \/ DeleteOver(t)
    \/ SettleOver(t)
    \/ AdminUnlock(t)

Ask(r) ==
    \/ \E g \in Used, state \in States, dates \in Schedules :
           CreateGroup(r, g, state, dates)
    \/ \E g \in Used, d \in Devices : AddDevice(r, g, d)
    \/ \E g \in Used, d \in Devices : RemoveDevice(r, g, d)
    \/ \E g \in Used, state \in States, dates \in Schedules :
           UpdateGroup(r, g, state, dates)
    \/ \E g \in Used : DeleteGroup(r, g)

Drifted == consumed.duration < -MaxDrift

Next ==
    \/ \E r \in Requests : ~Drifted /\ Ask(r)
    \/ \E r \in Requests : Serve(r)
    \/ \E t \in Ticks : Schedule(t)
    \/ Time

Spec == Init /\ [][Next]_vars

\* Requests and ticks go on, a tick begins every second, and time passes.
\* Nobody has to ask.
Fairness ==
    /\ \A r \in Requests : WF_vars(Serve(r))
    /\ \A t \in Ticks : WF_vars(Schedule(t))
    /\ WF_vars(Time)

FairSpec == Spec /\ Fairness
-----------------------------------------------------------------------------
(***************************************************************************)
(* Properties.                                                             *)
(***************************************************************************)
\* The type invariant.
TypeOK ==
    /\ groups \in [Groups -> GroupRows \cup {None}]
    /\ lock \in [Groups -> [user : BOOLEAN, admin : BOOLEAN]]
    /\ deviceLock \subseteq Devices
    /\ originLock \in BOOLEAN
    /\ consumed \in [number : 0..MaxNumber, duration : Int]
    /\ requests \in [Requests -> Served \cup {None}]
    /\ ticks \in [Ticks -> Scheduled \cup {None}]
    /\ now \in Nat
    /\ scenario \in Scenarios

\* No device is booked by two groups for the same time: "The booking system
\* allows you to reserve a set of devices for a set of users during a limited
\* time" (README.md:69).  The code does not keep that promise: updateGroup
\* looks for conflicts without a lock on the devices, so what it found may no
\* longer be true when it writes the dates.
DevicesAreBookedOnce ==
    \A g, h \in Rows :
        g # h /\ g.devices \cap h.devices # {} => ~Overlap(g.dates, h.dates)

\* It keeps it as long as groups do not change their schedules while another
\* request or a tick is under way, and ticks do not overlap with each other:
\* additions of devices, removals, deletions and a tick may overlap in any way.
\* (A tick that is late writes dates back that another one has dropped.)
TicksFollowEachOther == "tick" \in scenario \/ \A t, u \in Ticks : t = u

NoDoubleBooking ==
    "update" \in scenario /\ TicksFollowEachOther => DevicesAreBookedOnce

\* Once nothing is under way, the owner is charged for exactly the groups
\* there are, however requests and ticks overlapped; and for what they book, if
\* ticks do not overlap with requests: one that does writes the duration of the
\* row that it read before.
NumberIsExact == Busy = {} => consumed.number = Cardinality(Rows)

QuotaIsExact ==
    /\ NumberIsExact
    /\ Busy = {} /\ "tick" \in scenario =>
           /\ consumed.duration = MapThenSumSet(LAMBDA g : g.duration, Rows)
           /\ \A g \in Rows : g.duration = Duration(g.devices, g.dates)

\* The requests and ticks that have the lock of a group.
Locked == {"lockDevice", "lockOrigin", "check", "charge", "write", "unlock",
           "delete"}
Holders(g) ==
    {r \in Serving : /\ requests[r].group.id = g
                     /\ requests[r].at \in Locked}
    \cup {t \in Scheduling : /\ Due(t).id = g
                             /\ ticks[t].at \in {"write", "charge"}}

\* They exclude each other: the two locks of a row, taken by requests and
\* ticks in different ways, make up one.
OneHolder ==
    \A g \in Groups : Cardinality(Holders(g)) <= 1

\* A group that was made ready is deleted in the end: its dates pass, and the
\* ticks that find its lock taken get it sooner or later, whatever requests are
\* made (MaxTime is at least MaxStart + MaxTimes * Period).  Where ticks wait
\* for requests, which the code does not make them do, nothing is said.
OverIsDeleted ==
    \A g \in Groups :
        (Exists(g) /\ groups[g].state # "pending" /\ "tick" \notin scenario)
            ~> ~Exists(g)
=============================================================================
