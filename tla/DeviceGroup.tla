---------------------------- MODULE DeviceGroup ----------------------------
(***************************************************************************)
(* The group plugin of one device worker (units/device/plugins/group.ts)   *)
(* with the channel manager it keeps its idle timer in                     *)
(* (wire/channelmanager.ts).                                               *)
(*                                                                         *)
(* The worker is one JavaScript thread, but no handler is one step:        *)
(* grouputil.match and plugin.get are Bluebird promises, so what follows   *)
(* them runs later, from Bluebird's FIFO queue of continuations.  A turn   *)
(* of the event loop first emits the events that are ready (messages of    *)
(* the SUB socket, timers, signals), then drains the queue.  `jobs' is     *)
(* that queue; a job carries what plugin.get found when it was called.     *)
(* Time is abstracted: an idle timer may find the channel inactive at any  *)
(* moment.                                                                 *)
(***************************************************************************)
EXTENDS Naturals, Sequences

CONSTANTS
    Users,              \* users; a user's group channel is named by the user
    None,               \* "no user"
    Batch,              \* most events that one turn emits before it drains
    MaxReservations     \* bound: reservations the model lets a device issue

ASSUME NoneIsNoUser == None \notin Users
ASSUME BatchIsPositive == Batch \in Nat \ {0}

VARIABLES
    currentGroup,   \* the owner the plugin holds, NoGroup if none
    issued,         \* reservation ids drawn so far (randomUUID)
    channels,       \* group channels registered with the channel manager
    alias,          \* channel the alias solo.channel stands for, or None
    timers,         \* pending idle timers: <<channel, kind>>
    subscribed,     \* group channels the SUB socket is subscribed to
    jobs,           \* Bluebird's queue of continuations
    received,       \* events emitted in this turn; Batch once draining
    phase,          \* "running", "stopping" (after SIGTERM) or "exited"
    announced,      \* the owner a listener of the global channel knows of
    contested       \* history: two joins of one turn both found the device free

vars == <<currentGroup, issued, channels, alias, timers, subscribed, jobs,
          received, phase, announced, contested>>

-----------------------------------------------------------------------------
NoGroup == [group |-> None, reservationId |-> 0]
Groups  == [group : Users \cup {None}, reservationId : Nat]

Owner(u, id) == [group |-> u, reservationId |-> id]

\* "own" is the timer of the channel's record; a "stray" one is left behind
\* by a record that register replaced, and nothing can clear it.
TimerKinds == {"own", "stray"}

JobsOf(steps, users) ==
    [step          : steps,
     user          : users,         \* who asks to join
     reply         : BOOLEAN,       \* the caller awaits a reply
     found         : Groups,        \* what plugin.get settled with
     reservationId : Nat]           \* required by a leave; 0 is none
Jobs == JobsOf({"matchJoin", "join", "take"}, Users)
        \cup JobsOf({"okay", "matchLeave", "leave"}, {None})

JoinJob(step, u, reply, found) ==
    [step |-> step, user |-> u, reply |-> reply, found |-> found,
     reservationId |-> 0]
LeaveJob(step, found, id) ==
    [step |-> step, user |-> None, reply |-> FALSE, found |-> found,
     reservationId |-> id]

Init ==
    /\ currentGroup = NoGroup
    /\ issued = 0
    /\ channels = {}
    /\ alias = None
    /\ timers = {}
    /\ subscribed = {}
    /\ jobs = <<>>
    /\ received = 0
    /\ phase = "running"
    /\ announced = NoGroup
    /\ contested = FALSE

records == <<currentGroup, issued, channels, alias, timers, subscribed, announced>>
worker  == <<records, contested>>
-----------------------------------------------------------------------------
(***************************************************************************)
(* The events of a turn: Emit(s) emits one and queues the continuations s. *)
(* A leave queues one only if plugin.get finds a group: otherwise there is *)
(* nothing but NoGroupError.                                               *)
(***************************************************************************)
Emit(s) ==
    /\ phase # "exited"
    /\ received < Batch
    /\ jobs' = jobs \o s
    /\ received' = IF jobs' = <<>> THEN 0 ELSE received + 1

\* plugin.leave: get() is called at once, its continuation later.
LeaveNow(group, id) ==
    IF group = NoGroup THEN <<>> ELSE <<LeaveJob("leave", group, id)>>

\* A join that was told by plugin.get that the device is free.
IsSeeker(job) ==
    \/ job.step = "join" /\ job.found = NoGroup
    \/ job.step = "take"

\* plugin.get answers a join: whether it is the second to find the device free.
JoinAsks ==
    contested' = (contested \/ /\ currentGroup = NoGroup
                               /\ \E i \in DOMAIN jobs : IsSeeker(jobs[i]))

BoundReservations == issued + Len(jobs) < MaxReservations

\* GroupMessage, its requirements met (a mismatch changes nothing).
ReceiveGroup(u) ==
    /\ BoundReservations
    /\ Emit(<<JoinJob("matchJoin", u, TRUE, NoGroup)>>)
    /\ UNCHANGED <<worker, phase>>

\* Mutant: AutoGroup joins without asking plugin.get.
ReceiveAutoGroupBlindly(u) ==
    /\ BoundReservations
    /\ Emit(<<JoinJob("join", u, FALSE, NoGroup)>>)
    /\ UNCHANGED <<worker, phase>>

\* AutoGroupMessage: no requirements, so join calls get() on the spot.
ReceiveAutoGroup(u) ==
    /\ BoundReservations
    /\ Emit(<<JoinJob("join", u, FALSE, currentGroup)>>)
    /\ JoinAsks
    /\ UNCHANGED <<records, phase>>

\* UngroupMessage; id 0 is the unconditional release of older callers.
ReceiveUngroup(id) ==
    /\ Emit(<<LeaveJob("matchLeave", NoGroup, id)>>)
    /\ UNCHANGED <<worker, phase>>

\* Mutant: the alias of the channel stays taken.
UnregisteredKeepingAlias(u) ==
    /\ channels' = channels \ {u}
    /\ timers' = timers \ {<<u, "own">>}
    /\ UNCHANGED alias

\* ChannelManager.unregister, of a registered channel.
Unregistered(u) ==
    /\ channels' = channels \ {u}
    /\ timers' = timers \ {<<u, "own">>}
    /\ alias' = None

\* ChannelManager.check, by a timer that finds the channel inactive: the
\* channel is unregistered and, if it is the current group's, left.  With no
\* record of the channel, check throws and the process dies.
CheckTimeout(u, kind) ==
    /\ <<u, kind>> \in timers
    /\ u \in channels
    /\ channels' = channels \ {u}
    /\ timers' = timers \ {<<u, kind>>, <<u, "own">>}
    /\ alias' = None
    /\ Emit(IF currentGroup.group = u THEN LeaveNow(currentGroup, 0) ELSE <<>>)
    /\ UNCHANGED <<currentGroup, issued, subscribed, phase, announced, contested>>

\* SIGTERM: lifecycle.graceful runs the plugin's observer.
Stop ==
    /\ phase = "running"
    /\ phase' = "stopping"
    /\ Emit(LeaveNow(currentGroup, 0))
    /\ UNCHANGED worker
-----------------------------------------------------------------------------
(***************************************************************************)
(* The drain: the continuation at the head of the queue runs, and may      *)
(* queue another.  The turn ends when the queue is empty.                  *)
(***************************************************************************)
Drain(step) ==
    /\ phase # "exited"
    /\ jobs # <<>>
    /\ Head(jobs).step = step

Continue(s) ==
    /\ jobs' = Tail(jobs) \o s
    /\ received' = IF jobs' = <<>> THEN 0 ELSE Batch
    /\ UNCHANGED phase

\* The match of a GroupMessage resolved: plugin.join calls get().
MatchedJoin ==
    /\ Drain("matchJoin")
    /\ Continue(<<JoinJob("join", Head(jobs).user, TRUE, currentGroup)>>)
    /\ JoinAsks
    /\ UNCHANGED records

\* Mutant: an idempotent join is acknowledged under an id of its own.
JoinGroupedAnew ==
    /\ Drain("join")
    /\ Head(jobs).found # NoGroup
    /\ Continue(IF Head(jobs).reply /\ currentGroup.group = Head(jobs).user
                THEN <<JoinJob("okay", None, TRUE,
                               Owner(currentGroup.group, issued + 1))>>
                ELSE <<>>)
    /\ UNCHANGED worker

\* get() had found a group: the same one is returned, another one refused
\* (and if it is gone by now, reading its channel throws).
JoinGrouped ==
    /\ Drain("join")
    /\ Head(jobs).found # NoGroup
    /\ Continue(IF Head(jobs).reply /\ currentGroup.group = Head(jobs).user
                THEN <<JoinJob("okay", None, TRUE, currentGroup)>>
                ELSE <<>>)
    /\ UNCHANGED worker

\* get() had found none: the handler of the error comes after the one that is
\* passed over.
JoinMissed ==
    /\ Drain("join")
    /\ Head(jobs).found = NoGroup
    /\ Continue(<<[Head(jobs) EXCEPT !.step = "take"]>>)
    /\ UNCHANGED worker

\* The handler of NoGroupError: the group becomes the current one, whatever it is
\* now.  ChannelManager.register stores the channel before it looks at the
\* alias: if that is taken it throws, and neither the subscription nor the
\* announcement happens.
JoinFree ==
    LET u   == Head(jobs).user
        new == Owner(u, issued + 1)
        orphaned == {<<u, "stray">> : t \in timers \cap {<<u, "own">>}}
        kept == (timers \ {<<u, "own">>}) \cup orphaned
    IN  /\ Drain("take")
        /\ UNCHANGED contested
        /\ issued' = issued + 1
        /\ currentGroup' = new
        /\ channels' = channels \cup {u}
        /\ \/ /\ alias = None
              /\ alias' = u
              /\ timers' = kept \cup {<<u, "own">>}
              /\ subscribed' = subscribed \cup {u}
              /\ announced' = new
              /\ Continue(IF Head(jobs).reply
                          THEN <<JoinJob("okay", None, TRUE, new)>>
                          ELSE <<>>)
           \/ /\ alias # None
              /\ timers' = kept
              /\ Continue(<<>>)
              /\ UNCHANGED <<alias, subscribed, announced>>

\* reply.okay(null, {owner}): the caller is told the reservation it got.
Acknowledge ==
    /\ Drain("okay")
    /\ Continue(<<>>)
    /\ UNCHANGED worker

\* The match of an UngroupMessage resolved: plugin.leave calls get().
MatchedLeave ==
    /\ Drain("matchLeave")
    /\ Continue(LeaveNow(currentGroup, Head(jobs).reservationId))
    /\ UNCHANGED worker

\* A conditional release that names another reservation is refused.
LeaveRefused ==
    /\ Drain("leave")
    /\ Head(jobs).reservationId # 0
    /\ Head(jobs).reservationId # currentGroup.reservationId
    /\ Continue(<<>>)
    /\ UNCHANGED worker

\* The group that get() found is unregistered, unsubscribed and announced as
\* left; whatever group is current is dropped.
Left(u) ==
    /\ IF u \in channels THEN Unregistered(u)
                         ELSE UNCHANGED <<channels, timers, alias>>
    /\ subscribed' = subscribed \ {u}
    /\ announced' = NoGroup
    /\ currentGroup' = NoGroup
    /\ Continue(<<>>)
    /\ UNCHANGED <<issued, contested>>

Leave ==
    /\ Drain("leave")
    /\ Head(jobs).reservationId \in {0, currentGroup.reservationId}
    /\ Left(Head(jobs).found.group)
-----------------------------------------------------------------------------
(***************************************************************************)
(* The end of the process, and the provider's respawn.                     *)
(***************************************************************************)
Forget ==
    /\ currentGroup' = NoGroup
    /\ channels' = {}
    /\ alias' = None
    /\ timers' = {}
    /\ subscribed' = {}
    /\ jobs' = <<>>
    /\ received' = 0
    /\ contested' = FALSE

\* Every observer settled: process.exit.
Exit ==
    /\ phase = "stopping"
    /\ jobs = <<>>
    /\ phase' = "exited"
    /\ Forget
    /\ UNCHANGED <<issued, announced>>

\* lifecycle.fatal, a killed process, or an exception nobody catches.
Crash ==
    /\ phase # "exited"
    /\ phase' = "exited"
    /\ Forget
    /\ UNCHANGED <<issued, announced>>

\* The new worker's DeviceReadyMessage tells everybody it has no owner.
Restart ==
    /\ phase = "exited"
    /\ phase' = "running"
    /\ announced' = NoGroup
    /\ UNCHANGED <<currentGroup, issued, channels, alias, timers, subscribed,
                   jobs, received, contested>>

Next ==
    \/ \E u \in Users : ReceiveGroup(u)
    \/ \E u \in Users : ReceiveAutoGroup(u)
    \/ \E id \in 0..issued : ReceiveUngroup(id)
    \/ \E u \in Users, kind \in TimerKinds : CheckTimeout(u, kind)
    \/ Stop
    \/ MatchedJoin
    \/ JoinGrouped
    \/ JoinMissed
    \/ JoinFree
    \/ Acknowledge
    \/ MatchedLeave
    \/ LeaveRefused
    \/ Leave
    \/ Exit
    \/ Crash
    \/ Restart

Spec == Init /\ [][Next]_vars
-----------------------------------------------------------------------------
(***************************************************************************)
(* Properties.                                                             *)
(***************************************************************************)
\* The type invariant: every variable of the worker keeps its shape.
TypeOK ==
    /\ currentGroup \in Groups
    /\ issued \in Nat
    /\ channels \subseteq Users
    /\ alias \in Users \cup {None}
    /\ timers \subseteq Users \X TimerKinds
    /\ subscribed \subseteq Users
    /\ jobs \in Seq(Jobs)
    /\ received \in 0..Batch
    /\ phase \in {"running", "stopping", "exited"}
    /\ announced \in Groups
    /\ contested \in BOOLEAN

\* The caller of a GroupMessage is told the reservation that the device is
\* held under when it is told; or, if that was released since the request was
\* looked at, the device is still free (group.ts 155-160; the test
\* test/units/device-group.mts:125 "acknowledges the exact acquired
\* reservation").  So it is whatever joins, releases, idle timers and signals
\* one turn emits together, unless two joins both find the device free: the
\* code does not look again before it takes it (group.ts 73), and the first is
\* acknowledged although the second has replaced it.
AcknowledgedIsHeld ==
    ~contested /\ jobs # <<>> /\ Head(jobs).step = "okay" =>
        /\ Head(jobs).found.reservationId = issued
        /\ currentGroup \in {NoGroup, Head(jobs).found}

\* Between turns, a live worker and everybody else agree: the announced owner
\* is the current group, its channel is the only one subscribed, it has an
\* idle timer that will release it, and a free device has nothing left over;
\* whatever one turn emitted together, but for two joins as above, of which
\* the second is held without an alias, a timer and an announcement.
HeldIsKnown ==
    ~contested /\ jobs = <<>> /\ phase # "exited" =>
        LET held == {currentGroup.group} \ {None}
        IN  /\ announced = currentGroup
            /\ subscribed = held
            /\ channels = held
            /\ alias = currentGroup.group
            /\ timers = held \X {"own"}

\* A worker hands out a reservation id once: the current one is the last it
\* drew, and no queued continuation knows of a later one.
ReservationIsLatest ==
    /\ currentGroup # NoGroup => currentGroup.reservationId = issued
    /\ \A i \in 1..Len(jobs) : jobs[i].found.reservationId <= issued

\* The group plugin implements an exclusive reservation: a user takes the
\* device only while nobody has it, whatever one turn emitted together; until
\* two joins of a turn both find the device free.
Exclusive == INSTANCE Reservation WITH holder <- currentGroup
ImplementsReservation ==
    Exclusive!Init /\ [][contested' \/ Exclusive!Next]_(Exclusive!vars)
=============================================================================
