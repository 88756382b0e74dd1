----------------------------- MODULE IosBridge ------------------------------
(***************************************************************************)
(* The process that makes an iPhone a device of the system                 *)
(* (units/ios-provider): who holds it, what the holder asks for, one       *)
(* thing after the other (bridge.ts), and who sees its screen (screen.ts). *)
(*                                                                         *)
(* The number of a reservation stands for its epoch, its lease and its     *)
(* abort signal as well: they change together when it begins, and what     *)
(* another leave does to them no later reservation can see.                *)
(***************************************************************************)
EXTENDS Integers, Sequences, FiniteSets

CONSTANTS
    Users, None,
    MaxReservations,    \* bound: reservations the model lets a device issue
    MaxInstalls,        \* bound: installations, see IosRuntime
    MaxQueue,           \* bound: what may be queued for the device
    MaxPending          \* bound: what may be under way at the runtime

VARIABLES
    overlapping,    \* what may happen in this behaviour
    owner,
    issued,         \* reservation ids drawn so far (randomUUID)
    seen,           \* the session the identity was made in, or NoSession
    registered,
    joins,          \* users whose GroupMessage awaits grouputil.match
    queue,          \* operations that were asked for, in that order
    polling,        \* where poll is
    installId,      \* the installation to keep alive and to cancel, or 0
    requested,      \* installations that were asked for
    upgrades,       \* reservations at which a viewer was looked up
    viewers,        \* reservations at which the open WebSockets began
    inbox, replies, \* to and from the runtime, see IosRuntime
    session,        \* what GET /device shows: the session, or NoSession
    running,        \* the installation that is not settled, and its lease
    busy,           \* the exchanges the server has yet to answer
    load            \* how much it has yet to read and to do

tenure == <<owner, joins, issued>>
identity == <<seen, registered>>
screen == <<upgrades, viewers>>
vars == <<overlapping, tenure, identity, queue, polling, installId, requested,
          screen, inbox, replies>>
-----------------------------------------------------------------------------
NoGroup == [group |-> None, reservationId |-> 0]
NoSession == [instance |-> 0, generation |-> 0]

Held(r) == r # 0 /\ owner.reservationId = r

Idle == [stage |-> "idle"]

AtStage(stage) == queue # <<>> /\ Head(queue).stage = stage

Waits == AtStage("requesting") \/ AtStage("canceling")

\* What the head of the queue and the poll await an answer of.
Awaited ==
    (IF Waits THEN {Head(queue).exchange} ELSE {})
    \cup (IF polling.stage = "shot" THEN {polling.exchange} ELSE {})

\* The connections that are not in use.
Free == 1..(MaxPending + 3)
        \ (busy \cup Awaited \cup {r.exchange : r \in replies})
Fresh == CHOOSE x \in Free : TRUE

Request(path, exchange, r, id) ==
    [path |-> path, exchange |-> exchange, reservation |-> r, id |-> id,
     session |-> seen]

\* A connection is closed, if there is one.
Closes(open, x) == IF open THEN <<Request("close", x, 0, 0)>> ELSE <<>>

Room == load < MaxPending /\ Free # {}

\* Nobody reads the answers of the exchanges X any more.
Unread(X) == {r \in replies : r.exchange \notin X}

Sessions == [instance : Nat, generation : Nat]
Operations ==
    [kind : {"command", "power", "install", "status", "cancel"},
     id : 0..MaxInstalls, reservation : Nat,
     stage : {"queued", "checked", "requesting", "canceling"},
     exchange : Nat, session : Sessions]
Pollings ==
    {Idle}
    \cup [stage : {"answered"}, session : Sessions]
    \cup [stage : {"shot"}, session : Sessions, exchange : Nat]
    \cup [stage : {"keepalive"}, id : 0..MaxInstalls, reservation : Nat]

TypeOK ==
    /\ owner \in [group : Users \cup {None}, reservationId : Nat]
    /\ issued \in Nat
    /\ seen \in Sessions
    /\ registered \in BOOLEAN
    /\ joins \subseteq Users
    /\ queue \in Seq(Operations)
    /\ polling \in Pollings
    /\ installId \in 0..MaxInstalls
    /\ requested \subseteq 0..MaxInstalls
    /\ upgrades \subseteq Nat
    /\ viewers \subseteq Nat

Init ==
    /\ owner = NoGroup
    /\ issued = 0
    /\ seen = NoSession
    /\ registered = FALSE
    /\ joins = {}
    /\ queue = <<>>
    /\ polling = Idle
    /\ installId = 0
    /\ requested = {}
    /\ upgrades = {}
    /\ viewers = {}
-----------------------------------------------------------------------------
(***************************************************************************)
(* Who holds the device.                                                   *)
(***************************************************************************)
\* GroupMessage, with something else to come before grouputil.match settles.
ReceiveGroup(u) ==
    /\ "turn" \in overlapping
    /\ registered
    /\ joins' = joins \cup {u}
    /\ UNCHANGED <<overlapping, owner, issued, identity, queue, polling,
                   installId, requested, screen, inbox, replies>>

\* Mutant: the last one to ask has the device.
JoinAnyway(u) ==
    /\ joins' = joins \ {u}
    /\ owner' = [group |-> u, reservationId |-> issued + 1]
    /\ issued' = issued + 1

\* join: who holds it keeps it.
Join(u) ==
    /\ joins' = joins \ {u}
    /\ IF owner # NoGroup
       THEN UNCHANGED <<owner, issued>>
       ELSE /\ owner' = [group |-> u, reservationId |-> issued + 1]
            /\ issued' = issued + 1

\* The requirements of a GroupMessage match; an AutoGroupMessage has none, and
\* is for a device that is free.
JoinMatched(u) ==
    /\ u \in joins \/ registered
    /\ owner = NoGroup => issued < MaxReservations
    /\ Join(u)
    /\ UNCHANGED <<overlapping, identity, queue, polling, installId, requested,
                   screen, inbox, replies>>

\* Of the operations only the first has a request under way, and the signal of
\* the owner aborts that; but the start of an installation goes on, so that its
\* answer can be acted on.
Abortable == AtStage("requesting") /\ Head(queue).kind # "install"

Aborted == IF Abortable THEN {Head(queue).exchange} ELSE {}

\* leave: what the owner began is aborted, the connections of the viewers are
\* cut, and the installation is canceled, though nobody reads the answer.
\* Answers to the exchanges X have been read, and `more' is asked for.
Abandon(X, more) ==
    /\ owner' = NoGroup
    /\ queue' = IF Abortable THEN Tail(queue) ELSE queue
    /\ inbox' = inbox
          \o Closes(Abortable, Head(queue).exchange)
          \o (IF installId = 0 THEN <<>>
              ELSE <<Request("cancel", 0, owner.reservationId, installId)>>)
          \o more
    /\ replies' = Unread(X \cup Aborted)
    /\ installId' = 0
    /\ viewers' = {}
    /\ UNCHANGED <<overlapping, issued, joins, requested, upgrades>>

\* UngroupMessage, of this reservation or of whatever is held.
ReceiveUngroup(r) ==
    /\ registered
    /\ owner # NoGroup
    /\ r = 0 \/ Held(r)
    /\ Abandon({}, <<>>)
    /\ UNCHANGED <<identity, polling>>

\* absent
Absent(X, more) ==
    /\ Abandon(X, more)
    /\ seen' = NoSession
    /\ registered' = FALSE

\* A socket of the bridge disconnects: the device is gone for the others.
Disconnect ==
    /\ "absent" \in overlapping
    /\ Absent({}, <<>>)
    /\ UNCHANGED polling

\* DeviceRegisteredMessage, of the processor.
Register ==
    /\ seen # NoSession
    /\ ~registered
    /\ registered' = TRUE
    /\ UNCHANGED <<overlapping, tenure, seen, queue, polling, installId,
                   requested, screen, inbox, replies>>

\* The bridge dies and starts anew: its connections close.  (If nothing goes
\* on, that is no more than a disconnection.)
Crash ==
    /\ "crash" \in overlapping
    /\ owner # NoGroup \/ queue # <<>>
    /\ owner' = NoGroup
    /\ joins' = {}
    /\ seen' = NoSession
    /\ registered' = FALSE
    /\ queue' = <<>>
    /\ polling' = Idle
    /\ installId' = 0
    /\ upgrades' = {}
    /\ viewers' = {}
    /\ inbox' = inbox \o Closes(Waits, Head(queue).exchange)
                    \o Closes(polling.stage = "shot", polling.exchange)
    /\ replies' = {}
    /\ UNCHANGED <<overlapping, issued, requested>>
-----------------------------------------------------------------------------
(***************************************************************************)
(* What the owner asks for.                                                *)
(***************************************************************************)
Operation(kind, id) ==
    [kind |-> kind, id |-> id, reservation |-> owner.reservationId,
     stage |-> "queued", exchange |-> 0, session |-> NoSession]

\* Installations that may be asked for or about.  A new one has a new id, and
\* the holder asks about the last one; messages that cross ask about any.
IdsFor(kind) ==
    CASE kind = "install" ->
            IF "cross" \in overlapping THEN 1..MaxInstalls
            ELSE {Cardinality(requested) + 1} \cap 1..MaxInstalls
      [] kind \in {"status", "cancel"} ->
            IF "cross" \in overlapping THEN requested
            ELSE {Cardinality(requested)} \ {0}
      [] OTHER -> {0}

\* The messages that enqueue an operation: only an owner's are heard.
Enqueue(kind, id) ==
    /\ kind \in overlapping
    /\ registered
    /\ owner # NoGroup
    /\ Len(queue) < MaxQueue
    /\ id \in IdsFor(kind)
    /\ queue' = Append(queue, Operation(kind, id))
    /\ requested' = IF kind = "install" THEN requested \cup {id} ELSE requested
    /\ UNCHANGED <<overlapping, tenure, identity, polling, installId, screen,
                   inbox, replies>>

Drops ==
    /\ queue' = Tail(queue)
    /\ UNCHANGED <<overlapping, tenure, identity, polling, requested, screen>>

\* Its turn comes after its reservation has ended.
Drop ==
    /\ AtStage("queued")
    /\ ~Held(Head(queue).reservation)
    /\ Drops
    /\ UNCHANGED <<installId, inbox, replies>>

\* The device is looked up first, and may be locked or not answer.
Check ==
    /\ AtStage("queued")
    /\ Held(Head(queue).reservation)
    /\ \E s \in {session} \cup IF "fail" \in overlapping THEN {NoSession} ELSE {} :
          queue' = [queue EXCEPT ![1].stage = "checked", ![1].session = s]
    /\ UNCHANGED <<overlapping, tenure, identity, polling, installId, requested,
                   screen, inbox, replies>>

StillMine(op) ==
    /\ Held(op.reservation)
    /\ op.session = seen
    /\ seen # NoSession

Checked ==
    /\ AtStage("checked")
    /\ LET op   == Head(queue)
           path == IF op.kind = "install" THEN "start" ELSE op.kind
       IN  IF ~StillMine(op)
           THEN Drops /\ UNCHANGED <<installId, inbox, replies>>
           ELSE IF op.kind = "status"
           THEN /\ Drops
                /\ installId' = IF running.lease = op.reservation
                                   /\ ("cross" \in overlapping =>
                                          running.id = op.id)
                                THEN running.id ELSE 0
                /\ UNCHANGED <<inbox, replies>>
           ELSE /\ Room
                /\ queue' = [queue EXCEPT ![1].stage = "requesting",
                                          ![1].exchange = Fresh]
                /\ inbox' = Append(inbox,
                                   Request(path, Fresh, op.reservation, op.id))
                /\ UNCHANGED <<overlapping, tenure, identity, polling,
                               installId, requested, screen, replies>>

AnswerTo(x) == {r \in replies : r.exchange = x}

\* Mutant: the answer to a start is taken whoever holds the device.
InstallAnsweredBlindly(op, r) ==
    /\ Drops
    /\ replies' = replies \ {r}
    /\ installId' = r.running
    /\ UNCHANGED inbox

\* InstallMessage goes on.  If the device was released meanwhile, the
\* installation that has begun is canceled, and the queue waits for that.
InstallAnswered(op, r) ==
    IF Held(op.reservation)
    THEN /\ Drops
         /\ replies' = replies \ {r}
         /\ installId' = r.running
         /\ UNCHANGED inbox
    ELSE /\ queue' = [queue EXCEPT ![1].stage = "canceling"]
         /\ replies' = replies \ {r}
         /\ inbox' = Append(inbox,
               Request("cancel", op.exchange, op.reservation, op.id))
         /\ UNCHANGED <<overlapping, tenure, identity, polling, installId,
                        requested, screen>>

\* An operation has its answer.  (A canceled installation is settled.)
Answered ==
    /\ Waits
    /\ LET op == Head(queue)
       IN  \E r \in AnswerTo(op.exchange) :
             IF op.kind = "install" /\ op.stage = "requesting" /\ r.ok
             THEN /\ "cross" \in overlapping \/ polling.stage # "keepalive"
                  /\ InstallAnswered(op, r)
             ELSE /\ Drops
                  /\ replies' = replies \ {r}
                  /\ installId' = IF op.kind = "cancel" /\ r.ok
                                  THEN r.running ELSE installId
                  /\ UNCHANGED inbox

\* A request times out.
TimeOut ==
    /\ "fail" \in overlapping
    /\ Waits
    /\ Drops
    /\ inbox' = inbox \o Closes(TRUE, Head(queue).exchange)
    /\ replies' = Unread({Head(queue).exchange})
    /\ UNCHANGED installId
-----------------------------------------------------------------------------
(***************************************************************************)
(* poll, which begins again two seconds after it has ended.                *)
(***************************************************************************)
PollBegins ==
    /\ polling = Idle
    /\ \E s \in {session} \cup IF "fail" \in overlapping THEN {NoSession} ELSE {} :
          polling' = [stage |-> "answered", session |-> s]
    /\ UNCHANGED <<overlapping, tenure, identity, queue, installId, requested,
                   screen, inbox, replies>>

\* The introduction or the heartbeat.  Then an owner who has been idle for too
\* long is released, or the installation is kept alive.
PollGoesOn ==
    \/ /\ owner # NoGroup
       /\ Abandon({}, <<>>)
       /\ polling' = Idle
    \/ /\ polling' = IF owner = NoGroup \/ installId = 0 THEN Idle
                     ELSE [stage |-> "keepalive", id |-> installId,
                           reservation |-> owner.reservationId]
       /\ UNCHANGED <<overlapping, tenure, queue, installId, requested, screen,
                      inbox, replies>>

Polled ==
    /\ polling.stage = "answered"
    /\ LET s == polling.session
       IN  IF s = NoSession
           THEN Absent({}, <<>>) /\ polling' = Idle
           ELSE IF s # seen
           THEN /\ Room
                /\ Absent({}, <<Request("screenshot", Fresh, 0, 0)>>)
                /\ polling' = [stage |-> "shot", session |-> s, exchange |-> Fresh]
           ELSE PollGoesOn /\ UNCHANGED identity

\* The screenshot has come: the device is what it was when it was looked up.
Shot ==
    /\ polling.stage = "shot"
    /\ \E r \in AnswerTo(polling.exchange) :
          IF ~r.ok
          THEN Absent({polling.exchange}, <<>>) /\ polling' = Idle
          ELSE /\ seen' = polling.session
               /\ replies' = replies \ {r}
               /\ polling' = Idle
               /\ UNCHANGED <<overlapping, tenure, registered, queue, installId,
                              requested, screen, inbox>>

\* The answer to a keepalive (a settled installation remains so).
KeptAlive ==
    /\ polling.stage = "keepalive"
    /\ polling' = Idle
    /\ installId' = IF Held(polling.reservation) /\ running.id # polling.id
                    THEN 0 ELSE installId
    /\ UNCHANGED <<overlapping, tenure, identity, queue, requested, screen,
                   inbox, replies>>
-----------------------------------------------------------------------------
(***************************************************************************)
(* The screen.                                                             *)
(***************************************************************************)
\* Somebody wants to watch: the API is asked whether they may.
Upgrade ==
    /\ "watch" \in overlapping
    /\ owner # NoGroup
    /\ upgrades' = upgrades \cup {owner.reservationId}
    /\ UNCHANGED <<overlapping, tenure, identity, queue, polling, installId,
                   requested, viewers, inbox, replies>>

\* They may, if the device is still held by whom they asked about.
Authorized(r) ==
    /\ upgrades' = upgrades \ {r}
    /\ viewers' = IF Held(r) THEN viewers \cup {r} ELSE viewers

Watch ==
    /\ \E r \in upgrades : Authorized(r)
    /\ UNCHANGED <<overlapping, tenure, identity, queue, polling, installId,
                   requested, inbox, replies>>
-----------------------------------------------------------------------------
Operate ==
    \/ \E kind \in {"command", "power", "install", "status", "cancel"} :
          \E id \in 0..MaxInstalls : Enqueue(kind, id)
    \/ Drop
    \/ Check
    \/ Checked
    \/ Answered
    \/ TimeOut

Poll ==
    \/ PollBegins
    \/ Polled
    \/ Shot
    \/ KeptAlive

Next ==
    \/ \E u \in Users : ReceiveGroup(u) \/ JoinMatched(u)
    \/ \E r \in 0..issued : ReceiveUngroup(r)
    \/ Disconnect
    \/ Register
    \/ Crash
    \/ Operate
    \/ Poll
    \/ Upgrade
    \/ Watch
=============================================================================
