-------------------------- MODULE DeviceOwnership --------------------------
(***************************************************************************)
(* Who owns a device, from the worker that decides it to the row of the    *)
(* database that everybody else reads: one device, its worker, the         *)
(* provider that runs the worker, the reaper, the processors that turn     *)
(* device messages into writes (units/processor/index.ts, db/api.ts), and  *)
(* the API requests and web clients that take and release the device       *)
(* (units/api/controllers/user.ts, units/websocket/index.ts).              *)
(*                                                                         *)
(* The worker handles a message in one step, as DeviceGroup shows it does  *)
(* when turns do not batch messages.  A processor issues its writes in     *)
(* order and does not wait for them; the dealer hands each message to any  *)
(* processor.  The triproxies are FIFO.                                    *)
(***************************************************************************)
EXTENDS Naturals, Sequences

CONSTANTS
    Users,              \* users, named by their email and group channel
    None,               \* "nobody"
    Processors,         \* processor units behind the dealers
    AutoRestoreOwner,   \* the processors' --auto-restore-owner
    MaxReservations,    \* bound: reservations the model lets a device issue
    MaxQueue,           \* bound: device messages waiting for a processor
    MaxInbox,           \* bound: messages on their way to the worker
    MaxWrites           \* bound: a processor with fewer writes takes a message

ASSUME NoneIsNoUser == None \notin Users
ASSUME AutoRestoreIsFlag == AutoRestoreOwner \in BOOLEAN

VARIABLES
    plugged,    \* the provider's tracker lists the device
    worker,     \* the device worker: "down", "up", or "stopping" (SIGTERM)
    held,       \* its current group, NoGroup if none
    issued,     \* reservations issued so far
    inbox,      \* messages on the device's channel, oldest first
    deviceOut,  \* messages of the device side, before the dealer
    writes,     \* per processor: what it has yet to do, in order
    row         \* the device's row: present, ready, owner, restoreOwner

vars == <<plugged, worker, held, issued, inbox, deviceOut, writes, row>>

-----------------------------------------------------------------------------
NoGroup == [group |-> None, reservationId |-> 0]
Groups  == [group : Users \cup {None}, reservationId : Nat]

\* A claim: for whom a device that left is kept, and whether its two minutes
\* (OWNER_CLAIM_TIMEOUT) are still running.
NoClaim == [user |-> None, live |-> FALSE]
Claims  == [user : Users \cup {None}, live : BOOLEAN]

Msg(type, owner) == [type |-> type, owner |-> owner]
Write(op, owner, user) == [op |-> op, owner |-> owner, user |-> user]
Plain(op) == Write(op, NoGroup, None)
Order(kind, user, id) == [kind |-> kind, user |-> user, id |-> id]

MsgTypes == {"introduction", "present", "absent", "ready", "join", "leave"}
Ops == {"initial", "present", "reserve", "absent", "ready", "settle", "clear",
        "own", "disown"}
Kinds == {"group", "ungroup"}

Init ==
    /\ plugged = FALSE
    /\ worker = "down"
    /\ held = NoGroup
    /\ issued = 0
    /\ inbox = <<>>
    /\ deviceOut = <<>>
    /\ writes = [p \in Processors |-> <<>>]
    /\ row = [present |-> FALSE, ready |-> FALSE, owner |-> NoGroup,
              restoreOwner |-> NoClaim]

device   == <<plugged, worker, held, issued>>

Send(s) ==
    /\ Len(deviceOut) < MaxQueue
    /\ deviceOut' = deviceOut \o s

Ask(order) ==
    /\ Len(inbox) < MaxInbox
    /\ inbox' = Append(inbox, order)
-----------------------------------------------------------------------------
(***************************************************************************)
(* The provider and the reaper.                                            *)
(***************************************************************************)
\* The tracker adds the device: the provider introduces it, even while an
\* earlier worker of it is being stopped.
Plug ==
    /\ ~plugged
    /\ plugged' = TRUE
    /\ Send(<<Msg("introduction", NoGroup)>>)
    /\ UNCHANGED <<worker, held, issued, inbox, writes, row>>

\* The worker is spawned (or respawned 500 ms after a crash) once the device
\* is registered, or without that after 15 s; solo.poke says it is ready.
Boot ==
    /\ plugged
    /\ worker = "down"
    /\ worker' = "up"
    /\ Send(<<Msg("ready", NoGroup)>>)
    /\ UNCHANGED <<plugged, held, issued, inbox, writes, row>>

\* The tracker removes the device: its worker is told to stop.
Unplug ==
    /\ plugged
    /\ plugged' = FALSE
    /\ worker' = IF worker = "up" THEN "stopping" ELSE worker
    /\ Send(<<Msg("absent", NoGroup)>>)
    /\ UNCHANGED <<held, issued, inbox, writes, row>>

\* The device went offline (its status is not modelled): the worker is told
\* to stop.
GoOffline ==
    /\ plugged
    /\ worker = "up"
    /\ worker' = "stopping"
    /\ UNCHANGED <<plugged, held, issued, inbox, deviceOut, writes, row>>

Ended ==
    /\ worker' = "down"
    /\ held' = NoGroup
    /\ inbox' = <<>>
    /\ UNCHANGED <<plugged, issued, writes, row>>

\* The worker was stopped, or killed by a signal: it retires, and the provider
\* reports the device absent, whatever has become of it in the meantime.
Retire ==
    /\ worker # "down"
    /\ Ended
    /\ Send(<<Msg("absent", NoGroup)>>)

\* The worker dies and tells nobody.
Crash ==
    /\ worker = "up"
    /\ Ended
    /\ UNCHANGED deviceOut

\* The reaper misses heartbeats, or hears one again.
Reap(type) ==
    /\ worker = "up"
    /\ type \in {"absent", "present"}
    /\ Send(<<Msg(type, NoGroup)>>)
    /\ UNCHANGED <<device, inbox, writes, row>>
-----------------------------------------------------------------------------
(***************************************************************************)
(* The worker (plugins/group.ts).                                          *)
(***************************************************************************)
NextOrder(kind) ==
    /\ worker # "down"
    /\ inbox # <<>>
    /\ Head(inbox).kind = kind
    /\ inbox' = Tail(inbox)

\* GroupMessage or AutoGroupMessage: a free device is joined.
Join ==
    LET new == [group |-> Head(inbox).user, reservationId |-> issued + 1]
    IN  /\ NextOrder("group")
        /\ held = NoGroup
        /\ issued < MaxReservations
        /\ issued' = issued + 1
        /\ held' = new
        /\ Send(<<Msg("join", new)>>)
        /\ UNCHANGED <<plugged, worker, writes, row>>

\* A device that is held already stays with its group.
JoinRefused ==
    /\ NextOrder("group")
    /\ held # NoGroup
    /\ UNCHANGED <<device, deviceOut, writes, row>>

\* Mutant: nobody is told that the group was left.
ReleasedSilently ==
    /\ held # NoGroup
    /\ held' = NoGroup
    /\ UNCHANGED <<plugged, worker, issued, deviceOut, writes, row>>

\* plugin.leave, of the group that is held.
Released ==
    /\ held # NoGroup
    /\ held' = NoGroup
    /\ Send(<<Msg("leave", NoGroup)>>)
    /\ UNCHANGED <<plugged, worker, issued, writes, row>>

\* UngroupMessage, unconditional or naming the current reservation.
Leave ==
    /\ NextOrder("ungroup")
    /\ Head(inbox).id \in {0, held.reservationId}
    /\ Released

LeaveRefused ==
    /\ NextOrder("ungroup")
    /\ held = NoGroup \/ Head(inbox).id \notin {0, held.reservationId}
    /\ UNCHANGED <<device, deviceOut, writes, row>>

\* The idle timer (a message that waits in the inbox would count as activity),
\* or the observer of SIGTERM.
LeaveUnasked ==
    /\ inbox = <<>> \/ worker = "stopping"
    /\ Released
    /\ UNCHANGED inbox
-----------------------------------------------------------------------------
(***************************************************************************)
(* The processors.                                                         *)
(***************************************************************************)
\* What a message makes a processor write, in the order it issues the writes.
WritesOf(m) ==
    CASE m.type = "introduction" -> <<Plain("initial")>>
      [] m.type = "present" -> <<Plain("present")>>
      [] m.type = "absent" -> (IF AutoRestoreOwner THEN <<Plain("reserve")>>
                                                   ELSE <<>>)
                              \o <<Plain("absent")>>
      [] m.type = "ready" -> <<Plain("ready")>>
      [] m.type = "join" -> <<Write("own", m.owner, None)>>
      [] m.type = "leave" -> <<Plain("disown")>>

\* The dealer hands the oldest message to processor p.
Dispatch(p) ==
    /\ deviceOut # <<>>
    /\ Len(writes[p]) < MaxWrites
    /\ deviceOut' = Tail(deviceOut)
    /\ writes' = [writes EXCEPT ![p] = @ \o WritesOf(Head(deviceOut))]
    /\ UNCHANGED <<device, inbox, row>>

\* reserveDeviceOwner: never clears a claim.
Reserved(r) ==
    IF r.owner = NoGroup THEN r
    ELSE [r EXCEPT !.restoreOwner = [user |-> r.owner.group, live |-> TRUE]]

\* Mutant: a new owner leaves an earlier user's claim in place.
OwnedKeepingClaim(o, r) == [r EXCEPT !.owner = o]

\* setDeviceOwner: the new owner supersedes any claim.
Owned(o, r) == [r EXCEPT !.owner = o, !.restoreOwner = NoClaim]

\* Mutant: the owner of the previous worker outlives it.
ReadiedKeepingOwner(r) == [r EXCEPT !.ready = TRUE]

\* setDeviceReady.
Readied(r) == [r EXCEPT !.ready = TRUE, !.owner = NoGroup]

\* The row after a write of dbapi.
Written(w, r) ==
    CASE w.op = "initial" -> [r EXCEPT !.present = TRUE, !.ready = FALSE,
                                       !.owner = NoGroup]
      [] w.op = "present" -> [r EXCEPT !.present = TRUE]
      [] w.op = "absent"  -> [r EXCEPT !.present = FALSE]
      [] w.op = "reserve" -> Reserved(r)
      [] w.op = "ready"   -> Readied(r)
      [] w.op = "own"     -> Owned(w.owner, r)
      [] w.op = "disown"  -> [r EXCEPT !.owner = NoGroup]
      [] w.op = "clear"   -> [r EXCEPT !.restoreOwner = NoClaim]

\* What follows setDeviceReady, from the row it returned (restoreDeviceOwner):
\* an expired claim is dropped, a live one is settled once its user is loaded.
AfterReady(r) ==
    IF r.restoreOwner = NoClaim THEN <<>>
    ELSE IF r.restoreOwner.live
         THEN <<Write("settle", NoGroup, r.restoreOwner.user)>>
         ELSE <<Plain("clear")>>

Apply(p) ==
    /\ writes[p] # <<>>
    /\ Head(writes[p]).op # "settle"
    /\ row' = Written(Head(writes[p]), row)
    /\ writes' = [writes EXCEPT ![p] = Tail(@) \o
                    IF Head(@).op = "ready" THEN AfterReady(row') ELSE <<>>]
    /\ UNCHANGED <<device, inbox, deviceOut>>

\* The claim's user was loaded: the join of its dead worker is replayed, or
\* the claim is dropped if the user may not use the device any more.  If the
\* load fails, neither happens.
Settle(p) ==
    /\ writes[p] # <<>>
    /\ Head(writes[p]).op = "settle"
    /\ \/ /\ writes' = [writes EXCEPT ![p] = Tail(@)]
          /\ Ask(Order("group", Head(writes[p]).user, 0))
       \/ /\ writes' = [writes EXCEPT ![p] = Append(Tail(@), Plain("clear"))]
          /\ UNCHANGED inbox
       \/ /\ writes' = [writes EXCEPT ![p] = Tail(@)]
          /\ UNCHANGED inbox
    /\ UNCHANGED <<device, deviceOut, row>>

\* Two minutes have passed.
ClaimExpires ==
    /\ row.restoreOwner.live
    /\ row' = [row EXCEPT !.restoreOwner.live = FALSE]
    /\ UNCHANGED <<device, inbox, deviceOut, writes>>
-----------------------------------------------------------------------------
(***************************************************************************)
(* The API and the web clients.                                            *)
(***************************************************************************)
IsOwnedBy(r, u) == r.present /\ r.ready /\ r.owner.group = u

\* A GroupMessage is sent: by group.invite of a web client, which looks at
\* nothing, or by addUserDevice, which looked at the row some time before.
Invite(u) ==
    /\ Ask(Order("group", u, 0))
    /\ UNCHANGED <<device, deviceOut, writes, row>>

\* deleteUserDeviceBySerial, with the reservation the row shows or without.
DeleteUserDevice(u, conditional) ==
    /\ IsOwnedBy(row, u)
    /\ Ask(Order("ungroup", None,
                 IF conditional THEN row.owner.reservationId ELSE 0))
    /\ UNCHANGED <<device, deviceOut, writes, row>>

\* rebootUserDeviceBySerial with keepOwnership.  The check of the owner and
\* the write are two queries, so any owner the row has by then is reserved.
RebootKeeping ==
    /\ row.owner # NoGroup
    /\ row' = Reserved(row)
    /\ UNCHANGED <<device, inbox, deviceOut, writes>>

\* group.kick of a web client: unconditional, and no look at the row.
Kick ==
    /\ Ask(Order("ungroup", None, 0))
    /\ UNCHANGED <<device, deviceOut, writes, row>>

\* A message to a channel nobody is subscribed to is lost.
Lost ==
    /\ worker = "down"
    /\ inbox # <<>>
    /\ inbox' = Tail(inbox)
    /\ UNCHANGED <<device, deviceOut, writes, row>>
-----------------------------------------------------------------------------
Provide ==
    \/ Plug
    \/ Boot
    \/ Unplug
    \/ GoOffline
    \/ Retire
    \/ Crash
    \/ \E type \in {"absent", "present"} : Reap(type)

Work ==
    \/ Join
    \/ JoinRefused
    \/ Leave
    \/ LeaveRefused
    \/ LeaveUnasked
    \/ Lost

Process ==
    \/ \E p \in Processors : Dispatch(p)
    \/ \E p \in Processors : Apply(p)
    \/ \E p \in Processors : Settle(p)
    \/ ClaimExpires

Serve ==
    \/ \E u \in Users, conditional \in BOOLEAN :
           DeleteUserDevice(u, conditional)
    \/ RebootKeeping
    \/ \E u \in Users : Invite(u)
    \/ Kick

Next == Provide \/ Work \/ Process \/ Serve

Spec == Init /\ [][Next]_vars

\* Dealers deliver, processors and the database work on, claims are settled:
\* what the event loops of live processes do.  Nobody has to plug, ask or
\* leave.
Fairness ==
    \A p \in Processors :
        WF_vars(Dispatch(p)) /\ WF_vars(Apply(p)) /\ WF_vars(Settle(p))

FairSpec == Spec /\ Fairness
-----------------------------------------------------------------------------
(***************************************************************************)
(* Properties.                                                             *)
(***************************************************************************)
\* The type invariant.
TypeOK ==
    /\ plugged \in BOOLEAN
    /\ worker \in {"down", "up", "stopping"}
    /\ held \in Groups
    /\ issued \in Nat
    /\ inbox \in Seq([kind : Kinds, user : Users \cup {None}, id : Nat])
    /\ deviceOut \in Seq([type : MsgTypes, owner : Groups])
    /\ writes \in [Processors -> Seq([op : Ops, owner : Groups,
                                      user : Users \cup {None}])]
    /\ row \in [present : BOOLEAN, ready : BOOLEAN, owner : Groups,
                restoreOwner : Claims]

Quiet == deviceOut = <<>> /\ \A p \in Processors : writes[p] = <<>>

\* Once what the device said has been written, the row tells the truth about
\* a live worker: it is ready, and its owner is the one the worker holds.
\* (processor/index.ts 337-348, db/api.ts 1630-1643, 1775-1782: the writes
\* are not waited for, and no write looks at what it overwrites.)
OwnerIsShown ==
    worker = "up" /\ Quiet /\ row.ready => row.owner = held

RowTellsTheTruth ==
    worker = "up" /\ Quiet => row.ready /\ row.owner = held

\* A claim on the row of an owned device is the claim of that owner: whoever
\* takes a device supersedes an earlier user's claim, so a reboot that never
\* happened cannot hand it back to them later (db/api.ts 1630-1637).
ClaimIsTheOwners ==
    row.owner # NoGroup /\ row.restoreOwner # NoClaim =>
        row.restoreOwner.user = row.owner.group

\* Everybody gets to see who holds a device, and that it is free again, unless
\* that changes or the worker ends first.
RowCatchesUp ==
    /\ \A u \in Users, id \in 1..MaxReservations :
           LET o == [group |-> u, reservationId |-> id]
           IN  worker = "up" /\ held = o
                   ~> row.owner = o \/ held # o \/ worker # "up"
    /\ worker = "up" /\ held = NoGroup
           ~> row.owner = NoGroup \/ held # NoGroup \/ worker # "up"
=============================================================================
