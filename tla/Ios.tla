-------------------------------- MODULE Ios ---------------------------------
(***************************************************************************)
(* An iPhone as a device of the system: the bridge that gives it to one    *)
(* user at a time (IosBridge) and the runtime that works the phone         *)
(* (IosRuntime), with HTTP over a loopback between them.  Each of the two  *)
(* may die and start anew, and the phone may be lost at any moment.        *)
(***************************************************************************)
EXTENDS Integers, Sequences, FiniteSets

CONSTANTS
    Users, None,
    MaxReservations, MaxInstalls, MaxQueue, MaxPending, MaxRecoveries,
    MaxRestarts,
    Uses    \* what may happen in one behaviour: sets of "command", "power",
            \* "install", "status", "cancel" (what owners ask for), "watch",
            \* "recover" (WebDriverAgent is lost), "restart" (of the runtime),
            \* "crash" (of the bridge), "absent" (the bridge is cut off),
            \* "fail" (time-outs and errors), "expire" (of an installation),
            \* "turn" (events between the two halves of a join) and "cross"
            \* (messages about several installations)

ASSUME NoneIsNoUser == None \notin Users
ASSUME InstallsAreCounted == MaxInstalls \in Nat

VARIABLES
    uses,       \* a member of Uses
    inbox, replies,
    owner, issued, seen, registered, joins, queue, polling, installId,
    requested, upgrades, viewers,
    instance, generation, state, loop, wda, actions, jobs, accepting, active,
    waiting

NoSession == [instance |-> 0, generation |-> 0]

\* GET /device
Device ==
    IF state = "ready" THEN [instance |-> instance, generation |-> generation]
    ELSE NoSession

\* What status and keepalive tell of: the installation that is not settled.
Unsettled ==
    IF active # 0 /\ jobs[active].stage # "settled"
    THEN [id |-> active, lease |-> jobs[active].lease]
    ELSE [id |-> 0, lease |-> 0]

Runtime == INSTANCE IosRuntime WITH overlapping <- uses
Bridge  == INSTANCE IosBridge WITH
              overlapping <- uses,
              session     <- Device,
              running     <- Unsettled,
              busy        <- Runtime!Exchanges,
              load        <- Len(inbox) + Len(actions)

bridge == <<owner, issued, seen, registered, joins, queue, polling, installId,
            requested, upgrades, viewers>>
runtime == <<instance, generation, state, loop, wda, actions, jobs, accepting,
             active, waiting>>
vars == <<uses, inbox, replies, bridge, runtime>>

Init ==
    /\ uses \in Uses
    /\ Bridge!Init
    /\ Runtime!Init

BridgeStep  == Bridge!Next /\ UNCHANGED runtime
RuntimeStep == Runtime!Next /\ UNCHANGED bridge

Next ==
    \/ BridgeStep
    \/ RuntimeStep

Spec == Init /\ [][Next]_vars

\* What the phone does ends (every request to WebDriverAgent and every run of
\* go-ios has a time-out), and the steps of an installation follow each other.
FairSpec ==
    /\ Spec
    /\ WF_vars(Runtime!Queue /\ UNCHANGED bridge)
    /\ WF_vars(Runtime!Installing /\ UNCHANGED bridge)
-----------------------------------------------------------------------------
TypeOK == uses \in Uses /\ Bridge!TypeOK /\ Runtime!TypeOK

\* The bridge keeps the promise of a device (Reservation), as a worker of an
\* Android device does: a join of another user is refused, and every way in
\* which the device is lost is a release (bridge.ts 319-353, 488-496).
Promise == INSTANCE Reservation WITH holder <- owner
ImplementsReservation == Promise!Spec

\* What begins at the phone in this step.
Begins ==
    {i \in DOMAIN actions \cap DOMAIN actions' :
        ~actions[i].running /\ actions'[i].running}

ClosePending(x) ==
    \E i \in DOMAIN inbox : inbox[i].path = "close" /\ inbox[i].exchange = x

\* "Releasing ownership aborts forwarded control requests and prevents queued
\* runtime actions from reaching WDA" (doc/ios-provider.md 37-38): what begins
\* at the phone was asked for under the reservation in force, unless the
\* runtime has yet to read that its connection has closed.  And whoever
\* watches does so under the reservation in force (screen.ts 19-30, 125-129).
ReleaseIsEffective ==
    [][/\ viewers' \subseteq {owner'.reservationId}
       /\ \A i \in Begins :
             actions[i].path \in {"command", "power"} =>
                 \/ actions[i].reservation = owner.reservationId
                 \/ ClosePending(actions[i].exchange)]_vars

CancelPending(id) ==
    \E i \in DOMAIN inbox : inbox[i].path = "cancel" /\ inbox[i].id = id

\* An installation that goes on is known to the bridge, which will cancel it
\* when its owner goes: its start is under way, or it is the one to keep
\* alive, or its cancelation is on the way (bridge.ts 162-183, 240-252,
\* 337-345, 448-457).  That is lost if the bridge dies or a request of it
\* fails, and if answers about several installations cross: then only the
\* missing keepalives end it.
InstallIsOwned ==
    {"crash", "fail", "cross"} \cap uses = {}
    /\ active # 0
    /\ jobs[active].stage \notin {"settled", "done"}
    /\ ~jobs[active].aborted
    =>
    \/ installId = active /\ owner.reservationId = jobs[active].lease
    \/ queue # <<>> /\ LET op == Head(queue)
                       IN  op.kind = "install" /\ op.id = active
                           /\ op.stage = "requesting"
    \/ CancelPending(active)

\* cleanup waits for what is being done in the session (runtime.mts 166-171).
SessionOutlivesAction == Runtime!SessionOutlivesAction

\* An installation ends (installations.mts 199-239, 356-363).
NeverBusyForGood == Runtime!NeverBusyForGood
=============================================================================
