----------------------------- MODULE Minitouch -----------------------------
(***************************************************************************)
(* The end of a touch's way: the TouchConsumer (units/device/plugins/      *)
(* touch/index.ts), which writes to minitouch on the phone, restarts it    *)
(* when it or the connection to it dies, and keeps what is to be written   *)
(* meanwhile; and those who touch: the gestures of the holder, which       *)
(* module Touch puts in order, and VNC clients (vnc/index.ts), which       *)
(* nothing puts in order and which share the contact 1.                    *)
(*                                                                         *)
(* A step is an event with what follows it up to the next I/O.  Every I/O  *)
(* has a time-out; when the start or the end of minitouch fails, or it     *)
(* dies too often, so does the worker: Gone, which may always happen.  The *)
(* worker's state begins when minitouch runs: a plugin that depends on it  *)
(* is started after that.  A minitouch that ends lifts all fingers.        *)
(***************************************************************************)
EXTENDS Naturals, StateQueue, TouchProtocol

CONSTANTS
    Viewers,        \* VNC connections
    FailLimit,      \* FailCounter's threshold
    MaxWrites       \* bound: writes that wait

VARIABLES
    holding,        \* somebody holds the device
    overlapping,    \* what happens in this behaviour: "gestures", "vnc", and
                    \* at bad moments "late" (a VNC client moves on after the
                    \* release), "abrupt" (it is gone with its button down)
    minitouch,      \* the consumer's state, desiredState, what its chain
                    \* waits for, its streams and its failures
    writeQueue,
    protocol,       \* TouchProtocol: active and staged; and the fingers
                    \* pressed on the screen, by this minitouch
    held,           \* the fingers of the current gesture
    viewers         \* VNC connections: their stage and their button

touching == <<minitouch, writeQueue, protocol, held, viewers>>

-----------------------------------------------------------------------------
Pointer == 1    \* PointerTranslator's contact

Up ==
    [state |-> "started", desired |-> <<>>, stage |-> "none",
     output |-> "open", socket |-> "open", failures |-> 0]

Untouched == [active |-> {}, staged |-> Lifted, pressed |-> {}]

Away == [v \in Viewers |-> [stage |-> "away", down |-> FALSE]]

Init ==
    /\ minitouch = Up
    /\ writeQueue = <<>>
    /\ protocol = Untouched
    /\ held = {}
    /\ viewers = Away

\* The process is gone, and minitouch with it.
Gone ==
    /\ minitouch' = Up
    /\ writeQueue' = <<>>
    /\ protocol' = Untouched
    /\ held' = {}
    /\ viewers' = Away
-----------------------------------------------------------------------------
(***************************************************************************)
(* Writes.                                                                 *)
(***************************************************************************)
Packet(type, contact) == [type |-> type, contact |-> contact]
TouchReset            == [type |-> "reset"]
TouchFinish           == [type |-> "finish", held |-> held]

\* A write, and what it does to the screen: fingers that are active already are
\* moved, and minitouch ignores moves of those that it did not press.
Write(q, k) ==
    LET todo == IF k.type = "finish" THEN StageFinish(q, k.held) ELSE q
        done == IF k.type = "finish" THEN Commit(todo) ELSE Play(q, k)
    IN  CASE k.type \in {"commit", "finish"}  -> [done EXCEPT !.pressed = (@ \cup Put(todo)) \ Taken(todo)]
          [] k.type = "reset"                -> [done EXCEPT !.pressed = @ \ q.active]
          [] OTHER                           -> done

\* All of the writes ks.
Written(ks) ==
    LET after[n \in 0 .. Len(ks)] ==
            IF n = 0 THEN protocol ELSE Write(after[n - 1], ks[n])
    IN  after[Len(ks)]

\* Mutant: a reset does not wait for its turn.
QueueButResets(ks) ==
    IF minitouch.state = "started" \/ ks = <<TouchReset>>
    THEN /\ protocol' = Written(ks)
         /\ UNCHANGED writeQueue
    ELSE /\ writeQueue' = writeQueue \o ks
         /\ UNCHANGED protocol

\* _queueWrite.
QueueWrites(ks) ==
    IF minitouch.state = "started"
    THEN /\ protocol' = Written(ks)
         /\ UNCHANGED writeQueue
    ELSE /\ writeQueue' = writeQueue \o ks
         /\ UNCHANGED protocol

Room == Len(writeQueue) < MaxWrites
-----------------------------------------------------------------------------
(***************************************************************************)
(* Those who touch.                                                        *)
(***************************************************************************)
\* The next packet of the holder's gesture is played.
Touch(k) ==
    /\ "gestures" \in overlapping
    /\ holding
    /\ Room
    /\ held' = Held(held, k)
    /\ QueueWrites(<<k>>)
    /\ UNCHANGED <<minitouch, viewers>>

\* The gesture has come to its end, or is given up or cancelled.
GestureOver ==
    /\ held # {}
    /\ Room
    /\ held' = {}
    /\ \/ QueueWrites(<<TouchFinish>>)
       \/ QueueWrites(<<TouchReset>>)
    /\ UNCHANGED <<minitouch, viewers>>

\* The device is joined or left: TouchGesture.setOwner; and what VNC does of it.
SetOwner ==
    /\ held' = {}
    /\ QueueWrites(<<TouchReset>>)
    /\ UNCHANGED minitouch

Joined ==
    /\ SetOwner
    /\ UNCHANGED viewers

\* The VNC connections are ended, which their clients learn in time.
Left ==
    /\ SetOwner
    /\ viewers' = [v \in Viewers |->
           IF viewers[v].stage = "connected" THEN [viewers[v] EXCEPT !.stage = "ending"]
           ELSE viewers[v]]

\* A client is authenticated, as who holds the device now.
Authenticated(v) ==
    /\ "vnc" \in overlapping
    /\ holding
    /\ viewers[v].stage = "away"
    /\ viewers' = [viewers EXCEPT ![v].stage = "connected"]
    /\ UNCHANGED <<minitouch, writeQueue, protocol, held>>

\* PointerTranslator: a client presses, moves or lifts the primary button.
Moved(v, type) ==
    /\ \/ viewers[v].stage = "connected"
       \/ viewers[v].stage = "ending" /\ "late" \in overlapping
    /\ Room
    /\ viewers[v].down <=> type # "down"
    /\ viewers' = [viewers EXCEPT ![v].down = type # "up"]
    /\ QueueWrites(<<Packet(type, Pointer), Packet("commit", Pointer)>>)
    /\ UNCHANGED <<minitouch, held>>

\* The connection closes, whatever its button.
Closed(v) ==
    /\ \/ viewers[v].stage = "ending"
       \/ viewers[v].stage = "connected" /\ ("abrupt" \in overlapping \/ ~viewers[v].down)
    /\ viewers' = [viewers EXCEPT ![v] = [stage |-> "away", down |-> FALSE]]
    /\ UNCHANGED <<minitouch, writeQueue, protocol, held>>
-----------------------------------------------------------------------------
(***************************************************************************)
(* The chains of _ensureState and _stop.                                   *)
(***************************************************************************)
\* _ensureState: what is asked for and is the case already is passed over.
Ensured(m) ==
    LET wanted == IF m.desired # <<>> /\ Head(m.desired) = m.state THEN Tail(m.desired) ELSE m.desired
    IN  IF m.desired = <<>> \/ m.state \in {"starting", "stopping"} THEN m
        ELSE IF wanted = <<>> THEN [m EXCEPT !.desired = <<>>]
        ELSE IF m.state = "stopped"
             THEN [m EXCEPT !.state = "starting", !.stage = "launch", !.desired = Tail(wanted)]
             ELSE [m EXCEPT !.state = "stopping", !.desired = Tail(wanted),
                            !.stage = IF m.socket = "open" THEN "disconnect" ELSE "kill"]

AtStage(stage) ==
    /\ minitouch.stage = stage
    /\ UNCHANGED <<held, viewers>>

\* _startService.
Launched ==
    /\ AtStage("launch")
    /\ minitouch' = [minitouch EXCEPT !.output = "open", !.stage = "connect"]
    /\ UNCHANGED <<writeQueue, protocol>>

\* _connectService, at one of its attempts.
Connected ==
    /\ AtStage("connect")
    /\ minitouch' = [minitouch EXCEPT !.socket = "open", !.stage = "banner"]
    /\ UNCHANGED <<writeQueue, protocol>>

\* _readBanner, and what waited is written.
BannerRead ==
    /\ AtStage("banner")
    /\ minitouch.socket = "open"
    /\ protocol' = Written(writeQueue)
    /\ writeQueue' = <<>>
    /\ minitouch' = Ensured([minitouch EXCEPT !.state = "started", !.stage = "none"])

\* _disconnectService.
Disconnected ==
    /\ AtStage("disconnect")
    /\ minitouch' = [minitouch EXCEPT !.socket = "ended", !.stage = "kill"]
    /\ UNCHANGED <<writeQueue, protocol>>

\* _stopService ended minitouch, kindly or not.
Killed ==
    /\ AtStage("kill")
    /\ protocol' = [protocol EXCEPT !.pressed = {}]
    /\ minitouch' = Ensured([minitouch EXCEPT !.state = "stopped", !.stage = "none",
                                              !.output = "none", !.socket = "none"])
    /\ UNCHANGED writeQueue

\* restart.
Restart(m) ==
    IF m.state \in {"started", "starting"}
    THEN Ensured([m EXCEPT !.desired = Restarted(@)])
    ELSE m

\* A stream ends that was not told to (_outputEnded, _socketEnded): it counts.
Ended(stream) ==
    /\ minitouch[stream] = "open"
    /\ minitouch.stage # (IF stream = "socket" THEN "disconnect" ELSE "kill")
    /\ minitouch.failures < FailLimit
    /\ minitouch' = Restart([minitouch EXCEPT ![stream] = "ended", !.failures = @ + 1])
    /\ UNCHANGED <<writeQueue, protocol, held, viewers>>

\* Ten seconds have passed since the first of the failures.
Forgive ==
    /\ minitouch.failures > 0
    /\ minitouch' = [minitouch EXCEPT !.failures = @ - 1]
    /\ UNCHANGED <<writeQueue, protocol, held, viewers>>
-----------------------------------------------------------------------------
Chain ==
    \/ Launched
    \/ Connected
    \/ BannerRead
    \/ Disconnected
    \/ Killed

Next ==
    \/ \E type \in {"down", "move", "up"}, c \in Contacts : Touch(Packet(type, c))
    \/ Touch(Packet("commit", Pointer))
    \/ GestureOver
    \/ \E v \in Viewers : Authenticated(v)
    \/ \E v \in Viewers, type \in {"down", "move", "up"} : Moved(v, type)
    \/ \E v \in Viewers : Closed(v)
    \/ Chain
    \/ \E stream \in {"output", "socket"} : Ended(stream)
    \/ Forgive
-----------------------------------------------------------------------------
\* The fingers that a gesture holds or that a VNC client has its button on.
Touching ==
    held \cup (IF \E v \in Viewers : viewers[v].stage = "connected" /\ viewers[v].down
               THEN {Pointer} ELSE {})

\* Nobody's finger is left on the screen: when all is written, what is pressed
\* is held by the gesture of who holds the device, or by their VNC client, or
\* is about to be lifted, whatever was pressed and released while minitouch
\* was restarted (touch/index.ts 113-121, 562-568, 609-611).  It holds if VNC
\* clients lift their button before they leave, and do not move on after the
\* release.
NothingIsStuck ==
    (/\ minitouch.state = "started"
     /\ writeQueue = <<>>
     /\ {"late", "abrupt"} \cap overlapping = {})
        => protocol.pressed \subseteq
               Touching \cup {c \in Contacts : protocol.staged[c] = "up"}
=============================================================================
