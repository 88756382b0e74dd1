------------------------------- MODULE Screen -------------------------------
(***************************************************************************)
(* The screen of a device (units/device/plugins/screen/stream.ts): the     *)
(* FrameProducer, which runs minicap on the phone for as long as somebody  *)
(* watches, its StateQueue and FailCounter, the BroadcastSet of those who  *)
(* watch, and the loop that sends them frames.                             *)
(*                                                                         *)
(* Starting and stopping are chains of promises with I/O in between; what  *)
(* is asked for meanwhile waits in desiredState.  A step here is an event  *)
(* with what follows it up to the next I/O.  Every I/O has a time-out, so  *)
(* each may fail.                                                          *)
(***************************************************************************)
EXTENDS Naturals, FiniteSets, StateQueue

CONSTANTS
    Clients,        \* WebSocket (or VNC) connections
    Configs,        \* rotations and projections (FrameConfig)
    FailLimit,      \* FailCounter's threshold
    MaxSending      \* bound: loops with frames under way

VARIABLES
    alive,          \* the worker's process is up
    overlapping,    \* what happens at bad moments in this behaviour: some of
                    \* "restart", "close", "fail", "slow"
    clients,        \* "off", "on" (in the set) or "closing" (and in the set)
    told,           \* clients that got the banner of this capture
    config,         \* frameConfig
    runningState,
    desiredState,   \* StateQueue
    ensuring,       \* _ensureState is due (setImmediate)
    stage,          \* what the chain under way waits for
    output,         \* the shell that runs minicap: "none", "open", "ended"
    socket,         \* the connection to minicap, likewise
    captured,       \* the frameConfig that minicap was run with
    failures,       \* FailCounter's values of the last 10 seconds
    frame,          \* a frame waits in the socket
    readable,
    needsReadable,
    sending         \* loops that wait for a frame to be sent

chain == <<runningState, desiredState, ensuring, stage, captured>>
streams == <<output, socket>>
frames == <<frame, readable, needsReadable, sending>>
screen == <<clients, told, config, chain, streams, failures,
            frames>>

-----------------------------------------------------------------------------
Stages == {"none", "launch", "connect", "banner", "robbed", "disconnect",
           "kill"}

Reset ==
    /\ clients' = [c \in Clients |-> "off"]
    /\ told' = {}
    /\ runningState' = "stopped"
    /\ desiredState' = <<>>
    /\ ensuring' = FALSE
    /\ stage' = "none"
    /\ output' = "none"
    /\ socket' = "none"
    /\ captured' = config
    /\ failures' = 0
    /\ frame' = FALSE
    /\ readable' = FALSE
    /\ needsReadable' = FALSE
    /\ sending' = 0
    /\ UNCHANGED <<config>>

Init ==
    /\ clients = [c \in Clients |-> "off"]
    /\ told = {}
    /\ config \in Configs
    /\ runningState = "stopped"
    /\ desiredState = <<>>
    /\ ensuring = FALSE
    /\ stage = "none"
    /\ output = "none"
    /\ socket = "none"
    /\ captured = config
    /\ failures = 0
    /\ frame = FALSE
    /\ readable = FALSE
    /\ needsReadable = FALSE
    /\ sending = 0

Watchers == {c \in Clients : clients[c] # "off"}

\* A stop was asked for while the producer starts.
StopWaits == runningState = "starting" /\ desiredState = <<"stopped">>
-----------------------------------------------------------------------------
(***************************************************************************)
(* The desired state.                                                      *)
(***************************************************************************)
\* _ensureState, in a running state, with a queue, and the chain at a stage.
Ensure(state, queue, at, due) ==
    IF queue = <<>> \/ state \in {"starting", "stopping"}
    THEN /\ runningState' = state
         /\ desiredState' = queue
         /\ stage' = at
         /\ ensuring' = due
         /\ UNCHANGED captured
    ELSE /\ desiredState' = Tail(queue)
         /\ IF state = "stopped" /\ Head(queue) = "started"
            THEN /\ runningState' = "starting"
                 /\ stage' = "launch"
                 /\ ensuring' = due
                 /\ captured' = config'
            ELSE IF state = "started" /\ Head(queue) = "stopped"
            THEN /\ runningState' = "stopping"
                 /\ stage' = IF socket' = "open" THEN "disconnect" ELSE "kill"
                 /\ ensuring' = due
                 /\ UNCHANGED captured
            ELSE /\ runningState' = state
                 /\ stage' = at
                 /\ ensuring' = TRUE
                 /\ UNCHANGED captured

\* start and stop.
Desire(state) ==
    Ensure(runningState, Pushed(desiredState, state), stage, ensuring)

\* The observer of SIGTERM, which does not wait for what it asks for.
Stopped ==
    /\ UNCHANGED <<clients, told, config, streams, failures, frames>>
    /\ Desire("stopped")

\* Mutant: only a producer that is up is restarted.
RestartStarted ==
    IF runningState = "started"
    THEN Ensure(runningState,
                Restarted(desiredState),
                stage, ensuring)
    ELSE UNCHANGED chain

\* restart.
Restart ==
    IF runningState \in {"started", "starting"}
    THEN Ensure(runningState,
                Restarted(desiredState),
                stage, ensuring)
    ELSE UNCHANGED chain

\* What _ensureState put off.
EnsureAgain ==
    /\ ensuring
    /\ UNCHANGED <<clients, told, config, streams, failures, frames>>
    /\ Ensure(runningState, desiredState, stage, FALSE)
-----------------------------------------------------------------------------
(***************************************************************************)
(* Those who watch (BroadcastSet, and the handlers of the WebSockets).     *)
(***************************************************************************)
\* The set's insert: who joins in the middle is told the banner.
ToldAtOnce(c) == IF runningState = "started" THEN told \cup {c} ELSE told

\* "on": the first one starts the producer.
Watch(c) ==
    /\ alive
    /\ clients[c] = "off"
    /\ clients' = [clients EXCEPT ![c] = "on"]
    /\ told' = ToldAtOnce(c)
    /\ UNCHANGED <<config, streams, failures, frames>>
    /\ IF Watchers = {} THEN Desire("started") ELSE UNCHANGED chain

\* The connection closes: its set does not know yet.
Close(c) ==
    /\ "close" \in overlapping
    /\ clients[c] = "on"
    /\ clients' = [clients EXCEPT ![c] = "closing"]
    /\ UNCHANGED <<told, config, chain, streams, failures, frames>>

\* "off", or the connection has closed: the last one stops the producer.
Unwatch(c) ==
    /\ clients[c] # "off"
    /\ clients' = [clients EXCEPT ![c] = "off"]
    /\ told' = told \ {c}
    /\ UNCHANGED <<config, streams, failures, frames>>
    /\ IF Watchers = {c} THEN Desire("stopped") ELSE UNCHANGED chain

\* updateRotation, updateProjection.
Reconfigure(c) ==
    /\ alive
    /\ "restart" \in overlapping \/ ~StopWaits
    /\ c # config
    /\ config' = c
    /\ UNCHANGED <<clients, told, streams, failures, frames>>
    /\ Restart
-----------------------------------------------------------------------------
(***************************************************************************)
(* The frames: next(), as the listener of 'readable' and after each frame. *)
(***************************************************************************)
\* nextFrame finds a frame (f) and sends it to all: a client whose connection
\* is closing never answers, and the loop ends there.  Or it finds none and
\* needFrame waits for one.  Without a service (no parser), it recurses until
\* the stack is full if `readable' is still set.
NextFrame(f, isReadable, needed, loops) ==
    /\ frame' = FALSE
    /\ IF socket' = "none"
       THEN /\ readable' = isReadable
            /\ needsReadable' \in IF isReadable THEN BOOLEAN ELSE {TRUE}
            /\ sending' = loops
       ELSE IF f
       THEN /\ readable' = isReadable
            /\ needsReadable' = needed
            /\ sending' = IF \E c \in Clients : clients[c] = "closing"
                          THEN loops ELSE loops + 1
       ELSE /\ readable' = FALSE
            /\ needsReadable' = TRUE
            /\ sending' = loops

\* Mutant: a loop that has waited for a frame does not go on.
FrameArrivesUnheard ==
    /\ socket = "open"
    /\ runningState = "started"
    /\ ~frame
    /\ frame' = TRUE
    /\ readable' = TRUE
    /\ UNCHANGED <<clients, told, config, chain, streams, failures,
                   needsReadable, sending>>

\* minicap sends a frame: the readableListener.
FrameArrives ==
    /\ socket = "open"
    /\ runningState = "started"
    /\ ~frame
    /\ UNCHANGED <<clients, told, config, chain, streams, failures>>
    /\ IF needsReadable
       THEN NextFrame(TRUE, TRUE, FALSE, sending)
       ELSE /\ frame' = TRUE
            /\ readable' = TRUE
            /\ UNCHANGED <<needsReadable, sending>>

\* The frame was sent to everybody: the next one, please.  A loop that is this
\* late may find the next service's banner in its socket, and take it.
Sent ==
    /\ sending > 0
    /\ UNCHANGED <<clients, told, config, streams, failures>>
    /\ NextFrame(frame, readable, needsReadable, sending - 1)
    /\ stage' \in {stage} \cup IF stage = "banner" THEN {"robbed"} ELSE {}
    /\ UNCHANGED <<runningState, desiredState, ensuring, captured>>
-----------------------------------------------------------------------------
(***************************************************************************)
(* The chains of _ensureState and _stop.                                   *)
(***************************************************************************)
AtStage(s) ==
    /\ stage = s
    /\ UNCHANGED <<clients, config>>

\* _startService has a shell.
Launched ==
    /\ AtStage("launch")
    /\ output' = "open"
    /\ stage' = "connect"
    /\ UNCHANGED <<told, runningState, desiredState, ensuring, captured, socket,
                   failures, frames>>

\* _waitForPid, and _connectService at one of its attempts.
Connected ==
    /\ AtStage("connect")
    /\ socket' = "open"
    /\ stage' = "banner"
    /\ UNCHANGED <<told, runningState, desiredState, ensuring, captured, output,
                   failures, frames>>

\* _readBanner: the first look for frames, and everybody is told.
BannerRead ==
    /\ AtStage("banner")
    /\ socket = "open"
    /\ sending < MaxSending
    /\ told' = {c \in Clients : clients[c] = "on"}
    /\ UNCHANGED <<streams, failures>>
    /\ \E f \in BOOLEAN : NextFrame(f, TRUE, FALSE, sending)
    /\ Ensure("started", desiredState, "none", ensuring)

\* A step of the start fails or times out.
StartFails ==
    /\ \/ stage = "robbed"
       \/ /\ "fail" \in overlapping
          /\ stage \in {"launch", "connect", "banner"}
    /\ stage' = IF socket = "open" THEN "disconnect" ELSE "kill"
    /\ UNCHANGED <<clients, told, config, runningState,
                   desiredState, ensuring, captured, streams, failures, frames>>

\* _disconnectService: the socket has ended, as it was told to.
Disconnected ==
    /\ AtStage("disconnect")
    /\ socket' = "ended"
    /\ frame' = FALSE
    /\ stage' = "kill"
    /\ UNCHANGED <<told, runningState, desiredState, ensuring, captured, output,
                   failures, readable, needsReadable, sending>>

\* Mutant: what waits in desiredState is left there.
KilledOnly ==
    /\ AtStage("kill")
    /\ "slow" \in overlapping \/ sending = 0
    /\ output' = "none"
    /\ socket' = "none"
    /\ frame' = FALSE
    /\ failures' = IF runningState = "starting" THEN failures + 1 ELSE failures
    /\ failures' <= FailLimit
    /\ UNCHANGED <<told, readable, needsReadable, sending>>
    /\ runningState' = "stopped"
    /\ stage' = "none"
    /\ UNCHANGED <<desiredState, ensuring, captured>>

\* _stopService ended minicap, kindly or not.  A start that failed counts.
Killed ==
    /\ AtStage("kill")
    /\ "slow" \in overlapping \/ sending = 0
    /\ output' = "none"
    /\ socket' = "none"
    /\ frame' = FALSE
    /\ failures' = IF runningState = "starting" THEN failures + 1 ELSE failures
    /\ failures' <= FailLimit
    /\ UNCHANGED <<told, readable, needsReadable, sending>>
    /\ Ensure("stopped", desiredState, "none", ensuring)

\* minicap or the connection to it dies: _outputEnded, _socketEnded.
MayDie ==
    /\ "restart" \in overlapping \/ ~StopWaits
    /\ "fail" \in overlapping \/ runningState # "starting"
    /\ failures < FailLimit
    /\ failures' = failures + 1
    /\ UNCHANGED <<clients, told, config, frames>>

OutputEnded ==
    /\ output = "open"
    /\ stage # "kill"
    /\ output' = "ended"
    /\ UNCHANGED socket
    /\ MayDie
    /\ Restart

SocketEnded ==
    /\ socket = "open"
    /\ stage # "disconnect"
    /\ socket' = "ended"
    /\ UNCHANGED output
    /\ MayDie
    /\ Restart

\* Ten seconds have passed since the first of the failures.
Forgive ==
    /\ failures > 0
    /\ failures' = failures - 1
    /\ UNCHANGED <<clients, told, config, chain, streams, frames>>

\* One failure too many: lifecycle.fatal.  (That happens to unexpected ends as
\* well, and to a socket that does not end in time: a worker may always die.)
MustDie ==
    /\ stage = "kill"
    /\ runningState = "starting"
    /\ failures = FailLimit
-----------------------------------------------------------------------------
Chain ==
    \/ EnsureAgain
    \/ Launched
    \/ Connected
    \/ BannerRead
    \/ StartFails
    \/ Disconnected
    \/ Killed

Next ==
    \/ \E c \in Clients : Watch(c)
    \/ \E c \in Clients : Close(c)
    \/ \E c \in Clients : Unwatch(c)
    \/ \E c \in Configs : Reconfigure(c)
    \/ FrameArrives
    \/ Sent
    \/ Chain
    \/ OutputEnded
    \/ SocketEnded
    \/ Forgive

-----------------------------------------------------------------------------
(***************************************************************************)
(* Properties.                                                             *)
(***************************************************************************)
\* While the producer is up and nothing else is asked for, everybody who
\* watches has been told the banner of this very capture, also who joined in
\* the middle (stream.ts 552-563), and minicap runs with the rotation and the
\* size that were asked for last: a change at any moment of a start or stop
\* is not lost (217-226, 308-321; statequeue.ts 16-31).  The second holds if
\* restarts do not come while a stop waits.
ScreenIsCurrent ==
    runningState = "started" =>
        /\ \A c \in Clients : clients[c] = "on" => c \in told
        /\ "restart" \notin overlapping /\ desiredState = <<>> =>
               captured = config

\* The producer follows those who watch: in the end it runs if somebody does
\* and not if nobody does, whatever they did while it was starting or
\* stopping (stream.ts 128-203, 544-550).  That it stops holds if restarts do
\* not come while a stop waits; that it starts (what is stopping was up), if
\* no start fails (a failed one is not tried again), on its own or because of
\* a late frame.
FollowsWatchers ==
    /\ "restart" \notin overlapping /\ Watchers = {}
           ~> runningState = "stopped" \/ Watchers # {} \/ ~alive
    /\ {"restart", "fail", "slow"} \cap overlapping = {} /\ Watchers # {}
           ~> runningState \in {"started", "stopping"} \/ Watchers = {} \/ ~alive

\* A frame that minicap sent is sent on, as long as the producer is up: the
\* loop does not die, not even of a restart (stream.ts 575-585).  It does die
\* of a client whose connection is closing.
FramesFlow ==
    "close" \notin overlapping /\ frame ~> ~frame \/ runningState # "started"
=============================================================================
