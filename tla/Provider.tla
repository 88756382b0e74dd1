------------------------------ MODULE Provider ------------------------------
(***************************************************************************)
(* The provider (units/provider/index.ts): it follows the devices that ADB *)
(* lists and keeps one worker process per usable device, with a group of   *)
(* four ports each.                                                        *)
(*                                                                         *)
(* Every 'add' of the tracker opens a scope of its own: a closure with its *)
(* registration, timer, willStop and worker variables.  A scope outlives   *)
(* the device's removal, and the worker variable outlives the worker.      *)
(***************************************************************************)
EXTENDS Naturals, Sequences, FiniteSets, SequencesExt

CONSTANTS
    Serials,        \* devices
    PortGroups,     \* groups of four ports
    NoPorts,        \* what a worker gets when the pool is empty
    Racing,         \* bound: the devices that are listed unless calm
    Calms,          \* the values of calm
    MaxScopes,      \* bound: 'add' events
    MaxWorkers,     \* bound: workers of a device that are spawned
    MaxTodo         \* bound: events that wait for a registration

ASSUME NoPortsIsNone == NoPorts \notin PortGroups
ASSUME CalmIsFlag == Calms \subseteq BOOLEAN
ASSUME RacingAreSerials == Racing \subseteq Serials
ASSUME DevicesAndPortsAreFinite == IsFiniteSet(Serials) /\ IsFiniteSet(PortGroups)

VARIABLES
    listed,     \* what ADB lists: a device's type, or "none"
    scopes,     \* the scopes, in the order they were opened
    workers,    \* the worker processes, in the order they were spawned
    ports,      \* the pool of port groups, in the order they are handed out
    calm        \* tracker events wait until a device has settled

vars == <<listed, scopes, workers, ports, calm>>

Types == {"device", "offline"}
None  == 0      \* no worker

\* A scope: `todo' are the callbacks that wait for its registration, `delays'
\* the respawns of crashed workers that have been put off by half a second.
Scope(serial, type) ==
    [serial |-> serial, type |-> type, present |-> TRUE, registered |-> FALSE,
     todo |-> <<"check">>, willStop |-> FALSE, timer |-> "none",
     worker |-> None, delays |-> 0]

Init ==
    /\ listed = [d \in Serials |-> "none"]
    /\ scopes = <<>>
    /\ workers = <<>>
    /\ ports = SetToSeq(PortGroups)
    /\ calm \in Calms

Alive(w) == workers[w].state \in {"up", "stopping"}
WorkersOf(d) == {w \in DOMAIN workers : scopes[workers[w].scope].serial = d}
RoomForWorker(d) == Cardinality(WorkersOf(d)) < MaxWorkers

\* Nothing of the device's scopes is under way.
Settled(d) ==
    /\ \A s \in DOMAIN scopes : scopes[s].serial = d =>
            /\ scopes[s].registered
            /\ scopes[s].todo = <<>>
            /\ scopes[s].timer = "none"
            /\ scopes[s].delays = 0
    /\ \A w \in WorkersOf(d) : workers[w].state # "stopping"

\* The callbacks of a registration run before anything else does.
Drained == \A s \in DOMAIN scopes : scopes[s].registered => scopes[s].todo = <<>>
-----------------------------------------------------------------------------
(***************************************************************************)
(* The tracker's events.                                                   *)
(***************************************************************************)
May(d) == Drained /\ IF calm THEN Settled(d) ELSE d \in Racing

Add(d, type) ==
    /\ May(d)
    /\ listed[d] = "none"
    /\ Len(scopes) < MaxScopes
    /\ RoomForWorker(d)
    /\ listed' = [listed EXCEPT ![d] = type]
    /\ scopes' = Append(scopes, Scope(d, type))
    /\ UNCHANGED <<workers, ports, calm>>

\* Every scope that still listens gets the event; it waits for its register.
Told(d, event) ==
    [s \in DOMAIN scopes |->
        IF scopes[s].serial = d /\ scopes[s].present
        THEN [scopes[s] EXCEPT !.todo = Append(@, event)]
        ELSE scopes[s]]

RoomForTodo(d) ==
    \A s \in DOMAIN scopes :
        scopes[s].serial = d => Len(scopes[s].todo) < MaxTodo

Change(d, type) ==
    /\ May(d)
    /\ listed[d] \notin {"none", type}
    /\ RoomForTodo(d)
    /\ RoomForWorker(d)
    /\ listed' = [listed EXCEPT ![d] = type]
    /\ scopes' = Told(d, type)
    /\ UNCHANGED <<workers, ports, calm>>

Unlist(d) ==
    /\ May(d)
    /\ listed[d] # "none"
    /\ RoomForTodo(d)
    /\ listed' = [listed EXCEPT ![d] = "none"]
    /\ scopes' = Told(d, "remove")
    /\ UNCHANGED <<workers, ports, calm>>

\* DeviceRegisteredMessage, for every scope of the device; or 15 s without.
Register(d) ==
    /\ Drained
    /\ \E s \in DOMAIN scopes : scopes[s].serial = d /\ ~scopes[s].registered
    /\ scopes' = [s \in DOMAIN scopes |->
            IF scopes[s].serial = d THEN [scopes[s] EXCEPT !.registered = TRUE]
                                    ELSE scopes[s]]
    /\ UNCHANGED <<listed, workers, ports, calm>>

RegisterTimeout(s) ==
    /\ Drained
    /\ ~scopes[s].registered
    /\ scopes' = [scopes EXCEPT ![s].registered = TRUE]
    /\ UNCHANGED <<listed, workers, ports, calm>>
-----------------------------------------------------------------------------
(***************************************************************************)
(* The callbacks of a scope.                                               *)
(***************************************************************************)
\* promise.stop: SIGTERM, then SIGKILL, unless the worker has exited.
Stopped(w) ==
    IF w # None /\ workers[w].state = "up"
    THEN [workers EXCEPT ![w].state = "stopping"]
    ELSE workers

Todo(s, event) ==
    /\ scopes[s].registered
    /\ scopes[s].todo # <<>>
    /\ Head(scopes[s].todo) = event

\* check: the timer of an earlier check is dropped.
Checked(scope) ==
    [scope EXCEPT
        !.todo = Tail(@),
        !.willStop = ~scope.present \/ scope.type # "device",
        !.timer = IF ~scope.present THEN "none"
                  ELSE IF scope.type = "device" THEN "work" ELSE "stop"]

Check(s) ==
    /\ Todo(s, "check")
    /\ scopes' = [scopes EXCEPT ![s] = Checked(@)]
    /\ UNCHANGED <<listed, workers, ports, calm>>

\* changeListener.
Changed(s, type) ==
    /\ Todo(s, type)
    /\ scopes' = [scopes EXCEPT ![s] = Checked([@ EXCEPT !.type = type])]
    /\ UNCHANGED <<listed, workers, ports, calm>>

\* Mutant: the worker is not stopped with its device.
RemovedOnly(s) ==
    /\ Todo(s, "remove")
    /\ scopes' = [scopes EXCEPT ![s] = Checked([@ EXCEPT !.present = FALSE])]
    /\ UNCHANGED <<listed, workers, ports, calm>>

\* removeListener: the worker is stopped at once.
Removed(s) ==
    /\ Todo(s, "remove")
    /\ scopes' = [scopes EXCEPT ![s] = Checked([@ EXCEPT !.present = FALSE])]
    /\ workers' = Stopped(scopes[s].worker)
    /\ UNCHANGED <<listed, ports, calm>>

\* stop, 100 ms after the device became unusable.
StopTimer(s) ==
    /\ Drained
    /\ scopes[s].timer = "stop"
    /\ scopes' = [scopes EXCEPT ![s].timer = "none"]
    /\ workers' = Stopped(scopes[s].worker)
    /\ UNCHANGED <<listed, ports, calm>>
-----------------------------------------------------------------------------
(***************************************************************************)
(* The workers.                                                            *)
(***************************************************************************)
\* Mutant: the scope keeps the first worker that it had.
SpawnedUnknown(s, changes) ==
    /\ RoomForWorker(scopes[s].serial)
    /\ workers' = Append(workers,
           [scope |-> s, state |-> "up",
            ports |-> IF ports = <<>> THEN NoPorts ELSE Head(ports)])
    /\ ports' = IF ports = <<>> THEN ports ELSE Tail(ports)
    /\ scopes' = [scopes EXCEPT ![s] = [changes EXCEPT
            !.worker = IF @ = None THEN Len(workers) + 1 ELSE @]]
    /\ UNCHANGED <<listed, calm>>

\* spawn, by work: the scope's worker is the new one, whatever it was.
Spawn(s, changes) ==
    /\ RoomForWorker(scopes[s].serial)
    /\ workers' = Append(workers,
           [scope |-> s, state |-> "up",
            ports |-> IF ports = <<>> THEN NoPorts ELSE Head(ports)])
    /\ ports' = IF ports = <<>> THEN ports ELSE Tail(ports)
    /\ scopes' = [scopes EXCEPT ![s] = [changes EXCEPT
                                            !.worker = Len(workers) + 1]]
    /\ UNCHANGED <<listed, calm>>

\* work, 100 ms after the device became usable.
WorkTimer(s) ==
    /\ Drained
    /\ scopes[s].timer = "work"
    /\ Spawn(s, [scopes[s] EXCEPT !.timer = "none"])

\* work, 500 ms after a crash.
Respawn(s) ==
    /\ Drained
    /\ scopes[s].delays > 0
    /\ Spawn(s, [scopes[s] EXCEPT !.delays = @ - 1])

\* Mutant: the ports are kept.
EndedKeepingPorts(w, state) ==
    /\ workers' = [workers EXCEPT ![w].state = state]
    /\ UNCHANGED <<listed, ports, calm>>

\* The cleanup of a worker: its ports go back to the pool.
Ended(w, state) ==
    /\ workers' = [workers EXCEPT ![w].state = state]
    /\ ports' = IF workers[w].ports = NoPorts THEN ports
                ELSE Append(ports, workers[w].ports)
    /\ UNCHANGED <<listed, calm>>

\* It was stopped, or exited with code 0 or by a signal: it retires.  The
\* scope's worker is forgotten, whichever it is by now.
Retire(w) ==
    /\ Drained
    /\ Alive(w)
    /\ Ended(w, IF workers[w].state = "up" THEN "retired" ELSE "stopped")
    /\ scopes' = [scopes EXCEPT ![workers[w].scope].worker = None]

\* Mutant: a crash is taken for a retirement.
CrashForGood(w) ==
    /\ Drained
    /\ workers[w].state = "up"
    /\ RoomForWorker(scopes[workers[w].scope].serial)
    /\ Ended(w, "crashed")
    /\ scopes' = [scopes EXCEPT ![workers[w].scope].worker = None]

\* It died with an error code: it is started again later, unless the scope
\* will stop.
Crash(w) ==
    /\ Drained
    /\ workers[w].state = "up"
    /\ RoomForWorker(scopes[workers[w].scope].serial)
    /\ Ended(w, "crashed")
    /\ scopes' = [scopes EXCEPT ![workers[w].scope].delays =
                      IF scopes[workers[w].scope].willStop THEN @ ELSE @ + 1]

Next ==
    \/ \E d \in Serials, type \in Types : Add(d, type)
    \/ \E d \in Serials, type \in Types : Change(d, type)
    \/ \E d \in Serials : Unlist(d)
    \/ \E d \in Serials : Register(d)
    \/ \E s \in DOMAIN scopes : RegisterTimeout(s)
    \/ \E s \in DOMAIN scopes : Check(s)
    \/ \E s \in DOMAIN scopes, type \in Types : Changed(s, type)
    \/ \E s \in DOMAIN scopes : Removed(s)
    \/ \E s \in DOMAIN scopes : StopTimer(s)
    \/ \E s \in DOMAIN scopes : WorkTimer(s)
    \/ \E s \in DOMAIN scopes : Respawn(s)
    \/ \E w \in DOMAIN workers : Retire(w)
    \/ \E w \in DOMAIN workers : Crash(w)

Spec == Init /\ [][Next]_vars

\* Callbacks and timers run, and a worker that is told to stop ends (SIGKILL).
Running(s) ==
    \/ RegisterTimeout(s)
    \/ Check(s)
    \/ \E type \in Types : Changed(s, type)
    \/ Removed(s)
    \/ StopTimer(s)
    \/ WorkTimer(s)
    \/ Respawn(s)

Fairness ==
    /\ \A s \in 1..MaxScopes : WF_vars(s \in DOMAIN scopes /\ Running(s))
    /\ \A w \in 1..(MaxWorkers * Cardinality(Serials)) :
           WF_vars(/\ w \in DOMAIN workers
                   /\ workers[w].state = "stopping"
                   /\ Retire(w))

FairSpec == Spec /\ Fairness
-----------------------------------------------------------------------------
(***************************************************************************)
(* Properties.                                                             *)
(***************************************************************************)
\* The type invariant.
TypeOK ==
    /\ listed \in [Serials -> Types \cup {"none"}]
    /\ scopes \in Seq([serial : Serials, type : Types, present : BOOLEAN,
                       registered : BOOLEAN,
                       todo : Seq(Types \cup {"check", "remove"}),
                       willStop : BOOLEAN, timer : {"none", "work", "stop"},
                       worker : Nat, delays : Nat])
    /\ workers \in Seq([scope : DOMAIN scopes,
                        state : {"up", "stopping", "stopped", "retired", "crashed"},
                        ports : PortGroups \cup {NoPorts}])
    /\ ports \in Seq(PortGroups)
    /\ calm \in Calms

\* A port group is in the pool or with one live worker, never both or neither,
\* whatever spawns, stops and crashes overlap.
PortsAreConserved ==
    \A g \in PortGroups :
        Cardinality({i \in DOMAIN ports : ports[i] = g})
        + Cardinality({w \in DOMAIN workers : Alive(w) /\ workers[w].ports = g})
        = 1

\* A device has one worker at a time, if tracker events wait until the device
\* has settled.
OneWorkerPerDevice ==
    calm => \A d \in Serials :
                Cardinality({w \in WorkersOf(d) : Alive(w)}) <= 1

\* A usable device gets a worker, and a crashed worker is replaced, unless a
\* worker retired of its own accord ("assuming deliberate action and not
\* restarting").  Under the same condition.
UsableIsWorked ==
    \A d \in Serials :
        calm /\ listed[d] = "device"
            ~> \/ listed[d] # "device"
               \/ \E w \in WorkersOf(d) :
                      /\ scopes[workers[w].scope].present
                      /\ workers[w].state \in {"up", "retired"}

\* No worker goes without ports if there is a group for every device.  Under
\* the same condition.
WorkersHavePorts ==
    calm /\ Cardinality(Serials) <= Cardinality(PortGroups) =>
        \A w \in DOMAIN workers : workers[w].ports # NoPorts

\* The worker of a device that is removed for good ends for good: "No more
\* work required" (units/provider/index.ts).
RemovedIsStopped ==
    \A d \in Serials :
        <>[](listed[d] = "none") => <>[](\A w \in WorkersOf(d) : ~Alive(w))

\* It does, under the same condition.
CalmlyRemovedIsStopped == [](calm) => RemovedIsStopped
=============================================================================
