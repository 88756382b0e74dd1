----------------------------- MODULE IosRuntime -----------------------------
(***************************************************************************)
(* The process beside one iPhone (tools/ios-prototype): the HTTP server    *)
(* that the bridge talks to (server.mts), the loop that keeps a session of *)
(* WebDriverAgent, and the queue of what is done in it (runtime.mts,       *)
(* wda.mts), and the installations of apps (installations.mts).            *)
(*                                                                         *)
(* `inbox' is what the server has yet to read from its sockets: requests,  *)
(* and the closing of connections; a loopback is read in the order in      *)
(* which it was written.  Requests that only read (GET /device, status,    *)
(* keepalive) are not there: the bridge reads.  An exchange is a request   *)
(* and its answer; 0 stands for a caller who does not listen.              *)
(***************************************************************************)
EXTENDS Integers, Sequences

CONSTANTS
    MaxInstalls,    \* bound: installations, in the order they are asked for
    MaxRecoveries,  \* bound: unasked recoveries of WebDriverAgent
    MaxRestarts     \* bound: restarts of this process

VARIABLES
    overlapping,    \* what may happen in this behaviour
    inbox,
    replies,        \* answers the bridge has yet to read
    instance, generation, state,    \* as GET /device shows them
    loop,           \* where the loop of the runtime is
    wda,            \* the generation whose session is open, or NoSession
    actions,        \* the queue of execute
    jobs,           \* the installations by id, NoJob if not known
    accepting,      \* the installation that start is saving, or NoJob
    active,         \* the id of the installation under way, or 0
    waiting         \* the exchanges of cancels that await active.done

queueing == <<instance, generation, state, loop, wda>>
installing == <<jobs, accepting, active, waiting>>
vars == <<overlapping, inbox, replies, queueing, actions, installing>>
-----------------------------------------------------------------------------
Ids == 1..MaxInstalls
NoSession == [instance |-> 0, generation |-> 0]
NoJob == [id |-> 0]

Session == [instance |-> instance, generation |-> generation]

\* Installations.current
Current(job) == state = "ready" /\ job.session = Session

Stages == {"downloading", "installing", "launching", "settled", "done"}

Settled(id) == jobs[id].stage \in {"settled", "done"}

\* What the manager keeps of an installation it has accepted.
Job(job, stage) ==
    [id |-> job.id, lease |-> job.lease, session |-> job.session,
     stage |-> stage, aborted |-> FALSE]

\* The exchanges the server has yet to answer.
Exchanges ==
    ({inbox[i].exchange : i \in DOMAIN inbox}
     \cup {actions[i].exchange : i \in DOMAIN actions}
     \cup (IF accepting = NoJob THEN {} ELSE {accepting.exchange})
     \cup waiting) \ {0}

\* Who has closed the connection does not read the answer.
Closed(x) ==
    x = 0 \/ \E i \in DOMAIN inbox :
                 inbox[i].path = "close" /\ inbox[i].exchange = x

\* running: the id of the installation that is told of, 0 if it is settled.
Answers(X, ok, running) ==
    replies \cup {[exchange |-> x, ok |-> ok, running |-> running] :
                  x \in {y \in X : ~Closed(y)}}

Sessions == [instance : Nat, generation : Nat]
Requests ==
    [path : {"command", "power", "screenshot", "start", "cancel", "close"},
     exchange : Nat, reservation : Nat, id : 0..MaxInstalls, session : Sessions]
Replies == [exchange : Nat, ok : BOOLEAN, running : 0..MaxInstalls]
Actions ==
    [path : {"command", "power", "screenshot", "launch"},
     exchange : Nat, reservation : Nat, id : 0..MaxInstalls, generation : Nat,
     running : BOOLEAN, aborted : BOOLEAN]
Accepting ==
    [id : 0..MaxInstalls, lease : Nat, session : Sessions, exchange : Nat]
Jobs ==
    [id : 0..MaxInstalls, lease : Nat, session : Sessions, stage : Stages,
     aborted : BOOLEAN]

TypeOK ==
    /\ inbox \in Seq(Requests)
    /\ replies \subseteq Replies
    /\ instance \in Nat \ {0}
    /\ generation \in Nat
    /\ state \in {"waiting", "starting", "ready"}
    /\ loop \in {"preparing", "probing", "draining", "resting"}
    /\ wda \in Sessions
    /\ actions \in Seq(Actions)
    /\ \A i \in DOMAIN actions :
          actions[i].path = "launch" =>
              actions[i].id \in Ids /\ jobs[actions[i].id] # NoJob
    /\ jobs \in [Ids -> Jobs \cup {NoJob}]
    /\ accepting \in Accepting \cup {NoJob}
    /\ active \in 0..MaxInstalls
    /\ active # 0 => jobs[active] # NoJob
    /\ waiting \subseteq Nat

Init ==
    /\ inbox = <<>>
    /\ replies = {}
    /\ instance = 1
    /\ generation = 0
    /\ state = "starting"
    /\ loop = "preparing"
    /\ wda = NoSession
    /\ actions = <<>>
    /\ jobs = [id \in Ids |-> NoJob]
    /\ accepting = NoJob
    /\ active = 0
    /\ waiting = {}
-----------------------------------------------------------------------------
(***************************************************************************)
(* The server reads its sockets.                                           *)
(***************************************************************************)
\* Mutant: nothing happens to a request whose connection closes.
Unheard(r) ==
    /\ r.path = "close"
    /\ actions' = [i \in DOMAIN actions |->
                      IF actions[i].exchange # r.exchange THEN actions[i]
                      ELSE [actions[i] EXCEPT !.exchange = 0]]
    /\ accepting' = IF accepting = NoJob \/ accepting.exchange # r.exchange
                    THEN accepting ELSE [accepting EXCEPT !.exchange = 0]
    /\ waiting' = waiting \ {r.exchange}
    /\ UNCHANGED <<replies, jobs, active>>

Cut(a, x) ==
    IF a.exchange # x THEN a ELSE [a EXCEPT !.exchange = 0, !.aborted = TRUE]

\* The connection closes: the signal of what was asked for over it is aborted;
\* what installations do goes on.
Hangup(r) ==
    /\ r.path = "close"
    /\ actions' = [i \in DOMAIN actions |-> Cut(actions[i], r.exchange)]
    /\ accepting' = IF accepting = NoJob \/ accepting.exchange # r.exchange
                    THEN accepting ELSE [accepting EXCEPT !.exchange = 0]
    /\ waiting' = waiting \ {r.exchange}
    /\ UNCHANGED <<replies, jobs, active>>

Action(path, r, id) ==
    [path |-> path, exchange |-> r.exchange, reservation |-> r.reservation,
     id |-> id, generation |-> generation, running |-> FALSE,
     aborted |-> FALSE]

\* IosRuntime.execute, by a command, a power command or a screenshot.
Execute(r) ==
    /\ r.path \in {"command", "power", "screenshot"}
    /\ UNCHANGED installing
    /\ IF state = "ready"
       THEN /\ actions' = Append(actions, Action(r.path, r, 0))
            /\ UNCHANGED replies
       ELSE /\ replies' = Answers({r.exchange}, FALSE, 0)
            /\ UNCHANGED actions

\* Installations.start: one that is known is told of, to who asked for it.
Start(r) ==
    /\ r.path = "start"
    /\ UNCHANGED <<actions, jobs, active, waiting>>
    /\ LET known == jobs[r.id] # NoJob
           mine  == known /\ jobs[r.id].lease = r.reservation
           job   == [id |-> r.id, lease |-> r.reservation,
                     session |-> r.session, exchange |-> r.exchange]
       IN  IF known \/ active # 0 \/ accepting # NoJob \/ ~Current(job)
           THEN /\ replies' = Answers({r.exchange}, mine,
                                      IF mine /\ ~Settled(r.id) THEN r.id ELSE 0)
                /\ UNCHANGED accepting
           ELSE /\ accepting' = job
                /\ UNCHANGED replies

\* Installations.cancel: it answers when the installation has ended.
Cancel(r) ==
    /\ r.path = "cancel"
    /\ UNCHANGED <<actions, accepting, active>>
    /\ LET mine == jobs[r.id] # NoJob /\ jobs[r.id].lease = r.reservation
       IN  IF mine /\ active = r.id
           THEN /\ jobs' = [jobs EXCEPT ![r.id].aborted = TRUE]
                /\ waiting' = waiting \cup ({r.exchange} \ {0})
                /\ UNCHANGED replies
           ELSE /\ replies' = Answers({r.exchange}, mine, 0)
                /\ UNCHANGED <<jobs, waiting>>

Serve ==
    /\ inbox # <<>>
    /\ inbox' = Tail(inbox)
    /\ LET r == Head(inbox)
       IN  Hangup(r) \/ Execute(r) \/ Start(r) \/ Cancel(r)
    /\ UNCHANGED <<overlapping, queueing>>
-----------------------------------------------------------------------------
(***************************************************************************)
(* The queue: one action after the other has the phone.                    *)
(***************************************************************************)
\* What execute checks when the turn of an action has come, and what the
\* launch of an installed app checks then.
MayBegin(a) ==
    /\ ~a.aborted
    /\ state = "ready"
    /\ a.generation = generation
    /\ a.path = "launch" => Current(jobs[a.id]) /\ ~jobs[a.id].aborted

Begin ==
    /\ actions # <<>>
    /\ ~Head(actions).running
    /\ MayBegin(Head(actions))
    /\ actions' = [actions EXCEPT ![1].running = TRUE]
    /\ UNCHANGED <<overlapping, inbox, replies, queueing, installing>>

\* An action has ended, well or not; a launch ends its installation either way.
Over(a, ok) ==
    /\ actions' = Tail(actions)
    /\ replies' = Answers({a.exchange}, ok, 0)
    /\ jobs' = IF a.path = "launch"
               THEN [jobs EXCEPT ![a.id].stage = "settled"] ELSE jobs
    /\ UNCHANGED <<overlapping, inbox, accepting, active, waiting>>

Refuse ==
    /\ actions # <<>>
    /\ ~Head(actions).running
    /\ ~MayBegin(Head(actions))
    /\ Over(Head(actions), FALSE)
    /\ UNCHANGED queueing

\* A power command that was accepted ends the session.
End ==
    /\ actions # <<>>
    /\ Head(actions).running
    /\ LET a == Head(actions)
       IN  \E ok \in IF a.aborted \/ "fail" \in overlapping
                     THEN BOOLEAN ELSE {TRUE} :
             /\ Over(a, ok)
             /\ IF a.path = "power" /\ ok
                THEN /\ state' = "waiting"
                     /\ generation' = generation + 1
                     /\ UNCHANGED <<instance, loop, wda>>
                ELSE UNCHANGED queueing
-----------------------------------------------------------------------------
(***************************************************************************)
(* The loop, and the process.                                              *)
(***************************************************************************)
\* prepare: WebDriverAgent is up and has opened a session.
Prepared ==
    /\ loop = "preparing"
    /\ loop' = "probing"
    /\ state' = "ready"
    /\ wda' = Session
    /\ UNCHANGED <<overlapping, inbox, replies, instance, generation, actions,
                   installing>>

\* The session is lost, or is never found: cleanup starts.
GoDown ==
    /\ state' = "waiting"
    /\ generation' = generation + 1
    /\ loop' = "draining"
    /\ UNCHANGED <<overlapping, inbox, replies, instance, actions, installing>>

PrepareFails ==
    /\ loop = "preparing"
    /\ "recover" \in overlapping
    /\ generation < MaxRecoveries
    /\ wda' \in {NoSession, Session}
    /\ GoDown

\* A probe fails; after a power command it must, sooner or later.
ProbeFails ==
    /\ loop = "probing"
    /\ \/ "recover" \in overlapping /\ generation < MaxRecoveries
       \/ state = "waiting"
    /\ UNCHANGED wda
    /\ GoDown

\* Mutant: WebDriverAgent is closed at once.
ClosedAtOnce ==
    /\ loop = "draining"
    /\ wda' = NoSession
    /\ loop' = "resting"
    /\ UNCHANGED <<overlapping, inbox, replies, instance, generation, state,
                   actions, installing>>

\* cleanup goes on once all that was in the queue is over.
Drained ==
    /\ loop = "draining"
    /\ \A i \in DOMAIN actions : actions[i].generation = generation
    /\ wda' = NoSession
    /\ loop' = "resting"
    /\ UNCHANGED <<overlapping, inbox, replies, instance, generation, state,
                   actions, installing>>

Rested ==
    /\ loop = "resting"
    /\ loop' = "preparing"
    /\ state' = "starting"
    /\ UNCHANGED <<overlapping, inbox, replies, instance, generation, wda,
                   actions, installing>>

\* Installations.create, after the process has died: what was under way has
\* failed; an installation that was being saved may or may not be on the disk.
Restart ==
    /\ "restart" \in overlapping
    /\ instance < MaxRestarts + 1
    /\ instance' = instance + 1
    /\ generation' = 0
    /\ state' = "starting"
    /\ loop' = "preparing"
    /\ wda' = NoSession
    /\ inbox' = <<>>
    /\ actions' = <<>>
    /\ replies' = Answers(Exchanges, FALSE, 0)
    /\ \E saved \in BOOLEAN :
          jobs' = [id \in Ids |->
              IF saved /\ accepting.id = id THEN Job(accepting, "done")
              ELSE IF jobs[id] = NoJob THEN NoJob
              ELSE [jobs[id] EXCEPT !.stage = "done"]]
    /\ accepting' = NoJob
    /\ active' = 0
    /\ waiting' = {}
    /\ UNCHANGED overlapping
-----------------------------------------------------------------------------
(***************************************************************************)
(* The installations.                                                      *)
(***************************************************************************)
\* start goes on: the job is saved; it runs if the session is still the same.
Accepted ==
    /\ accepting # NoJob
    /\ LET job == accepting
           ok  == Current(job)
       IN  /\ jobs' = [jobs EXCEPT
                          ![job.id] = Job(job, IF ok THEN "downloading" ELSE "done")]
           /\ active' = IF ok THEN job.id ELSE 0
           /\ replies' = Answers({job.exchange}, ok, job.id)
    /\ accepting' = NoJob
    /\ UNCHANGED <<overlapping, inbox, queueing, actions, waiting>>

\* The job cannot be saved.
NotAccepted ==
    /\ accepting # NoJob
    /\ "fail" \in overlapping
    /\ replies' = Answers({accepting.exchange}, FALSE, 0)
    /\ accepting' = NoJob
    /\ UNCHANGED <<overlapping, inbox, queueing, actions, jobs, active, waiting>>

\* What an active installation does next.
AtStage(stages) == active # 0 /\ jobs[active].stage \in stages

GoesTo(stage) ==
    /\ jobs' = [jobs EXCEPT ![active].stage = stage]
    /\ UNCHANGED <<overlapping, inbox, queueing, accepting>>

\* The app is here, is one, and may be installed.
Downloaded ==
    /\ AtStage({"downloading"})
    /\ ~jobs[active].aborted
    /\ GoesTo(IF Current(jobs[active]) THEN "installing" ELSE "settled")
    /\ UNCHANGED <<replies, actions, active, waiting>>

\* It is installed; it may have to be launched.
Installed ==
    /\ AtStage({"installing"})
    /\ ~jobs[active].aborted
    /\ \/ /\ GoesTo("launching")
          /\ actions' = Append(actions,
                Action("launch", [exchange |-> 0,
                                  reservation |-> jobs[active].lease], active))
       \/ /\ GoesTo("settled")
          /\ UNCHANGED actions
    /\ UNCHANGED <<replies, active, waiting>>

\* Its signal is aborted, or a step of it fails.
InstallFails ==
    /\ AtStage({"downloading", "installing"})
    /\ jobs[active].aborted \/ "fail" \in overlapping
    /\ GoesTo("settled")
    /\ UNCHANGED <<replies, actions, active, waiting>>

\* Mutant: the next one finds it busy.
SavedOnly ==
    /\ AtStage({"settled"})
    /\ GoesTo("done")
    /\ UNCHANGED active
    /\ replies' = Answers(waiting, TRUE, 0)
    /\ waiting' = {}
    /\ UNCHANGED actions

\* run has saved how it ended: done settles.
Saved ==
    /\ AtStage({"settled"})
    /\ GoesTo("done")
    /\ active' = 0
    /\ replies' = Answers(waiting, TRUE, 0)
    /\ waiting' = {}
    /\ UNCHANGED actions

\* The timer: the session is another one, or no keepalive came in time.
Interrupt ==
    /\ AtStage({"downloading", "installing", "launching"})
    /\ ~jobs[active].aborted
    /\ "expire" \in overlapping \/ ~Current(jobs[active])
    /\ jobs' = [jobs EXCEPT ![active].aborted = TRUE]
    /\ UNCHANGED <<overlapping, inbox, replies, queueing, actions, accepting,
                   active, waiting>>
-----------------------------------------------------------------------------
Queue == Begin \/ Refuse \/ End

Installing ==
    \/ Accepted
    \/ NotAccepted
    \/ Downloaded
    \/ Installed
    \/ InstallFails
    \/ Saved

Next ==
    \/ Serve
    \/ Queue
    \/ Prepared
    \/ PrepareFails
    \/ ProbeFails
    \/ Drained
    \/ Rested
    \/ Restart
    \/ Installing
    \/ Interrupt

-----------------------------------------------------------------------------
\* The session that an action has begun in is not closed under it: cleanup
\* waits for the queue, also when a power command is what ended the session
\* (runtime.mts 166-171, 320-334).
SessionOutlivesAction ==
    \A i \in DOMAIN actions :
        actions[i].running =>
            wda = [instance |-> instance, generation |-> actions[i].generation]

\* An installation does not block the next ones for good: it ends, whatever
\* becomes of its session, its caller or its owner (installations.mts 199-239,
\* 356-363).
NeverBusyForGood ==
    active # 0 \/ accepting # NoJob ~> active = 0 /\ accepting = NoJob
=============================================================================
