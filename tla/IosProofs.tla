----------------------------- MODULE IosProofs ------------------------------
(***************************************************************************)
(* What is proved of an iPhone for any number of users, of reservations    *)
(* and of recoveries, and whatever may happen: it keeps the promise of a   *)
(* device, no session is closed under an action, once a user has released  *)
(* the iPhone nothing begins on it for them, and while nothing fails the   *)
(* bridge knows of every installation that goes on.                        *)
(***************************************************************************)
EXTENDS Ios, FiniteSetTheorems, TLAPS

-----------------------------------------------------------------------------
(***************************************************************************)
(* The promise of a device.                                                *)
(***************************************************************************)
\* A step of the bridge joins a user to a free device, releases it, or does
\* nothing to who holds it.
LEMMA BridgeKeepsPromise ==
    ASSUME BridgeStep
    PROVE  [Promise!Next]_<<owner, issued>>
<1> USE DEF Promise!Next, Promise!Acquire, Promise!Release, Promise!NoGroup,
            Bridge!NoGroup
<1>1. ASSUME NEW u \in Users, Bridge!ReceiveGroup(u) \/ Bridge!JoinMatched(u)
      PROVE  [Promise!Next]_<<owner, issued>>
    BY <1>1 DEF Bridge!ReceiveGroup, Bridge!JoinMatched, Bridge!Join
<1>2. ASSUME NEW STATE X, NEW STATE more, Bridge!Abandon(X, more)
      PROVE  [Promise!Next]_<<owner, issued>>
    BY <1>2 DEF Bridge!Abandon
<1>3. ASSUME NEW r \in 0..issued, Bridge!ReceiveUngroup(r)
      PROVE  [Promise!Next]_<<owner, issued>>
    BY <1>2, <1>3 DEF Bridge!ReceiveUngroup
<1>4. ASSUME Bridge!Disconnect PROVE [Promise!Next]_<<owner, issued>>
    BY <1>2, <1>4 DEF Bridge!Disconnect, Bridge!Absent
<1>5. ASSUME Bridge!Crash PROVE [Promise!Next]_<<owner, issued>>
    BY <1>5 DEF Bridge!Crash
<1>6. ASSUME Bridge!Polled PROVE [Promise!Next]_<<owner, issued>>
    BY <1>2, <1>6 DEF Bridge!Polled, Bridge!Absent, Bridge!PollGoesOn,
                      Bridge!tenure
<1>7. ASSUME Bridge!Shot PROVE [Promise!Next]_<<owner, issued>>
    BY <1>2, <1>7 DEF Bridge!Shot, Bridge!Absent, Bridge!tenure
<1>8. ASSUME Bridge!Operate PROVE UNCHANGED <<owner, issued>>
  <2>1. ASSUME NEW kind, NEW id, Bridge!Enqueue(kind, id)
        PROVE  UNCHANGED <<owner, issued>>
      BY <2>1 DEF Bridge!Enqueue, Bridge!tenure
  <2>2. Bridge!Drop \/ Bridge!Check => UNCHANGED <<owner, issued>>
      BY DEF Bridge!Drop, Bridge!Check, Bridge!Drops, Bridge!tenure
  <2>3. Bridge!Checked => UNCHANGED <<owner, issued>>
      BY DEF Bridge!Checked, Bridge!Drops, Bridge!tenure
  <2>4. Bridge!Answered => UNCHANGED <<owner, issued>>
      BY DEF Bridge!Answered, Bridge!InstallAnswered, Bridge!Drops,
             Bridge!tenure
  <2>5. Bridge!TimeOut => UNCHANGED <<owner, issued>>
      BY DEF Bridge!TimeOut, Bridge!Drops, Bridge!tenure
  <2> QED BY <1>8, <2>1, <2>2, <2>3, <2>4, <2>5 DEF Bridge!Operate
<1>9. Bridge!Register \/ Bridge!PollBegins \/ Bridge!KeptAlive
      \/ Bridge!Upgrade \/ Bridge!Watch => UNCHANGED <<owner, issued>>
    BY DEF Bridge!Register, Bridge!PollBegins, Bridge!KeptAlive,
           Bridge!Upgrade, Bridge!Watch, Bridge!tenure
<1> QED
    BY <1>1, <1>3, <1>4, <1>5, <1>6, <1>7, <1>8, <1>9
    DEF BridgeStep, Bridge!Next, Bridge!Poll

\* An iPhone keeps the promise of a device, however its bridge is cut off,
\* dies, or answers several messages between the halves of a join
\* (bridge.ts 68-91, 319-353, 488-496).
THEOREM ReservationImplemented == Spec => ImplementsReservation
<1>1. Init => Promise!Init
    BY DEF Init, Bridge!Init, Promise!Init, Promise!NoGroup, Bridge!NoGroup
<1>2. [Next]_vars => [Promise!Next]_(Promise!vars)
  <2>1. ASSUME RuntimeStep PROVE UNCHANGED <<owner, issued>>
      BY <2>1 DEF RuntimeStep, bridge
  <2>2. UNCHANGED vars => UNCHANGED <<owner, issued>>
      BY DEF vars, bridge
  <2> QED BY <2>1, <2>2, BridgeKeepsPromise DEF Next, Promise!vars
<1> QED
    BY <1>1, <1>2, PTL DEF Spec, ImplementsReservation, Promise!Spec
-----------------------------------------------------------------------------
(***************************************************************************)
(* Types.                                                                  *)
(***************************************************************************)
LEMMA ZeroIsAnId == 0 \in 0..MaxInstalls
BY InstallsAreCounted

\* What answers adds to the replies.
LEMMA AnswersTyped ==
    ASSUME replies \subseteq Runtime!Replies, NEW STATE X, X \subseteq Nat,
           NEW STATE ok, ok \in BOOLEAN, NEW STATE id, id \in 0..MaxInstalls
    PROVE  Runtime!Answers(X, ok, id) \subseteq Runtime!Replies
BY DEF Runtime!Answers, Runtime!Replies

\* The head and the tail of a queue.
LEMMA HeadTail ==
    ASSUME NEW S, NEW s \in Seq(S), s # <<>>
    PROVE  /\ Head(s) \in S
           /\ Head(s) = s[1]
           /\ Tail(s) \in Seq(S)
           /\ 1 \in DOMAIN s
           /\ \A i \in DOMAIN Tail(s) : i + 1 \in DOMAIN s /\ Tail(s)[i] = s[i + 1]
           /\ \A i \in DOMAIN Tail(s) : i # 0
OBVIOUS

LEMMA AppendOne ==
    ASSUME NEW S, NEW s \in Seq(S), NEW e \in S
    PROVE  /\ Append(s, e) \in Seq(S)
           /\ \A i \in DOMAIN Append(s, e) :
                 \/ i \in DOMAIN s /\ Append(s, e)[i] = s[i]
                 \/ Append(s, e)[i] = e
OBVIOUS

\* A job is not the lack of one.
LEMMA JobIsSomething ==
    ASSUME NEW j \in Runtime!Jobs
    PROVE  j # Runtime!NoJob
BY DEF Runtime!Jobs, Runtime!NoJob

\* What a connection that closes does to an action.
LEMMA CutTyped ==
    ASSUME NEW a \in Runtime!Actions, NEW x
    PROVE  LET b == Runtime!Cut(a, x)
           IN  /\ b \in Runtime!Actions
               /\ b.path = a.path
               /\ b.id = a.id
               /\ b.generation = a.generation
               /\ b.running = a.running
<1>1. CASE a.exchange # x
    BY <1>1 DEF Runtime!Cut
<1>2. CASE a.exchange = x
  <2> DEFINE c == [a EXCEPT !.exchange = 0]
  <2>1. c \in Runtime!Actions /\ c.path = a.path /\ c.id = a.id
        /\ c.generation = a.generation /\ c.running = a.running
      BY DEF Runtime!Actions
  <2>2. Runtime!Cut(a, x) = [c EXCEPT !.aborted = TRUE]
      BY <1>2, <2>1 DEF Runtime!Cut, Runtime!Actions
  <2> HIDE DEF c
  <2> QED BY <2>1, <2>2 DEF Runtime!Actions
<1> QED BY <1>1, <1>2

\* The server's part.
LEMMA ServeTyped ==
    ASSUME TypeOK, Runtime!Serve
    PROVE  Runtime!TypeOK'
<1> USE InstallsAreCounted DEF TypeOK, Runtime!TypeOK
<1> DEFINE r == Head(inbox)
<1>1. r \in Runtime!Requests /\ inbox' \in Seq(Runtime!Requests)
    BY HeadTail DEF Runtime!Serve
<1>2. UNCHANGED <<instance, generation, state, loop, wda>>
    BY DEF Runtime!Serve, Runtime!queueing
<1>3. r.exchange \in Nat /\ r.reservation \in Nat /\ r.id \in 0..MaxInstalls
      /\ r.session \in Runtime!Sessions
    BY <1>1 DEF Runtime!Requests
<1>4. CASE Runtime!Hangup(r)
  <2>1. actions' \in Seq(Runtime!Actions)
        /\ \A i \in DOMAIN actions' :
              i \in DOMAIN actions /\ actions'[i].path = actions[i].path
              /\ actions'[i].id = actions[i].id
    <3>1. \A i \in DOMAIN actions : actions[i] \in Runtime!Actions
        OBVIOUS
    <3>2. actions' = [i \in 1..Len(actions) |-> Runtime!Cut(actions[i], r.exchange)]
        BY <1>4 DEF Runtime!Hangup
    <3> QED BY <3>1, <3>2, CutTyped
  <2>2. accepting' \in Runtime!Accepting \cup {Runtime!NoJob}
      BY <1>4 DEF Runtime!Hangup, Runtime!Accepting
  <2> QED BY <1>1, <1>2, <1>4, <2>1, <2>2 DEF Runtime!Hangup
<1>5. CASE Runtime!Execute(r)
  <2>1. CASE state = "ready"
    <3>1. Runtime!Action(r.path, r, 0) \in Runtime!Actions
          /\ Runtime!Action(r.path, r, 0).path # "launch"
        BY <1>3, <1>5 DEF Runtime!Execute, Runtime!Action, Runtime!Actions
    <3>2. actions' = Append(actions, Runtime!Action(r.path, r, 0))
        BY <1>5, <2>1 DEF Runtime!Execute
    <3> QED
      BY <1>1, <1>2, <1>5, <2>1, <3>1, <3>2, AppendOne
      DEF Runtime!Execute, Runtime!installing
  <2>2. CASE state # "ready"
    <3>1. replies' \subseteq Runtime!Replies
      <4>1. replies' = Runtime!Answers({r.exchange}, FALSE, 0)
          BY <1>5, <2>2 DEF Runtime!Execute
      <4> QED BY <4>1, <1>3, AnswersTyped, ZeroIsAnId
    <3> QED
      BY <1>1, <1>2, <1>5, <2>2, <3>1 DEF Runtime!Execute, Runtime!installing
  <2> QED BY <2>1, <2>2
<1>6. CASE Runtime!Start(r)
  <2>1. replies' \subseteq Runtime!Replies
    <3> DEFINE mine == jobs[r.id] # Runtime!NoJob /\ jobs[r.id].lease = r.reservation
               told == IF mine /\ ~Runtime!Settled(r.id) THEN r.id ELSE 0
    <3>1. replies' = Runtime!Answers({r.exchange}, mine, told) \/ UNCHANGED replies
        BY <1>6 DEF Runtime!Start
    <3>2. mine \in BOOLEAN /\ told \in 0..MaxInstalls /\ {r.exchange} \subseteq Nat
        BY <1>3, ZeroIsAnId
    <3> HIDE DEF mine, told
    <3> QED BY <3>1, <3>2, AnswersTyped
  <2>2. accepting' \in Runtime!Accepting \cup {Runtime!NoJob}
      BY <1>3, <1>6 DEF Runtime!Start, Runtime!Accepting
  <2> QED BY <1>1, <1>2, <1>6, <2>1, <2>2 DEF Runtime!Start
<1>7. CASE Runtime!Cancel(r)
  <2>1. replies' \subseteq Runtime!Replies
    <3> DEFINE mine == jobs[r.id] # Runtime!NoJob /\ jobs[r.id].lease = r.reservation
    <3>1. replies' = Runtime!Answers({r.exchange}, mine, 0) \/ UNCHANGED replies
        BY <1>7 DEF Runtime!Cancel
    <3>2. mine \in BOOLEAN /\ {r.exchange} \subseteq Nat
        BY <1>3
    <3> HIDE DEF mine
    <3> QED BY <3>1, <3>2, AnswersTyped, ZeroIsAnId
  <2>2. waiting' \subseteq Nat
      BY <1>3, <1>7 DEF Runtime!Cancel
  <2>3. jobs' \in [Runtime!Ids -> Runtime!Jobs \cup {Runtime!NoJob}]
        /\ \A id \in Runtime!Ids : jobs[id] # Runtime!NoJob => jobs'[id] # Runtime!NoJob
    <3>1. CASE jobs' = jobs
        BY <3>1
    <3>2. CASE jobs' = [jobs EXCEPT ![r.id] = [jobs[r.id] EXCEPT !.aborted = TRUE]]
               /\ jobs[r.id] # Runtime!NoJob
      <4>1. ASSUME r.id \in Runtime!Ids
            PROVE  [jobs[r.id] EXCEPT !.aborted = TRUE] \in Runtime!Jobs
          BY <3>2, <4>1 DEF Runtime!Jobs
      <4> QED BY <3>2, <4>1, JobIsSomething
    <3> QED BY <1>7, <3>1, <3>2 DEF Runtime!Cancel
  <2> QED BY <1>1, <1>2, <1>7, <2>1, <2>2, <2>3 DEF Runtime!Cancel, Runtime!Ids
<1> QED BY <1>4, <1>5, <1>6, <1>7 DEF Runtime!Serve

\* A job that goes on stays one.
LEMMA JobGoesOn ==
    ASSUME jobs \in [Runtime!Ids -> Runtime!Jobs \cup {Runtime!NoJob}],
           NEW STATE id, id \in Runtime!Ids, jobs[id] # Runtime!NoJob,
           NEW STATE j,
           j \in {[jobs[id] EXCEPT !.stage = stage] : stage \in Runtime!Stages}
                 \cup {[jobs[id] EXCEPT !.aborted = TRUE]}
    PROVE  LET next == [jobs EXCEPT ![id] = j]
           IN  /\ next \in [Runtime!Ids -> Runtime!Jobs \cup {Runtime!NoJob}]
               /\ \A k \in Runtime!Ids :
                     jobs[k] # Runtime!NoJob => next[k] # Runtime!NoJob
<1>1. jobs[id] \in Runtime!Jobs
    OBVIOUS
<1>2. \A stage \in Runtime!Stages :
          [jobs[id] EXCEPT !.stage = stage] \in Runtime!Jobs
    BY <1>1 DEF Runtime!Jobs
<1>3. [jobs[id] EXCEPT !.aborted = TRUE] \in Runtime!Jobs
    BY <1>1 DEF Runtime!Jobs
<1>4. j \in Runtime!Jobs
    BY <1>2, <1>3
<1>5. j # Runtime!NoJob
    BY <1>4, JobIsSomething
<1> QED BY <1>4, <1>5

\* An action that is over leaves the queue.
LEMMA OverTyped ==
    ASSUME TypeOK, actions # <<>>, NEW STATE ok, ok \in BOOLEAN,
           Runtime!Over(Head(actions), ok)
    PROVE  /\ replies' \subseteq Runtime!Replies
           /\ actions' \in Seq(Runtime!Actions)
           /\ jobs' \in [Runtime!Ids -> Runtime!Jobs \cup {Runtime!NoJob}]
           /\ \A i \in DOMAIN actions' :
                 actions'[i].path = "launch" =>
                     actions'[i].id \in Runtime!Ids
                     /\ jobs'[actions'[i].id] # Runtime!NoJob
           /\ active # 0 => jobs'[active] # Runtime!NoJob
<1> USE InstallsAreCounted DEF TypeOK, Runtime!TypeOK
<1> DEFINE a == Head(actions)
<1>1. a \in Runtime!Actions /\ a = actions[1] /\ 1 \in DOMAIN actions
    BY HeadTail
<1>2. replies' = Runtime!Answers({a.exchange}, ok, 0) /\ {a.exchange} \subseteq Nat
    BY <1>1 DEF Runtime!Over, Runtime!Actions
<1>3. replies' \subseteq Runtime!Replies
    BY <1>2, AnswersTyped, ZeroIsAnId
<1>4. /\ jobs' \in [Runtime!Ids -> Runtime!Jobs \cup {Runtime!NoJob}]
      /\ \A k \in Runtime!Ids : jobs[k] # Runtime!NoJob => jobs'[k] # Runtime!NoJob
  <2>1. CASE a.path = "launch"
    <3>1. a.id \in Runtime!Ids /\ jobs[a.id] # Runtime!NoJob
        BY <1>1, <2>1
    <3>2. jobs' = [jobs EXCEPT ![a.id] = [jobs[a.id] EXCEPT !.stage = "settled"]]
        BY <2>1 DEF Runtime!Over
    <3>3. "settled" \in Runtime!Stages
        BY DEF Runtime!Stages
    <3> HIDE DEF a
    <3> QED BY <3>1, <3>2, <3>3, JobGoesOn
  <2>2. CASE a.path # "launch"
      BY <2>2 DEF Runtime!Over
  <2> QED BY <2>1, <2>2
<1>5. /\ actions' \in Seq(Runtime!Actions)
      /\ \A i \in DOMAIN actions' : i + 1 \in DOMAIN actions /\ actions'[i] = actions[i + 1]
    BY HeadTail DEF Runtime!Over
<1> QED BY <1>3, <1>4, <1>5 DEF Runtime!Ids

LEMMA QueueTyped ==
    ASSUME TypeOK, Runtime!Queue
    PROVE  Runtime!TypeOK'
<1> USE InstallsAreCounted DEF TypeOK, Runtime!TypeOK
<1>1. CASE Runtime!Begin
  <2>1. Head(actions) \in Runtime!Actions /\ Head(actions) = actions[1]
        /\ 1 \in DOMAIN actions
      BY <1>1, HeadTail DEF Runtime!Begin
  <2> DEFINE b == [actions[1] EXCEPT !.running = TRUE]
  <2>2. b \in Runtime!Actions /\ b.path = actions[1].path /\ b.id = actions[1].id
      BY <2>1 DEF Runtime!Actions
  <2>3. actions' = [actions EXCEPT ![1] = b]
      BY <1>1 DEF Runtime!Begin
  <2> HIDE DEF b
  <2>4. actions' \in Seq(Runtime!Actions)
        /\ \A i \in DOMAIN actions' :
              i \in DOMAIN actions /\ actions'[i].path = actions[i].path
              /\ actions'[i].id = actions[i].id
      BY <2>1, <2>2, <2>3
  <2> QED BY <1>1, <2>4 DEF Runtime!Begin, Runtime!queueing, Runtime!installing
<1>2. CASE Runtime!Refuse
    BY <1>2, OverTyped DEF Runtime!Refuse, Runtime!Over, Runtime!queueing
<1>3. CASE Runtime!End
  <2>1. PICK ok \in BOOLEAN : Runtime!Over(Head(actions), ok)
      BY <1>3 DEF Runtime!End
  <2>2. /\ state' \in {"waiting", "starting", "ready"}
        /\ generation' \in Nat
        /\ UNCHANGED <<instance, loop, wda>>
      BY <1>3 DEF Runtime!End, Runtime!queueing
  <2>3. actions # <<>>
      BY <1>3 DEF Runtime!End
  <2>4. UNCHANGED <<inbox, accepting, active, waiting>>
      BY <2>1 DEF Runtime!Over
  <2> QED BY <2>1, <2>2, <2>3, <2>4, OverTyped
<1> QED BY <1>1, <1>2, <1>3 DEF Runtime!Queue

Looping ==
    \/ Runtime!Prepared
    \/ Runtime!PrepareFails
    \/ Runtime!ProbeFails
    \/ Runtime!Drained
    \/ Runtime!Rested

LEMMA LoopTyped ==
    ASSUME TypeOK, Looping
    PROVE  Runtime!TypeOK'
<1>1. Runtime!Session \in Runtime!Sessions /\ Runtime!NoSession \in Runtime!Sessions
    BY DEF TypeOK, Runtime!TypeOK, Runtime!Session, Runtime!NoSession,
           Runtime!Sessions
<1>2. UNCHANGED <<inbox, replies, instance, actions, jobs, accepting, active,
                  waiting>>
    BY DEF Looping, Runtime!Prepared, Runtime!PrepareFails, Runtime!ProbeFails,
           Runtime!GoDown, Runtime!Drained, Runtime!Rested, Runtime!installing
<1>3. /\ generation' \in Nat
      /\ state' \in {"waiting", "starting", "ready"}
      /\ loop' \in {"preparing", "probing", "draining", "resting"}
      /\ wda' \in Runtime!Sessions
    BY <1>1
    DEF TypeOK, Runtime!TypeOK, Looping, Runtime!Prepared, Runtime!PrepareFails,
        Runtime!ProbeFails, Runtime!GoDown, Runtime!Drained, Runtime!Rested
<1> QED BY <1>2, <1>3 DEF TypeOK, Runtime!TypeOK

\* What becomes of a job that is being saved.
LEMMA AcceptedJob ==
    ASSUME TypeOK, accepting # Runtime!NoJob, NEW STATE stage,
           stage \in Runtime!Stages
    PROVE  /\ accepting.id \in 0..MaxInstalls
           /\ accepting.exchange \in Nat
           /\ Runtime!Job(accepting, stage) \in Runtime!Jobs
<1>1. accepting \in Runtime!Accepting
    BY DEF TypeOK, Runtime!TypeOK
<1> QED BY <1>1 DEF Runtime!Accepting, Runtime!Job, Runtime!Jobs

LEMMA ExchangesTyped ==
    ASSUME TypeOK
    PROVE  Runtime!Exchanges \subseteq Nat
<1> USE DEF TypeOK, Runtime!TypeOK
<1>1. ASSUME NEW i \in DOMAIN inbox PROVE inbox[i].exchange \in Nat
  <2>1. inbox[i] \in Runtime!Requests
      OBVIOUS
  <2> QED BY <2>1 DEF Runtime!Requests
<1>2. ASSUME NEW i \in DOMAIN actions PROVE actions[i].exchange \in Nat
  <2>1. actions[i] \in Runtime!Actions
      OBVIOUS
  <2> QED BY <2>1 DEF Runtime!Actions
<1>3. accepting # Runtime!NoJob => accepting.exchange \in Nat
    BY DEF Runtime!Accepting
<1> QED BY <1>1, <1>2, <1>3 DEF Runtime!Exchanges

LEMMA RestartTyped ==
    ASSUME TypeOK, Runtime!Restart
    PROVE  Runtime!TypeOK'
<1> USE InstallsAreCounted DEF TypeOK, Runtime!TypeOK
<1>1. replies' \subseteq Runtime!Replies
  <2>1. replies' = Runtime!Answers(Runtime!Exchanges, FALSE, 0)
      BY DEF Runtime!Restart
  <2> QED BY <2>1, ExchangesTyped, AnswersTyped, ZeroIsAnId
<1>2. jobs' \in [Runtime!Ids -> Runtime!Jobs \cup {Runtime!NoJob}]
  <2>1. \A id \in Runtime!Ids :
            jobs[id] # Runtime!NoJob =>
                [jobs[id] EXCEPT !.stage = "done"] \in Runtime!Jobs
      BY DEF Runtime!Jobs, Runtime!Stages
  <2>2. \A id \in Runtime!Ids :
            accepting.id = id => Runtime!Job(accepting, "done") \in Runtime!Jobs
    <3>1. accepting = Runtime!NoJob => accepting.id = 0
        BY DEF Runtime!NoJob
    <3>2. "done" \in Runtime!Stages
        BY DEF Runtime!Stages
    <3> QED BY <3>1, <3>2, AcceptedJob DEF Runtime!Ids
  <2>3. PICK saved \in BOOLEAN :
            jobs' = [id \in Runtime!Ids |->
                IF saved /\ accepting.id = id THEN Runtime!Job(accepting, "done")
                ELSE IF jobs[id] = Runtime!NoJob THEN Runtime!NoJob
                ELSE [jobs[id] EXCEPT !.stage = "done"]]
      BY DEF Runtime!Restart
  <2> QED BY <2>1, <2>2, <2>3
<1>3. Runtime!NoSession \in Runtime!Sessions
    BY DEF Runtime!NoSession, Runtime!Sessions
<1>4. /\ inbox' = <<>> /\ actions' = <<>> /\ instance' = instance + 1
      /\ generation' = 0 /\ state' = "starting" /\ loop' = "preparing"
      /\ wda' = Runtime!NoSession /\ accepting' = Runtime!NoJob
      /\ active' = 0 /\ waiting' = {}
    BY DEF Runtime!Restart
<1> QED BY <1>1, <1>2, <1>3, <1>4, ZeroIsAnId

\* A step of the active installation.
LEMMA GoesToTyped ==
    ASSUME TypeOK, active # 0, NEW STATE j,
           j \in {[jobs[active] EXCEPT !.stage = stage] : stage \in Runtime!Stages}
                 \cup {[jobs[active] EXCEPT !.aborted = TRUE]},
           jobs' = [jobs EXCEPT ![active] = j]
    PROVE  /\ jobs' \in [Runtime!Ids -> Runtime!Jobs \cup {Runtime!NoJob}]
           /\ \A k \in Runtime!Ids : jobs[k] # Runtime!NoJob => jobs'[k] # Runtime!NoJob
           /\ active \in Runtime!Ids
           /\ jobs[active] \in Runtime!Jobs
<1>1. active \in Runtime!Ids /\ jobs[active] # Runtime!NoJob
    BY InstallsAreCounted DEF TypeOK, Runtime!TypeOK, Runtime!Ids
<1>2. jobs \in [Runtime!Ids -> Runtime!Jobs \cup {Runtime!NoJob}]
    BY DEF TypeOK, Runtime!TypeOK
<1> QED BY <1>1, <1>2, JobGoesOn

LEMMA StageTyped ==
    ASSUME TypeOK, NEW STATE stage,
           stage \in Runtime!Stages, active # 0,
           jobs' = [jobs EXCEPT ![active].stage = stage]
    PROVE  /\ jobs' \in [Runtime!Ids -> Runtime!Jobs \cup {Runtime!NoJob}]
           /\ \A k \in Runtime!Ids : jobs[k] # Runtime!NoJob => jobs'[k] # Runtime!NoJob
           /\ active \in Runtime!Ids
           /\ jobs[active] \in Runtime!Jobs
<1> DEFINE j == [jobs[active] EXCEPT !.stage = stage]
<1>1. jobs' = [jobs EXCEPT ![active] = j]
    OBVIOUS
<1>2. j \in {[jobs[active] EXCEPT !.stage = s] : s \in Runtime!Stages}
    OBVIOUS
<1> HIDE DEF j
<1> QED BY <1>1, <1>2, GoesToTyped

LEMMA InstallingTyped ==
    ASSUME TypeOK, Runtime!Installing \/ Runtime!Interrupt
    PROVE  Runtime!TypeOK'
<1> USE InstallsAreCounted DEF TypeOK, Runtime!TypeOK, Runtime!queueing
<1>s. {"downloading", "installing", "launching", "settled", "done"} = Runtime!Stages
    BY DEF Runtime!Stages
<1>1. CASE Runtime!Accepted
  <2> DEFINE ok == Runtime!Current(accepting)
             stage == IF ok THEN "downloading" ELSE "done"
  <2>1. stage \in Runtime!Stages /\ accepting # Runtime!NoJob /\ ok \in BOOLEAN
      BY <1>1, <1>s DEF Runtime!Accepted, Runtime!Current
  <2>2. /\ jobs' = [jobs EXCEPT ![accepting.id] = Runtime!Job(accepting, stage)]
        /\ active' = IF ok THEN accepting.id ELSE 0
        /\ replies' = Runtime!Answers({accepting.exchange}, ok, accepting.id)
        /\ accepting' = Runtime!NoJob
        /\ UNCHANGED <<inbox, instance, generation, state, loop, wda, actions,
                       waiting>>
      BY <1>1 DEF Runtime!Accepted
  <2> HIDE DEF ok, stage
  <2>3. /\ accepting.id \in 0..MaxInstalls
        /\ accepting.exchange \in Nat
        /\ Runtime!Job(accepting, stage) \in Runtime!Jobs
        /\ Runtime!Job(accepting, stage) # Runtime!NoJob
      BY <2>1, AcceptedJob, JobIsSomething
  <2>4. replies' \subseteq Runtime!Replies
      BY <2>1, <2>2, <2>3, AnswersTyped
  <2>5. /\ jobs' \in [Runtime!Ids -> Runtime!Jobs \cup {Runtime!NoJob}]
        /\ \A k \in Runtime!Ids : jobs[k] # Runtime!NoJob => jobs'[k] # Runtime!NoJob
        /\ accepting.id # 0 => jobs'[accepting.id] # Runtime!NoJob
    <3> DEFINE j == Runtime!Job(accepting, stage)
    <3>1. jobs' = [jobs EXCEPT ![accepting.id] = j]
          /\ j \in Runtime!Jobs /\ j # Runtime!NoJob
        BY <2>2, <2>3
    <3>2. accepting.id # 0 => accepting.id \in Runtime!Ids
        BY <2>3 DEF Runtime!Ids
    <3> HIDE DEF j
    <3> QED BY <3>1, <3>2
  <2>6. active' \in 0..MaxInstalls /\ (active' # 0 => jobs'[active'] # Runtime!NoJob)
      BY <2>2, <2>3, <2>5
  <2> QED BY <2>2, <2>4, <2>5, <2>6
<1>2. CASE Runtime!NotAccepted
  <2>1. replies' = Runtime!Answers({accepting.exchange}, FALSE, 0)
        /\ accepting # Runtime!NoJob
      BY <1>2 DEF Runtime!NotAccepted
  <2>2. {accepting.exchange} \subseteq Nat
      BY <2>1, <1>s, AcceptedJob
  <2>3. replies' \subseteq Runtime!Replies
      BY <2>1, <2>2, AnswersTyped, ZeroIsAnId
  <2> QED BY <1>2, <2>3 DEF Runtime!NotAccepted
<1>3. CASE Runtime!Downloaded \/ Runtime!InstallFails
  <2>1. PICK stage \in Runtime!Stages : jobs' = [jobs EXCEPT ![active].stage = stage]
      BY <1>3, <1>s DEF Runtime!Downloaded, Runtime!InstallFails, Runtime!GoesTo
  <2>2. active # 0
      BY <1>3 DEF Runtime!Downloaded, Runtime!InstallFails, Runtime!AtStage
  <2>3. UNCHANGED <<inbox, replies, instance, generation, state, loop, wda,
                    actions, accepting, active, waiting>>
      BY <1>3 DEF Runtime!Downloaded, Runtime!InstallFails, Runtime!GoesTo
  <2> QED BY <2>1, <2>2, <2>3, StageTyped
<1>4. CASE Runtime!Installed
  <2>1. PICK stage \in Runtime!Stages : jobs' = [jobs EXCEPT ![active].stage = stage]
      BY <1>4, <1>s DEF Runtime!Installed, Runtime!GoesTo
  <2>2. active # 0
      BY <1>4 DEF Runtime!Installed, Runtime!AtStage
  <2> DEFINE r == [exchange |-> 0, reservation |-> jobs[active].lease]
             a == Runtime!Action("launch", r, active)
  <2>3. actions' = Append(actions, a) \/ UNCHANGED actions
      BY <1>4 DEF Runtime!Installed
  <2>4. a \in Runtime!Actions /\ a.id = active
      BY <2>1, <2>2, StageTyped DEF Runtime!Action, Runtime!Actions, Runtime!Jobs
  <2> HIDE DEF a
  <2>5. /\ actions' \in Seq(Runtime!Actions)
        /\ \A i \in DOMAIN actions' :
              \/ i \in DOMAIN actions /\ actions'[i] = actions[i]
              \/ actions'[i] = a
    <3>1. CASE actions' = Append(actions, a)
        BY <2>4, <3>1, AppendOne
    <3>2. CASE UNCHANGED actions
        BY <3>2
    <3> QED BY <2>3, <3>1, <3>2
  <2>6. UNCHANGED <<inbox, replies, instance, generation, state, loop, wda,
                    accepting, active, waiting>>
      BY <1>4 DEF Runtime!Installed, Runtime!GoesTo
  <2>7. \A i \in DOMAIN actions' :
            actions'[i].path = "launch" =>
                actions'[i].id \in Runtime!Ids
                /\ jobs'[actions'[i].id] # Runtime!NoJob
      BY <2>1, <2>2, <2>4, <2>5, StageTyped
  <2> QED BY <2>1, <2>2, <2>5, <2>6, <2>7, StageTyped
<1>5. CASE Runtime!Saved
  <2>1. jobs' = [jobs EXCEPT ![active].stage = "done"] /\ active # 0
        /\ active' = 0 /\ waiting' = {}
        /\ UNCHANGED <<inbox, instance, generation, state, loop, wda, actions,
                       accepting>>
      BY <1>5 DEF Runtime!Saved, Runtime!GoesTo, Runtime!AtStage
  <2>2. replies' = Runtime!Answers(waiting, TRUE, 0)
      BY <1>5 DEF Runtime!Saved
  <2>3. replies' \subseteq Runtime!Replies
    <3>1. waiting \subseteq Nat /\ replies \subseteq Runtime!Replies
        OBVIOUS
    <3> QED BY <2>2, <3>1, AnswersTyped, ZeroIsAnId
  <2>4. PICK stage \in Runtime!Stages : jobs' = [jobs EXCEPT ![active].stage = stage]
      BY <1>s, <2>1
  <2>5. /\ jobs' \in [Runtime!Ids -> Runtime!Jobs \cup {Runtime!NoJob}]
        /\ \A k \in Runtime!Ids : jobs[k] # Runtime!NoJob => jobs'[k] # Runtime!NoJob
      BY <2>1, <2>4, StageTyped
  <2> QED BY <2>1, <2>3, <2>5
<1>6. CASE Runtime!Interrupt
  <2> DEFINE j == [jobs[active] EXCEPT !.aborted = TRUE]
  <2>1. jobs' = [jobs EXCEPT ![active] = j] /\ active # 0
        /\ UNCHANGED <<inbox, replies, instance, generation, state, loop, wda,
                       actions, accepting, active, waiting>>
      BY <1>6 DEF Runtime!Interrupt, Runtime!AtStage
  <2>2. j \in {[jobs[active] EXCEPT !.aborted = TRUE]}
      OBVIOUS
  <2> HIDE DEF j
  <2>3. /\ jobs' \in [Runtime!Ids -> Runtime!Jobs \cup {Runtime!NoJob}]
        /\ \A k \in Runtime!Ids : jobs[k] # Runtime!NoJob => jobs'[k] # Runtime!NoJob
        /\ active \in Runtime!Ids
      BY <2>1, <2>2, GoesToTyped
  <2> QED BY <2>1, <2>3
<1> QED
    BY <1>1, <1>2, <1>3, <1>4, <1>5, <1>6 DEF Runtime!Installing

-----------------------------------------------------------------------------
(***************************************************************************)
(* The types of the bridge.                                                *)
(***************************************************************************)
\* What the bridge writes to the runtime.
LEMMA RequestTyped ==
    ASSUME TypeOK,
           NEW STATE path, path \in {"command", "power", "screenshot", "start",
                               "cancel", "close"},
           NEW STATE x, x \in Nat, NEW STATE r, r \in Nat,
           NEW STATE id, id \in 0..MaxInstalls
    PROVE  Bridge!Request(path, x, r, id) \in Runtime!Requests
BY DEF TypeOK, Bridge!TypeOK, Bridge!Request, Bridge!Sessions,
       Runtime!Requests, Runtime!Sessions

LEMMA OneTyped ==
    ASSUME NEW S, NEW e \in S
    PROVE  <<e>> \in Seq(S)
OBVIOUS

LEMMA NothingTyped ==
    ASSUME NEW S
    PROVE  <<>> \in Seq(S)
OBVIOUS

LEMMA Concatenation ==
    ASSUME NEW S, NEW s \in Seq(S), NEW t \in Seq(S)
    PROVE  s \o t \in Seq(S)
OBVIOUS

LEMMA ClosesTyped ==
    ASSUME TypeOK, NEW STATE open, open \in BOOLEAN, NEW STATE x, open => x \in Nat
    PROVE  Bridge!Closes(open, x) \in Seq(Runtime!Requests)
<1>1. CASE open
  <2>1. Bridge!Request("close", x, 0, 0) \in Runtime!Requests
      BY <1>1, RequestTyped, ZeroIsAnId
  <2> QED BY <1>1, <2>1, OneTyped DEF Bridge!Closes
<1>2. CASE ~open
    BY <1>2, NothingTyped DEF Bridge!Closes
<1> QED BY <1>1, <1>2

\* The operation whose turn it is.
LEMMA HeadOfQueue ==
    ASSUME TypeOK, queue # <<>>
    PROVE  /\ Head(queue) = queue[1]
           /\ 1 \in DOMAIN queue
           /\ Head(queue).id \in 0..MaxInstalls
           /\ Head(queue).reservation \in Nat
           /\ Head(queue).exchange \in Nat
           /\ Tail(queue) \in Seq(Bridge!Operations)
           /\ Head(queue) \in Bridge!Operations
<1>1. queue \in Seq(Bridge!Operations)
    BY DEF TypeOK, Bridge!TypeOK
<1>2. Head(queue) \in Bridge!Operations
    BY <1>1, HeadTail
<1> QED BY <1>1, <1>2, HeadTail DEF Bridge!Operations

\* A connection that is not in use.
LEMMA FreshTyped ==
    ASSUME Bridge!Room
    PROVE  Bridge!Fresh \in Nat
<1>1. Bridge!Fresh \in Bridge!Free
    BY DEF Bridge!Room, Bridge!Fresh
<1> QED BY <1>1 DEF Bridge!Free

\* What leave does to who holds the device, and to what was asked for.
LEMMA AbandonTyped ==
    ASSUME TypeOK, NEW STATE X, NEW STATE more, more \in Seq(Runtime!Requests),
           Bridge!Abandon(X, more)
    PROVE  /\ owner' \in [group : Users \cup {None}, reservationId : Nat]
           /\ queue' \in Seq(Bridge!Operations)
           /\ inbox' \in Seq(Runtime!Requests)
           /\ replies' \subseteq Runtime!Replies
           /\ installId' \in 0..MaxInstalls
           /\ viewers' \subseteq Nat
           /\ UNCHANGED <<issued, joins, requested, upgrades>>
<1> USE DEF TypeOK, Bridge!TypeOK
<1>1. owner' \in [group : Users \cup {None}, reservationId : Nat]
    BY DEF Bridge!Abandon, Bridge!NoGroup
<1>2. queue' \in Seq(Bridge!Operations)
  <2>1. Bridge!Abortable => queue # <<>>
      BY DEF Bridge!Abortable, Bridge!AtStage
  <2> QED BY <2>1, HeadOfQueue DEF Bridge!Abandon
<1>3. inbox' \in Seq(Runtime!Requests)
  <2> DEFINE closes == Bridge!Closes(Bridge!Abortable, Head(queue).exchange)
             cancels == IF installId = 0 THEN <<>>
                        ELSE <<Bridge!Request("cancel", 0, owner.reservationId,
                                              installId)>>
  <2>1. closes \in Seq(Runtime!Requests)
    <3>1. Bridge!Abortable => Head(queue).exchange \in Nat
        BY HeadOfQueue DEF Bridge!Abortable, Bridge!AtStage
    <3>2. Bridge!Abortable \in BOOLEAN
        BY DEF Bridge!Abortable, Bridge!AtStage
    <3> QED BY <3>1, <3>2, ClosesTyped
  <2>2. cancels \in Seq(Runtime!Requests)
    <3>1. owner.reservationId \in Nat /\ installId \in 0..MaxInstalls
        OBVIOUS
    <3>2. Bridge!Request("cancel", 0, owner.reservationId, installId)
              \in Runtime!Requests
        BY <3>1, RequestTyped
    <3> QED BY <3>2, OneTyped, NothingTyped
  <2>3. inbox' = ((inbox \o closes) \o cancels) \o more
      BY DEF Bridge!Abandon
  <2>4. inbox \in Seq(Runtime!Requests)
      BY DEF Runtime!TypeOK
  <2> HIDE DEF closes, cancels
  <2>5. inbox \o closes \in Seq(Runtime!Requests)
      BY <2>1, <2>4, Concatenation
  <2>6. (inbox \o closes) \o cancels \in Seq(Runtime!Requests)
      BY <2>2, <2>5, Concatenation
  <2> QED BY <2>3, <2>6, Concatenation
<1>4. replies' \subseteq Runtime!Replies
    BY DEF Bridge!Abandon, Bridge!Unread, Runtime!TypeOK
<1>5. installId' \in 0..MaxInstalls
    BY ZeroIsAnId DEF Bridge!Abandon
<1> QED BY <1>1, <1>2, <1>3, <1>4, <1>5 DEF Bridge!Abandon

BridgeTypes ==
    /\ Bridge!TypeOK
    /\ inbox \in Seq(Runtime!Requests)
    /\ replies \subseteq Runtime!Replies

\* What absent does, where the rest of a step is known.
LEMMA AbsentTyped ==
    ASSUME TypeOK, NEW STATE X, NEW STATE more, more \in Seq(Runtime!Requests),
           Bridge!Absent(X, more), polling' \in Bridge!Pollings
    PROVE  BridgeTypes'
<1>1. seen' \in Bridge!Sessions /\ registered' \in BOOLEAN
    BY DEF Bridge!Absent, Bridge!NoSession, Bridge!Sessions
<1>2. Bridge!Abandon(X, more)
    BY DEF Bridge!Absent
<1> QED
    BY <1>1, <1>2, AbandonTyped DEF BridgeTypes, TypeOK, Bridge!TypeOK

\* The replies and the installation they tell of.
LEMMA RepliesTyped ==
    ASSUME TypeOK
    PROVE  /\ replies \subseteq Runtime!Replies
           /\ inbox \in Seq(Runtime!Requests)
           /\ \A r \in replies : r.running \in 0..MaxInstalls
           /\ Unsettled.id \in 0..MaxInstalls
           /\ Device \in Bridge!Sessions
BY ZeroIsAnId
DEF TypeOK, Runtime!TypeOK, Runtime!Replies, Unsettled, Device, NoSession,
    Bridge!Sessions

LEMMA TenureTyped ==
    ASSUME TypeOK,
           \/ \E u \in Users : Bridge!ReceiveGroup(u) \/ Bridge!JoinMatched(u)
           \/ \E r \in 0..issued : Bridge!ReceiveUngroup(r)
           \/ Bridge!Disconnect
           \/ Bridge!Register
           \/ Bridge!Crash
    PROVE  BridgeTypes'
<1> USE DEF TypeOK, BridgeTypes
<1>0. Bridge!TypeOK /\ replies \subseteq Runtime!Replies
      /\ inbox \in Seq(Runtime!Requests)
    BY RepliesTyped
<1>1. ASSUME NEW u \in Users, Bridge!ReceiveGroup(u) PROVE BridgeTypes'
    BY <1>0, <1>1 DEF Bridge!TypeOK, Bridge!ReceiveGroup, Bridge!identity, Bridge!screen
<1>2. ASSUME NEW u \in Users, Bridge!JoinMatched(u) PROVE BridgeTypes'
    BY <1>0, <1>2
    DEF Bridge!TypeOK, Bridge!JoinMatched, Bridge!Join, Bridge!identity,
        Bridge!screen
<1>3. ASSUME NEW r \in 0..issued, Bridge!ReceiveUngroup(r) PROVE BridgeTypes'
  <2>1. Bridge!Abandon({}, <<>>) /\ UNCHANGED <<seen, registered, polling>>
      BY <1>3 DEF Bridge!ReceiveUngroup, Bridge!identity
  <2>2. <<>> \in Seq(Runtime!Requests)
      BY NothingTyped
  <2> QED BY <1>0, <2>1, <2>2, AbandonTyped DEF Bridge!TypeOK
<1>4. ASSUME Bridge!Disconnect PROVE BridgeTypes'
  <2>1. Bridge!Absent({}, <<>>) /\ polling' \in Bridge!Pollings
      BY <1>0, <1>4 DEF Bridge!Disconnect, Bridge!TypeOK
  <2>2. <<>> \in Seq(Runtime!Requests)
      BY NothingTyped
  <2> QED BY <2>1, <2>2, AbsentTyped
<1>5. ASSUME Bridge!Register PROVE BridgeTypes'
    BY <1>0, <1>5 DEF Bridge!TypeOK, Bridge!Register, Bridge!tenure, Bridge!screen
<1>6. ASSUME Bridge!Crash PROVE BridgeTypes'
  <2> DEFINE asked   == Bridge!Closes(Bridge!Waits, Head(queue).exchange)
             looking == Bridge!Closes(polling.stage = "shot", polling.exchange)
  <2>1. asked \in Seq(Runtime!Requests)
    <3>1. Bridge!Waits \in BOOLEAN
          /\ (Bridge!Waits => Head(queue).exchange \in Nat)
        BY HeadOfQueue DEF Bridge!Waits, Bridge!AtStage
    <3> QED BY <3>1, ClosesTyped
  <2>2. looking \in Seq(Runtime!Requests)
    <3>1. polling.stage = "shot" => polling.exchange \in Nat
        BY <1>0 DEF Bridge!TypeOK, Bridge!Pollings, Bridge!Idle
    <3> QED BY <3>1, ClosesTyped
  <2>3. inbox' = (inbox \o asked) \o looking
      BY <1>6 DEF Bridge!Crash
  <2> HIDE DEF asked, looking
  <2>4. inbox' \in Seq(Runtime!Requests)
    <3>1. inbox \o asked \in Seq(Runtime!Requests)
        BY <1>0, <2>1, Concatenation
    <3> QED BY <2>2, <2>3, <3>1, Concatenation
  <2>5. /\ owner' = Bridge!NoGroup /\ joins' = {} /\ seen' = Bridge!NoSession
        /\ registered' = FALSE /\ queue' = <<>> /\ polling' = Bridge!Idle
        /\ installId' = 0 /\ upgrades' = {} /\ viewers' = {} /\ replies' = {}
        /\ UNCHANGED <<issued, requested>>
      BY <1>6 DEF Bridge!Crash
  <2>6. /\ Bridge!NoGroup \in [group : Users \cup {None}, reservationId : Nat]
        /\ Bridge!NoSession \in Bridge!Sessions
        /\ Bridge!Idle \in Bridge!Pollings
      BY DEF Bridge!NoGroup, Bridge!NoSession, Bridge!Sessions, Bridge!Pollings
  <2>7. <<>> \in Seq(Bridge!Operations)
      BY NothingTyped
  <2>8. issued' \in Nat /\ requested' \subseteq 0..MaxInstalls
      BY <1>0, <2>5 DEF Bridge!TypeOK
  <2> QED
    BY <2>4, <2>5, <2>6, <2>7, <2>8, ZeroIsAnId DEF Bridge!TypeOK
<1> QED BY <1>1, <1>2, <1>3, <1>4, <1>5, <1>6

LEMMA PollTyped ==
    ASSUME TypeOK, Bridge!Poll \/ Bridge!Upgrade \/ Bridge!Watch
    PROVE  BridgeTypes'
<1> USE DEF TypeOK, BridgeTypes
<1>0. Bridge!TypeOK /\ replies \subseteq Runtime!Replies
      /\ inbox \in Seq(Runtime!Requests)
    BY RepliesTyped
<1>n. <<>> \in Seq(Runtime!Requests)
    BY NothingTyped
<1>i. Bridge!Idle \in Bridge!Pollings
    BY DEF Bridge!Pollings
<1>1. CASE Bridge!PollBegins
  <2>1. PICK s \in Bridge!Sessions : polling' = [stage |-> "answered", session |-> s]
    <3>1. Bridge!NoSession \in Bridge!Sessions
        BY DEF Bridge!NoSession, Bridge!Sessions
    <3> QED BY <1>1, <3>1, RepliesTyped DEF Bridge!PollBegins
  <2>2. polling' \in Bridge!Pollings
      BY <2>1 DEF Bridge!Pollings
  <2> QED
    BY <1>0, <1>1, <2>2
    DEF Bridge!TypeOK, Bridge!PollBegins, Bridge!tenure, Bridge!identity,
        Bridge!screen
<1>2. CASE Bridge!Polled
  <2> DEFINE s == polling.session
  <2>s. polling.stage = "answered"
      BY <1>2 DEF Bridge!Polled
  <2>0. s \in Bridge!Sessions
      BY <1>0, <2>s DEF Bridge!TypeOK, Bridge!Pollings, Bridge!Idle
  <2>1. CASE Bridge!Absent({}, <<>>) /\ polling' = Bridge!Idle
      BY <1>n, <1>i, <2>1, AbsentTyped
  <2>2. CASE /\ Bridge!Room
             /\ Bridge!Absent({}, <<Bridge!Request("screenshot", Bridge!Fresh, 0, 0)>>)
             /\ polling' = [stage |-> "shot", session |-> s,
                            exchange |-> Bridge!Fresh]
    <3>1. Bridge!Fresh \in Nat
        BY <2>2, FreshTyped
    <3>2. Bridge!Request("screenshot", Bridge!Fresh, 0, 0) \in Runtime!Requests
        BY <3>1, RequestTyped, ZeroIsAnId
    <3>3. polling' \in Bridge!Pollings
        BY <2>0, <2>2, <3>1 DEF Bridge!Pollings
    <3>4. <<Bridge!Request("screenshot", Bridge!Fresh, 0, 0)>>
              \in Seq(Runtime!Requests)
        BY <3>2, OneTyped
    <3> QED BY <2>2, <3>3, <3>4, AbsentTyped
  <2>3. CASE Bridge!PollGoesOn /\ UNCHANGED Bridge!identity
    <3>1. CASE Bridge!Abandon({}, <<>>) /\ polling' = Bridge!Idle
        BY <1>0, <1>n, <1>i, <2>3, <3>1, AbandonTyped
        DEF Bridge!TypeOK, Bridge!identity
    <3>2. CASE /\ polling' = IF owner = Bridge!NoGroup \/ installId = 0
                             THEN Bridge!Idle
                             ELSE [stage |-> "keepalive", id |-> installId,
                                   reservation |-> owner.reservationId]
               /\ UNCHANGED <<Bridge!tenure, queue, installId, requested,
                              Bridge!screen, inbox, replies>>
      <4>1. polling' \in Bridge!Pollings
          BY <1>0, <1>i, <3>2 DEF Bridge!TypeOK, Bridge!Pollings
      <4> QED
        BY <1>0, <2>3, <3>2, <4>1
        DEF Bridge!TypeOK, Bridge!identity, Bridge!tenure, Bridge!screen
    <3> QED BY <2>3, <3>1, <3>2 DEF Bridge!PollGoesOn
  <2> QED BY <1>2, <2>1, <2>2, <2>3 DEF Bridge!Polled
<1>3. CASE Bridge!Shot
  <2>1. CASE Bridge!Absent({polling.exchange}, <<>>) /\ polling' = Bridge!Idle
      BY <1>n, <1>i, <2>1, AbsentTyped
  <2>2. CASE /\ seen' = polling.session
             /\ replies' \subseteq replies
             /\ polling' = Bridge!Idle
             /\ UNCHANGED <<Bridge!tenure, registered, queue, installId,
                            requested, Bridge!screen, inbox>>
    <3>0. polling.stage = "shot"
        BY <1>3 DEF Bridge!Shot
    <3>1. polling.session \in Bridge!Sessions
        BY <1>0, <3>0 DEF Bridge!TypeOK, Bridge!Pollings, Bridge!Idle
    <3> QED
      BY <1>0, <1>i, <2>2, <3>1 DEF Bridge!TypeOK, Bridge!tenure, Bridge!screen
  <2> QED BY <1>3, <2>1, <2>2 DEF Bridge!Shot
<1>4. CASE Bridge!KeptAlive
    BY <1>0, <1>i, <1>4, ZeroIsAnId
    DEF Bridge!TypeOK, Bridge!KeptAlive, Bridge!tenure, Bridge!identity,
        Bridge!screen
<1>5. CASE Bridge!Upgrade
    BY <1>0, <1>5
    DEF Bridge!TypeOK, Bridge!Upgrade, Bridge!tenure, Bridge!identity
<1>6. CASE Bridge!Watch
  <2>1. upgrades' \subseteq upgrades /\ viewers' \subseteq viewers \cup upgrades
      BY <1>6 DEF Bridge!Watch, Bridge!Authorized
  <2> QED
    BY <1>0, <1>6, <2>1
    DEF Bridge!TypeOK, Bridge!Watch, Bridge!tenure, Bridge!identity
<1> QED
    BY <1>1, <1>2, <1>3, <1>4, <1>5, <1>6 DEF Bridge!Poll

LEMMA OperateTyped ==
    ASSUME TypeOK, Bridge!Operate
    PROVE  BridgeTypes'
<1> USE DEF TypeOK, BridgeTypes
<1>0. Bridge!TypeOK /\ replies \subseteq Runtime!Replies
      /\ inbox \in Seq(Runtime!Requests)
    BY RepliesTyped
<1> DEFINE op == Head(queue)
\* An operation leaves the queue.
<1>d. ASSUME queue # <<>>, Bridge!Drops, installId' \in 0..MaxInstalls,
             inbox' \in Seq(Runtime!Requests), replies' \subseteq replies
      PROVE  BridgeTypes'
  <2>1. queue' \in Seq(Bridge!Operations)
      BY <1>d, HeadOfQueue DEF Bridge!Drops
  <2> QED
    BY <1>0, <1>d, <2>1
    DEF Bridge!TypeOK, Bridge!Drops, Bridge!tenure, Bridge!identity,
        Bridge!screen
\* Its first one goes on.
<1>f. ASSUME queue # <<>>, NEW STATE next, next \in Bridge!Operations,
             queue' = [queue EXCEPT ![1] = next]
      PROVE  queue' \in Seq(Bridge!Operations)
    BY <1>0, <1>f, HeadOfQueue DEF Bridge!TypeOK
<1>1. ASSUME NEW kind \in {"command", "power", "install", "status", "cancel"},
             NEW id \in 0..MaxInstalls, Bridge!Enqueue(kind, id)
      PROVE  BridgeTypes'
  <2>1. Bridge!Operation(kind, id) \in Bridge!Operations
      BY <1>0
      DEF Bridge!TypeOK, Bridge!Operation, Bridge!Operations, Bridge!NoSession,
          Bridge!Sessions
  <2>2. queue' \in Seq(Bridge!Operations)
    <3>1. queue' = Append(queue, Bridge!Operation(kind, id))
        BY <1>1 DEF Bridge!Enqueue
    <3> QED BY <1>0, <2>1, <3>1, AppendOne DEF Bridge!TypeOK
  <2> QED
    BY <1>0, <1>1, <2>2
    DEF Bridge!TypeOK, Bridge!Enqueue, Bridge!tenure, Bridge!identity,
        Bridge!screen
<1>2. CASE Bridge!Drop
    BY <1>0, <1>2, <1>d DEF Bridge!Drop, Bridge!AtStage, Bridge!TypeOK
<1>3. CASE Bridge!Check
  <2>0. queue # <<>>
      BY <1>3 DEF Bridge!Check, Bridge!AtStage
  <2>1. PICK s \in Bridge!Sessions :
            queue' = [queue EXCEPT ![1].stage = "checked", ![1].session = s]
    <3>1. Bridge!NoSession \in Bridge!Sessions
        BY DEF Bridge!NoSession, Bridge!Sessions
    <3> QED BY <1>3, <3>1, RepliesTyped DEF Bridge!Check
  <2> DEFINE next == [queue[1] EXCEPT !.stage = "checked", !.session = s]
  <2>2. next \in Bridge!Operations
      BY <2>0, HeadOfQueue DEF Bridge!Operations
  <2>3. queue' = [queue EXCEPT ![1] = next]
      BY <2>0, <2>1, HeadOfQueue DEF Bridge!Operations
  <2> HIDE DEF next
  <2> QED
    BY <1>0, <1>3, <1>f, <2>0, <2>2, <2>3
    DEF Bridge!TypeOK, Bridge!Check, Bridge!tenure, Bridge!identity,
        Bridge!screen
<1>4. CASE Bridge!Checked
  <2>0. queue # <<>>
      BY <1>4 DEF Bridge!Checked, Bridge!AtStage
  <2> DEFINE path == IF op.kind = "install" THEN "start" ELSE op.kind
             asks == Bridge!Request(path, Bridge!Fresh, op.reservation, op.id)
             next == [queue[1] EXCEPT !.stage = "requesting",
                                      !.exchange = Bridge!Fresh]
  <2>1. CASE Bridge!Drops /\ UNCHANGED <<installId, inbox, replies>>
      BY <1>0, <1>d, <2>0, <2>1 DEF Bridge!TypeOK
  <2>2. CASE /\ Bridge!Drops
             /\ installId' \in {0, Unsettled.id}
             /\ UNCHANGED <<inbox, replies>>
      BY <1>0, <1>d, <2>0, <2>2, ZeroIsAnId, RepliesTyped
  <2>3. CASE /\ op.kind # "status"
             /\ Bridge!Room
             /\ queue' = [queue EXCEPT ![1].stage = "requesting",
                                       ![1].exchange = Bridge!Fresh]
             /\ inbox' = Append(inbox, asks)
             /\ UNCHANGED <<Bridge!tenure, Bridge!identity, polling, installId,
                            requested, Bridge!screen, replies>>
    <3>1. Bridge!Fresh \in Nat
        BY <2>3, FreshTyped
    <3>2. op \in Bridge!Operations /\ op = queue[1] /\ op.id \in 0..MaxInstalls
          /\ op.reservation \in Nat
        BY <2>0, HeadOfQueue
    <3>3. path \in {"command", "power", "start", "cancel"}
        BY <2>3, <3>2 DEF Bridge!Operations
    <3>4. asks \in Runtime!Requests
        BY <3>1, <3>2, <3>3, RequestTyped
    <3>5. next \in Bridge!Operations
        BY <3>1, <3>2 DEF Bridge!Operations
    <3>6. queue' = [queue EXCEPT ![1] = next]
        BY <2>0, <2>3, <3>2, HeadOfQueue DEF Bridge!Operations
    <3> HIDE DEF next, asks, path
    <3>7. inbox' \in Seq(Runtime!Requests)
        BY <1>0, <2>3, <3>4, AppendOne
    <3>8. queue' \in Seq(Bridge!Operations)
        BY <1>f, <2>0, <3>5, <3>6
    <3> QED
      BY <1>0, <2>3, <3>7, <3>8
      DEF Bridge!TypeOK, Bridge!tenure, Bridge!identity, Bridge!screen
  <2> QED BY <1>4, <2>1, <2>2, <2>3 DEF Bridge!Checked
<1>5. CASE Bridge!Answered
  <2>0. queue # <<>>
      BY <1>5 DEF Bridge!Answered, Bridge!Waits, Bridge!AtStage
  <2>1. PICK r \in Bridge!AnswerTo(op.exchange) :
            \/ Bridge!InstallAnswered(op, r)
            \/ /\ Bridge!Drops
               /\ replies' = replies \ {r}
               /\ installId' = IF op.kind = "cancel" /\ r.ok
                               THEN r.running ELSE installId
               /\ UNCHANGED inbox
      BY <1>5 DEF Bridge!Answered
  <2>2. r.running \in 0..MaxInstalls /\ installId \in 0..MaxInstalls
      BY <1>0, RepliesTyped DEF Bridge!AnswerTo, Bridge!TypeOK
  <2>3. CASE /\ Bridge!Drops
             /\ replies' = replies \ {r}
             /\ installId' \in {installId, r.running}
             /\ UNCHANGED inbox
      BY <1>0, <1>d, <2>0, <2>2, <2>3
  <2> DEFINE asks == Bridge!Request("cancel", op.exchange, op.reservation, op.id)
             next == [queue[1] EXCEPT !.stage = "canceling"]
  <2>4. CASE /\ queue' = [queue EXCEPT ![1].stage = "canceling"]
             /\ replies' = replies \ {r}
             /\ inbox' = Append(inbox, asks)
             /\ UNCHANGED <<Bridge!tenure, Bridge!identity, polling, installId,
                            requested, Bridge!screen>>
    <3>1. op \in Bridge!Operations /\ op = queue[1] /\ op.id \in 0..MaxInstalls
          /\ op.reservation \in Nat /\ op.exchange \in Nat
        BY <2>0, HeadOfQueue
    <3>2. asks \in Runtime!Requests
        BY <3>1, RequestTyped
    <3>3. next \in Bridge!Operations
        BY <3>1 DEF Bridge!Operations
    <3>4. queue' = [queue EXCEPT ![1] = next]
        BY <2>4
    <3> HIDE DEF next, asks
    <3>5. inbox' \in Seq(Runtime!Requests)
        BY <1>0, <2>4, <3>2, AppendOne
    <3>6. queue' \in Seq(Bridge!Operations)
        BY <1>f, <2>0, <3>3, <3>4
    <3> QED
      BY <1>0, <2>4, <3>5, <3>6
      DEF Bridge!TypeOK, Bridge!tenure, Bridge!identity, Bridge!screen
  <2> QED BY <2>1, <2>3, <2>4 DEF Bridge!InstallAnswered
<1>6. CASE Bridge!TimeOut
  <2>0. queue # <<>>
      BY <1>6 DEF Bridge!TimeOut, Bridge!Waits, Bridge!AtStage
  <2>1. inbox' \in Seq(Runtime!Requests)
    <3>1. Bridge!Closes(TRUE, op.exchange) \in Seq(Runtime!Requests)
        BY <2>0, HeadOfQueue, ClosesTyped
    <3>2. inbox' = inbox \o Bridge!Closes(TRUE, op.exchange)
        BY <1>6 DEF Bridge!TimeOut
    <3> QED BY <1>0, <3>1, <3>2, Concatenation
  <2>2. replies' \subseteq replies
      BY <1>6 DEF Bridge!TimeOut, Bridge!Unread
  <2> QED
    BY <1>0, <1>6, <1>d, <2>0, <2>1, <2>2 DEF Bridge!TimeOut, Bridge!TypeOK
<1> QED
    BY <1>1, <1>2, <1>3, <1>4, <1>5, <1>6 DEF Bridge!Operate

\* What is allowed to happen is settled at the start.
LEMMA UsesStay ==
    ASSUME [Next]_vars
    PROVE  UNCHANGED uses
<1>1. CASE BridgeStep
  <2>1. \A X, more : Bridge!Abandon(X, more) => UNCHANGED uses
      BY DEF Bridge!Abandon
  <2>2. Bridge!Drops => UNCHANGED uses
      BY DEF Bridge!Drops
  <2>3. Bridge!Operate => UNCHANGED uses
      BY <2>2
      DEF Bridge!Operate, Bridge!Enqueue, Bridge!Drop, Bridge!Check,
          Bridge!Checked, Bridge!Answered, Bridge!InstallAnswered,
          Bridge!TimeOut
  <2>4. Bridge!Poll => UNCHANGED uses
      BY <2>1
      DEF Bridge!Poll, Bridge!PollBegins, Bridge!Polled, Bridge!PollGoesOn,
          Bridge!Shot, Bridge!KeptAlive, Bridge!Absent
  <2> QED
    BY <1>1, <2>1, <2>3, <2>4
    DEF BridgeStep, Bridge!Next, Bridge!ReceiveGroup, Bridge!JoinMatched,
        Bridge!ReceiveUngroup, Bridge!Disconnect, Bridge!Absent,
        Bridge!Register, Bridge!Crash, Bridge!Upgrade, Bridge!Watch
<1>2. CASE RuntimeStep
  <2>1. \A a, ok : Runtime!Over(a, ok) => UNCHANGED uses
      BY DEF Runtime!Over
  <2>2. \A stage : Runtime!GoesTo(stage) => UNCHANGED uses
      BY DEF Runtime!GoesTo
  <2>3. Runtime!Queue => UNCHANGED uses
      BY <2>1 DEF Runtime!Queue, Runtime!Begin, Runtime!Refuse, Runtime!End
  <2>4. Runtime!Installing => UNCHANGED uses
      BY <2>2
      DEF Runtime!Installing, Runtime!Accepted, Runtime!NotAccepted,
          Runtime!Downloaded, Runtime!Installed, Runtime!InstallFails,
          Runtime!Saved
  <2> QED
    BY <1>2, <2>3, <2>4
    DEF RuntimeStep, Runtime!Next, Runtime!Serve, Runtime!Prepared,
        Runtime!PrepareFails, Runtime!ProbeFails, Runtime!GoDown,
        Runtime!Drained, Runtime!Rested, Runtime!Restart, Runtime!Interrupt
<1> QED BY <1>1, <1>2 DEF Next, vars

LEMMA BridgeTyped ==
    ASSUME TypeOK, BridgeStep
    PROVE  TypeOK'
<1>1. BridgeTypes'
    BY OperateTyped, PollTyped, TenureTyped DEF BridgeStep, Bridge!Next
<1>2. UNCHANGED <<instance, generation, state, loop, wda, actions, jobs,
                  accepting, active, waiting>>
    BY DEF BridgeStep, runtime
<1>3. UNCHANGED uses
    BY UsesStay DEF Next
<1> QED
  <2>1. Runtime!TypeOK'
      BY <1>1, <1>2 DEF TypeOK, Runtime!TypeOK, BridgeTypes
  <2> QED BY <1>1, <1>3, <2>1 DEF TypeOK, BridgeTypes

LEMMA RuntimeTyped ==
    ASSUME TypeOK, RuntimeStep
    PROVE  TypeOK'
<1>1. Runtime!TypeOK'
    BY ServeTyped, QueueTyped, LoopTyped, RestartTyped, InstallingTyped
    DEF RuntimeStep, Runtime!Next, Looping
<1>2. UNCHANGED uses
    BY UsesStay DEF Next
<1>3. Bridge!TypeOK'
    BY DEF TypeOK, RuntimeStep, bridge, Bridge!TypeOK
<1> QED BY <1>1, <1>2, <1>3 DEF TypeOK

\* The state of an iPhone has its types: no answer, action or installation is
\* of an id or a session that nobody was given (bridge.ts, screen.ts,
\* runtime.mts, installations.mts).
THEOREM TypeCorrect == Spec => []TypeOK
<1>1. Init => TypeOK
  <2> SUFFICES ASSUME Init PROVE TypeOK
      OBVIOUS
  <2> USE ZeroIsAnId DEF Init
  <2>1. Bridge!TypeOK
    <3>1. /\ Bridge!NoGroup \in [group : Users \cup {None}, reservationId : Nat]
          /\ Bridge!NoSession \in Bridge!Sessions
          /\ Bridge!Idle \in Bridge!Pollings
        BY DEF Bridge!NoGroup, Bridge!NoSession, Bridge!Sessions,
               Bridge!Pollings
    <3>2. <<>> \in Seq(Bridge!Operations)
        BY NothingTyped
    <3> QED BY <3>1, <3>2 DEF Bridge!Init, Bridge!TypeOK
  <2>2. Runtime!TypeOK
    <3>1. Runtime!NoSession \in Runtime!Sessions
        BY DEF Runtime!NoSession, Runtime!Sessions
    <3>2. <<>> \in Seq(Runtime!Requests) /\ <<>> \in Seq(Runtime!Actions)
        BY NothingTyped
    <3> QED BY <3>1, <3>2 DEF Runtime!Init, Runtime!TypeOK
  <2> QED BY <2>1, <2>2 DEF TypeOK
<1>2. TypeOK /\ [Next]_vars => TypeOK'
  <2>1. TypeOK /\ UNCHANGED vars => TypeOK'
      BY DEF TypeOK, Bridge!TypeOK, Runtime!TypeOK, vars, bridge, runtime
  <2> QED BY <2>1, BridgeTyped, RuntimeTyped DEF Next
<1> QED BY <1>1, <1>2, PTL DEF Spec
-----------------------------------------------------------------------------
(***************************************************************************)
(* The session of an action.                                               *)
(***************************************************************************)
\* Only the head of the queue runs.
FirstRuns == \A i \in DOMAIN actions : actions[i].running => i = 1

\* What runs is of the session that is open, or of the one before it, which is
\* being closed.
RunsInTime ==
    \A i \in DOMAIN actions :
        actions[i].running =>
            /\ actions[i].generation =< generation
            /\ loop = "draining" => actions[i].generation < generation
            /\ loop \in {"probing", "draining"}

\* Whoever is told that the phone is ready finds its session open.
ReadyIsOpen == state = "ready" => loop = "probing" /\ wda = Runtime!Session

KeptInv ==
    /\ FirstRuns
    /\ SessionOutlivesAction
    /\ RunsInTime
    /\ ReadyIsOpen

\* Nothing begins: what runs was running.
LEMMA NothingBegins ==
    ASSUME TypeOK, KeptInv, UNCHANGED <<instance, generation, state, loop, wda>>,
           \A i \in DOMAIN actions' :
              actions'[i].running =>
                  /\ i \in DOMAIN actions
                  /\ actions[i].running
                  /\ actions'[i].generation = actions[i].generation
    PROVE  KeptInv'
BY DEF KeptInv, FirstRuns, SessionOutlivesAction, Runtime!SessionOutlivesAction,
       RunsInTime, ReadyIsOpen, Runtime!Session

\* Nothing runs.
LEMMA NothingRuns ==
    ASSUME \A i \in DOMAIN actions' : ~actions'[i].running, ReadyIsOpen'
    PROVE  KeptInv'
BY DEF KeptInv, FirstRuns, SessionOutlivesAction, Runtime!SessionOutlivesAction,
       RunsInTime

\* When an action is over, none runs.
LEMMA OverIsOver ==
    ASSUME TypeOK, KeptInv, actions # <<>>, actions' = Tail(actions)
    PROVE  \A i \in DOMAIN actions' : ~actions'[i].running
<1>1. actions \in Seq(Runtime!Actions)
    BY DEF TypeOK, Runtime!TypeOK
<1>2. \A i \in DOMAIN actions' :
          i + 1 \in DOMAIN actions /\ actions'[i] = actions[i + 1] /\ i # 0
    BY <1>1, HeadTail
<1>3. \A i \in DOMAIN actions' : i \in Int
    BY <1>1
<1> QED BY <1>2, <1>3 DEF KeptInv, FirstRuns

LEMMA SessionIsKept ==
    ASSUME TypeOK, KeptInv, Runtime!Next
    PROVE  KeptInv'
<1>0. actions \in Seq(Runtime!Actions) /\ generation \in Nat /\ instance \in Nat
    BY DEF TypeOK, Runtime!TypeOK
<1>1. CASE Runtime!Serve
  <2>1. UNCHANGED <<instance, generation, state, loop, wda>>
      BY <1>1 DEF Runtime!Serve, Runtime!queueing
  <2> DEFINE r == Head(inbox)
  <2>2. CASE Runtime!Hangup(r)
    <3>1. \A i \in DOMAIN actions : actions[i] \in Runtime!Actions
        BY <1>0
    <3>2. actions' = [i \in DOMAIN actions |-> Runtime!Cut(actions[i], r.exchange)]
        BY <2>2 DEF Runtime!Hangup
    <3>3. \A i \in DOMAIN actions' :
              /\ i \in DOMAIN actions
              /\ actions'[i].running = actions[i].running
              /\ actions'[i].generation = actions[i].generation
        BY <3>1, <3>2, CutTyped
    <3> QED BY <2>1, <3>3, NothingBegins
  <2>3. CASE UNCHANGED actions
      BY <2>1, <2>3, NothingBegins
  <2>4. CASE actions' = Append(actions, Runtime!Action(r.path, r, 0))
    <3>1. /\ \A i \in DOMAIN actions' :
                \/ i \in DOMAIN actions /\ actions'[i] = actions[i]
                \/ actions'[i] = Runtime!Action(r.path, r, 0)
        BY <1>0, <2>4
    <3>2. ~Runtime!Action(r.path, r, 0).running
        BY DEF Runtime!Action
    <3> QED BY <2>1, <3>1, <3>2, NothingBegins
  <2> QED
    BY <1>1, <2>2, <2>3, <2>4
    DEF Runtime!Serve, Runtime!Execute, Runtime!Start, Runtime!Cancel
<1>2. CASE Runtime!Begin
  <2>1. state = "ready" /\ actions[1].generation = generation /\ 1 \in DOMAIN actions
      BY <1>0, <1>2 DEF Runtime!Begin, Runtime!MayBegin
  <2>2. UNCHANGED <<instance, generation, state, loop, wda>>
      BY <1>2 DEF Runtime!Begin, Runtime!queueing
  <2>3. \A i \in DOMAIN actions' :
            actions'[i].running => i = 1 /\ actions'[i].generation = generation
    <3>1. actions[1] \in Runtime!Actions
        BY <1>0, <2>1
    <3> DEFINE b == [actions[1] EXCEPT !.running = TRUE]
    <3>2. b.generation = generation
        BY <2>1, <3>1 DEF Runtime!Actions
    <3>3. actions' = [actions EXCEPT ![1] = b]
        BY <1>2 DEF Runtime!Begin
    <3> HIDE DEF b
    <3>4. \A i \in DOMAIN actions : actions[i].running => i = 1
        BY DEF KeptInv, FirstRuns
    <3> QED BY <1>0, <2>1, <3>2, <3>3, <3>4
  <2>4. loop = "probing" /\ wda = Runtime!Session
      BY <2>1 DEF KeptInv, ReadyIsOpen
  <2> QED
    BY <1>0, <2>2, <2>3, <2>4
    DEF KeptInv, FirstRuns, SessionOutlivesAction,
        Runtime!SessionOutlivesAction, RunsInTime, ReadyIsOpen, Runtime!Session
<1>3. CASE Runtime!Refuse \/ Runtime!End
  <2>1. actions # <<>> /\ actions' = Tail(actions)
      BY <1>3 DEF Runtime!Refuse, Runtime!End, Runtime!Over
  <2>2. ReadyIsOpen'
      BY <1>3
      DEF KeptInv, ReadyIsOpen, Runtime!Session, Runtime!Refuse, Runtime!End,
          Runtime!queueing
  <2> QED BY <2>1, <2>2, OverIsOver, NothingRuns
<1>4. CASE Runtime!Prepared \/ Runtime!PrepareFails \/ Runtime!Rested
  <2>1. loop \in {"preparing", "resting"} /\ UNCHANGED <<instance, actions>>
      BY <1>4
      DEF Runtime!Prepared, Runtime!PrepareFails, Runtime!GoDown, Runtime!Rested
  <2>2. \A i \in DOMAIN actions' : ~actions'[i].running
      BY <2>1 DEF KeptInv, RunsInTime
  <2>3. ReadyIsOpen'
      BY <1>4
      DEF KeptInv, ReadyIsOpen, Runtime!Session, Runtime!Prepared,
          Runtime!PrepareFails, Runtime!GoDown, Runtime!Rested
  <2> QED BY <2>2, <2>3, NothingRuns
<1>5. CASE Runtime!ProbeFails
  <2>1. /\ UNCHANGED <<instance, actions, wda>>
        /\ state' = "waiting" /\ loop' = "draining"
        /\ generation' = generation + 1
      BY <1>5 DEF Runtime!ProbeFails, Runtime!GoDown
  <2>2. \A i \in DOMAIN actions : actions[i].generation \in Nat
    <3>1. \A i \in DOMAIN actions : actions[i] \in Runtime!Actions
        BY <1>0
    <3> QED BY <3>1 DEF Runtime!Actions
  <2> QED
    BY <1>0, <2>1, <2>2
    DEF KeptInv, FirstRuns, SessionOutlivesAction,
        Runtime!SessionOutlivesAction, RunsInTime, ReadyIsOpen
<1>6. CASE Runtime!Drained
  <2>1. /\ loop = "draining"
        /\ \A i \in DOMAIN actions : actions[i].generation = generation
        /\ loop' = "resting"
        /\ UNCHANGED <<generation, state, actions>>
      BY <1>6 DEF Runtime!Drained
  <2>2. \A i \in DOMAIN actions' : ~actions'[i].running
      BY <1>0, <2>1 DEF KeptInv, RunsInTime
  <2>3. ReadyIsOpen'
      BY <2>1 DEF KeptInv, ReadyIsOpen
  <2> QED BY <2>2, <2>3, NothingRuns
<1>7. CASE Runtime!Restart
  <2>1. actions' = <<>> /\ state' = "starting"
      BY <1>7 DEF Runtime!Restart
  <2> QED BY <2>1, NothingRuns DEF ReadyIsOpen
<1>8. CASE Runtime!Installing \/ Runtime!Interrupt
  <2>1. UNCHANGED <<instance, generation, state, loop, wda>>
      BY <1>8
      DEF Runtime!Installing, Runtime!Accepted, Runtime!NotAccepted,
          Runtime!Downloaded, Runtime!Installed, Runtime!InstallFails,
          Runtime!Saved, Runtime!Interrupt, Runtime!GoesTo, Runtime!queueing
  <2>2. \/ UNCHANGED actions
        \/ \E r, id : actions' = Append(actions, Runtime!Action("launch", r, id))
      BY <1>8
      DEF Runtime!Installing, Runtime!Accepted, Runtime!NotAccepted,
          Runtime!Downloaded, Runtime!Installed, Runtime!InstallFails,
          Runtime!Saved, Runtime!Interrupt, Runtime!GoesTo
  <2>3. CASE UNCHANGED actions
      BY <2>1, <2>3, NothingBegins
  <2>4. ASSUME NEW a, actions' = Append(actions, a), ~a.running
        PROVE  KeptInv'
      BY <1>0, <2>1, <2>4, NothingBegins
  <2>5. \A r, id : ~Runtime!Action("launch", r, id).running
      BY DEF Runtime!Action
  <2> QED BY <2>2, <2>3, <2>4, <2>5
<1> QED
  BY <1>1, <1>2, <1>3, <1>4, <1>5, <1>6, <1>7, <1>8
  DEF Runtime!Next, Runtime!Queue

\* The session that an action has begun in is not closed under it, whatever
\* ends the session: a probe that fails, a power command, or the process
\* itself (runtime.mts 166-171, 320-334).
THEOREM SessionKept == Spec => []SessionOutlivesAction
<1>1. Init => KeptInv
    BY DEF Init, Runtime!Init, KeptInv, FirstRuns, SessionOutlivesAction,
           Runtime!SessionOutlivesAction, RunsInTime, ReadyIsOpen
<1>2. TypeOK /\ KeptInv /\ [Next]_vars => KeptInv'
  <2>1. ASSUME TypeOK, KeptInv, BridgeStep \/ UNCHANGED vars PROVE KeptInv'
      BY <2>1
      DEF BridgeStep, vars, runtime, KeptInv, FirstRuns, SessionOutlivesAction,
          Runtime!SessionOutlivesAction, RunsInTime, ReadyIsOpen,
          Runtime!Session
  <2> QED BY <2>1, SessionIsKept DEF Next, RuntimeStep
<1>3. KeptInv => SessionOutlivesAction
    BY DEF KeptInv
<1> QED BY <1>1, <1>2, <1>3, TypeCorrect, PTL DEF Spec

-----------------------------------------------------------------------------
(***************************************************************************)
(* What is asked for once.                                                 *)
(***************************************************************************)
\* Where the request of an exchange is, or its answer.
AsksAt(i, x) == inbox[i].path # "close" /\ inbox[i].exchange = x
Sent(x) == \E i \in DOMAIN inbox : AsksAt(i, x)
Acted(x) == \E i \in DOMAIN actions : actions[i].exchange = x
Accepted(x) == accepting # Runtime!NoJob /\ accepting.exchange = x
Awaited(x) == x \in waiting
Replied(x) == \E r \in replies : r.exchange = x

\* It is in one of these places, and there once.
Once(x) ==
    /\ \A i, j \in DOMAIN inbox : AsksAt(i, x) /\ AsksAt(j, x) => i = j
    /\ \A i, j \in DOMAIN actions :
          actions[i].exchange = x /\ actions[j].exchange = x => i = j
    /\ \A r, s \in replies : r.exchange = x /\ s.exchange = x => r = s
    /\ Sent(x) => ~(Acted(x) \/ Accepted(x) \/ Awaited(x) \/ Replied(x))
    /\ Acted(x) => ~(Accepted(x) \/ Awaited(x) \/ Replied(x))
    /\ Accepted(x) => ~(Awaited(x) \/ Replied(x))
    /\ Awaited(x) => ~Replied(x)

AskedOnce ==
    /\ \A x \in Nat \ {0} : Once(x)
    /\ ~Replied(0)

\* The answers that are added.
LEMMA RepliedAre ==
    ASSUME NEW STATE X, NEW STATE ok, NEW STATE id, NEW x
    PROVE  LET more == Runtime!Answers(X, ok, id)
           IN  /\ replies \subseteq more
               /\ (\E r \in more : r.exchange = x)
                  <=> Replied(x) \/ (x \in X /\ ~Runtime!Closed(x))
               /\ \A r \in more : r.exchange = x =>
                     \/ r \in replies
                     \/ /\ x \in X /\ ~Runtime!Closed(x)
                        /\ r = [exchange |-> x, ok |-> ok, running |-> id]
<1> DEFINE open == {y \in X : ~Runtime!Closed(y)}
           answer(y) == [exchange |-> y, ok |-> ok, running |-> id]
           more == Runtime!Answers(X, ok, id)
<1>1. more = replies \cup {answer(y) : y \in open}
    BY DEF Runtime!Answers
<1>2. \A y : answer(y).exchange = y
    OBVIOUS
<1>3. \A y : y \in open <=> y \in X /\ ~Runtime!Closed(y)
    OBVIOUS
<1> HIDE DEF open, answer, more
<1>4. \A r \in more : r.exchange = x =>
          r \in replies \/ (x \in open /\ r = answer(x))
    BY <1>1, <1>2
<1>5. x \in open => \E r \in more : r.exchange = x
  <2> SUFFICES ASSUME x \in open PROVE answer(x) \in more /\ answer(x).exchange = x
      OBVIOUS
  <2> QED BY <1>1, <1>2
<1>6. (\E r \in more : r.exchange = x)
      <=> Replied(x) \/ (x \in X /\ ~Runtime!Closed(x))
    BY <1>1, <1>3, <1>4, <1>5 DEF Replied
<1>7. \A r \in more : r.exchange = x =>
          \/ r \in replies
          \/ /\ x \in X /\ ~Runtime!Closed(x)
             /\ r = [exchange |-> x, ok |-> ok, running |-> id]
    BY <1>3, <1>4 DEF answer
<1> QED BY <1>1, <1>6, <1>7 DEF more

\* What becomes of the replies.
LEMMA ThenReplied ==
    ASSUME NEW STATE X, NEW STATE ok, NEW STATE id, NEW x,
           replies' = Runtime!Answers(X, ok, id)
    PROVE  /\ Replied(x)' => Replied(x) \/ x \in X
           /\ \A r \in replies' : r.exchange = x =>
                 \/ r \in replies
                 \/ x \in X /\ r = [exchange |-> x, ok |-> ok, running |-> id]
BY RepliedAre DEF Replied

\* What a connection that closes does to who asked for an action.
LEMMA CutIsUnheard ==
    ASSUME NEW a \in Runtime!Actions, NEW x
    PROVE  LET b == Runtime!Cut(a, x)
           IN  /\ a.exchange # x => b = a
               /\ a.exchange = x => b.exchange = 0 /\ b.aborted
               /\ b.reservation = a.reservation
<1>1. CASE a.exchange # x
    BY <1>1 DEF Runtime!Cut
<1>2. CASE a.exchange = x
  <2> DEFINE c == [a EXCEPT !.exchange = 0]
  <2>1. c \in Runtime!Actions /\ c.exchange = 0 /\ c.reservation = a.reservation
      BY DEF Runtime!Actions
  <2>2. Runtime!Cut(a, x) = [c EXCEPT !.aborted = TRUE]
      BY <1>2, <2>1 DEF Runtime!Cut, Runtime!Actions
  <2> HIDE DEF c
  <2> QED BY <1>2, <2>1, <2>2 DEF Runtime!Actions
<1> QED BY <1>1, <1>2

\* Nobody is answered who does not listen.
LEMMA NobodyIsAnswered ==
    ASSUME ~Replied(0), NEW STATE X, NEW STATE ok, NEW STATE id,
           replies' = Runtime!Answers(X, ok, id)
    PROVE  ~Replied(0)'
<1>1. Runtime!Closed(0)
    BY DEF Runtime!Closed
<1> QED BY <1>1, RepliedAre DEF Replied

\* Requests and answers are fewer than they were.
LEMMA OnceIfFewer ==
    ASSUME NEW x, Once(x), NEW CONSTANT k \in Int, NEW CONSTANT l \in Int,
           \A i \in DOMAIN inbox' : i \in Int /\ i + k \in DOMAIN inbox
                /\ (AsksAt(i, x)' => AsksAt(i + k, x)),
           \A i \in DOMAIN actions' : i \in Int /\ i + l \in DOMAIN actions
                /\ (actions'[i].exchange = x => actions[i + l].exchange = x),
           Accepted(x)' => Accepted(x),
           Awaited(x)' => Awaited(x),
           replies' \subseteq replies
    PROVE  Once(x)'
<1>1. \A i, j \in DOMAIN inbox' : AsksAt(i, x)' /\ AsksAt(j, x)' => i = j
    BY DEF Once
<1>2. \A i, j \in DOMAIN actions' :
          actions'[i].exchange = x /\ actions'[j].exchange = x => i = j
    BY DEF Once
<1>3. (Sent(x)' => Sent(x)) /\ (Acted(x)' => Acted(x))
      /\ (Replied(x)' => Replied(x))
    BY DEF Sent, Acted, Replied
<1>4. \A r, s \in replies' : r.exchange = x /\ s.exchange = x => r = s
    BY DEF Once
<1> HIDE DEF AsksAt
<1> QED BY <1>1, <1>2, <1>3, <1>4 DEF Once

\* An action leaves the queue, and its caller, if there is one, is answered.
LEMMA OnceWhenOver ==
    ASSUME TypeOK, NEW x \in Nat \ {0}, Once(x), actions # <<>>,
           NEW STATE ok, Runtime!Over(Head(actions), ok)
    PROVE  Once(x)'
<1> DEFINE a == Head(actions)
           none == 0
<1>0. actions \in Seq(Runtime!Actions)
    BY DEF TypeOK, Runtime!TypeOK
<1>1. /\ a = actions[1] /\ 1 \in DOMAIN actions
      /\ \A i \in DOMAIN Tail(actions) :
            /\ i \in Nat \ {0} /\ i + 1 \in DOMAIN actions
            /\ Tail(actions)[i] = actions[i + 1]
    BY <1>0, HeadTail
<1>2. /\ actions' = Tail(actions)
      /\ replies' = Runtime!Answers({a.exchange}, ok, none)
      /\ UNCHANGED <<inbox, accepting, waiting>>
    BY DEF Runtime!Over
<1>3. (Accepted(x)' <=> Accepted(x)) /\ (Awaited(x)' <=> Awaited(x))
      /\ (Sent(x)' <=> Sent(x)) /\ \A i : AsksAt(i, x)' <=> AsksAt(i, x)
    BY <1>2 DEF Accepted, Awaited, Sent, AsksAt
<1>4. Acted(x)' => Acted(x) /\ a.exchange # x
    BY <1>1, <1>2 DEF Acted, Once
<1>5. \A i, j \in DOMAIN actions' :
          actions'[i].exchange = x /\ actions'[j].exchange = x => i = j
    BY <1>1, <1>2 DEF Once
<1> HIDE DEF a, none
<1>6. /\ Replied(x)' => Replied(x) \/ a.exchange = x
      /\ \A r \in replies' : r.exchange = x =>
            \/ r \in replies
            \/ a.exchange = x /\ r = [exchange |-> x, ok |-> ok, running |-> none]
  <2> DEFINE X == {a.exchange}
  <2>1. replies' = Runtime!Answers(X, ok, none) /\ (x \in X <=> a.exchange = x)
      BY <1>2
  <2> HIDE DEF X
  <2> QED BY <2>1, ThenReplied
<1>7. a.exchange = x => Acted(x)
    BY <1>1 DEF Acted
<1>8. \A r, s \in replies' : r.exchange = x /\ s.exchange = x => r = s
    BY <1>6, <1>7 DEF Once, Replied
<1>9. \A i, j \in DOMAIN inbox' : AsksAt(i, x)' /\ AsksAt(j, x)' => i = j
    BY <1>2, <1>3 DEF Once
<1> QED BY <1>3, <1>4, <1>5, <1>6, <1>7, <1>8, <1>9 DEF Once

LEMMA OnceWhenServed ==
    ASSUME TypeOK, NEW x \in Nat \ {0}, Once(x), Runtime!Serve
    PROVE  Once(x)'
<1> DEFINE r == Head(inbox)
<1>0. inbox \in Seq(Runtime!Requests) /\ actions \in Seq(Runtime!Actions)
      /\ inbox # <<>> /\ inbox' = Tail(inbox)
    BY DEF TypeOK, Runtime!TypeOK, Runtime!Serve
<1>1. /\ r = inbox[1] /\ 1 \in DOMAIN inbox
      /\ \A i \in DOMAIN inbox' :
            /\ i \in Nat \ {0} /\ i + 1 \in DOMAIN inbox
            /\ inbox'[i] = inbox[i + 1]
    BY <1>0, HeadTail
<1>2. \A i \in DOMAIN inbox' : AsksAt(i, x)' => AsksAt(i + 1, x)
    BY <1>1 DEF AsksAt
<1>3. \A i \in DOMAIN actions : i \in Int
    BY <1>0
<1>4. \A i, j \in DOMAIN inbox' : AsksAt(i, x)' /\ AsksAt(j, x)' => i = j
    BY <1>1, <1>2 DEF Once
<1>5. Sent(x)' => Sent(x) /\ ~AsksAt(1, x)
    BY <1>1, <1>2 DEF Sent, Once
<1>6. AsksAt(1, x) <=> r.path # "close" /\ r.exchange = x
    BY <1>1 DEF AsksAt
<1>7. AsksAt(1, x) => Sent(x)
    BY <1>1 DEF Sent
<1> HIDE DEF r
\* It is read, and is over at once if it is answered.
<1>8. ASSUME NEW STATE ok, NEW STATE id, r.path # "close",
             UNCHANGED <<actions, accepting, waiting>>,
             replies' = Runtime!Answers({r.exchange}, ok, id)
      PROVE  Once(x)'
  <2>1. (Accepted(x)' <=> Accepted(x)) /\ (Awaited(x)' <=> Awaited(x))
        /\ (Acted(x)' <=> Acted(x))
      BY <1>8 DEF Accepted, Awaited, Acted
  <2>2. \A i, j \in DOMAIN actions' :
            actions'[i].exchange = x /\ actions'[j].exchange = x => i = j
      BY <1>8 DEF Once
  <2>3. /\ Replied(x)' => Replied(x) \/ r.exchange = x
        /\ \A s \in replies' : s.exchange = x =>
              \/ s \in replies
              \/ r.exchange = x /\ s = [exchange |-> x, ok |-> ok, running |-> id]
    <3> DEFINE X == {r.exchange}
    <3>1. replies' = Runtime!Answers(X, ok, id) /\ (x \in X <=> r.exchange = x)
        BY <1>8
    <3> HIDE DEF X
    <3> QED BY <3>1, ThenReplied
  <2>4. \A s, t \in replies' : s.exchange = x /\ t.exchange = x => s = t
      BY <1>6, <1>7, <1>8, <2>3 DEF Once, Replied
  <2> QED
    BY <1>4, <1>5, <1>6, <1>7, <1>8, <2>1, <2>2, <2>3, <2>4 DEF Once
<1>9. CASE Runtime!Hangup(r)
  <2>1. \A i \in DOMAIN actions' :
            i \in DOMAIN actions
            /\ (actions'[i].exchange = x => actions[i].exchange = x)
    <3>1. \A i \in DOMAIN actions : actions[i] \in Runtime!Actions
        BY <1>0
    <3>2. actions' = [i \in DOMAIN actions |-> Runtime!Cut(actions[i], r.exchange)]
        BY <1>9 DEF Runtime!Hangup
    <3>3. \A i \in DOMAIN actions :
              Runtime!Cut(actions[i], r.exchange).exchange = x
              => actions[i].exchange = x
        BY <3>1, CutIsUnheard
    <3> QED BY <3>2, <3>3
  <2>2. Accepted(x)' => Accepted(x)
    <3>1. accepting # Runtime!NoJob =>
             [accepting EXCEPT !.exchange = 0].exchange = 0
        BY DEF TypeOK, Runtime!TypeOK, Runtime!Accepting
    <3> QED BY <1>9, <3>1 DEF Runtime!Hangup, Accepted
  <2>3. (Awaited(x)' => Awaited(x)) /\ UNCHANGED replies
      BY <1>9 DEF Runtime!Hangup, Awaited
  <2> QED BY <1>1, <1>2, <1>3, <2>1, <2>2, <2>3, OnceIfFewer
<1>10. CASE Runtime!Execute(r)
  <2>0. r.path # "close" /\ UNCHANGED <<accepting, waiting>>
      BY <1>10 DEF Runtime!Execute, Runtime!installing
  <2>1. CASE state = "ready"
    <3>1. /\ UNCHANGED replies
          /\ \A i \in DOMAIN actions' :
                \/ i \in DOMAIN actions /\ actions'[i] = actions[i]
                \/ i = Len(actions) + 1 /\ actions'[i].exchange = r.exchange
      <4>1. actions' = Append(actions, Runtime!Action(r.path, r, 0))
            /\ UNCHANGED replies
          BY <1>10, <2>1 DEF Runtime!Execute
      <4>2. Runtime!Action(r.path, r, 0).exchange = r.exchange
          BY DEF Runtime!Action
      <4> QED BY <1>0, <4>1, <4>2
    <3>2. (Accepted(x)' <=> Accepted(x)) /\ (Awaited(x)' <=> Awaited(x))
          /\ (Replied(x)' <=> Replied(x))
        BY <2>0, <3>1 DEF Accepted, Awaited, Replied
    <3>3. Acted(x)' => Acted(x) \/ r.exchange = x
        BY <3>1 DEF Acted
    <3>4. \A i, j \in DOMAIN actions' :
              actions'[i].exchange = x /\ actions'[j].exchange = x => i = j
        BY <1>6, <1>7, <2>0, <3>1 DEF Once, Acted
    <3> QED
      BY <1>4, <1>5, <1>6, <1>7, <2>0, <3>1, <3>2, <3>3, <3>4 DEF Once
  <2>2. CASE state # "ready"
      BY <1>8, <1>10, <2>0, <2>2 DEF Runtime!Execute
  <2> QED BY <2>1, <2>2
<1>11. CASE Runtime!Start(r)
  <2>0. r.path # "close" /\ UNCHANGED <<actions, waiting>>
      BY <1>11 DEF Runtime!Start
  <2>1. CASE UNCHANGED accepting
            /\ \E ok, id : replies' = Runtime!Answers({r.exchange}, ok, id)
    <3>1. PICK ok, id : replies' = Runtime!Answers({r.exchange}, ok, id)
        BY <2>1
    <3> QED BY <1>8, <2>0, <2>1, <3>1
  <2>2. CASE /\ accepting = Runtime!NoJob
             /\ accepting' = [id |-> r.id, lease |-> r.reservation,
                              session |-> r.session, exchange |-> r.exchange]
             /\ UNCHANGED replies
    <3>1. (Acted(x)' <=> Acted(x)) /\ (Awaited(x)' <=> Awaited(x))
          /\ (Replied(x)' <=> Replied(x))
        BY <2>0, <2>2 DEF Acted, Awaited, Replied
    <3>2. Accepted(x)' => r.exchange = x
        BY <2>2 DEF Accepted
    <3>3. \A i, j \in DOMAIN actions' :
              actions'[i].exchange = x /\ actions'[j].exchange = x => i = j
        BY <2>0 DEF Once
    <3>4. \A s, t \in replies' : s.exchange = x /\ t.exchange = x => s = t
        BY <2>2 DEF Once
    <3> QED
      BY <1>4, <1>5, <1>6, <1>7, <2>0, <3>1, <3>2, <3>3, <3>4 DEF Once
  <2> QED BY <1>11, <2>1, <2>2 DEF Runtime!Start
<1>12. CASE Runtime!Cancel(r)
  <2>0. r.path # "close" /\ UNCHANGED <<actions, accepting>>
      BY <1>12 DEF Runtime!Cancel
  <2>1. CASE UNCHANGED waiting
            /\ \E ok, id : replies' = Runtime!Answers({r.exchange}, ok, id)
    <3>1. PICK ok, id : replies' = Runtime!Answers({r.exchange}, ok, id)
        BY <2>1
    <3> QED BY <1>8, <2>0, <2>1, <3>1
  <2>2. CASE waiting' = waiting \cup ({r.exchange} \ {0}) /\ UNCHANGED replies
    <3>1. (Acted(x)' <=> Acted(x)) /\ (Accepted(x)' <=> Accepted(x))
          /\ (Replied(x)' <=> Replied(x))
        BY <2>0, <2>2 DEF Acted, Accepted, Replied
    <3>2. Awaited(x)' => Awaited(x) \/ r.exchange = x
        BY <2>2 DEF Awaited
    <3>3. \A i, j \in DOMAIN actions' :
              actions'[i].exchange = x /\ actions'[j].exchange = x => i = j
        BY <2>0 DEF Once
    <3>4. \A s, t \in replies' : s.exchange = x /\ t.exchange = x => s = t
        BY <2>2 DEF Once
    <3> QED
      BY <1>4, <1>5, <1>6, <1>7, <2>0, <3>1, <3>2, <3>3, <3>4 DEF Once
  <2> QED BY <1>12, <2>1, <2>2 DEF Runtime!Cancel
<1> QED BY <1>9, <1>10, <1>11, <1>12 DEF Runtime!Serve, r

\* No request goes anywhere.
LEMMA OnceIfUnmoved ==
    ASSUME NEW x, Once(x), UNCHANGED <<inbox, accepting, waiting, replies>>,
           \A i \in DOMAIN actions' :
               actions'[i].exchange = x =>
                   i \in DOMAIN actions /\ actions[i].exchange = x
    PROVE  Once(x)'
<1>1. (Accepted(x)' <=> Accepted(x)) /\ (Awaited(x)' <=> Awaited(x))
      /\ (Sent(x)' <=> Sent(x)) /\ (Replied(x)' <=> Replied(x))
    BY DEF Accepted, Awaited, Sent, Replied, AsksAt
<1>2. Acted(x)' => Acted(x)
    BY DEF Acted
<1>3. /\ \A i, j \in DOMAIN inbox' : AsksAt(i, x)' /\ AsksAt(j, x)' => i = j
      /\ \A i, j \in DOMAIN actions' :
            actions'[i].exchange = x /\ actions'[j].exchange = x => i = j
      /\ \A r, s \in replies' : r.exchange = x /\ s.exchange = x => r = s
    BY DEF Once, AsksAt
<1> QED BY <1>1, <1>2, <1>3 DEF Once

\* The installation that is being saved leaves its place, and is told of.
LEMMA OnceWhenAnswered ==
    ASSUME NEW x \in Nat \ {0}, Once(x), accepting # Runtime!NoJob,
           accepting' = Runtime!NoJob, UNCHANGED <<inbox, actions, waiting>>,
           NEW STATE X, NEW STATE ok, NEW STATE id,
           replies' = Runtime!Answers(X, ok, id), x \in X => Accepted(x)
    PROVE  Once(x)'
<1>1. /\ Replied(x)' => Replied(x) \/ Accepted(x)
      /\ \A r \in replies' : r.exchange = x =>
            \/ r \in replies
            \/ Accepted(x) /\ r = [exchange |-> x, ok |-> ok, running |-> id]
    BY ThenReplied
<1>2. (Sent(x)' <=> Sent(x)) /\ (Acted(x)' <=> Acted(x))
      /\ ~Accepted(x)' /\ (Awaited(x)' <=> Awaited(x))
    BY DEF Sent, Acted, Accepted, Awaited, AsksAt
<1>3. /\ \A i, j \in DOMAIN inbox' : AsksAt(i, x)' /\ AsksAt(j, x)' => i = j
      /\ \A i, j \in DOMAIN actions' :
            actions'[i].exchange = x /\ actions'[j].exchange = x => i = j
    BY DEF Once, AsksAt
<1>4. \A r, s \in replies' : r.exchange = x /\ s.exchange = x => r = s
    BY <1>1 DEF Once, Replied
<1> QED BY <1>1, <1>2, <1>3, <1>4 DEF Once

LEMMA OnceAtRuntime ==
    ASSUME TypeOK, NEW x \in Nat \ {0}, Once(x), Runtime!Next
    PROVE  Once(x)'
<1>0. actions \in Seq(Runtime!Actions) /\ inbox \in Seq(Runtime!Requests)
    BY DEF TypeOK, Runtime!TypeOK
<1>1. CASE Runtime!Begin
  <2>1. actions' = [actions EXCEPT ![1].running = TRUE] /\ 1 \in DOMAIN actions
      BY <1>0, <1>1, HeadTail DEF Runtime!Begin
  <2>2. \A i \in DOMAIN actions' :
            i \in DOMAIN actions /\ actions'[i].exchange = actions[i].exchange
      BY <1>0, <2>1 DEF Runtime!Actions
  <2> QED
    BY <1>1, <2>2, OnceIfUnmoved DEF Runtime!Begin, Runtime!installing
<1>2. CASE Runtime!Refuse \/ Runtime!End
  <2>1. PICK ok : actions # <<>> /\ Runtime!Over(Head(actions), ok)
      BY <1>2 DEF Runtime!Refuse, Runtime!End
  <2> QED BY <2>1, OnceWhenOver
<1>3. CASE Looping
  <2>1. UNCHANGED <<inbox, replies, actions, accepting, waiting>>
      BY <1>3
      DEF Looping, Runtime!Prepared, Runtime!PrepareFails, Runtime!ProbeFails,
          Runtime!GoDown, Runtime!Drained, Runtime!Rested, Runtime!installing
  <2> QED BY <2>1, OnceIfUnmoved
<1>4. CASE Runtime!Restart
  <2>1. /\ inbox' = <<>> /\ actions' = <<>> /\ accepting' = Runtime!NoJob
        /\ waiting' = {}
        /\ replies' = Runtime!Answers(Runtime!Exchanges, FALSE, 0)
      BY <1>4 DEF Runtime!Restart
  <2>2. x \in Runtime!Exchanges /\ ~Runtime!Closed(x) => ~Replied(x)
    <3>1. x \in Runtime!Exchanges =>
              \/ \E i \in DOMAIN inbox : inbox[i].exchange = x
              \/ Acted(x) \/ Accepted(x) \/ Awaited(x)
        BY DEF Runtime!Exchanges, Acted, Accepted, Awaited
    <3>2. ASSUME NEW i \in DOMAIN inbox, inbox[i].exchange = x,
                 ~Runtime!Closed(x)
          PROVE  Sent(x)
        BY <3>2 DEF Runtime!Closed, Sent, AsksAt
    <3> QED BY <3>1, <3>2 DEF Once
  <2>3. \A r, s \in replies' : r.exchange = x /\ s.exchange = x => r = s
    <3> DEFINE X == Runtime!Exchanges
               none == 0
               no == FALSE
    <3>1. replies' = Runtime!Answers(X, no, none)
          /\ (x \in X /\ ~Runtime!Closed(x) => ~Replied(x))
        BY <2>1, <2>2
    <3> HIDE DEF X, none, no
    <3>2. \A r \in replies' : r.exchange = x =>
              \/ r \in replies
              \/ /\ x \in X /\ ~Runtime!Closed(x)
                 /\ r = [exchange |-> x, ok |-> no, running |-> none]
        BY <3>1, RepliedAre
    <3>3. \A r, s \in replies : r.exchange = x /\ s.exchange = x => r = s
        BY DEF Once
    <3>4. (\E r \in replies : r.exchange = x) => ~(x \in X /\ ~Runtime!Closed(x))
        BY <3>1 DEF Replied
    <3> QED BY <3>2, <3>3, <3>4
  <2>4. ~Sent(x)' /\ ~Acted(x)' /\ ~Accepted(x)' /\ ~Awaited(x)'
      BY <2>1 DEF Sent, Acted, Accepted, Awaited
  <2>5. DOMAIN inbox' = {} /\ DOMAIN actions' = {}
      BY <2>1
  <2> QED BY <2>3, <2>4, <2>5 DEF Once
<1>5. CASE Runtime!Accepted
  <2> DEFINE ok == Runtime!Current(accepting)
             id == accepting.id
             X == {accepting.exchange}
  <2>1. /\ accepting # Runtime!NoJob /\ accepting' = Runtime!NoJob
        /\ replies' = Runtime!Answers(X, ok, id) /\ (x \in X => Accepted(x))
        /\ UNCHANGED <<inbox, actions, waiting>>
      BY <1>5 DEF Runtime!Accepted, Accepted
  <2> HIDE DEF X, ok, id
  <2> QED BY <2>1, OnceWhenAnswered
<1>6. CASE Runtime!NotAccepted
  <2> DEFINE no == FALSE
             none == 0
             X == {accepting.exchange}
  <2>1. /\ accepting # Runtime!NoJob /\ accepting' = Runtime!NoJob
        /\ replies' = Runtime!Answers(X, no, none) /\ (x \in X => Accepted(x))
        /\ UNCHANGED <<inbox, actions, waiting>>
      BY <1>6 DEF Runtime!NotAccepted, Accepted
  <2> HIDE DEF X, no, none
  <2> QED BY <2>1, OnceWhenAnswered
<1>7. CASE Runtime!Saved
  <2>1. /\ UNCHANGED <<inbox, actions, accepting>>
        /\ waiting' = {}
        /\ replies' = Runtime!Answers(waiting, TRUE, 0)
      BY <1>7 DEF Runtime!Saved, Runtime!GoesTo
  <2> DEFINE none == 0
             yes == TRUE
  <2>2. replies' = Runtime!Answers(waiting, yes, none)
      BY <2>1
  <2> HIDE DEF none, yes
  <2>3. /\ Replied(x)' => Replied(x) \/ Awaited(x)
        /\ \A r \in replies' : r.exchange = x =>
              \/ r \in replies
              \/ Awaited(x) /\ r = [exchange |-> x, ok |-> yes, running |-> none]
      BY <2>2, ThenReplied DEF Awaited
  <2>4. (Sent(x)' <=> Sent(x)) /\ (Acted(x)' <=> Acted(x))
        /\ (Accepted(x)' <=> Accepted(x)) /\ ~Awaited(x)'
      BY <2>1 DEF Sent, Acted, Accepted, Awaited, AsksAt
  <2>5. /\ \A i, j \in DOMAIN inbox' : AsksAt(i, x)' /\ AsksAt(j, x)' => i = j
        /\ \A i, j \in DOMAIN actions' :
              actions'[i].exchange = x /\ actions'[j].exchange = x => i = j
      BY <2>1 DEF Once, AsksAt
  <2>6. \A r, s \in replies' : r.exchange = x /\ s.exchange = x => r = s
      BY <2>3 DEF Once, Replied
  <2> QED BY <2>3, <2>4, <2>5, <2>6 DEF Once
<1>8. CASE Runtime!Installed
  <2> DEFINE r == [exchange |-> 0, reservation |-> jobs[active].lease]
             a == Runtime!Action("launch", r, active)
  <2>1. actions' = Append(actions, a) \/ UNCHANGED actions
      BY <1>8 DEF Runtime!Installed
  <2>2. a.exchange = 0
      BY DEF Runtime!Action
  <2> HIDE DEF a
  <2>3. \A i \in DOMAIN actions' :
            \/ i \in DOMAIN actions /\ actions'[i] = actions[i]
            \/ actions'[i] = a
      BY <1>0, <2>1
  <2>4. UNCHANGED <<inbox, accepting, waiting, replies>>
      BY <1>8 DEF Runtime!Installed, Runtime!GoesTo
  <2> QED BY <2>2, <2>3, <2>4, OnceIfUnmoved
<1>9. CASE Runtime!Downloaded \/ Runtime!InstallFails \/ Runtime!Interrupt
  <2>1. UNCHANGED <<inbox, replies, actions, accepting, waiting>>
      BY <1>9
      DEF Runtime!Downloaded, Runtime!InstallFails, Runtime!Interrupt,
          Runtime!GoesTo
  <2> QED BY <2>1, OnceIfUnmoved
<1> QED
  BY <1>1, <1>2, <1>3, <1>4, <1>5, <1>6, <1>7, <1>8, <1>9, OnceWhenServed
  DEF Runtime!Next, Runtime!Queue, Runtime!Installing, Looping

LEMMA Associative ==
    ASSUME NEW S, NEW s \in Seq(S), NEW t \in Seq(S), NEW u \in Seq(S)
    PROVE  (s \o t) \o u = s \o (t \o u)
OBVIOUS

LEMMA Concatenated ==
    ASSUME NEW S, NEW s \in Seq(S), NEW t \in Seq(S)
    PROVE  /\ s \o t \in Seq(S)
           /\ \A i \in DOMAIN s : i \in DOMAIN (s \o t) /\ (s \o t)[i] = s[i]
           /\ \A i \in DOMAIN t :
                 Len(s) + i \in DOMAIN (s \o t) /\ (s \o t)[Len(s) + i] = t[i]
           /\ \A i \in DOMAIN (s \o t) :
                 \/ i \in DOMAIN s /\ (s \o t)[i] = s[i]
                 \/ i - Len(s) \in DOMAIN t /\ (s \o t)[i] = t[i - Len(s)]
           /\ Len(s) \in Nat
           /\ \A i \in DOMAIN s : i \in Nat /\ i =< Len(s)
           /\ \A i \in DOMAIN t : i \in Nat /\ i > 0
OBVIOUS

\* What is written to the runtime and asks for nothing: that connections are
\* closed, and that an installation whose caller does not listen is canceled.
Quiet(t) ==
    \A i \in DOMAIN t :
        t[i].path = "close" \/ (t[i].path = "cancel" /\ t[i].exchange = 0)

\* At most one more request is written, over a connection that is not in use.
LEMMA OnceIfAppended ==
    ASSUME NEW x \in Nat \ {0}, Once(x), inbox \in Seq(Runtime!Requests),
           NEW quiet \in Seq(Runtime!Requests), NEW more \in Seq(Runtime!Requests),
           inbox' = (inbox \o quiet) \o more,
           Quiet(quiet), Len(more) =< 1,
           \A i \in DOMAIN more :
               more[i].exchange = x =>
                   ~(Sent(x) \/ Acted(x) \/ Accepted(x) \/ Awaited(x)
                     \/ Replied(x)'),
           UNCHANGED <<actions, accepting, waiting>>,
           replies' \subseteq replies
    PROVE  Once(x)'
<1> DEFINE now == inbox \o quiet
<1>1. /\ now \in Seq(Runtime!Requests)
      /\ \A i \in DOMAIN now :
            now[i].path # "close" /\ now[i].exchange = x =>
                i \in DOMAIN inbox /\ AsksAt(i, x)
  <2>1. \A i \in DOMAIN quiet : ~(quiet[i].path # "close" /\ quiet[i].exchange = x)
      BY DEF Quiet
  <2>2. /\ now \in Seq(Runtime!Requests)
        /\ \A i \in DOMAIN now :
              \/ i \in DOMAIN inbox /\ now[i] = inbox[i]
              \/ i - Len(inbox) \in DOMAIN quiet /\ now[i] = quiet[i - Len(inbox)]
      BY Concatenated
  <2> HIDE DEF now
  <2> QED BY <2>1, <2>2 DEF AsksAt
<1>2. inbox' = now \o more
    OBVIOUS
<1> HIDE DEF now
<1>3. \A i \in DOMAIN inbox' :
          AsksAt(i, x)' =>
              \/ i \in DOMAIN inbox /\ AsksAt(i, x)
              \/ i = Len(now) + 1 /\ 1 \in DOMAIN more /\ more[1].exchange = x
  <2>1. \A i \in DOMAIN inbox' :
            \/ i \in DOMAIN now /\ inbox'[i] = now[i]
            \/ i = Len(now) + 1 /\ 1 \in DOMAIN more /\ inbox'[i] = more[1]
      BY <1>1, <1>2
  <2> QED BY <1>1, <2>1 DEF AsksAt
<1>4. 1 \in DOMAIN more /\ more[1].exchange = x =>
          ~(Sent(x) \/ Acted(x) \/ Accepted(x) \/ Awaited(x) \/ Replied(x)')
    OBVIOUS
<1>5. \A i, j \in DOMAIN inbox' : AsksAt(i, x)' /\ AsksAt(j, x)' => i = j
    BY <1>3, <1>4 DEF Once, Sent
<1>6. Sent(x)' => Sent(x) \/ (1 \in DOMAIN more /\ more[1].exchange = x)
    BY <1>3 DEF Sent
<1>7. (Acted(x)' <=> Acted(x)) /\ (Accepted(x)' <=> Accepted(x))
      /\ (Awaited(x)' <=> Awaited(x)) /\ (Replied(x)' => Replied(x))
    BY DEF Acted, Accepted, Awaited, Replied
<1>8. /\ \A i, j \in DOMAIN actions' :
            actions'[i].exchange = x /\ actions'[j].exchange = x => i = j
      /\ \A r, s \in replies' : r.exchange = x /\ s.exchange = x => r = s
    BY DEF Once
<1> QED BY <1>4, <1>5, <1>6, <1>7, <1>8 DEF Once

\* What leave writes.
LEMMA AbandonWrites ==
    ASSUME TypeOK, NEW STATE X, NEW STATE more, more \in Seq(Runtime!Requests),
           Bridge!Abandon(X, more)
    PROVE  \E quiet \in Seq(Runtime!Requests) :
              /\ inbox' = (inbox \o quiet) \o more
              /\ Quiet(quiet)
              /\ Bridge!Abortable =>
                    \E i \in DOMAIN quiet :
                        /\ quiet[i].path = "close"
                        /\ quiet[i].exchange = Head(queue).exchange
<1> DEFINE closes == Bridge!Closes(Bridge!Abortable, Head(queue).exchange)
           cancels == IF installId = 0 THEN <<>>
                      ELSE <<Bridge!Request("cancel", 0, owner.reservationId,
                                            installId)>>
           quiet == closes \o cancels
<1>1. closes \in Seq(Runtime!Requests)
  <2>1. Bridge!Abortable => Head(queue).exchange \in Nat
      BY HeadOfQueue DEF Bridge!Abortable, Bridge!AtStage
  <2>2. Bridge!Abortable \in BOOLEAN
      BY DEF Bridge!Abortable, Bridge!AtStage
  <2> QED BY <2>1, <2>2, ClosesTyped
<1>2. cancels \in Seq(Runtime!Requests)
  <2>1. owner.reservationId \in Nat /\ installId \in 0..MaxInstalls
      BY DEF TypeOK, Bridge!TypeOK
  <2>2. Bridge!Request("cancel", 0, owner.reservationId, installId)
            \in Runtime!Requests
      BY <2>1, RequestTyped
  <2> QED BY <2>2, OneTyped, NothingTyped
<1>3. inbox' = ((inbox \o closes) \o cancels) \o more
    BY DEF Bridge!Abandon
<1>4. /\ \A i \in DOMAIN closes : closes[i].path = "close"
      /\ Bridge!Abortable =>
            1 \in DOMAIN closes /\ closes[1].exchange = Head(queue).exchange
    BY DEF Bridge!Closes, Bridge!Request
<1>5. \A i \in DOMAIN cancels :
          cancels[i].path = "cancel" /\ cancels[i].exchange = 0
    BY DEF Bridge!Request
<1>6. inbox \in Seq(Runtime!Requests)
    BY DEF TypeOK, Runtime!TypeOK
<1> HIDE DEF closes, cancels
<1>7. inbox' = (inbox \o quiet) \o more /\ quiet \in Seq(Runtime!Requests)
  <2>1. (inbox \o closes) \o cancels = inbox \o quiet
      BY <1>1, <1>2, <1>6, Associative
  <2>2. quiet \in Seq(Runtime!Requests)
      BY <1>1, <1>2, Concatenated
  <2> QED BY <1>3, <2>1, <2>2
<1>8. Quiet(quiet)
    BY <1>1, <1>2, <1>4, <1>5, Concatenated DEF Quiet
<1>9. Bridge!Abortable =>
          \E i \in DOMAIN quiet :
              /\ quiet[i].path = "close"
              /\ quiet[i].exchange = Head(queue).exchange
  <2> SUFFICES ASSUME Bridge!Abortable
               PROVE  1 \in DOMAIN quiet /\ quiet[1] = closes[1]
      BY <1>4
  <2> QED BY <1>1, <1>2, <1>4, Concatenated
<1> HIDE DEF quiet
<1> QED BY <1>7, <1>8, <1>9

\* A connection that is not in use is in none of these places.
LEMMA FreshIsFree ==
    ASSUME Bridge!Room
    PROVE  LET x == Bridge!Fresh
           IN  /\ x \in Nat \ {0}
               /\ ~(Sent(x) \/ Acted(x) \/ Accepted(x) \/ Awaited(x)
                    \/ Replied(x))
<1> DEFINE x == Bridge!Fresh
<1>1. x \in Bridge!Free
    BY DEF Bridge!Room, Bridge!Fresh
<1> HIDE DEF x
<1>2. x \in Nat \ {0} /\ x \notin Runtime!Exchanges
      /\ x \notin {r.exchange : r \in replies}
    BY <1>1 DEF Bridge!Free
<1> QED
  BY <1>2
  DEF Runtime!Exchanges, Sent, Acted, Accepted, Awaited, Replied, AsksAt, x

\* Nothing is asked for.
LEMMA OnceIfNothingAsked ==
    ASSUME TypeOK, NEW x, Once(x), UNCHANGED <<inbox, runtime>>,
           replies' \subseteq replies
    PROVE  Once(x)'
<1>1. /\ \A i \in DOMAIN inbox : i \in Int /\ i + 0 = i
      /\ \A i \in DOMAIN actions : i \in Int /\ i + 0 = i
    BY DEF TypeOK, Runtime!TypeOK
<1>2. /\ \A i \in DOMAIN inbox' : i \in Int /\ i + 0 \in DOMAIN inbox
           /\ (AsksAt(i, x)' => AsksAt(i + 0, x))
      /\ \A i \in DOMAIN actions' : i \in Int /\ i + 0 \in DOMAIN actions
           /\ (actions'[i].exchange = x => actions[i + 0].exchange = x)
    BY <1>1 DEF AsksAt, runtime
<1>3. (Accepted(x)' => Accepted(x)) /\ (Awaited(x)' => Awaited(x))
    BY DEF Accepted, Awaited, runtime
<1> QED BY <1>2, <1>3, OnceIfFewer

\* Who holds the device loses it.
LEMMA OnceWhenAbandoned ==
    ASSUME TypeOK, NEW x \in Nat \ {0}, Once(x), UNCHANGED runtime,
           NEW STATE X, NEW STATE more, more \in Seq(Runtime!Requests),
           Len(more) =< 1,
           \A i \in DOMAIN more :
               more[i].exchange = x =>
                   ~(Sent(x) \/ Acted(x) \/ Accepted(x) \/ Awaited(x)
                     \/ Replied(x)),
           Bridge!Abandon(X, more)
    PROVE  Once(x)'
<1>1. PICK quiet \in Seq(Runtime!Requests) :
          inbox' = (inbox \o quiet) \o more /\ Quiet(quiet)
    BY AbandonWrites
<1>2. replies' \subseteq replies
    BY DEF Bridge!Abandon, Bridge!Unread
<1>3. Replied(x)' => Replied(x)
    BY <1>2 DEF Replied
<1>4. UNCHANGED <<actions, accepting, waiting>>
    BY DEF runtime
<1>5. inbox \in Seq(Runtime!Requests)
    BY DEF TypeOK, Runtime!TypeOK
<1> DEFINE m == more
<1>6. /\ m \in Seq(Runtime!Requests) /\ Len(m) =< 1
      /\ inbox' = (inbox \o quiet) \o m
      /\ \A i \in DOMAIN m :
            m[i].exchange = x =>
                ~(Sent(x) \/ Acted(x) \/ Accepted(x) \/ Awaited(x)
                  \/ Replied(x)')
    BY <1>1, <1>3
<1> HIDE DEF m
<1> QED BY <1>1, <1>2, <1>4, <1>5, <1>6, OnceIfAppended

LEMMA OneRequest ==
    ASSUME TypeOK,
           NEW STATE path, path \in {"command", "power", "screenshot", "start",
                               "cancel", "close"},
           NEW STATE y, y \in Nat, NEW STATE r, r \in Nat,
           NEW STATE id, id \in 0..MaxInstalls
    PROVE  LET more == <<Bridge!Request(path, y, r, id)>>
           IN  /\ more \in Seq(Runtime!Requests)
               /\ Len(more) = 1
               /\ more[1].path = path /\ more[1].exchange = y
               /\ more[1].reservation = r /\ more[1].id = id
               /\ \A i \in DOMAIN more : i = 1
<1> DEFINE e == Bridge!Request(path, y, r, id)
<1>1. e \in Runtime!Requests
    BY RequestTyped
<1>2. e.path = path /\ e.exchange = y /\ e.reservation = r /\ e.id = id
    BY DEF Bridge!Request
<1> HIDE DEF e
<1>3. LET more == <<e>>
      IN  more \in Seq(Runtime!Requests) /\ Len(more) = 1 /\ more[1] = e
          /\ \A i \in DOMAIN more : i = 1
    BY <1>1
<1> QED BY <1>2, <1>3 DEF e

LEMMA NoRequest ==
    /\ <<>> \in Seq(Runtime!Requests)
    /\ Len(<<>>) = 0
    /\ DOMAIN <<>> = {}
    /\ Quiet(<<>>)
BY DEF Quiet

\* One request goes to the runtime, and nothing else.
LEMMA OnceIfOneAsks ==
    ASSUME TypeOK, NEW x \in Nat \ {0}, Once(x), UNCHANGED runtime,
           NEW STATE e, e \in Runtime!Requests, inbox' = Append(inbox, e),
           replies' \subseteq replies,
           e.exchange = x =>
               ~(Sent(x) \/ Acted(x) \/ Accepted(x) \/ Awaited(x)
                 \/ Replied(x)')
    PROVE  Once(x)'
<1> DEFINE more == <<e>>
           quiet == <<>>
<1>1. inbox \in Seq(Runtime!Requests)
    BY DEF TypeOK, Runtime!TypeOK
<1>2. inbox' = (inbox \o quiet) \o more
    BY <1>1
<1>3. /\ more \in Seq(Runtime!Requests) /\ Len(more) =< 1
      /\ \A i \in DOMAIN more : more[i] = e
    OBVIOUS
<1>4. quiet \in Seq(Runtime!Requests) /\ Quiet(quiet)
    BY NoRequest
<1>5. UNCHANGED <<actions, accepting, waiting>>
    BY DEF runtime
<1> HIDE DEF more, quiet
<1>6. \A i \in DOMAIN more :
          more[i].exchange = x =>
              ~(Sent(x) \/ Acted(x) \/ Accepted(x) \/ Awaited(x)
                \/ Replied(x)')
    BY <1>3
<1> QED BY <1>1, <1>2, <1>3, <1>4, <1>5, <1>6, OnceIfAppended

\* What a bridge that dies leaves behind: its connections close.
LEMMA CrashWrites ==
    ASSUME TypeOK, Bridge!Crash
    PROVE  \E quiet \in Seq(Runtime!Requests) :
              /\ inbox' = (inbox \o quiet) \o <<>>
              /\ Quiet(quiet)
              /\ Bridge!Waits =>
                    \E i \in DOMAIN quiet :
                        /\ quiet[i].path = "close"
                        /\ quiet[i].exchange = Head(queue).exchange
<1> DEFINE asked   == Bridge!Closes(Bridge!Waits, Head(queue).exchange)
           looking == Bridge!Closes(polling.stage = "shot", polling.exchange)
           quiet   == asked \o looking
<1>0. inbox \in Seq(Runtime!Requests)
    BY DEF TypeOK, Runtime!TypeOK
<1>1. asked \in Seq(Runtime!Requests)
  <2>1. Bridge!Waits \in BOOLEAN
        /\ (Bridge!Waits => Head(queue).exchange \in Nat)
      BY HeadOfQueue DEF Bridge!Waits, Bridge!AtStage
  <2> QED BY <2>1, ClosesTyped
<1>2. looking \in Seq(Runtime!Requests)
  <2>1. polling.stage = "shot" => polling.exchange \in Nat
      BY DEF TypeOK, Bridge!TypeOK, Bridge!Pollings, Bridge!Idle
  <2> QED BY <2>1, ClosesTyped
<1>3. inbox' = (inbox \o asked) \o looking
    BY DEF Bridge!Crash
<1>4. /\ \A i \in DOMAIN asked : asked[i].path = "close"
      /\ \A i \in DOMAIN looking : looking[i].path = "close"
      /\ Bridge!Waits =>
            1 \in DOMAIN asked /\ asked[1].exchange = Head(queue).exchange
    BY DEF Bridge!Closes, Bridge!Request
<1> HIDE DEF asked, looking
<1>5. quiet \in Seq(Runtime!Requests) /\ Quiet(quiet)
    BY <1>1, <1>2, <1>4, Concatenated DEF Quiet
<1>6. inbox' = (inbox \o quiet) \o <<>>
  <2>1. inbox \o quiet = inbox'
      BY <1>0, <1>1, <1>2, <1>3, Associative
  <2>2. inbox \o quiet \in Seq(Runtime!Requests)
      BY <1>0, <1>5, Concatenated
  <2> QED BY <2>1, <2>2
<1>7. Bridge!Waits =>
          \E i \in DOMAIN quiet :
              /\ quiet[i].path = "close"
              /\ quiet[i].exchange = Head(queue).exchange
  <2> SUFFICES ASSUME Bridge!Waits
               PROVE  1 \in DOMAIN quiet /\ quiet[1] = asked[1]
      BY <1>4
  <2> QED BY <1>1, <1>2, <1>4, Concatenated
<1> HIDE DEF quiet
<1> QED BY <1>5, <1>6, <1>7

LEMMA TimeOutWrites ==
    ASSUME TypeOK, Bridge!TimeOut
    PROVE  \E quiet \in Seq(Runtime!Requests) :
              /\ inbox' = (inbox \o quiet) \o <<>>
              /\ Quiet(quiet)
              /\ \E i \in DOMAIN quiet :
                    /\ quiet[i].path = "close"
                    /\ quiet[i].exchange = Head(queue).exchange
<1> DEFINE quiet == Bridge!Closes(TRUE, Head(queue).exchange)
<1>0. inbox \in Seq(Runtime!Requests)
    BY DEF TypeOK, Runtime!TypeOK
<1>1. quiet \in Seq(Runtime!Requests)
  <2>1. Head(queue).exchange \in Nat
      BY HeadOfQueue DEF Bridge!TimeOut, Bridge!Waits, Bridge!AtStage
  <2> QED BY <2>1, ClosesTyped
<1>2. /\ Quiet(quiet)
      /\ 1 \in DOMAIN quiet /\ quiet[1].path = "close"
      /\ quiet[1].exchange = Head(queue).exchange
    BY DEF Quiet, Bridge!Closes, Bridge!Request
<1>3. inbox' = inbox \o quiet
    BY DEF Bridge!TimeOut
<1> HIDE DEF quiet
<1>4. inbox' = (inbox \o quiet) \o <<>>
  <2>1. inbox \o quiet \in Seq(Runtime!Requests)
      BY <1>0, <1>1, Concatenated
  <2> QED BY <1>3, <2>1
<1> QED BY <1>1, <1>2, <1>4

LEMMA OnceAtBridge ==
    ASSUME TypeOK, NEW x \in Nat \ {0}, Once(x), BridgeStep
    PROVE  Once(x)'
<1> DEFINE nothing == <<>>
<1>r. UNCHANGED runtime /\ inbox \in Seq(Runtime!Requests)
    BY DEF BridgeStep, TypeOK, Runtime!TypeOK
<1>n. nothing \in Seq(Runtime!Requests) /\ Len(nothing) =< 1
      /\ Quiet(nothing) /\ DOMAIN nothing = {}
    BY NoRequest
<1>a. ASSUME NEW STATE X, Bridge!Abandon(X, nothing)
      PROVE  Once(x)'
  <2> HIDE DEF nothing
  <2> QED BY <1>a, <1>n, <1>r, OnceWhenAbandoned
<1>q. ASSUME UNCHANGED inbox, replies' \subseteq replies PROVE Once(x)'
    BY <1>q, <1>r, OnceIfNothingAsked
<1>1. ASSUME NEW u, Bridge!ReceiveGroup(u) \/ Bridge!JoinMatched(u)
      PROVE  Once(x)'
    BY <1>1, <1>q DEF Bridge!ReceiveGroup, Bridge!JoinMatched
<1>2. ASSUME NEW r, Bridge!ReceiveUngroup(r) PROVE Once(x)'
    BY <1>2, <1>a DEF Bridge!ReceiveUngroup
<1>3. CASE Bridge!Disconnect
    BY <1>3, <1>a DEF Bridge!Disconnect, Bridge!Absent
<1>4. CASE Bridge!Register \/ Bridge!PollBegins \/ Bridge!KeptAlive
           \/ Bridge!Upgrade \/ Bridge!Watch
    BY <1>4, <1>q
    DEF Bridge!Register, Bridge!PollBegins, Bridge!KeptAlive, Bridge!Upgrade,
        Bridge!Watch
<1>5. CASE Bridge!Crash
  <2>1. PICK quiet \in Seq(Runtime!Requests) :
            inbox' = (inbox \o quiet) \o nothing /\ Quiet(quiet)
      BY <1>5, CrashWrites
  <2>2. replies' \subseteq replies
      BY <1>5 DEF Bridge!Crash
  <2> HIDE DEF nothing
  <2> QED BY <1>n, <1>r, <2>1, <2>2, OnceIfAppended DEF runtime
<1>6. CASE Bridge!Polled
  <2>1. CASE Bridge!Absent({}, <<>>) \/ Bridge!PollGoesOn
      BY <1>a, <1>q, <2>1 DEF Bridge!Absent, Bridge!PollGoesOn
  <2>2. CASE /\ Bridge!Room
             /\ Bridge!Absent({}, <<Bridge!Request("screenshot", Bridge!Fresh, 0, 0)>>)
    <3> DEFINE more == <<Bridge!Request("screenshot", Bridge!Fresh, 0, 0)>>
               y == Bridge!Fresh
               none == {}
    <3>1. y \in Nat
          /\ ~(Sent(y) \/ Acted(y) \/ Accepted(y) \/ Awaited(y) \/ Replied(y))
        BY <2>2, FreshIsFree
    <3>2. /\ more \in Seq(Runtime!Requests) /\ Len(more) =< 1
          /\ \A i \in DOMAIN more : more[i].exchange = y
        BY <3>1, OneRequest, ZeroIsAnId
    <3>3. Bridge!Abandon(none, more)
        BY <2>2 DEF Bridge!Absent
    <3> HIDE DEF more, y, none
    <3>4. \A i \in DOMAIN more :
              more[i].exchange = x =>
                  ~(Sent(x) \/ Acted(x) \/ Accepted(x) \/ Awaited(x)
                    \/ Replied(x))
        BY <3>1, <3>2
    <3> QED BY <1>r, <3>2, <3>3, <3>4, OnceWhenAbandoned
  <2> QED BY <1>6, <2>1, <2>2 DEF Bridge!Polled
<1>7. CASE Bridge!Shot
  <2>1. CASE Bridge!Absent({polling.exchange}, <<>>)
    <3> DEFINE X == {polling.exchange}
    <3>1. Bridge!Abandon(X, nothing)
        BY <2>1 DEF Bridge!Absent
    <3> HIDE DEF X, nothing
    <3> QED BY <1>a, <3>1
  <2>2. CASE UNCHANGED inbox /\ replies' \subseteq replies
      BY <1>q, <2>2
  <2> QED BY <1>7, <2>1, <2>2 DEF Bridge!Shot
<1>8. ASSUME NEW kind, NEW id, Bridge!Enqueue(kind, id) PROVE Once(x)'
    BY <1>8, <1>q DEF Bridge!Enqueue
<1>9. CASE Bridge!Drop \/ Bridge!Check
    BY <1>9, <1>q DEF Bridge!Drop, Bridge!Check
<1>10. CASE Bridge!Checked
  <2> DEFINE op == Head(queue)
             path == IF op.kind = "install" THEN "start" ELSE op.kind
             y == Bridge!Fresh
             e == Bridge!Request(path, y, op.reservation, op.id)
  <2>1. CASE UNCHANGED <<inbox, replies>>
      BY <1>q, <2>1
  <2>2. CASE /\ op.kind # "status" /\ queue # <<>>
             /\ Bridge!Room
             /\ inbox' = Append(inbox, e)
             /\ UNCHANGED replies
    <3>1. y \in Nat
          /\ ~(Sent(y) \/ Acted(y) \/ Accepted(y) \/ Awaited(y) \/ Replied(y))
        BY <2>2, FreshIsFree
    <3>2. op.id \in 0..MaxInstalls /\ op.reservation \in Nat
          /\ op \in Bridge!Operations
        BY <2>2, HeadOfQueue
    <3>3. path \in {"command", "power", "start", "cancel"}
        BY <2>2, <3>2 DEF Bridge!Operations
    <3>4. e \in Runtime!Requests /\ e.exchange = y
      <4> HIDE DEF path, y, op
      <4>1. e \in Runtime!Requests
          BY <3>1, <3>2, <3>3, RequestTyped
      <4> QED BY <4>1 DEF Bridge!Request
    <3> HIDE DEF e, y
    <3>5. replies' \subseteq replies /\ (Replied(x)' <=> Replied(x))
          /\ inbox' = Append(inbox, e)
        BY <2>2 DEF Replied
    <3> QED BY <1>r, <3>1, <3>4, <3>5, OnceIfOneAsks
  <2> QED BY <1>10, <2>1, <2>2 DEF Bridge!Checked, Bridge!AtStage
<1>11. CASE Bridge!Answered
  <2> DEFINE op == Head(queue)
             e == Bridge!Request("cancel", op.exchange, op.reservation, op.id)
  <2>1. PICK r \in Bridge!AnswerTo(op.exchange) :
            /\ replies' = replies \ {r}
            /\ UNCHANGED inbox \/ inbox' = Append(inbox, e)
      BY <1>11 DEF Bridge!Answered, Bridge!InstallAnswered
  <2>2. CASE UNCHANGED inbox
      BY <1>q, <2>1, <2>2
  <2>3. CASE inbox' = Append(inbox, e)
    <3>1. r \in replies /\ r.exchange = op.exchange
        BY <2>1 DEF Bridge!AnswerTo
    <3>2. op.id \in 0..MaxInstalls /\ op.reservation \in Nat
          /\ op.exchange \in Nat
        BY <1>11, HeadOfQueue
        DEF Bridge!Answered, Bridge!Waits, Bridge!AtStage
    <3>3. e \in Runtime!Requests /\ e.exchange = op.exchange
      <4> HIDE DEF op
      <4>1. e \in Runtime!Requests
          BY <3>2, RequestTyped
      <4> QED BY <4>1 DEF Bridge!Request
    <3> HIDE DEF e, op
    <3>4. op.exchange = x =>
              ~(Sent(x) \/ Acted(x) \/ Accepted(x) \/ Awaited(x)
                \/ Replied(x)')
        BY <2>1, <3>1 DEF Once, Replied
    <3>5. replies' \subseteq replies
        BY <2>1
    <3> QED BY <1>r, <2>3, <3>3, <3>4, <3>5, OnceIfOneAsks
  <2> QED BY <2>1, <2>2, <2>3
<1>12. CASE Bridge!TimeOut
  <2>1. PICK quiet \in Seq(Runtime!Requests) :
            inbox' = (inbox \o quiet) \o nothing /\ Quiet(quiet)
      BY <1>12, TimeOutWrites
  <2>2. replies' \subseteq replies
      BY <1>12 DEF Bridge!TimeOut, Bridge!Unread
  <2> HIDE DEF nothing
  <2> QED BY <1>n, <1>r, <2>1, <2>2, OnceIfAppended DEF runtime
<1> QED
  BY <1>1, <1>2, <1>3, <1>4, <1>5, <1>6, <1>7, <1>8, <1>9, <1>10, <1>11, <1>12
  DEF BridgeStep, Bridge!Next, Bridge!Operate, Bridge!Poll

LEMMA AskedOnceKept ==
    ASSUME TypeOK, AskedOnce, [Next]_vars
    PROVE  AskedOnce'
<1>1. CASE BridgeStep
  <2>1. replies' \subseteq replies
    <3>1. \A X, more : Bridge!Abandon(X, more) => replies' \subseteq replies
        BY DEF Bridge!Abandon, Bridge!Unread
    <3>2. Bridge!Operate => replies' \subseteq replies
        BY DEF Bridge!Operate, Bridge!Enqueue, Bridge!Drop, Bridge!Check,
               Bridge!Checked, Bridge!Answered, Bridge!InstallAnswered,
               Bridge!TimeOut, Bridge!Unread
    <3>3. Bridge!Poll => replies' \subseteq replies
        BY <3>1
        DEF Bridge!Poll, Bridge!PollBegins, Bridge!Polled, Bridge!PollGoesOn,
            Bridge!Absent, Bridge!Shot, Bridge!KeptAlive
    <3> QED
      BY <1>1, <3>1, <3>2, <3>3
      DEF BridgeStep, Bridge!Next, Bridge!ReceiveGroup, Bridge!JoinMatched,
          Bridge!ReceiveUngroup, Bridge!Disconnect, Bridge!Absent,
          Bridge!Register, Bridge!Crash, Bridge!Upgrade, Bridge!Watch
  <2>2. ~Replied(0)'
      BY <2>1 DEF AskedOnce, Replied
  <2>3. \A x \in Nat \ {0} : Once(x)'
      BY <1>1, OnceAtBridge DEF AskedOnce
  <2> QED BY <2>2, <2>3 DEF AskedOnce
<1>2. CASE RuntimeStep
  <2>1. ~Replied(0)'
    <3>0. ~Replied(0)
        BY DEF AskedOnce
    <3>1. CASE UNCHANGED replies
        BY <3>0, <3>1 DEF Replied
    <3>2. ASSUME NEW X, NEW ok, NEW id, replies' = Runtime!Answers(X, ok, id)
          PROVE  ~Replied(0)'
        BY <3>0, <3>2, NobodyIsAnswered
    <3>3. \A a, ok : Runtime!Over(a, ok) =>
                replies' = Runtime!Answers({a.exchange}, ok, 0)
        BY DEF Runtime!Over
    <3>4. UNCHANGED replies
          \/ \E X, ok, id : replies' = Runtime!Answers(X, ok, id)
      <4>1. Runtime!Serve => UNCHANGED replies
                \/ \E X, ok, id : replies' = Runtime!Answers(X, ok, id)
          BY DEF Runtime!Serve, Runtime!Hangup, Runtime!Execute, Runtime!Start,
                 Runtime!Cancel
      <4>2. Runtime!Queue => UNCHANGED replies
                \/ \E X, ok, id : replies' = Runtime!Answers(X, ok, id)
          BY <3>3 DEF Runtime!Queue, Runtime!Begin, Runtime!Refuse, Runtime!End
      <4>3. Runtime!Installing \/ Runtime!Interrupt => UNCHANGED replies
                \/ \E X, ok, id : replies' = Runtime!Answers(X, ok, id)
          BY DEF Runtime!Installing, Runtime!Accepted, Runtime!NotAccepted,
                 Runtime!Downloaded, Runtime!Installed, Runtime!InstallFails,
                 Runtime!Saved, Runtime!Interrupt
      <4>4. Runtime!Restart =>
                \E X, ok, id : replies' = Runtime!Answers(X, ok, id)
          BY DEF Runtime!Restart
      <4> QED
        BY <1>2, <4>1, <4>2, <4>3, <4>4
        DEF RuntimeStep, Runtime!Next, Runtime!Prepared, Runtime!PrepareFails,
            Runtime!ProbeFails, Runtime!GoDown, Runtime!Drained, Runtime!Rested
    <3> QED BY <3>1, <3>2, <3>4
  <2>2. \A x \in Nat \ {0} : Once(x)'
      BY <1>2, OnceAtRuntime DEF AskedOnce, RuntimeStep
  <2> QED BY <2>1, <2>2 DEF AskedOnce
<1>3. CASE UNCHANGED vars
  <2>1. ASSUME NEW x \in Nat \ {0} PROVE Once(x)'
    <3>1. Once(x) /\ UNCHANGED <<inbox, runtime>> /\ replies' \subseteq replies
        BY <1>3 DEF AskedOnce, vars
    <3> QED BY <3>1, OnceIfNothingAsked
  <2>2. ~Replied(0)'
      BY <1>3 DEF AskedOnce, Replied, vars
  <2> QED BY <2>1, <2>2 DEF AskedOnce
<1> QED BY <1>1, <1>2, <1>3 DEF Next
-----------------------------------------------------------------------------
(***************************************************************************)
(* Releasing a device takes effect.                                        *)
(***************************************************************************)
Forwarded == {"command", "power"}

\* The first operation has asked for this.
Wants(x, r, kind) ==
    /\ Bridge!AtStage("requesting")
    /\ Head(queue).exchange = x
    /\ Head(queue).reservation = r
    /\ Head(queue).kind = kind

\* An operation goes on when it is the first.
OnlyFirst == \A i \in DOMAIN queue : i # 1 => queue[i].stage = "queued"

\* Who asked for what is under way holds the device; an installation goes on.
FirstIsHeld ==
    Bridge!Waits /\ Head(queue).kind # "install" =>
        Bridge!AtStage("requesting") /\ Bridge!Held(Head(queue).reservation)

\* What is to be done at the phone is what the first operation asks for, or
\* the runtime will read that its connection has closed.
ActionsAreWanted ==
    \A i \in DOMAIN actions :
        actions[i].path \in Forwarded /\ ~actions[i].aborted =>
            \/ ClosePending(actions[i].exchange)
            \/ Wants(actions[i].exchange, actions[i].reservation, actions[i].path)

ClosesLater(i) ==
    \E j \in DOMAIN inbox :
        j > i /\ inbox[j].path = "close" /\ inbox[j].exchange = inbox[i].exchange

RequestsAreWanted ==
    \A i \in DOMAIN inbox :
        inbox[i].path \in Forwarded =>
            \/ ClosesLater(i)
            \/ Wants(inbox[i].exchange, inbox[i].reservation, inbox[i].path)

ViewersAreOwners == viewers \subseteq {owner.reservationId} \ {0}

HeldInv ==
    /\ OnlyFirst
    /\ FirstIsHeld
    /\ ActionsAreWanted
    /\ RequestsAreWanted
    /\ ViewersAreOwners

\* What is wanted stays so, or its connection closes.
LEMMA WantedKept ==
    ASSUME TypeOK, ActionsAreWanted, RequestsAreWanted, UNCHANGED actions,
           NEW quiet \in Seq(Runtime!Requests), NEW more \in Seq(Runtime!Requests),
           inbox' = (inbox \o quiet) \o more,
           Quiet(quiet),
           \A i \in DOMAIN more :
               more[i].path \in Forwarded =>
                   Wants(more[i].exchange, more[i].reservation, more[i].path)',
           \A x, r, kind :
               Wants(x, r, kind) /\ kind \in Forwarded /\ (Sent(x) \/ Acted(x)) =>
                   \/ Wants(x, r, kind)'
                   \/ \E i \in DOMAIN quiet :
                          quiet[i].path = "close" /\ quiet[i].exchange = x
    PROVE  ActionsAreWanted' /\ RequestsAreWanted'
<1> DEFINE now == inbox \o quiet
<1>0. inbox \in Seq(Runtime!Requests)
    BY DEF TypeOK, Runtime!TypeOK
<1>1. now \in Seq(Runtime!Requests) /\ inbox' = now \o more
    BY <1>0, Concatenated
<1>2. /\ \A i \in DOMAIN inbox : i \in DOMAIN now /\ now[i] = inbox[i]
      /\ \A i \in DOMAIN quiet :
            Len(inbox) + i \in DOMAIN now /\ now[Len(inbox) + i] = quiet[i]
      /\ \A i \in DOMAIN now :
            \/ i \in DOMAIN inbox /\ now[i] = inbox[i]
            \/ i - Len(inbox) \in DOMAIN quiet /\ now[i] = quiet[i - Len(inbox)]
      /\ Len(inbox) \in Nat
      /\ \A i \in DOMAIN inbox : i \in Nat /\ i =< Len(inbox)
      /\ \A i \in DOMAIN quiet : i \in Nat /\ i > 0
    BY <1>0, Concatenated
<1> HIDE DEF now
<1>3. /\ \A i \in DOMAIN now : i \in DOMAIN inbox' /\ inbox'[i] = now[i]
      /\ \A i \in DOMAIN inbox' :
            \/ i \in DOMAIN now /\ inbox'[i] = now[i]
            \/ i - Len(now) \in DOMAIN more /\ inbox'[i] = more[i - Len(now)]
    BY <1>1, Concatenated
\* What was read before is there still, and what is written comes after it.
<1>4. \A i \in DOMAIN inbox : i \in DOMAIN inbox' /\ inbox'[i] = inbox[i]
    BY <1>2, <1>3
<1>5. \A i \in DOMAIN quiet : \E j \in DOMAIN inbox' :
          inbox'[j] = quiet[i] /\ \A k \in DOMAIN inbox : j > k
  <2> SUFFICES ASSUME NEW i \in DOMAIN quiet
               PROVE  LET j == Len(inbox) + i
                      IN  /\ j \in DOMAIN inbox' /\ inbox'[j] = quiet[i]
                          /\ \A k \in DOMAIN inbox : j > k
      OBVIOUS
  <2> QED BY <1>2, <1>3
<1>6. \A i \in DOMAIN inbox' : inbox'[i].path \in Forwarded =>
          \/ i \in DOMAIN inbox /\ inbox'[i] = inbox[i]
          \/ \E j \in DOMAIN more : inbox'[i] = more[j]
  <2>1. \A i \in DOMAIN quiet : quiet[i].path \notin Forwarded
      BY DEF Quiet, Forwarded
  <2>2. \A i \in DOMAIN now :
            \/ i \in DOMAIN inbox /\ now[i] = inbox[i]
            \/ now[i].path \notin Forwarded
      BY <1>2, <2>1
  <2> QED BY <1>3, <2>2
<1>7. \A x : ClosePending(x) => ClosePending(x)'
    BY <1>4 DEF ClosePending
<1>8. ActionsAreWanted'
  <2> SUFFICES ASSUME NEW i \in DOMAIN actions, actions[i].path \in Forwarded,
                      ~actions[i].aborted,
                      NEW a, a = actions[i], NEW x, x = a.exchange
               PROVE  ClosePending(x)' \/ Wants(x, a.reservation, a.path)'
      BY DEF ActionsAreWanted
  <2>1. ClosePending(x) \/ Wants(x, a.reservation, a.path)
      BY DEF ActionsAreWanted
  <2>2. Acted(x) /\ a.path \in Forwarded
      BY DEF Acted
  <2>3. ASSUME NEW j \in DOMAIN quiet, quiet[j].path = "close",
               quiet[j].exchange = x
        PROVE  ClosePending(x)'
    <3>1. PICK k \in DOMAIN inbox' : inbox'[k] = quiet[j]
        BY <1>5
    <3> QED BY <2>3, <3>1 DEF ClosePending
  <2> QED BY <1>7, <2>1, <2>2, <2>3
<1>9. RequestsAreWanted'
  <2> SUFFICES ASSUME NEW i \in DOMAIN inbox', inbox'[i].path \in Forwarded,
                      NEW r, r = inbox'[i], NEW x, x = r.exchange
               PROVE  \/ \E j \in DOMAIN inbox' :
                             j > i /\ inbox'[j].path = "close"
                             /\ inbox'[j].exchange = x
                      \/ Wants(x, r.reservation, r.path)'
      BY DEF RequestsAreWanted, ClosesLater
  <2>1. CASE \E j \in DOMAIN more : inbox'[i] = more[j]
      BY <2>1
  <2>2. CASE i \in DOMAIN inbox /\ inbox'[i] = inbox[i]
    <3>1. ClosesLater(i) \/ Wants(x, r.reservation, r.path)
        BY <2>2 DEF RequestsAreWanted
    <3>2. CASE ClosesLater(i)
        BY <1>4, <2>2, <3>2 DEF ClosesLater
    <3>3. CASE Wants(x, r.reservation, r.path)
      <4>1. Sent(x) /\ r.path \in Forwarded
          BY <2>2 DEF Sent, AsksAt, Forwarded
      <4>2. \/ Wants(x, r.reservation, r.path)'
            \/ \E j \in DOMAIN quiet :
                  quiet[j].path = "close" /\ quiet[j].exchange = x
          BY <3>3, <4>1
      <4>3. ASSUME NEW j \in DOMAIN quiet, quiet[j].path = "close",
                   quiet[j].exchange = x
            PROVE  \E k \in DOMAIN inbox' :
                       k > i /\ inbox'[k].path = "close"
                       /\ inbox'[k].exchange = x
        <5>1. PICK k \in DOMAIN inbox' :
                  inbox'[k] = quiet[j] /\ \A l \in DOMAIN inbox : k > l
            BY <1>5
        <5> QED BY <2>2, <4>3, <5>1
      <4> QED BY <4>2, <4>3
    <3> QED BY <3>1, <3>2, <3>3
  <2> QED BY <1>6, <2>1, <2>2
<1> QED BY <1>8, <1>9

LEMMA QueueDrops ==
    ASSUME TypeOK, OnlyFirst, queue # <<>>, queue' = Tail(queue)
    PROVE  OnlyFirst' /\ FirstIsHeld'
<1>1. queue \in Seq(Bridge!Operations)
    BY DEF TypeOK, Bridge!TypeOK
<1>2. \A i \in DOMAIN queue' :
          i \in Nat \ {0} /\ i + 1 \in DOMAIN queue /\ queue'[i] = queue[i + 1]
    BY <1>1, HeadTail
<1>3. \A i \in DOMAIN queue' : queue'[i].stage = "queued"
    BY <1>2 DEF OnlyFirst
<1>4. queue' # <<>> => Head(queue').stage = "queued"
  <2>1. queue' \in Seq(Bridge!Operations)
      BY HeadOfQueue
  <2>2. queue' # <<>> => Head(queue') = queue'[1] /\ 1 \in DOMAIN queue'
      BY <2>1
  <2> QED BY <1>3, <2>2
<1> QED
  BY <1>3, <1>4 DEF OnlyFirst, FirstIsHeld, Bridge!Waits, Bridge!AtStage

LEMMA QueueGoesOn ==
    ASSUME TypeOK, OnlyFirst, queue # <<>>, NEW STATE next,
           queue' = [queue EXCEPT ![1] = next]
    PROVE  /\ OnlyFirst'
           /\ queue' # <<>>
           /\ Head(queue') = next
<1>1. queue \in Seq(Bridge!Operations)
    BY DEF TypeOK, Bridge!TypeOK
<1>2. DOMAIN queue' = DOMAIN queue /\ queue' # <<>> /\ Head(queue') = next
      /\ \A i \in DOMAIN queue : i # 1 => queue'[i] = queue[i]
    BY <1>1
<1> QED BY <1>2 DEF OnlyFirst

LEMMA WantsIsFirst ==
    ASSUME NEW x, NEW r, NEW kind, Wants(x, r, kind), kind \in Forwarded
    PROVE  /\ Bridge!Abortable
           /\ Bridge!Waits
           /\ Head(queue).exchange = x
           /\ Head(queue).kind = kind
           /\ Head(queue).stage = "requesting"
BY DEF Wants, Forwarded, Bridge!Abortable, Bridge!Waits, Bridge!AtStage

\* Nobody notices.
LEMMA HeldIfUnmoved ==
    ASSUME HeldInv, UNCHANGED <<queue, inbox, actions, owner, viewers>>
    PROVE  HeldInv'
<1>1. \A x : ClosePending(x)' <=> ClosePending(x)
    BY DEF ClosePending
<1>2. \A x, r, kind : Wants(x, r, kind)' <=> Wants(x, r, kind)
    BY DEF Wants, Bridge!AtStage
<1>3. \A i : ClosesLater(i)' <=> ClosesLater(i)
    BY DEF ClosesLater
<1>4. ActionsAreWanted'
    BY <1>1, <1>2 DEF HeldInv, ActionsAreWanted
<1>5. RequestsAreWanted'
    BY <1>2, <1>3 DEF HeldInv, RequestsAreWanted
<1>6. OnlyFirst' /\ FirstIsHeld' /\ ViewersAreOwners'
    BY DEF HeldInv, OnlyFirst, FirstIsHeld, ViewersAreOwners, Bridge!Waits,
           Bridge!AtStage, Bridge!Held
<1> QED BY <1>4, <1>5, <1>6 DEF HeldInv

\* Nothing more is written.
LEMMA WantedIfUnasked ==
    ASSUME TypeOK, HeldInv, UNCHANGED <<inbox, actions>>,
           \A x, r, kind :
               Wants(x, r, kind) /\ kind \in Forwarded /\ (Sent(x) \/ Acted(x)) =>
                   Wants(x, r, kind)'
    PROVE  ActionsAreWanted' /\ RequestsAreWanted'
<1> DEFINE quiet == <<>>
           more == <<>>
<1>1. /\ quiet \in Seq(Runtime!Requests) /\ Quiet(quiet)
      /\ more \in Seq(Runtime!Requests) /\ DOMAIN more = {}
    BY NoRequest
<1>2. inbox' = (inbox \o quiet) \o more
    BY DEF TypeOK, Runtime!TypeOK
<1> HIDE DEF quiet, more
<1> QED BY <1>1, <1>2, WantedKept DEF HeldInv

\* The device is released.
LEMMA HeldWhenAbandoned ==
    ASSUME TypeOK, HeldInv, UNCHANGED actions, NEW STATE X, NEW STATE more,
           more \in Seq(Runtime!Requests),
           \A i \in DOMAIN more : more[i].path \notin Forwarded,
           Bridge!Abandon(X, more)
    PROVE  HeldInv'
<1>0. queue \in Seq(Bridge!Operations)
    BY DEF TypeOK, Bridge!TypeOK
<1>1. PICK quiet \in Seq(Runtime!Requests) :
          /\ inbox' = (inbox \o quiet) \o more
          /\ Quiet(quiet)
          /\ Bridge!Abortable =>
                \E i \in DOMAIN quiet :
                    /\ quiet[i].path = "close"
                    /\ quiet[i].exchange = Head(queue).exchange
    BY AbandonWrites
<1>2. ActionsAreWanted' /\ RequestsAreWanted'
  <2> DEFINE m == more
  <2>1. /\ m \in Seq(Runtime!Requests) /\ inbox' = (inbox \o quiet) \o m
        /\ \A i \in DOMAIN m : m[i].path \notin Forwarded
      BY <1>1
  <2> HIDE DEF m
  <2>2. \A x, r, kind :
            Wants(x, r, kind) /\ kind \in Forwarded /\ (Sent(x) \/ Acted(x)) =>
                \E i \in DOMAIN quiet :
                    quiet[i].path = "close" /\ quiet[i].exchange = x
      BY <1>1, WantsIsFirst
  <2> QED BY <1>1, <2>1, <2>2, WantedKept DEF HeldInv
<1>3. OnlyFirst' /\ FirstIsHeld'
  <2>1. CASE Bridge!Abortable
    <3>1. queue # <<>> /\ queue' = Tail(queue)
        BY <2>1 DEF Bridge!Abandon, Bridge!Abortable, Bridge!AtStage
    <3> QED BY <3>1, QueueDrops DEF HeldInv
  <2>2. CASE ~Bridge!Abortable
    <3>1. queue' = queue
        BY <2>2 DEF Bridge!Abandon
    <3>2. Bridge!Waits => Head(queue).kind = "install"
        BY <2>2 DEF HeldInv, FirstIsHeld, Bridge!Abortable
    <3> QED
      BY <3>1, <3>2
      DEF HeldInv, OnlyFirst, FirstIsHeld, Bridge!Waits, Bridge!AtStage
  <2> QED BY <2>1, <2>2
<1>4. ViewersAreOwners'
    BY DEF Bridge!Abandon, ViewersAreOwners
<1> QED BY <1>2, <1>3, <1>4 DEF HeldInv

\* The first operation leaves the queue, and nothing that was asked for it is
\* left to be done.
LEMMA HeldWhenDropped ==
    ASSUME TypeOK, HeldInv, queue # <<>>, queue' = Tail(queue),
           UNCHANGED <<actions, inbox, owner, viewers>>,
           \A x, r, kind :
               Wants(x, r, kind) /\ kind \in Forwarded => ~(Sent(x) \/ Acted(x))
    PROVE  HeldInv'
<1>1. ActionsAreWanted' /\ RequestsAreWanted'
    BY WantedIfUnasked
<1>2. OnlyFirst' /\ FirstIsHeld'
    BY QueueDrops DEF HeldInv
<1>3. ViewersAreOwners'
    BY DEF HeldInv, ViewersAreOwners
<1> QED BY <1>1, <1>2, <1>3 DEF HeldInv

LEMMA HeldAtBridge ==
    ASSUME TypeOK, AskedOnce, HeldInv, BridgeStep
    PROVE  HeldInv'
<1> DEFINE op == Head(queue)
           nothing == <<>>
<1>r. UNCHANGED actions
    BY DEF BridgeStep, runtime
<1>n. nothing \in Seq(Runtime!Requests) /\ DOMAIN nothing = {}
    BY NoRequest
<1>a. ASSUME NEW STATE X, Bridge!Abandon(X, nothing)
      PROVE  HeldInv'
  <2> HIDE DEF nothing
  <2> QED BY <1>a, <1>n, <1>r, HeldWhenAbandoned
<1>1. ASSUME NEW u, Bridge!ReceiveGroup(u) PROVE HeldInv'
    BY <1>1, <1>r, HeldIfUnmoved DEF Bridge!ReceiveGroup, Bridge!screen
<1>2. ASSUME NEW u, Bridge!JoinMatched(u) PROVE HeldInv'
  <2>1. UNCHANGED <<queue, inbox, viewers>>
      BY <1>2 DEF Bridge!JoinMatched, Bridge!screen
  <2>2. CASE UNCHANGED owner
      BY <1>r, <2>1, <2>2, HeldIfUnmoved
  <2>3. CASE owner.reservationId = 0
    <3>1. ActionsAreWanted' /\ RequestsAreWanted'
        BY <1>r, <2>1, WantedIfUnasked DEF Wants, Bridge!AtStage
    <3>2. OnlyFirst'
        BY <2>1 DEF HeldInv, OnlyFirst
    <3>3. FirstIsHeld'
        BY <2>1, <2>3
        DEF HeldInv, FirstIsHeld, Bridge!Waits, Bridge!AtStage, Bridge!Held
    <3>4. ViewersAreOwners'
        BY <2>1, <2>3 DEF HeldInv, ViewersAreOwners
    <3> QED BY <3>1, <3>2, <3>3, <3>4 DEF HeldInv
  <2> QED
    BY <1>2, <2>2, <2>3 DEF Bridge!JoinMatched, Bridge!Join, Bridge!NoGroup
<1>3. ASSUME NEW r, Bridge!ReceiveUngroup(r) PROVE HeldInv'
    BY <1>3, <1>a DEF Bridge!ReceiveUngroup
<1>4. CASE Bridge!Disconnect
    BY <1>4, <1>a DEF Bridge!Disconnect, Bridge!Absent
<1>5. CASE Bridge!Register \/ Bridge!PollBegins \/ Bridge!KeptAlive
           \/ Bridge!Upgrade
    BY <1>5, <1>r, HeldIfUnmoved
    DEF Bridge!Register, Bridge!PollBegins, Bridge!KeptAlive, Bridge!Upgrade,
        Bridge!tenure, Bridge!screen
<1>6. CASE Bridge!Watch
  <2>1. UNCHANGED <<queue, inbox, owner>>
        /\ viewers' \subseteq viewers \cup ({owner.reservationId} \ {0})
      BY <1>6 DEF Bridge!Watch, Bridge!Authorized, Bridge!tenure, Bridge!Held
  <2>2. ActionsAreWanted' /\ RequestsAreWanted'
      BY <1>r, <2>1, WantedIfUnasked DEF Wants, Bridge!AtStage
  <2>3. OnlyFirst' /\ FirstIsHeld' /\ ViewersAreOwners'
      BY <2>1
      DEF HeldInv, OnlyFirst, FirstIsHeld, ViewersAreOwners, Bridge!Waits,
          Bridge!AtStage, Bridge!Held
  <2> QED BY <2>2, <2>3 DEF HeldInv
<1>7. CASE Bridge!Crash
  <2>1. PICK quiet \in Seq(Runtime!Requests) :
            /\ inbox' = (inbox \o quiet) \o nothing
            /\ Quiet(quiet)
            /\ Bridge!Waits =>
                  \E i \in DOMAIN quiet :
                      /\ quiet[i].path = "close"
                      /\ quiet[i].exchange = Head(queue).exchange
      BY <1>7, CrashWrites
  <2>2. \A x, r, kind :
            Wants(x, r, kind) /\ kind \in Forwarded /\ (Sent(x) \/ Acted(x)) =>
                \E i \in DOMAIN quiet :
                    quiet[i].path = "close" /\ quiet[i].exchange = x
      BY <2>1, WantsIsFirst
  <2>3. ActionsAreWanted' /\ RequestsAreWanted'
    <3> HIDE DEF nothing
    <3> QED BY <1>n, <1>r, <2>1, <2>2, WantedKept DEF HeldInv
  <2>4. queue' = <<>> /\ viewers' = {}
      BY <1>7 DEF Bridge!Crash
  <2>5. OnlyFirst' /\ FirstIsHeld' /\ ViewersAreOwners'
      BY <2>4
      DEF OnlyFirst, FirstIsHeld, ViewersAreOwners, Bridge!Waits, Bridge!AtStage
  <2> QED BY <2>3, <2>5 DEF HeldInv
<1>8. CASE Bridge!Polled
  <2>1. CASE Bridge!Absent({}, <<>>)
      BY <1>a, <2>1 DEF Bridge!Absent
  <2>2. CASE /\ Bridge!Room
             /\ Bridge!Absent({}, <<Bridge!Request("screenshot", Bridge!Fresh, 0, 0)>>)
    <3> DEFINE more == <<Bridge!Request("screenshot", Bridge!Fresh, 0, 0)>>
               none == {}
    <3>1. Bridge!Fresh \in Nat
        BY <2>2, FreshIsFree
    <3>2. /\ more \in Seq(Runtime!Requests)
          /\ \A i \in DOMAIN more : more[i].path = "screenshot"
        BY <3>1, OneRequest, ZeroIsAnId
    <3>3. Bridge!Abandon(none, more)
        BY <2>2 DEF Bridge!Absent
    <3> HIDE DEF more, none
    <3>4. \A i \in DOMAIN more : more[i].path \notin Forwarded
        BY <3>2 DEF Forwarded
    <3> QED BY <1>r, <3>2, <3>3, <3>4, HeldWhenAbandoned
  <2>3. CASE Bridge!PollGoesOn
    <3>1. CASE UNCHANGED <<Bridge!tenure, queue, Bridge!screen, inbox>>
        BY <1>r, <3>1, HeldIfUnmoved DEF Bridge!tenure, Bridge!screen
    <3> QED BY <1>a, <2>3, <3>1 DEF Bridge!PollGoesOn
  <2> QED BY <1>8, <2>1, <2>2, <2>3 DEF Bridge!Polled
<1>9. CASE Bridge!Shot
  <2>1. CASE Bridge!Absent({polling.exchange}, <<>>)
    <3> DEFINE X == {polling.exchange}
    <3>1. Bridge!Abandon(X, nothing)
        BY <2>1 DEF Bridge!Absent
    <3> HIDE DEF X, nothing
    <3> QED BY <1>a, <3>1
  <2>2. CASE UNCHANGED <<Bridge!tenure, queue, Bridge!screen, inbox>>
      BY <1>r, <2>2, HeldIfUnmoved DEF Bridge!tenure, Bridge!screen
  <2> QED BY <1>9, <2>1, <2>2 DEF Bridge!Shot
<1>10. ASSUME NEW kind, NEW id, Bridge!Enqueue(kind, id) PROVE HeldInv'
  <2> DEFINE o == Bridge!Operation(kind, id)
  <2>1. queue' = Append(queue, o) /\ UNCHANGED <<inbox, owner, viewers>>
      BY <1>10 DEF Bridge!Enqueue, Bridge!tenure, Bridge!screen
  <2>2. o.stage = "queued"
      BY DEF Bridge!Operation
  <2> HIDE DEF o
  <2>3. queue \in Seq(Bridge!Operations)
      BY DEF TypeOK, Bridge!TypeOK
  <2>4. /\ queue # <<>> => queue' # <<>> /\ Head(queue') = Head(queue)
        /\ queue = <<>> => queue' # <<>> /\ Head(queue') = o
        /\ \A i \in DOMAIN queue' :
              (i \in DOMAIN queue /\ queue'[i] = queue[i]) \/ queue'[i] = o
      BY <2>1, <2>3
  <2>5. ActionsAreWanted' /\ RequestsAreWanted'
      BY <1>r, <2>1, <2>4, WantedIfUnasked DEF Wants, Bridge!AtStage
  <2>6. OnlyFirst' /\ ViewersAreOwners'
      BY <2>1, <2>2, <2>4 DEF HeldInv, OnlyFirst, ViewersAreOwners
  <2>7. FirstIsHeld'
    <3>1. Bridge!Waits' => queue # <<>> /\ Bridge!Waits
        BY <2>2, <2>4 DEF Bridge!Waits, Bridge!AtStage
    <3> QED
      BY <2>1, <2>4, <3>1
      DEF HeldInv, FirstIsHeld, Bridge!Waits, Bridge!AtStage, Bridge!Held
  <2> QED BY <2>5, <2>6, <2>7 DEF HeldInv
\* The first operation leaves the queue unasked.
<1>d. ASSUME queue # <<>>, Bridge!Drops, UNCHANGED inbox,
             op.stage # "requesting"
      PROVE  HeldInv'
  <2>1. queue' = Tail(queue) /\ UNCHANGED <<actions, inbox, owner, viewers>>
      BY <1>d, <1>r DEF Bridge!Drops, Bridge!tenure, Bridge!screen
  <2>2. \A x, r, kind : ~Wants(x, r, kind)
      BY <1>d DEF Wants, Bridge!AtStage
  <2> QED BY <1>d, <2>1, <2>2, HeldWhenDropped
\* It goes on.
<1>g. ASSUME NEW STATE next, queue # <<>>, queue' = [queue EXCEPT ![1] = next],
             UNCHANGED <<owner, viewers>>,
             next.stage \in {"requesting", "canceling"} /\ next.kind # "install" =>
                 next.stage = "requesting" /\ Bridge!Held(next.reservation)
      PROVE  OnlyFirst' /\ FirstIsHeld' /\ ViewersAreOwners'
  <2>1. OnlyFirst' /\ queue' # <<>> /\ Head(queue') = next
      BY <1>g, QueueGoesOn DEF HeldInv
  <2>2. FirstIsHeld'
      BY <1>g, <2>1 DEF FirstIsHeld, Bridge!Waits, Bridge!AtStage, Bridge!Held
  <2>3. ViewersAreOwners'
      BY <1>g DEF HeldInv, ViewersAreOwners
  <2> QED BY <2>1, <2>2, <2>3
<1>11. CASE Bridge!Drop
    BY <1>11, <1>d DEF Bridge!Drop, Bridge!AtStage
<1>12. CASE Bridge!Check
  <2>0. queue # <<>> /\ op = queue[1] /\ op \in Bridge!Operations
        /\ op.stage = "queued"
      BY <1>12, HeadOfQueue DEF Bridge!Check, Bridge!AtStage
  <2>1. PICK s : queue' = [queue EXCEPT ![1].stage = "checked", ![1].session = s]
      BY <1>12 DEF Bridge!Check
  <2> DEFINE mid == [queue[1] EXCEPT !.stage = "checked"]
             next == [mid EXCEPT !.session = s]
  <2>2. next.stage = "checked"
      BY <2>0 DEF Bridge!Operations
  <2>3. queue' = [queue EXCEPT ![1] = next]
    <3>1. queue \in Seq(Bridge!Operations) /\ 1 \in DOMAIN queue
        BY <2>0, HeadOfQueue DEF TypeOK, Bridge!TypeOK
    <3> QED BY <2>1, <3>1
  <2> HIDE DEF next, mid
  <2>4. UNCHANGED <<inbox, owner, viewers>>
      BY <1>12 DEF Bridge!Check, Bridge!tenure, Bridge!screen
  <2>5. OnlyFirst' /\ FirstIsHeld' /\ ViewersAreOwners'
      BY <1>g, <2>0, <2>2, <2>3, <2>4
  <2>6. ActionsAreWanted' /\ RequestsAreWanted'
      BY <1>r, <2>0, <2>4, WantedIfUnasked DEF Wants, Bridge!AtStage
  <2> QED BY <2>5, <2>6 DEF HeldInv
<1>13. CASE Bridge!Checked
  <2> DEFINE path == IF op.kind = "install" THEN "start" ELSE op.kind
             y == Bridge!Fresh
             e == Bridge!Request(path, y, op.reservation, op.id)
  <2>0. queue # <<>> /\ op = queue[1] /\ op \in Bridge!Operations
        /\ op.stage = "checked" /\ op.id \in 0..MaxInstalls
        /\ op.reservation \in Nat
      BY <1>13, HeadOfQueue DEF Bridge!Checked, Bridge!AtStage
  <2>1. CASE Bridge!Drops /\ UNCHANGED inbox
      BY <1>d, <2>0, <2>1
  <2>2. CASE /\ op.kind # "status"
             /\ Bridge!StillMine(op)
             /\ Bridge!Room
             /\ queue' = [queue EXCEPT ![1].stage = "requesting",
                                       ![1].exchange = Bridge!Fresh]
             /\ inbox' = Append(inbox, e)
             /\ UNCHANGED <<Bridge!tenure, Bridge!screen>>
    <3> DEFINE next == [queue[1] EXCEPT !.stage = "requesting", !.exchange = y]
    <3>1. y \in Nat
        BY <2>2, FreshIsFree
    <3>2. path \in {"command", "power", "start", "cancel"}
        BY <2>0, <2>2 DEF Bridge!Operations
    <3>3. /\ e \in Runtime!Requests
          /\ e.path = path /\ e.exchange = y /\ e.reservation = op.reservation
      <4> HIDE DEF path, y, op
      <4>1. e \in Runtime!Requests
          BY <2>0, <3>1, <3>2, RequestTyped
      <4> QED BY <4>1 DEF Bridge!Request
    <3>4. next.stage = "requesting" /\ next.exchange = y
          /\ next.reservation = op.reservation /\ next.kind = op.kind
        BY <2>0, <3>1 DEF Bridge!Operations
    <3>5. queue' = [queue EXCEPT ![1] = next]
      <4>1. queue \in Seq(Bridge!Operations) /\ 1 \in DOMAIN queue
          BY <2>0, HeadOfQueue DEF TypeOK, Bridge!TypeOK
      <4> QED BY <2>0, <2>2, <4>1 DEF Bridge!Operations
    <3> HIDE DEF next, y, e
    <3>6. Bridge!Held(op.reservation)
        BY <2>2 DEF Bridge!StillMine
    <3>7. UNCHANGED <<owner, viewers>>
        BY <2>2 DEF Bridge!tenure, Bridge!screen
    <3>8. OnlyFirst' /\ FirstIsHeld' /\ ViewersAreOwners'
        BY <1>g, <2>0, <3>4, <3>5, <3>6, <3>7
    <3>9. ActionsAreWanted' /\ RequestsAreWanted'
      <4> DEFINE quiet == <<>>
      <4>1. PICK more \in Seq(Runtime!Requests) : more = <<e>>
        <5> DEFINE m == <<e>>
        <5>1. m \in Seq(Runtime!Requests)
            BY <3>3
        <5> HIDE DEF m
        <5>2. \E more \in Seq(Runtime!Requests) : more = m
            BY <5>1
        <5> QED BY <5>2 DEF m
      <4>2. \A i \in DOMAIN more : more[i] = e
          BY <4>1
      <4>3. inbox' = (inbox \o quiet) \o more
          BY <2>2, <3>3, <4>1 DEF TypeOK, Runtime!TypeOK
      <4>4. quiet \in Seq(Runtime!Requests) /\ Quiet(quiet)
          BY NoRequest
      <4> HIDE DEF quiet
      <4>5. queue' # <<>> /\ Head(queue') = next
          BY <2>0, <3>5, QueueGoesOn DEF HeldInv
      <4>6. path \in Forwarded => path = op.kind
          BY DEF Forwarded
      <4> HIDE DEF path, op
      <4>7. \A i \in DOMAIN more :
                more[i].path \in Forwarded =>
                    Wants(more[i].exchange, more[i].reservation, more[i].path)'
          BY <3>3, <3>4, <4>2, <4>5, <4>6 DEF Wants, Bridge!AtStage
      <4>8. \A x, r, kind : ~Wants(x, r, kind)
          BY <2>0 DEF Wants, Bridge!AtStage, op
      <4> QED BY <1>r, <4>3, <4>4, <4>7, <4>8, WantedKept DEF HeldInv
    <3> QED BY <3>8, <3>9 DEF HeldInv
  <2> QED BY <1>13, <2>1, <2>2 DEF Bridge!Checked, Bridge!AtStage
<1>14. CASE Bridge!Answered
  <2>0. queue # <<>> /\ op = queue[1] /\ op \in Bridge!Operations
        /\ op.id \in 0..MaxInstalls /\ op.reservation \in Nat
        /\ op.exchange \in Nat
      BY <1>14, HeadOfQueue DEF Bridge!Answered, Bridge!Waits, Bridge!AtStage
  <2>1. PICK r \in Bridge!AnswerTo(op.exchange) :
            \/ /\ op.kind = "install"
               /\ queue' = [queue EXCEPT ![1].stage = "canceling"]
               /\ inbox' = Append(inbox, Bridge!Request("cancel", op.exchange,
                                                        op.reservation, op.id))
               /\ UNCHANGED <<Bridge!tenure, Bridge!screen>>
            \/ Bridge!Drops /\ UNCHANGED inbox
      BY <1>14 DEF Bridge!Answered, Bridge!InstallAnswered
  <2>2. CASE Bridge!Drops /\ UNCHANGED inbox
    <3>1. queue' = Tail(queue) /\ UNCHANGED <<actions, inbox, owner, viewers>>
        BY <1>r, <2>2 DEF Bridge!Drops, Bridge!tenure, Bridge!screen
    <3>2. Replied(op.exchange)
        BY DEF Replied, Bridge!AnswerTo
    <3>3. ~(Sent(op.exchange) \/ Acted(op.exchange))
        BY <2>0, <3>2 DEF AskedOnce, Once
    <3>4. \A x, s, kind : Wants(x, s, kind) => x = op.exchange
        BY DEF Wants
    <3> QED BY <2>0, <3>1, <3>3, <3>4, HeldWhenDropped
  <2>3. CASE /\ op.kind = "install"
             /\ queue' = [queue EXCEPT ![1].stage = "canceling"]
             /\ inbox' = Append(inbox, Bridge!Request("cancel", op.exchange,
                                                      op.reservation, op.id))
             /\ UNCHANGED <<Bridge!tenure, Bridge!screen>>
    <3> DEFINE next == [queue[1] EXCEPT !.stage = "canceling"]
               e == Bridge!Request("cancel", op.exchange, op.reservation, op.id)
    <3>1. next.kind = "install"
        BY <2>0, <2>3 DEF Bridge!Operations
    <3>2. queue' = [queue EXCEPT ![1] = next]
        BY <2>3
    <3>3. e \in Runtime!Requests /\ e.path = "cancel"
      <4> HIDE DEF op
      <4>1. e \in Runtime!Requests
          BY <2>0, RequestTyped
      <4> QED BY <4>1 DEF Bridge!Request
    <3> HIDE DEF next, e
    <3>4. UNCHANGED <<owner, viewers>>
        BY <2>3 DEF Bridge!tenure, Bridge!screen
    <3>5. OnlyFirst' /\ FirstIsHeld' /\ ViewersAreOwners'
        BY <1>g, <2>0, <3>1, <3>2, <3>4
    <3>6. ActionsAreWanted' /\ RequestsAreWanted'
      <4> DEFINE quiet == <<>>
                 more == <<e>>
      <4>1. /\ quiet \in Seq(Runtime!Requests) /\ Quiet(quiet)
            /\ more \in Seq(Runtime!Requests)
            /\ \A i \in DOMAIN more : more[i] = e
          BY <3>3, NoRequest
      <4>2. inbox' = (inbox \o quiet) \o more
          BY <2>3, <3>3 DEF TypeOK, Runtime!TypeOK, e
      <4> HIDE DEF quiet, more
      <4>3. \A i \in DOMAIN more : more[i].path \notin Forwarded
          BY <3>3, <4>1 DEF Forwarded
      <4>4. \A x, s, kind : kind \in Forwarded => ~Wants(x, s, kind)
          BY <2>3 DEF Wants, Forwarded
      <4> QED BY <1>r, <4>1, <4>2, <4>3, <4>4, WantedKept DEF HeldInv
    <3> QED BY <3>5, <3>6 DEF HeldInv
  <2> QED BY <2>1, <2>2, <2>3
<1>15. CASE Bridge!TimeOut
  <2>1. PICK quiet \in Seq(Runtime!Requests) :
            /\ inbox' = (inbox \o quiet) \o nothing
            /\ Quiet(quiet)
            /\ \E i \in DOMAIN quiet :
                  /\ quiet[i].path = "close"
                  /\ quiet[i].exchange = Head(queue).exchange
      BY <1>15, TimeOutWrites
  <2>2. \A x, r, kind :
            Wants(x, r, kind) /\ kind \in Forwarded /\ (Sent(x) \/ Acted(x)) =>
                \E i \in DOMAIN quiet :
                    quiet[i].path = "close" /\ quiet[i].exchange = x
      BY <2>1, WantsIsFirst
  <2>3. ActionsAreWanted' /\ RequestsAreWanted'
    <3> HIDE DEF nothing
    <3> QED BY <1>n, <1>r, <2>1, <2>2, WantedKept DEF HeldInv
  <2>4. /\ queue # <<>> /\ queue' = Tail(queue)
        /\ UNCHANGED <<owner, viewers>>
      BY <1>15
      DEF Bridge!TimeOut, Bridge!Drops, Bridge!Waits, Bridge!AtStage,
          Bridge!tenure, Bridge!screen
  <2>5. OnlyFirst' /\ FirstIsHeld' /\ ViewersAreOwners'
      BY <2>4, QueueDrops DEF HeldInv, ViewersAreOwners
  <2> QED BY <2>3, <2>5 DEF HeldInv
<1> QED
  BY <1>1, <1>2, <1>3, <1>4, <1>5, <1>6, <1>7, <1>8, <1>9, <1>10, <1>11,
     <1>12, <1>13, <1>14, <1>15
  DEF BridgeStep, Bridge!Next, Bridge!Operate, Bridge!Poll

\* What is to be done at the phone was to be done already.
LEMMA HeldIfNothingNew ==
    ASSUME TypeOK, HeldInv, UNCHANGED bridge, UNCHANGED inbox,
           \A i \in DOMAIN actions' :
               actions'[i].path \in Forwarded /\ ~actions'[i].aborted =>
                   \E j \in DOMAIN actions :
                       /\ actions[j].path = actions'[i].path
                       /\ actions[j].exchange = actions'[i].exchange
                       /\ actions[j].reservation = actions'[i].reservation
                       /\ ~actions[j].aborted
    PROVE  HeldInv'
<1>1. \A x : ClosePending(x)' <=> ClosePending(x)
    BY DEF ClosePending
<1>2. \A x, r, kind : Wants(x, r, kind)' <=> Wants(x, r, kind)
    BY DEF Wants, Bridge!AtStage, bridge
<1>3. RequestsAreWanted'
    BY <1>2 DEF HeldInv, RequestsAreWanted, ClosesLater
<1>4. ActionsAreWanted'
  <2> SUFFICES ASSUME NEW i \in DOMAIN actions', NEW a, a = actions'[i],
                      a.path \in Forwarded, ~a.aborted
               PROVE  ClosePending(a.exchange)'
                      \/ Wants(a.exchange, a.reservation, a.path)'
      BY DEF ActionsAreWanted
  <2>1. PICK j \in DOMAIN actions :
            /\ actions[j].path = a.path
            /\ actions[j].exchange = a.exchange
            /\ actions[j].reservation = a.reservation
            /\ ~actions[j].aborted
      OBVIOUS
  <2>2. ClosePending(a.exchange) \/ Wants(a.exchange, a.reservation, a.path)
      BY <2>1 DEF HeldInv, ActionsAreWanted
  <2> QED BY <1>1, <1>2, <2>2
<1>5. OnlyFirst' /\ FirstIsHeld' /\ ViewersAreOwners'
    BY DEF HeldInv, OnlyFirst, FirstIsHeld, ViewersAreOwners, Bridge!Waits,
           Bridge!AtStage, Bridge!Held, bridge
<1> QED BY <1>3, <1>4, <1>5 DEF HeldInv

LEMMA HeldWhenServed ==
    ASSUME TypeOK, HeldInv, UNCHANGED bridge, Runtime!Serve
    PROVE  HeldInv'
<1> DEFINE r == Head(inbox)
<1>0. inbox \in Seq(Runtime!Requests) /\ actions \in Seq(Runtime!Actions)
      /\ inbox # <<>> /\ inbox' = Tail(inbox)
    BY DEF TypeOK, Runtime!TypeOK, Runtime!Serve
<1>1. /\ r = inbox[1] /\ 1 \in DOMAIN inbox
      /\ \A i \in DOMAIN inbox' :
            /\ i \in Nat \ {0} /\ i + 1 \in DOMAIN inbox
            /\ inbox'[i] = inbox[i + 1]
      /\ \A i \in DOMAIN inbox :
            i \in Nat \ {0} /\ (i > 1 => i - 1 \in DOMAIN inbox'
                                  /\ inbox'[i - 1] = inbox[i])
    BY <1>0
<1> HIDE DEF r
<1>2. \A x, q, kind : Wants(x, q, kind)' <=> Wants(x, q, kind)
    BY DEF Wants, Bridge!AtStage, bridge
<1>3. RequestsAreWanted'
  <2> SUFFICES ASSUME NEW i \in DOMAIN inbox', inbox'[i].path \in Forwarded,
                      NEW q, q = inbox'[i]
               PROVE  \/ \E j \in DOMAIN inbox' :
                             j > i /\ inbox'[j].path = "close"
                             /\ inbox'[j].exchange = q.exchange
                      \/ Wants(q.exchange, q.reservation, q.path)'
      BY DEF RequestsAreWanted, ClosesLater
  <2>1. i + 1 \in DOMAIN inbox /\ q = inbox[i + 1] /\ i \in Nat \ {0}
        /\ q.path \in Forwarded
      BY <1>1
  <2>2. ClosesLater(i + 1) \/ Wants(q.exchange, q.reservation, q.path)
      BY <2>1 DEF HeldInv, RequestsAreWanted
  <2>3. CASE ClosesLater(i + 1)
    <3>1. PICK j \in DOMAIN inbox :
              j > i + 1 /\ inbox[j].path = "close"
              /\ inbox[j].exchange = q.exchange
        BY <2>1, <2>3 DEF ClosesLater
    <3>2. j - 1 \in DOMAIN inbox' /\ inbox'[j - 1] = inbox[j] /\ j - 1 > i
        BY <1>1, <2>1, <3>1
    <3> QED BY <3>1, <3>2
  <2> QED BY <1>2, <2>2, <2>3
\* The connection of another exchange still closes.
<1>4. \A x : ClosePending(x) => ClosePending(x)'
          \/ (r.path = "close" /\ r.exchange = x)
  <2> SUFFICES ASSUME NEW x, NEW i \in DOMAIN inbox, inbox[i].path = "close",
                      inbox[i].exchange = x, i # 1
               PROVE  ClosePending(x)'
      BY <1>1 DEF ClosePending
  <2>0. i > 1
      BY <1>1
  <2>1. i - 1 \in DOMAIN inbox' /\ inbox'[i - 1] = inbox[i]
      BY <1>1, <2>0
  <2> QED BY <2>1 DEF ClosePending
\* What was to be done is still wanted, if it is not what is read now.
<1>5. ASSUME NEW i \in DOMAIN actions, actions[i].path \in Forwarded,
             ~actions[i].aborted, NEW a, a = actions[i],
             r.path = "close" => r.exchange # a.exchange
      PROVE  ClosePending(a.exchange)' \/ Wants(a.exchange, a.reservation, a.path)'
  <2>1. ClosePending(a.exchange) \/ Wants(a.exchange, a.reservation, a.path)
      BY <1>5 DEF HeldInv, ActionsAreWanted
  <2> QED BY <1>2, <1>4, <1>5, <2>1
<1>6. ActionsAreWanted'
  <2>1. CASE Runtime!Hangup(r)
    <3>1. \A i \in DOMAIN actions : actions[i] \in Runtime!Actions
        BY <1>0
    <3>2. actions' = [i \in DOMAIN actions |-> Runtime!Cut(actions[i], r.exchange)]
        BY <2>1 DEF Runtime!Hangup
    <3> SUFFICES ASSUME NEW i \in DOMAIN actions', NEW b, b = actions'[i],
                        b.path \in Forwarded, ~b.aborted
                 PROVE  ClosePending(b.exchange)'
                        \/ Wants(b.exchange, b.reservation, b.path)'
        BY DEF ActionsAreWanted
    <3>3. i \in DOMAIN actions /\ b = Runtime!Cut(actions[i], r.exchange)
        BY <3>2
    <3>4. actions[i].exchange # r.exchange /\ b = actions[i]
        BY <3>1, <3>3, CutIsUnheard
    <3> QED BY <1>5, <3>3, <3>4
  <2>2. CASE actions' = actions /\ r.path # "close"
    <3> SUFFICES ASSUME NEW i \in DOMAIN actions, NEW a, a = actions[i],
                        a.path \in Forwarded, ~a.aborted
                 PROVE  ClosePending(a.exchange)'
                        \/ Wants(a.exchange, a.reservation, a.path)'
        BY <2>2 DEF ActionsAreWanted
    <3> QED BY <1>5, <2>2
  <2>3. CASE /\ actions' = Append(actions, Runtime!Action(r.path, r, 0))
             /\ r.path # "close"
    <3> DEFINE new == Runtime!Action(r.path, r, 0)
    <3>1. new.path = r.path /\ new.exchange = r.exchange
          /\ new.reservation = r.reservation
        BY DEF Runtime!Action
    <3>2. actions' = Append(actions, new)
        BY <2>3
    <3> HIDE DEF new
    <3>3. \A i \in DOMAIN actions' :
              (i \in DOMAIN actions /\ actions'[i] = actions[i])
              \/ actions'[i] = new
        BY <1>0, <3>2
    <3> SUFFICES ASSUME NEW i \in DOMAIN actions', NEW a, a = actions'[i],
                        a.path \in Forwarded, ~a.aborted
                 PROVE  ClosePending(a.exchange)'
                        \/ Wants(a.exchange, a.reservation, a.path)'
        BY DEF ActionsAreWanted
    <3>4. CASE i \in DOMAIN actions /\ a = actions[i]
        BY <1>5, <2>3, <3>4
    <3>5. CASE a = new
      <4>1. ClosesLater(1) \/ Wants(a.exchange, a.reservation, a.path)
          BY <1>1, <3>1, <3>5 DEF HeldInv, RequestsAreWanted
      <4>2. ClosesLater(1) => ClosePending(a.exchange)
          BY <1>1, <3>1, <3>5 DEF ClosesLater, ClosePending
      <4> QED BY <1>2, <1>4, <2>3, <4>1, <4>2
    <3> QED BY <3>3, <3>4, <3>5
  <2>4. \/ Runtime!Hangup(r)
        \/ actions' = actions /\ r.path # "close"
        \/ /\ actions' = Append(actions, Runtime!Action(r.path, r, 0))
           /\ r.path # "close"
      BY DEF Runtime!Serve, Runtime!Execute, Runtime!Start, Runtime!Cancel, r
  <2> QED BY <2>1, <2>2, <2>3, <2>4
<1>7. OnlyFirst' /\ FirstIsHeld' /\ ViewersAreOwners'
    BY DEF HeldInv, OnlyFirst, FirstIsHeld, ViewersAreOwners, Bridge!Waits,
           Bridge!AtStage, Bridge!Held, bridge
<1> QED BY <1>3, <1>6, <1>7 DEF HeldInv

LEMMA HeldAtRuntime ==
    ASSUME TypeOK, HeldInv, RuntimeStep
    PROVE  HeldInv'
<1>0. actions \in Seq(Runtime!Actions) /\ UNCHANGED bridge
    BY DEF TypeOK, Runtime!TypeOK, RuntimeStep
<1>1. CASE Runtime!Serve
    BY <1>0, <1>1, HeldWhenServed
<1>2. CASE Runtime!Begin
  <2>1. \A i \in DOMAIN actions : actions[i] \in Runtime!Actions
      BY <1>0
  <2>2. actions' = [actions EXCEPT ![1].running = TRUE] /\ UNCHANGED inbox
      BY <1>2 DEF Runtime!Begin
  <2>3. \A i \in DOMAIN actions' :
            /\ i \in DOMAIN actions
            /\ actions[i].path = actions'[i].path
            /\ actions[i].exchange = actions'[i].exchange
            /\ actions[i].reservation = actions'[i].reservation
            /\ actions[i].aborted = actions'[i].aborted
      BY <2>1, <2>2 DEF Runtime!Actions
  <2> QED BY <1>0, <2>2, <2>3, HeldIfNothingNew
<1>3. CASE Runtime!Refuse \/ Runtime!End
  <2>1. actions # <<>> /\ actions' = Tail(actions) /\ UNCHANGED inbox
      BY <1>3 DEF Runtime!Refuse, Runtime!End, Runtime!Over
  <2>2. \A i \in DOMAIN actions' :
            i + 1 \in DOMAIN actions /\ actions'[i] = actions[i + 1]
      BY <1>0, <2>1, HeadTail
  <2> QED BY <1>0, <2>1, <2>2, HeldIfNothingNew
<1>4. CASE Runtime!Restart
  <2>1. actions' = <<>> /\ inbox' = <<>>
      BY <1>4 DEF Runtime!Restart
  <2>2. ActionsAreWanted' /\ RequestsAreWanted'
      BY <2>1 DEF ActionsAreWanted, RequestsAreWanted
  <2>3. OnlyFirst' /\ FirstIsHeld' /\ ViewersAreOwners'
      BY <1>0
      DEF HeldInv, OnlyFirst, FirstIsHeld, ViewersAreOwners, Bridge!Waits,
          Bridge!AtStage, Bridge!Held, bridge
  <2> QED BY <2>2, <2>3 DEF HeldInv
<1>5. CASE Looping \/ Runtime!Installing \/ Runtime!Interrupt
  <2>1. UNCHANGED inbox
      BY <1>5
      DEF Looping, Runtime!Prepared, Runtime!PrepareFails, Runtime!ProbeFails,
          Runtime!GoDown, Runtime!Drained, Runtime!Rested, Runtime!Installing,
          Runtime!Accepted, Runtime!NotAccepted, Runtime!Downloaded,
          Runtime!Installed, Runtime!InstallFails, Runtime!Saved,
          Runtime!Interrupt, Runtime!GoesTo
  <2>2. \/ UNCHANGED actions
        \/ \E r, id : actions' = Append(actions, Runtime!Action("launch", r, id))
      BY <1>5
      DEF Looping, Runtime!Prepared, Runtime!PrepareFails, Runtime!ProbeFails,
          Runtime!GoDown, Runtime!Drained, Runtime!Rested, Runtime!Installing,
          Runtime!Accepted, Runtime!NotAccepted, Runtime!Downloaded,
          Runtime!Installed, Runtime!InstallFails, Runtime!Saved,
          Runtime!Interrupt, Runtime!GoesTo
  <2>3. CASE UNCHANGED actions
      BY <1>0, <2>1, <2>3, HeldIfNothingNew
  <2>4. ASSUME NEW a, actions' = Append(actions, a), a.path = "launch"
        PROVE  HeldInv'
    <3>1. \A i \in DOMAIN actions' :
              (i \in DOMAIN actions /\ actions'[i] = actions[i])
              \/ actions'[i] = a
        BY <1>0, <2>4
    <3>2. a.path \notin Forwarded
        BY <2>4 DEF Forwarded
    <3> QED BY <1>0, <2>1, <3>1, <3>2, HeldIfNothingNew
  <2>5. \A r, id : Runtime!Action("launch", r, id).path = "launch"
      BY DEF Runtime!Action
  <2> QED BY <2>2, <2>3, <2>4, <2>5
<1> QED
  BY <1>1, <1>2, <1>3, <1>4, <1>5
  DEF RuntimeStep, Runtime!Next, Runtime!Queue, Looping

\* What begins is the first, and nothing but that.
LEMMA FirstBegins ==
    ASSUME TypeOK, FirstRuns, [Next]_vars, NEW i \in Begins
    PROVE  i = 1 /\ Runtime!Begin /\ UNCHANGED bridge
<1>0. actions \in Seq(Runtime!Actions)
    BY DEF TypeOK, Runtime!TypeOK
<1>1. i \in DOMAIN actions /\ i \in DOMAIN actions' /\ ~actions[i].running
      /\ actions'[i].running
    BY DEF Begins
<1>2. actions' # actions
    BY <1>1
<1>3. RuntimeStep
    BY <1>2 DEF Next, BridgeStep, runtime, vars
<1>4. CASE Runtime!Begin
  <2>1. actions' = [actions EXCEPT ![1].running = TRUE]
      BY <1>4 DEF Runtime!Begin
  <2>2. i # 1 => actions'[i] = actions[i]
      BY <1>0, <1>1, <2>1
  <2> QED BY <1>1, <1>3, <1>4, <2>2 DEF RuntimeStep
<1>5. CASE ~Runtime!Begin
  <2>1. ASSUME actions # <<>>, actions' = Tail(actions) PROVE FALSE
    <3>1. i + 1 \in DOMAIN actions /\ actions'[i] = actions[i + 1] /\ i \in Nat \ {0}
        BY <1>0, <1>1, <2>1, HeadTail
    <3> QED BY <1>1, <3>1 DEF FirstRuns
  <2>2. ASSUME NEW r, Runtime!Hangup(r) PROVE FALSE
    <3>1. actions[i] \in Runtime!Actions
        BY <1>0, <1>1
    <3>2. actions'[i] = Runtime!Cut(actions[i], r.exchange)
        BY <1>1, <2>2 DEF Runtime!Hangup
    <3> QED BY <1>1, <3>1, <3>2, CutTyped
  <2>3. ASSUME NEW a, actions' = Append(actions, a) PROVE FALSE
      BY <1>0, <1>1, <2>3
  <2>4. actions' # <<>>
      BY <1>1
  <2> QED
    BY <1>2, <1>3, <1>5, <2>1, <2>2, <2>3, <2>4
    DEF RuntimeStep, Runtime!Next, Runtime!Queue, Runtime!Refuse, Runtime!End,
        Runtime!Over, Runtime!Serve, Runtime!Execute, Runtime!Start,
        Runtime!Cancel, Runtime!Prepared, Runtime!PrepareFails,
        Runtime!ProbeFails, Runtime!GoDown, Runtime!Drained, Runtime!Rested,
        Runtime!Restart, Runtime!Installing, Runtime!Accepted,
        Runtime!NotAccepted, Runtime!Downloaded, Runtime!Installed,
        Runtime!InstallFails, Runtime!Saved, Runtime!Interrupt, Runtime!GoesTo
<1> QED BY <1>4, <1>5

LEMMA HeldKept ==
    ASSUME TypeOK, AskedOnce, HeldInv, [Next]_vars
    PROVE  HeldInv'
<1>1. ASSUME UNCHANGED vars PROVE HeldInv'
    BY <1>1, HeldIfUnmoved DEF vars, bridge, runtime
<1> QED BY <1>1, HeldAtBridge, HeldAtRuntime DEF Next

\* Releasing an iPhone takes effect at once: nothing begins at the phone that
\* its holder did not ask for, unless the runtime has yet to read that its
\* connection has closed, and nobody goes on watching (bridge.ts 319-353,
\* screen.ts 19-30, 125-129; doc/ios-provider.md 37-38).
THEOREM ReleaseTakesEffect == Spec => ReleaseIsEffective
<1>1. Init => KeptInv /\ AskedOnce /\ HeldInv
  <2> SUFFICES ASSUME Init PROVE KeptInv /\ AskedOnce /\ HeldInv
      OBVIOUS
  <2>1. /\ inbox = <<>> /\ actions = <<>> /\ queue = <<>> /\ replies = {}
        /\ accepting = Runtime!NoJob /\ waiting = {} /\ viewers = {}
      BY DEF Init, Runtime!Init, Bridge!Init
  <2>2. AskedOnce
      BY <2>1
      DEF AskedOnce, Once, Sent, Acted, Accepted, Awaited, Replied
  <2>3. HeldInv
      BY <2>1
      DEF HeldInv, OnlyFirst, FirstIsHeld, ActionsAreWanted, RequestsAreWanted,
          ViewersAreOwners, Bridge!Waits, Bridge!AtStage
  <2>4. KeptInv
      BY DEF Init, Runtime!Init, KeptInv, FirstRuns, SessionOutlivesAction,
             Runtime!SessionOutlivesAction, RunsInTime, ReadyIsOpen
  <2> QED BY <2>2, <2>3, <2>4
<1>2. TypeOK /\ KeptInv /\ [Next]_vars => KeptInv'
  <2>1. ASSUME TypeOK, KeptInv, BridgeStep \/ UNCHANGED vars PROVE KeptInv'
      BY <2>1
      DEF BridgeStep, vars, runtime, KeptInv, FirstRuns, SessionOutlivesAction,
          Runtime!SessionOutlivesAction, RunsInTime, ReadyIsOpen,
          Runtime!Session
  <2> QED BY <2>1, SessionIsKept DEF Next, RuntimeStep
<1>3. TypeOK /\ KeptInv /\ HeldInv /\ HeldInv' /\ [Next]_vars
      => [/\ viewers' \subseteq {owner'.reservationId}
          /\ \A i \in Begins :
                actions[i].path \in {"command", "power"} =>
                    \/ actions[i].reservation = owner.reservationId
                    \/ ClosePending(actions[i].exchange)]_vars
  <2> SUFFICES ASSUME TypeOK, KeptInv, HeldInv, HeldInv', [Next]_vars
               PROVE  /\ viewers' \subseteq {owner'.reservationId}
                      /\ \A i \in Begins :
                            actions[i].path \in {"command", "power"} =>
                                \/ actions[i].reservation = owner.reservationId
                                \/ ClosePending(actions[i].exchange)
      OBVIOUS
  <2>1. viewers' \subseteq {owner'.reservationId}
      BY DEF HeldInv, ViewersAreOwners
  <2>2. ASSUME NEW i \in Begins, actions[i].path \in {"command", "power"}
        PROVE  \/ actions[i].reservation = owner.reservationId
               \/ ClosePending(actions[i].exchange)
    <3>1. i = 1 /\ Runtime!Begin
        BY FirstBegins DEF KeptInv
    <3>2. 1 \in DOMAIN actions /\ ~actions[1].aborted
      <4>1. actions \in Seq(Runtime!Actions) /\ actions # <<>>
            /\ ~Head(actions).aborted
          BY <3>1 DEF TypeOK, Runtime!TypeOK, Runtime!Begin, Runtime!MayBegin
      <4> QED BY <4>1, HeadTail
    <3>3. \/ ClosePending(actions[1].exchange)
          \/ Wants(actions[1].exchange, actions[1].reservation, actions[1].path)
        BY <2>2, <3>1, <3>2 DEF HeldInv, ActionsAreWanted, Forwarded
    <3>4. CASE Wants(actions[1].exchange, actions[1].reservation, actions[1].path)
      <4>1. Bridge!Waits /\ Head(queue).kind # "install"
            /\ Head(queue).reservation = actions[1].reservation
          BY <2>2, <3>1, <3>4 DEF Wants, Bridge!Waits
      <4>2. Bridge!Held(actions[1].reservation)
          BY <4>1 DEF HeldInv, FirstIsHeld
      <4> QED BY <3>1, <4>2 DEF Bridge!Held
    <3> QED BY <3>1, <3>3, <3>4
  <2> QED BY <2>1, <2>2
<1> QED
  BY <1>1, <1>2, <1>3, TypeCorrect, AskedOnceKept, HeldKept, PTL
  DEF Spec, ReleaseIsEffective
-----------------------------------------------------------------------------
(***************************************************************************)
(* What is being installed is known to the bridge.                         *)
(***************************************************************************)
\* The bridge does not die, no request fails, and no messages cross.
Plain == {"crash", "fail", "cross"} \cap uses = {}

Known(id) == id \in Runtime!Ids /\ jobs[id] # Runtime!NoJob

\* What is requested for an operation.
PathOf(op) ==
    IF op.stage = "canceling" THEN "cancel"
    ELSE IF op.kind = "install" THEN "start"
    ELSE op.kind

\* The first operation has asked for the start of an installation.
Starting == Bridge!Waits /\ PathOf(Head(queue)) = "start"

\* Installations are numbered as they are asked for, reservations as they
\* begin.
Later(op, next) ==
    op.kind = "install" =>
        /\ next.kind = "install" => op.id < next.id
        /\ next.kind = "cancel"  => op.id =< next.id

Numbered(op) ==
    /\ op.reservation =< issued
    /\ op.kind \in {"install", "cancel"} => op.id \in requested

AreNumbered == \A i \in DOMAIN queue : Numbered(queue[i])
AreInOrder  == \A i, j \in DOMAIN queue : i < j => Later(queue[i], queue[j])

NumberedInv ==
    /\ \E n \in Nat : requested = 1..n
    /\ owner.reservationId =< issued
    /\ AreNumbered
    /\ AreInOrder

\* Where the request of an operation may be, and as what.
AskedFor(op) ==
    LET x == op.exchange
    IN  /\ x # 0
        /\ ~ClosePending(x)
        /\ \A i \in DOMAIN inbox :
              AsksAt(i, x) => /\ inbox[i].path = PathOf(op)
                              /\ inbox[i].id = op.id
                              /\ inbox[i].reservation = op.reservation
        /\ Acted(x) => PathOf(op) \in Forwarded
        /\ Accepted(x) => /\ PathOf(op) = "start"
                          /\ accepting.id = op.id
                          /\ accepting.lease = op.reservation
        /\ Awaited(x) => PathOf(op) = "cancel"
        /\ PathOf(op) = "start" => op.reservation # 0

\* Nothing is started but what the first operation asks for.
AskedInv ==
    /\ Bridge!Waits => AskedFor(Head(queue))
    /\ \A i \in DOMAIN inbox :
          inbox[i].path = "start" =>
              Starting /\ Head(queue).exchange = inbox[i].exchange
    /\ accepting # Runtime!NoJob =>
           Starting /\ Head(queue).exchange = accepting.exchange /\ active = 0

\* An installation is known from when it is accepted, before the next one is
\* asked for, or what is asked about it.
NotBefore(op, id, first) ==
    /\ op.kind = "cancel" => id =< op.id
    /\ op.kind = "install" => id < op.id \/ (id = op.id /\ first /\ Bridge!Waits)

IsFit(id) ==
    /\ id \in requested
    /\ jobs[id].lease # 0 /\ jobs[id].lease =< issued
    /\ \A i \in DOMAIN queue : NotBefore(queue[i], id, i = 1)
    /\ active # 0 => id =< active

AllAreFit == \A id \in Runtime!Ids : Known(id) => IsFit(id)

\* It is not known before.
StartIsNew ==
    Starting /\ (Sent(Head(queue).exchange) \/ Accepted(Head(queue).exchange)) =>
        ~Known(Head(queue).id)

KnownInv == AllAreFit /\ StartIsNew

\* What the answer to the first operation says of the installation.
Says(op, r) ==
    /\ PathOf(op) = "start" =>
          IF r.ok
          THEN /\ r.running = op.id /\ Known(op.id)
               /\ jobs[op.id].lease = op.reservation
               /\ active \in {0, op.id}
          ELSE active = 0 \/ active # op.id
    /\ op.kind = "cancel" /\ r.ok => active = 0 /\ r.running = 0

AnswersAreTrue ==
    Bridge!Waits =>
        \A r \in replies :
            r.exchange = Head(queue).exchange => Says(Head(queue), r)

Going ==
    /\ active # 0
    /\ jobs[active].stage \notin {"settled", "done"}
    /\ ~jobs[active].aborted

\* The bridge keeps it alive; or will know it; or has canceled it for who has
\* gone.
Kept == installId = active /\ owner.reservationId = jobs[active].lease
BeingStarted ==
    /\ Starting
    /\ Head(queue).id = active
    /\ Head(queue).reservation = jobs[active].lease
Canceled ==
    /\ owner.reservationId # jobs[active].lease
    /\ \E i \in DOMAIN inbox :
          /\ inbox[i].path = "cancel"
          /\ inbox[i].id = active
          /\ inbox[i].reservation = jobs[active].lease

GoingIsOwned == Going => Kept \/ BeingStarted \/ Canceled

\* A keepalive that is under way is about it.
KeepaliveIsRight ==
    Going /\ Kept /\ polling.stage = "keepalive"
          /\ Bridge!Held(polling.reservation) => polling.id = active

InstallIsKnown == installId # 0 => Known(installId)

OwnedInv ==
    /\ AnswersAreTrue
    /\ InstallIsKnown
    /\ GoingIsOwned
    /\ KeepaliveIsRight

\* The steps of the bridge as installations see them.
Idles ==
    /\ UNCHANGED <<queue, inbox, requested, owner, issued>>
    /\ replies' \subseteq replies
    /\ \/ /\ installId' = installId
          /\ \/ polling'.stage # "keepalive"
             \/ polling' = polling
             \/ /\ polling'.id = installId
                /\ polling'.reservation = owner.reservationId
       \/ /\ installId' = 0
          /\ polling'.stage # "keepalive"
          /\ polling.stage = "keepalive"
          /\ Bridge!Held(polling.reservation)
          /\ Unsettled.id # polling.id

Joins ==
    /\ owner.reservationId = 0
    /\ owner'.reservationId = issued + 1
    /\ issued' = issued + 1
    /\ UNCHANGED <<queue, inbox, replies, requested, installId, polling>>

\* What is written when the device is released.
Parting(e) ==
    \/ e.path = "close" /\ Bridge!Abortable /\ e.exchange = Head(queue).exchange
    \/ e.path = "cancel" /\ e.exchange = 0
    \/ e.path = "screenshot" /\ (Bridge!Waits => e.exchange # Head(queue).exchange)

Parts ==
    /\ owner'.reservationId = 0
    /\ installId' = 0
    /\ queue' = IF Bridge!Abortable THEN Tail(queue) ELSE queue
    /\ \A i \in DOMAIN inbox : i \in DOMAIN inbox' /\ inbox'[i] = inbox[i]
    /\ \A i \in DOMAIN inbox' :
          (i \in DOMAIN inbox /\ inbox'[i] = inbox[i]) \/ Parting(inbox'[i])
    /\ installId # 0 =>
          \E i \in DOMAIN inbox' :
              /\ inbox'[i].path = "cancel"
              /\ inbox'[i].id = installId
              /\ inbox'[i].reservation = owner.reservationId
    /\ replies' \subseteq replies
    /\ polling' = polling \/ polling'.stage # "keepalive"
    /\ UNCHANGED <<issued, requested>>

Enqueues ==
    \E op \in Bridge!Operations :
        /\ queue' = Append(queue, op)
        /\ op.reservation = owner.reservationId
        /\ op.stage = "queued"
        /\ op.kind \in {"install", "cancel"} => op.id # 0
        /\ op.kind = "install" =>
               op.id = Cardinality(requested) + 1
               /\ requested' = requested \cup {op.id}
        /\ op.kind # "install" => UNCHANGED requested
        /\ op.kind = "cancel" => op.id = Cardinality(requested)
        /\ UNCHANGED <<inbox, replies, owner, issued, installId, polling>>

\* The first operation and what becomes of it are the same one.
Same(op, next) ==
    /\ next.kind = op.kind
    /\ next.id = op.id
    /\ next.reservation = op.reservation

Looks ==
    /\ Bridge!AtStage("queued")
    /\ \E next \in Bridge!Operations :
          /\ Same(Head(queue), next)
          /\ next.stage = "checked"
          /\ queue' = [queue EXCEPT ![1] = next]
    /\ UNCHANGED <<inbox, replies, requested, owner, issued, installId, polling>>

Passes ==
    /\ queue # <<>>
    /\ ~Bridge!Waits
    /\ queue' = Tail(queue)
    /\ UNCHANGED <<inbox, replies, requested, owner, issued, polling>>
    /\ \/ UNCHANGED installId
       \/ /\ Bridge!Held(Head(queue).reservation)
          /\ installId' = IF Unsettled.lease = Head(queue).reservation
                          THEN Unsettled.id ELSE 0

Asks ==
    /\ Bridge!AtStage("checked")
    /\ \E next \in Bridge!Operations, e \in Runtime!Requests :
          /\ Same(Head(queue), next)
          /\ next.stage = "requesting"
          /\ next.kind # "status"
          /\ next.reservation # 0
          /\ next.exchange \in Nat \ {0}
          /\ ~(Sent(next.exchange) \/ Acted(next.exchange)
               \/ Accepted(next.exchange) \/ Awaited(next.exchange)
               \/ Replied(next.exchange) \/ ClosePending(next.exchange))
          /\ e.path = PathOf(next)
          /\ e.exchange = next.exchange
          /\ e.id = next.id
          /\ e.reservation = next.reservation
          /\ queue' = [queue EXCEPT ![1] = next]
          /\ inbox' = Append(inbox, e)
    /\ UNCHANGED <<replies, requested, owner, issued, installId, polling>>

Hears ==
    /\ Bridge!Waits
    /\ queue' = Tail(queue)
    /\ UNCHANGED <<inbox, requested, owner, issued, polling>>
    /\ \E r \in replies :
          /\ r.exchange = Head(queue).exchange
          /\ replies' = replies \ {r}
          /\ IF Starting /\ r.ok
             THEN /\ Bridge!Held(Head(queue).reservation)
                  /\ polling.stage # "keepalive"
                  /\ installId' = r.running
             ELSE installId' = IF Head(queue).kind = "cancel" /\ r.ok
                               THEN r.running ELSE installId

TakesBack ==
    /\ Starting
    /\ ~Bridge!Held(Head(queue).reservation)
    /\ UNCHANGED <<requested, owner, issued, installId, polling>>
    /\ \E r \in replies, next \in Bridge!Operations, e \in Runtime!Requests :
          /\ r.exchange = Head(queue).exchange
          /\ r.ok
          /\ replies' = replies \ {r}
          /\ Same(Head(queue), next)
          /\ next.stage = "canceling"
          /\ next.exchange = Head(queue).exchange
          /\ e.path = "cancel"
          /\ e.exchange = next.exchange
          /\ e.id = next.id
          /\ e.reservation = next.reservation
          /\ queue' = [queue EXCEPT ![1] = next]
          /\ inbox' = Append(inbox, e)

LEMMA AbandonParts ==
    ASSUME TypeOK, NEW STATE X, NEW STATE more,
           more \in Seq(Runtime!Requests), Bridge!Abandon(X, more),
           polling' = polling \/ polling'.stage # "keepalive",
           \A i \in DOMAIN more :
               more[i].path = "screenshot"
               /\ (Bridge!Waits => more[i].exchange # Head(queue).exchange)
    PROVE  Parts
<1> DEFINE closes == Bridge!Closes(Bridge!Abortable, Head(queue).exchange)
           cancels == IF installId = 0 THEN <<>>
                      ELSE <<Bridge!Request("cancel", 0, owner.reservationId,
                                            installId)>>
           m == more
<1>1. closes \in Seq(Runtime!Requests)
  <2>1. Bridge!Abortable => Head(queue).exchange \in Nat
      BY HeadOfQueue DEF Bridge!Abortable, Bridge!AtStage
  <2>2. Bridge!Abortable \in BOOLEAN
      BY DEF Bridge!Abortable, Bridge!AtStage
  <2> QED BY <2>1, <2>2, ClosesTyped
<1>2. cancels \in Seq(Runtime!Requests)
  <2>1. owner.reservationId \in Nat /\ installId \in 0..MaxInstalls
      BY DEF TypeOK, Bridge!TypeOK
  <2>2. Bridge!Request("cancel", 0, owner.reservationId, installId)
            \in Runtime!Requests
      BY <2>1, RequestTyped
  <2> QED BY <2>2, OneTyped, NothingTyped
<1>3. inbox' = ((inbox \o closes) \o cancels) \o m
    BY DEF Bridge!Abandon
<1>4. \A i \in DOMAIN closes : Parting(closes[i])
    BY DEF Bridge!Closes, Bridge!Request, Parting
<1>5. /\ \A i \in DOMAIN cancels : Parting(cancels[i])
      /\ installId # 0 =>
            /\ 1 \in DOMAIN cancels
            /\ cancels[1].path = "cancel"
            /\ cancels[1].id = installId
            /\ cancels[1].reservation = owner.reservationId
    BY DEF Bridge!Request, Parting
<1>6. inbox \in Seq(Runtime!Requests) /\ m \in Seq(Runtime!Requests)
      /\ \A i \in DOMAIN m : Parting(m[i])
    BY DEF TypeOK, Runtime!TypeOK, Parting
<1> HIDE DEF closes, cancels, m
<1> DEFINE a == inbox \o closes
           b == a \o cancels
<1>7. /\ a \in Seq(Runtime!Requests)
      /\ \A i \in DOMAIN inbox : i \in DOMAIN a /\ a[i] = inbox[i]
      /\ \A i \in DOMAIN a : (i \in DOMAIN inbox /\ a[i] = inbox[i]) \/ Parting(a[i])
    BY <1>1, <1>4, <1>6, Concatenated
<1> HIDE DEF a
<1>8. /\ b \in Seq(Runtime!Requests)
      /\ \A i \in DOMAIN a : i \in DOMAIN b /\ b[i] = a[i]
      /\ \A i \in DOMAIN b : (i \in DOMAIN a /\ b[i] = a[i]) \/ Parting(b[i])
      /\ \A i \in DOMAIN cancels : \E j \in DOMAIN b : b[j] = cancels[i]
  <2>1. /\ b \in Seq(Runtime!Requests)
        /\ \A i \in DOMAIN a : i \in DOMAIN b /\ b[i] = a[i]
        /\ \A i \in DOMAIN cancels :
              Len(a) + i \in DOMAIN b /\ b[Len(a) + i] = cancels[i]
        /\ \A i \in DOMAIN b :
              \/ i \in DOMAIN a /\ b[i] = a[i]
              \/ i - Len(a) \in DOMAIN cancels /\ b[i] = cancels[i - Len(a)]
      BY <1>2, <1>7, Concatenated
  <2> HIDE DEF b
  <2> QED BY <1>5, <2>1
<1> HIDE DEF b
<1>9. inbox' = b \o m
    BY <1>3 DEF a, b
<1>10. /\ \A i \in DOMAIN b : i \in DOMAIN inbox' /\ inbox'[i] = b[i]
       /\ \A i \in DOMAIN inbox' :
             (i \in DOMAIN b /\ inbox'[i] = b[i]) \/ Parting(inbox'[i])
    BY <1>6, <1>8, <1>9, Concatenated
<1>11. /\ \A i \in DOMAIN inbox : i \in DOMAIN inbox' /\ inbox'[i] = inbox[i]
       /\ \A i \in DOMAIN inbox' :
             (i \in DOMAIN inbox /\ inbox'[i] = inbox[i]) \/ Parting(inbox'[i])
    BY <1>7, <1>8, <1>10
<1>12. installId # 0 =>
          \E i \in DOMAIN inbox' :
              /\ inbox'[i].path = "cancel"
              /\ inbox'[i].id = installId
              /\ inbox'[i].reservation = owner.reservationId
  <2> SUFFICES ASSUME installId # 0
               PROVE  \E i \in DOMAIN inbox' : inbox'[i] = cancels[1]
      BY <1>5
  <2> QED BY <1>5, <1>8, <1>10
<1>13. /\ owner'.reservationId = 0
       /\ installId' = 0
       /\ queue' = IF Bridge!Abortable THEN Tail(queue) ELSE queue
       /\ replies' \subseteq replies
       /\ UNCHANGED <<issued, requested>>
    BY DEF Bridge!Abandon, Bridge!NoGroup, Bridge!Unread
<1> QED BY <1>11, <1>12, <1>13 DEF Parts

\* An unused connection is not one that closes, nor what is waited for.
LEMMA FreshIsUnknown ==
    ASSUME Bridge!Room
    PROVE  /\ ~ClosePending(Bridge!Fresh)
           /\ Bridge!Waits => Bridge!Fresh # Head(queue).exchange
<1> DEFINE x == Bridge!Fresh
<1>1. x \in Bridge!Free
    BY DEF Bridge!Room, Bridge!Fresh
<1> HIDE DEF x
<1>2. x # 0 /\ x \notin Runtime!Exchanges /\ x \notin Bridge!Awaited
    BY <1>1 DEF Bridge!Free
<1>3. ~ClosePending(x)
    BY <1>2 DEF Runtime!Exchanges, ClosePending
<1>4. Bridge!Waits => x # Head(queue).exchange
    BY <1>2 DEF Bridge!Awaited
<1> QED BY <1>3, <1>4 DEF x

LEMMA SameCardinality == Bridge!Cardinality(requested) = Cardinality(requested)
BY DEF Bridge!Cardinality, Cardinality

LEMMA EnqueueIs ==
    ASSUME TypeOK, Plain, NEW kind \in {"command", "power", "install", "status",
                                        "cancel"},
           NEW id \in 0..MaxInstalls, Bridge!Enqueue(kind, id)
    PROVE  Enqueues
<1> DEFINE op == Bridge!Operation(kind, id)
<1>1. op \in Bridge!Operations
  <2>1. owner.reservationId \in Nat
      BY DEF TypeOK, Bridge!TypeOK
  <2> QED
    BY <2>1 DEF Bridge!Operation, Bridge!Operations, Bridge!NoSession,
                Bridge!Sessions
<1>2. op.kind = kind /\ op.id = id /\ op.reservation = owner.reservationId
      /\ op.stage = "queued"
    BY DEF Bridge!Operation
<1>3. queue' = Append(queue, op)
      /\ UNCHANGED <<inbox, replies, owner, issued, installId, polling>>
    BY DEF Bridge!Enqueue, Bridge!tenure
<1>4. /\ kind = "install" =>
            /\ id = Cardinality(requested) + 1 /\ id # 0
            /\ requested' = requested \cup {id}
      /\ kind # "install" => UNCHANGED requested
      /\ kind = "cancel" => id = Cardinality(requested) /\ id # 0
    BY SameCardinality DEF Bridge!Enqueue, Bridge!IdsFor, Plain
<1> HIDE DEF op
<1> QED BY <1>1, <1>2, <1>3, <1>4 DEF Enqueues

LEMMA CheckIs ==
    ASSUME TypeOK, Bridge!Check
    PROVE  Looks
<1> DEFINE op == Head(queue)
<1>0. queue # <<>> /\ op = queue[1] /\ op \in Bridge!Operations
      /\ queue \in Seq(Bridge!Operations) /\ 1 \in DOMAIN queue
    BY HeadOfQueue DEF Bridge!Check, Bridge!AtStage, TypeOK, Bridge!TypeOK
<1>1. PICK s \in Bridge!Sessions :
          queue' = [queue EXCEPT ![1].stage = "checked", ![1].session = s]
  <2>1. Device \in Bridge!Sessions /\ Bridge!NoSession \in Bridge!Sessions
      BY DEF TypeOK, Runtime!TypeOK, Device, NoSession, Bridge!NoSession,
             Bridge!Sessions
  <2>2. PICK s \in {Device} \cup IF "fail" \in uses THEN {Bridge!NoSession} ELSE {} :
            queue' = [queue EXCEPT ![1].stage = "checked", ![1].session = s]
      BY DEF Bridge!Check
  <2> QED BY <2>1, <2>2
<1> DEFINE mid  == [op EXCEPT !.stage = "checked"]
           next == [mid EXCEPT !.session = s]
<1>2. queue' = [queue EXCEPT ![1] = next]
    BY <1>0, <1>1
<1>3. mid \in Bridge!Operations /\ mid.stage = "checked" /\ Same(op, mid)
    BY <1>0 DEF Bridge!Operations, Same
<1> HIDE DEF mid
<1>4. next \in Bridge!Operations /\ next.stage = "checked" /\ Same(op, next)
    BY <1>3 DEF Bridge!Operations, Same
<1>5. UNCHANGED <<inbox, replies, requested, owner, issued, installId, polling>>
      /\ Bridge!AtStage("queued")
    BY DEF Bridge!Check, Bridge!tenure
<1> HIDE DEF next
<1> QED BY <1>2, <1>4, <1>5 DEF Looks

LEMMA CheckedIs ==
    ASSUME TypeOK, Plain, Bridge!Checked
    PROVE  Passes \/ Asks
<1> DEFINE op == Head(queue)
           path == IF op.kind = "install" THEN "start" ELSE op.kind
           x == Bridge!Fresh
<1>0. queue # <<>> /\ op = queue[1] /\ op \in Bridge!Operations
      /\ queue \in Seq(Bridge!Operations) /\ 1 \in DOMAIN queue
      /\ op.stage = "checked" /\ op.reservation \in Nat /\ op.id \in 0..MaxInstalls
    BY HeadOfQueue DEF Bridge!Checked, Bridge!AtStage, TypeOK, Bridge!TypeOK
<1>1. CASE Bridge!Drops /\ UNCHANGED <<installId, inbox, replies>>
  <2>1. /\ queue' = Tail(queue)
        /\ UNCHANGED <<inbox, replies, requested, owner, issued, polling>>
      BY <1>1 DEF Bridge!Drops, Bridge!tenure
  <2>2. ~Bridge!Waits
      BY <1>0 DEF Bridge!Waits, Bridge!AtStage
  <2> QED BY <1>0, <1>1, <2>1, <2>2 DEF Passes
<1>2. CASE /\ Bridge!StillMine(op) /\ op.kind = "status"
           /\ Bridge!Drops
           /\ installId' = IF Unsettled.lease = op.reservation
                              /\ ("cross" \in uses => Unsettled.id = op.id)
                           THEN Unsettled.id ELSE 0
           /\ UNCHANGED <<inbox, replies>>
  <2>1. /\ queue' = Tail(queue)
        /\ UNCHANGED <<inbox, replies, requested, owner, issued, polling>>
      BY <1>2 DEF Bridge!Drops, Bridge!tenure
  <2>2. ~Bridge!Waits
      BY <1>0 DEF Bridge!Waits, Bridge!AtStage
  <2>3. Bridge!Held(op.reservation)
        /\ installId' = IF Unsettled.lease = op.reservation
                        THEN Unsettled.id ELSE 0
      BY <1>2 DEF Bridge!StillMine, Plain
  <2> QED BY <1>0, <2>1, <2>2, <2>3 DEF Passes
<1>3. CASE /\ Bridge!StillMine(op) /\ op.kind # "status"
           /\ Bridge!Room
           /\ queue' = [queue EXCEPT ![1].stage = "requesting",
                                     ![1].exchange = Bridge!Fresh]
           /\ inbox' = Append(inbox, Bridge!Request(path, x, op.reservation, op.id))
           /\ UNCHANGED <<uses, Bridge!tenure, Bridge!identity, polling,
                          installId, requested, Bridge!screen, replies>>
  <2> DEFINE mid  == [op EXCEPT !.stage = "requesting"]
             next == [mid EXCEPT !.exchange = x]
             e    == Bridge!Request(path, x, op.reservation, op.id)
  <2>1. /\ x \in Nat \ {0}
        /\ ~(Sent(x) \/ Acted(x) \/ Accepted(x) \/ Awaited(x) \/ Replied(x)
             \/ ClosePending(x))
      BY <1>3, FreshIsFree, FreshIsUnknown
  <2>2. queue' = [queue EXCEPT ![1] = next]
      BY <1>0, <1>3
  <2>3. inbox' = Append(inbox, e)
        /\ UNCHANGED <<replies, requested, owner, issued, installId, polling>>
      BY <1>3 DEF Bridge!tenure
  <2>4. op.reservation # 0 /\ op.kind # "status"
      BY <1>3 DEF Bridge!StillMine, Bridge!Held
  <2>5. path \in {"command", "power", "start", "cancel"}
      BY <1>0, <2>4 DEF Bridge!Operations
  <2>6. Bridge!AtStage("checked")
      BY DEF Bridge!Checked
  <2> HIDE DEF x
  <2>7. mid \in Bridge!Operations /\ mid.stage = "requesting" /\ Same(op, mid)
      BY <1>0 DEF Bridge!Operations, Same
  <2> HIDE DEF mid
  <2>8. next \in Bridge!Operations /\ next.stage = "requesting"
        /\ Same(op, next) /\ next.exchange = x
      BY <2>1, <2>7 DEF Bridge!Operations, Same
  <2>9. path = PathOf(next)
      BY <2>8 DEF PathOf, Same
  <2> HIDE DEF next, path, op
  <2>10. e \in Runtime!Requests
      BY <1>0, <2>1, <2>5, RequestTyped
  <2>11. e.path = PathOf(next) /\ e.exchange = next.exchange
         /\ e.id = next.id /\ e.reservation = next.reservation
         /\ next.kind # "status" /\ next.reservation # 0
      BY <2>4, <2>8, <2>9 DEF Bridge!Request, Same
  <2> HIDE DEF e
  <2>12. Same(Head(queue), next)
      BY <2>8 DEF op
  <2> QED
    BY <2>1, <2>2, <2>3, <2>6, <2>8, <2>10, <2>11, <2>12 DEF Asks
<1> QED BY <1>1, <1>2, <1>3 DEF Bridge!Checked

LEMMA AnsweredIs ==
    ASSUME TypeOK, Plain, Bridge!Answered
    PROVE  Hears \/ TakesBack
<1> DEFINE op == Head(queue)
<1>0. queue # <<>> /\ op = queue[1] /\ op \in Bridge!Operations
      /\ queue \in Seq(Bridge!Operations) /\ 1 \in DOMAIN queue
      /\ op.reservation \in Nat /\ op.id \in 0..MaxInstalls
      /\ op.exchange \in Nat /\ Bridge!Waits
    BY HeadOfQueue
    DEF Bridge!Answered, Bridge!Waits, Bridge!AtStage, TypeOK, Bridge!TypeOK
<1>1. Starting <=> op.kind = "install" /\ op.stage = "requesting"
    BY <1>0
    DEF Starting, PathOf, Bridge!Waits, Bridge!AtStage, Bridge!Operations
<1>2. PICK r \in Bridge!AnswerTo(op.exchange) :
          IF op.kind = "install" /\ op.stage = "requesting" /\ r.ok
          THEN /\ "cross" \in uses \/ polling.stage # "keepalive"
               /\ Bridge!InstallAnswered(op, r)
          ELSE /\ Bridge!Drops
               /\ replies' = replies \ {r}
               /\ installId' = IF op.kind = "cancel" /\ r.ok
                               THEN r.running ELSE installId
               /\ UNCHANGED inbox
    BY DEF Bridge!Answered
<1>3. r \in replies /\ r.exchange = op.exchange
    BY DEF Bridge!AnswerTo
<1>4. CASE ~(Starting /\ r.ok)
  <2>1. /\ queue' = Tail(queue)
        /\ replies' = replies \ {r}
        /\ installId' = IF op.kind = "cancel" /\ r.ok THEN r.running ELSE installId
        /\ UNCHANGED <<inbox, requested, owner, issued, polling>>
      BY <1>1, <1>2, <1>4 DEF Bridge!Drops, Bridge!tenure
  <2> QED BY <1>0, <1>3, <1>4, <2>1 DEF Hears
<1>5. CASE Starting /\ r.ok /\ Bridge!Held(op.reservation)
  <2>1. /\ queue' = Tail(queue)
        /\ replies' = replies \ {r}
        /\ installId' = r.running
        /\ polling.stage # "keepalive"
        /\ UNCHANGED <<inbox, requested, owner, issued, polling>>
      BY <1>1, <1>2, <1>5
      DEF Bridge!InstallAnswered, Bridge!Drops, Bridge!tenure, Plain
  <2> QED BY <1>0, <1>3, <1>5, <2>1 DEF Hears
<1>6. CASE Starting /\ r.ok /\ ~Bridge!Held(op.reservation)
  <2> DEFINE next == [op EXCEPT !.stage = "canceling"]
             e    == Bridge!Request("cancel", op.exchange, op.reservation, op.id)
  <2>1. /\ queue' = [queue EXCEPT ![1].stage = "canceling"]
        /\ inbox' = Append(inbox, e)
        /\ replies' = replies \ {r}
        /\ UNCHANGED <<requested, owner, issued, installId, polling>>
      BY <1>1, <1>2, <1>6 DEF Bridge!InstallAnswered, Bridge!tenure
  <2>2. queue' = [queue EXCEPT ![1] = next]
      BY <1>0, <2>1
  <2>3. next \in Bridge!Operations /\ next.stage = "canceling"
        /\ Same(op, next) /\ next.exchange = op.exchange
      BY <1>0 DEF Bridge!Operations, Same
  <2> HIDE DEF next, op
  <2>4. e \in Runtime!Requests
      BY <1>0, RequestTyped
  <2>5. e.path = "cancel" /\ e.exchange = next.exchange
        /\ e.id = next.id /\ e.reservation = next.reservation
      BY <2>3 DEF Bridge!Request, Same
  <2> HIDE DEF e
  <2>6. Same(Head(queue), next) /\ next.exchange = Head(queue).exchange
        /\ r.exchange = Head(queue).exchange
        /\ ~Bridge!Held(Head(queue).reservation)
      BY <1>3, <1>6, <2>3 DEF op
  <2> QED
    BY <1>3, <1>6, <2>1, <2>2, <2>3, <2>4, <2>5, <2>6 DEF TakesBack
<1> QED BY <1>4, <1>5, <1>6

LEMMA BridgeDoes ==
    ASSUME TypeOK, Plain, BridgeStep
    PROVE  /\ UNCHANGED runtime
           /\ \/ Idles \/ Joins \/ Parts \/ Enqueues \/ Looks \/ Passes
              \/ Asks \/ Hears \/ TakesBack
<1> DEFINE nothing == <<>>
<1> SUFFICES Idles \/ Joins \/ Parts \/ Enqueues \/ Looks \/ Passes \/ Asks
             \/ Hears \/ TakesBack
    BY DEF BridgeStep
<1>n. nothing \in Seq(Runtime!Requests) /\ DOMAIN nothing = {}
    BY NoRequest
<1>a. ASSUME NEW STATE X, Bridge!Abandon(X, nothing),
             polling' = polling \/ polling'.stage # "keepalive"
      PROVE  Parts
  <2> HIDE DEF nothing
  <2> QED BY <1>a, <1>n, AbandonParts
<1>i. Bridge!Idle.stage # "keepalive"
    BY DEF Bridge!Idle
<1>1. ASSUME NEW u, Bridge!ReceiveGroup(u) PROVE Idles
    BY <1>1 DEF Bridge!ReceiveGroup, Idles
<1>2. ASSUME NEW u, Bridge!JoinMatched(u) PROVE Idles \/ Joins
  <2>1. UNCHANGED <<queue, inbox, replies, requested, installId, polling>>
      BY <1>2 DEF Bridge!JoinMatched
  <2>2. CASE UNCHANGED <<owner, issued>>
      BY <2>1, <2>2 DEF Idles
  <2>3. CASE owner = Bridge!NoGroup /\ ~UNCHANGED <<owner, issued>>
    <3>1. owner'.reservationId = issued + 1 /\ issued' = issued + 1
          /\ owner.reservationId = 0
        BY <1>2, <2>3 DEF Bridge!JoinMatched, Bridge!Join, Bridge!NoGroup
    <3> QED BY <2>1, <3>1 DEF Joins
  <2> QED BY <1>2, <2>2, <2>3 DEF Bridge!JoinMatched, Bridge!Join
<1>3. ASSUME NEW r, Bridge!ReceiveUngroup(r) PROVE Parts
    BY <1>3, <1>a DEF Bridge!ReceiveUngroup
<1>4. CASE Bridge!Disconnect
    BY <1>4, <1>a DEF Bridge!Disconnect, Bridge!Absent
<1>5. CASE Bridge!Register \/ Bridge!Upgrade \/ Bridge!Watch
    BY <1>5
    DEF Bridge!Register, Bridge!Upgrade, Bridge!Watch, Bridge!tenure, Idles
<1>6. CASE Bridge!PollBegins
  <2>1. polling'.stage # "keepalive"
    <3>1. PICK s : polling' = [stage |-> "answered", session |-> s]
        BY <1>6 DEF Bridge!PollBegins
    <3> QED BY <3>1
  <2> QED BY <1>6, <2>1 DEF Bridge!PollBegins, Bridge!tenure, Idles
<1>7. CASE Bridge!KeptAlive
  <2>1. /\ UNCHANGED <<queue, inbox, requested, owner, issued, replies>>
        /\ polling'.stage # "keepalive" /\ polling.stage = "keepalive"
        /\ installId' = IF Bridge!Held(polling.reservation)
                           /\ Unsettled.id # polling.id
                        THEN 0 ELSE installId
      BY <1>7, <1>i DEF Bridge!KeptAlive, Bridge!tenure
  <2> QED BY <2>1 DEF Idles
<1>8. CASE Bridge!Polled
  <2>1. CASE Bridge!Absent({}, <<>>) /\ polling' = Bridge!Idle
      BY <1>a, <1>i, <2>1 DEF Bridge!Absent
  <2>2. CASE /\ Bridge!Room
             /\ Bridge!Absent({}, <<Bridge!Request("screenshot", Bridge!Fresh, 0, 0)>>)
             /\ polling'.stage # "keepalive"
    <3> DEFINE more == <<Bridge!Request("screenshot", Bridge!Fresh, 0, 0)>>
               none == {}
    <3>1. Bridge!Fresh \in Nat
        BY <2>2, FreshIsFree
    <3>2. /\ more \in Seq(Runtime!Requests)
          /\ \A i \in DOMAIN more :
                more[i].path = "screenshot" /\ more[i].exchange = Bridge!Fresh
        BY <3>1, OneRequest, ZeroIsAnId
    <3>3. Bridge!Abandon(none, more)
        BY <2>2 DEF Bridge!Absent
    <3> HIDE DEF more, none
    <3>4. \A i \in DOMAIN more :
              more[i].path = "screenshot"
              /\ (Bridge!Waits => more[i].exchange # Head(queue).exchange)
        BY <2>2, <3>2, FreshIsUnknown
    <3>5. polling' = polling \/ polling'.stage # "keepalive"
        BY <2>2
    <3> QED BY <3>2, <3>3, <3>4, <3>5, AbandonParts
  <2>3. CASE Bridge!PollGoesOn
    <3>1. CASE Bridge!Abandon({}, <<>>) /\ polling' = Bridge!Idle
        BY <1>a, <1>i, <3>1
    <3>2. CASE /\ polling' = IF owner = Bridge!NoGroup \/ installId = 0
                             THEN Bridge!Idle
                             ELSE [stage |-> "keepalive", id |-> installId,
                                   reservation |-> owner.reservationId]
               /\ UNCHANGED <<uses, Bridge!tenure, queue, installId, requested,
                              Bridge!screen, inbox, replies>>
        BY <1>i, <3>2 DEF Bridge!tenure, Idles
    <3> QED BY <2>3, <3>1, <3>2 DEF Bridge!PollGoesOn
  <2>4. \A s, y : [stage |-> "shot", session |-> s, exchange |-> y].stage # "keepalive"
      OBVIOUS
  <2> QED BY <1>8, <2>1, <2>2, <2>3, <2>4 DEF Bridge!Polled
<1>9. CASE Bridge!Shot
  <2>1. CASE Bridge!Absent({polling.exchange}, <<>>) /\ polling' = Bridge!Idle
    <3> DEFINE X == {polling.exchange}
    <3>1. Bridge!Abandon(X, nothing) /\ polling'.stage # "keepalive"
        BY <1>i, <2>1 DEF Bridge!Absent
    <3> HIDE DEF X, nothing
    <3> QED BY <1>a, <3>1
  <2>2. CASE /\ \E r \in replies : replies' = replies \ {r}
             /\ polling' = Bridge!Idle
             /\ UNCHANGED <<uses, Bridge!tenure, registered, queue, installId,
                            requested, Bridge!screen, inbox>>
      BY <1>i, <2>2 DEF Bridge!tenure, Idles
  <2> QED BY <1>9, <2>1, <2>2 DEF Bridge!Shot, Bridge!AnswerTo
<1>10. CASE Bridge!Operate
  <2>1. ASSUME NEW kind \in {"command", "power", "install", "status", "cancel"},
               NEW id \in 0..MaxInstalls, Bridge!Enqueue(kind, id)
        PROVE  Enqueues
      BY <2>1, EnqueueIs
  <2>2. CASE Bridge!Drop
    <3>1. /\ queue # <<>> /\ ~Bridge!Waits /\ queue' = Tail(queue)
          /\ UNCHANGED <<inbox, replies, requested, owner, issued, polling,
                         installId>>
        BY <2>2
        DEF Bridge!Drop, Bridge!Drops, Bridge!AtStage, Bridge!Waits,
            Bridge!tenure
    <3> QED BY <3>1 DEF Passes
  <2>3. CASE Bridge!TimeOut
      BY <2>3 DEF Bridge!TimeOut, Plain
  <2> QED
    BY <1>10, <2>1, <2>2, <2>3, CheckIs, CheckedIs, AnsweredIs
    DEF Bridge!Operate
<1>11. ~Bridge!Crash
    BY DEF Bridge!Crash, Plain
<1> QED
  BY <1>1, <1>2, <1>3, <1>4, <1>5, <1>6, <1>7, <1>8, <1>9, <1>10, <1>11
  DEF BridgeStep, Bridge!Next, Bridge!Poll

-----------------------------------------------------------------------------
\* What becomes of the queue.
LEMMA QueueTyped1 ==
    ASSUME TypeOK
    PROVE  /\ queue \in Seq(Bridge!Operations)
           /\ \A i \in DOMAIN queue :
                 /\ i \in Nat \ {0}
                 /\ queue[i] \in Bridge!Operations
                 /\ queue[i].id \in Nat
                 /\ queue[i].reservation \in Nat
                 /\ queue[i].exchange \in Nat
           /\ queue # <<>> => 1 \in DOMAIN queue /\ Head(queue) = queue[1]
<1>1. queue \in Seq(Bridge!Operations)
    BY DEF TypeOK, Bridge!TypeOK
<1>2. \A i \in DOMAIN queue : i \in Nat \ {0} /\ queue[i] \in Bridge!Operations
    BY <1>1
<1>3. \A op \in Bridge!Operations :
          op.id \in Nat /\ op.reservation \in Nat /\ op.exchange \in Nat
    BY InstallsAreCounted DEF Bridge!Operations
<1>4. queue # <<>> => 1 \in DOMAIN queue /\ Head(queue) = queue[1]
    BY <1>1
<1> QED BY <1>1, <1>2, <1>3, <1>4

LEMMA QueueAdvances ==
    ASSUME TypeOK, queue # <<>>, queue' = Tail(queue)
    PROVE  \A i \in DOMAIN queue' :
              i \in Nat \ {0} /\ i + 1 \in DOMAIN queue /\ queue'[i] = queue[i + 1]
<1>1. queue \in Seq(Bridge!Operations)
    BY DEF TypeOK, Bridge!TypeOK
<1> QED BY <1>1, HeadTail

LEMMA QueueChanges ==
    ASSUME TypeOK, queue # <<>>, NEW next, queue' = [queue EXCEPT ![1] = next]
    PROVE  /\ DOMAIN queue' = DOMAIN queue
           /\ queue' # <<>>
           /\ Head(queue') = next
           /\ queue'[1] = next
           /\ \A i \in DOMAIN queue : i # 1 => queue'[i] = queue[i]
<1>1. queue \in Seq(Bridge!Operations)
    BY DEF TypeOK, Bridge!TypeOK
<1> QED BY <1>1

LEMMA QueueGrows ==
    ASSUME TypeOK, NEW op, queue' = Append(queue, op)
    PROVE  /\ \A i \in DOMAIN queue :
                 i \in DOMAIN queue' /\ queue'[i] = queue[i] /\ i =< Len(queue)
           /\ \A i \in DOMAIN queue' :
                 \/ i \in DOMAIN queue /\ queue'[i] = queue[i]
                 \/ i = Len(queue) + 1 /\ queue'[i] = op
           /\ Len(queue) \in Nat
           /\ queue # <<>> => queue' # <<>> /\ Head(queue') = Head(queue)
           /\ queue = <<>> => queue' # <<>> /\ Head(queue') = op
<1>1. queue \in Seq(Bridge!Operations)
    BY DEF TypeOK, Bridge!TypeOK
<1> QED BY <1>1

\* The operations are the same ones.
LEMMA NumberedIfSame ==
    ASSUME TypeOK, NumberedInv, UNCHANGED requested, NEW CONSTANT k \in Int,
           \A i \in DOMAIN queue' :
               /\ i \in Int
               /\ i + k \in DOMAIN queue
               /\ Same(queue[i + k], queue'[i]),
           issued' \in Nat, issued =< issued', owner'.reservationId =< issued'
    PROVE  NumberedInv'
<1>1. \A i \in DOMAIN queue : queue[i].reservation \in Nat
    BY QueueTyped1
<1>2. issued \in Nat
    BY DEF TypeOK, Bridge!TypeOK
<1>3. AreNumbered'
  <2> SUFFICES ASSUME NEW i \in DOMAIN queue', NEW op, op = queue'[i]
               PROVE  Numbered(op)'
      BY DEF AreNumbered, Numbered
  <2>1. Numbered(queue[i + k]) /\ Same(queue[i + k], op)
        /\ queue[i + k].reservation \in Nat
      BY <1>1 DEF NumberedInv, AreNumbered
  <2> QED BY <1>2, <2>1 DEF Numbered, Same
<1>4. AreInOrder'
  <2> SUFFICES ASSUME NEW i \in DOMAIN queue', NEW j \in DOMAIN queue', i < j
               PROVE  Later(queue'[i], queue'[j])
      BY DEF AreInOrder, Later
  <2>1. Later(queue[i + k], queue[j + k])
      BY DEF NumberedInv, AreInOrder
  <2> QED BY <2>1 DEF Later, Same
<1> QED BY <1>3, <1>4 DEF NumberedInv

LEMMA NumberedWhenEnqueued ==
    ASSUME TypeOK, NumberedInv, Enqueues
    PROVE  NumberedInv'
<1>1. PICK op \in Bridge!Operations :
        /\ queue' = Append(queue, op)
        /\ op.reservation = owner.reservationId
        /\ op.stage = "queued"
        /\ op.kind = "install" =>
               op.id = Cardinality(requested) + 1
               /\ requested' = requested \cup {op.id}
        /\ op.kind # "install" => UNCHANGED requested
        /\ op.kind \in {"install", "cancel"} => op.id # 0
        /\ op.kind = "cancel" => op.id = Cardinality(requested)
        /\ UNCHANGED <<owner, issued>>
    BY DEF Enqueues
<1>2. PICK n \in Nat : requested = 1..n
    BY DEF NumberedInv
<1>3. Cardinality(requested) = n
  <2>1. Cardinality(1..n) = IF 1 > n THEN 0 ELSE n - 1 + 1
      BY <1>2, FS_Interval
  <2> QED BY <1>2, <2>1
<1>4. op.id \in Nat
    BY InstallsAreCounted DEF Bridge!Operations
<1>5. \E m \in Nat : requested' = 1..m
  <2>1. CASE op.kind = "install"
    <3>1. requested' = (1..n) \cup {n + 1}
        BY <1>1, <1>2, <1>3, <2>1
    <3>2. (1..n) \cup {n + 1} = 1..(n + 1) /\ n + 1 \in Nat
        OBVIOUS
    <3> QED BY <3>1, <3>2
  <2>2. CASE op.kind # "install"
      BY <1>1, <1>2, <2>2
  <2> QED BY <2>1, <2>2
<1>6. \A i \in DOMAIN queue :
          /\ i \in Nat /\ i =< Len(queue)
          /\ i \in DOMAIN queue' /\ queue'[i] = queue[i]
          /\ queue[i].kind \in {"install", "cancel"} => queue[i].id \in 1..n
    BY <1>1, <1>2, QueueGrows, QueueTyped1
    DEF NumberedInv, AreNumbered, Numbered
<1>7. \A i \in DOMAIN queue' :
          \/ i \in DOMAIN queue /\ queue'[i] = queue[i]
          \/ i = Len(queue) + 1 /\ queue'[i] = op
    BY <1>1, QueueGrows
<1>8. requested \subseteq requested'
    BY <1>1
<1>9. AreNumbered'
  <2> SUFFICES ASSUME NEW i \in DOMAIN queue', NEW o, o = queue'[i]
               PROVE  Numbered(o)'
      BY DEF AreNumbered, Numbered
  <2>1. i \in DOMAIN queue => Numbered(queue[i])
      BY DEF NumberedInv, AreNumbered
  <2>2. Numbered(op)'
      BY <1>1, <1>2, <1>3, <1>4 DEF NumberedInv, Numbered
  <2>3. CASE i \in DOMAIN queue /\ o = queue[i]
      BY <1>1, <1>8, <2>1, <2>3 DEF Numbered
  <2> QED BY <1>7, <2>2, <2>3
<1>10. AreInOrder'
  <2> SUFFICES ASSUME NEW i \in DOMAIN queue', NEW j \in DOMAIN queue', i < j
               PROVE  Later(queue'[i], queue'[j])
      BY DEF AreInOrder, Later
  <2>1. i \in DOMAIN queue /\ queue'[i] = queue[i]
    <3>1. Len(queue) \in Nat
        BY <1>1, QueueGrows
    <3> QED BY <1>6, <1>7, <3>1
  <2>2. CASE j \in DOMAIN queue /\ queue'[j] = queue[j]
      BY <2>1, <2>2 DEF NumberedInv, AreInOrder
  <2>3. CASE queue'[j] = op
    <3>1. queue[i].kind = "install" => queue[i].id \in 1..n
        BY <1>6, <2>1
    <3> QED BY <1>1, <1>3, <2>1, <2>3, <3>1 DEF Later
  <2> QED BY <1>7, <2>2, <2>3
<1> QED BY <1>1, <1>5, <1>9, <1>10 DEF NumberedInv

LEMMA NumberedKept ==
    ASSUME TypeOK, TypeOK', Plain, NumberedInv, [Next]_vars
    PROVE  NumberedInv'
<1>0. issued \in Nat /\ issued' \in Nat /\ owner.reservationId \in Nat
      /\ owner.reservationId =< issued
    BY DEF TypeOK, Bridge!TypeOK, NumberedInv
<1>1. \A i \in DOMAIN queue : i \in Int /\ i + 0 = i /\ Same(queue[i], queue[i])
    BY QueueTyped1 DEF Same
<1>s. ASSUME UNCHANGED requested, UNCHANGED queue, issued =< issued',
             owner'.reservationId =< issued'
      PROVE  NumberedInv'
  <2>1. \A i \in DOMAIN queue' :
            i \in Int /\ i + 0 \in DOMAIN queue /\ Same(queue[i + 0], queue'[i])
      BY <1>1, <1>s
  <2> QED BY <1>0, <1>s, <2>1, NumberedIfSame
<1>t. ASSUME UNCHANGED <<requested, issued>>, queue # <<>>, queue' = Tail(queue),
             owner'.reservationId =< issued'
      PROVE  NumberedInv'
  <2>1. \A i \in DOMAIN queue' :
            i \in Int /\ i + 1 \in DOMAIN queue /\ Same(queue[i + 1], queue'[i])
      BY <1>t, QueueAdvances DEF Same
  <2> QED BY <1>0, <1>t, <2>1, NumberedIfSame
<1>n. ASSUME UNCHANGED <<requested, issued, owner>>, queue # <<>>,
             NEW next, queue' = [queue EXCEPT ![1] = next],
             Same(Head(queue), next)
      PROVE  NumberedInv'
  <2>1. \A i \in DOMAIN queue' :
            i \in Int /\ i + 0 \in DOMAIN queue /\ Same(queue[i + 0], queue'[i])
    <3>1. Head(queue) = queue[1]
        BY <1>n, QueueTyped1
    <3> QED BY <1>1, <1>n, <3>1, QueueChanges
  <2> QED BY <1>0, <1>n, <2>1, NumberedIfSame
<1>2. CASE UNCHANGED vars \/ RuntimeStep
    BY <1>0, <1>2, <1>s DEF vars, RuntimeStep, bridge
<1>3. CASE BridgeStep
  <2>1. CASE Idles
      BY <1>0, <1>s, <2>1 DEF Idles
  <2>2. CASE Joins
      BY <1>0, <1>s, <2>2 DEF Joins
  <2>3. CASE Parts
    <3>1. owner'.reservationId =< issued' /\ UNCHANGED <<requested, issued>>
        BY <1>0, <2>3 DEF Parts
    <3>2. CASE Bridge!Abortable
        BY <1>t, <2>3, <3>1, <3>2 DEF Parts, Bridge!Abortable, Bridge!AtStage
    <3>3. CASE ~Bridge!Abortable
        BY <1>0, <1>s, <2>3, <3>1, <3>3 DEF Parts
    <3> QED BY <3>2, <3>3
  <2>4. CASE Enqueues
      BY <2>4, NumberedWhenEnqueued
  <2>5. CASE Looks
      BY <1>n, <2>5 DEF Looks, Bridge!AtStage
  <2>6. CASE Passes
      BY <1>0, <1>t, <2>6 DEF Passes
  <2>7. CASE Asks
      BY <1>n, <2>7 DEF Asks, Bridge!AtStage
  <2>8. CASE Hears
      BY <1>0, <1>t, <2>8 DEF Hears, Bridge!Waits, Bridge!AtStage
  <2>9. CASE TakesBack
      BY <1>n, <2>9 DEF TakesBack, Starting, Bridge!Waits, Bridge!AtStage
  <2> QED
    BY <1>3, <2>1, <2>2, <2>3, <2>4, <2>5, <2>6, <2>7, <2>8, <2>9, BridgeDoes
<1> QED BY <1>2, <1>3 DEF Next

-----------------------------------------------------------------------------
\* The steps of the runtime as installations see them.
Goes(old, new) ==
    /\ new # Runtime!NoJob <=> old # Runtime!NoJob
    /\ old # Runtime!NoJob =>
          /\ new.lease = old.lease
          /\ old.stage \in {"settled", "done"} => new.stage \in {"settled", "done"}
          /\ old.aborted => new.aborted

Progress == \A id \in Runtime!Ids : Goes(jobs[id], jobs'[id])

Works ==
    /\ Progress
    /\ UNCHANGED <<inbox, accepting, waiting, active>>
    /\ \A x \in Nat \ {0} : Acted(x)' => Acted(x)
    /\ \A r \in replies' : r \in replies \/ Acted(r.exchange)

Reads == inbox # <<>> /\ inbox' = Tail(inbox)

HangsUp ==
    /\ Reads
    /\ Head(inbox).path = "close"
    /\ UNCHANGED <<replies, jobs, active>>
    /\ \A x \in Nat \ {0} : Acted(x)' => Acted(x)
    /\ waiting' \subseteq waiting
    /\ \/ accepting' = accepting
       \/ accepting # Runtime!NoJob /\ accepting.exchange = Head(inbox).exchange

Executes ==
    /\ Reads
    /\ Head(inbox).path \in {"command", "power", "screenshot"}
    /\ UNCHANGED <<jobs, accepting, active, waiting>>
    /\ \A x \in Nat \ {0} : Acted(x)' => Acted(x) \/ x = Head(inbox).exchange
    /\ \A r \in replies' : r \in replies \/ r.exchange = Head(inbox).exchange

StartRefused ==
    /\ Reads
    /\ Head(inbox).path = "start"
    /\ UNCHANGED <<actions, accepting, waiting, jobs, active>>
    /\ \A r \in replies' :
          \/ r \in replies
          \/ /\ r.exchange = Head(inbox).exchange
             /\ r.ok => jobs[Head(inbox).id] # Runtime!NoJob

StartBegins ==
    /\ Reads
    /\ Head(inbox).path = "start"
    /\ accepting = Runtime!NoJob /\ active = 0
    /\ accepting' # Runtime!NoJob
    /\ accepting'.id = Head(inbox).id
    /\ accepting'.lease = Head(inbox).reservation
    /\ accepting'.exchange = Head(inbox).exchange
    /\ UNCHANGED <<actions, waiting, jobs, active, replies>>

\* What a cancelation is of.
IsOf(q, id) ==
    /\ q.id = id
    /\ jobs[id] # Runtime!NoJob
    /\ q.reservation = jobs[id].lease

CancelBegins ==
    /\ Reads
    /\ Head(inbox).path = "cancel"
    /\ UNCHANGED <<actions, accepting, active, replies>>
    /\ waiting' \subseteq waiting \cup {Head(inbox).exchange}
    /\ Progress
    /\ Head(inbox).id \in Runtime!Ids => jobs'[Head(inbox).id].aborted

CancelAnswered ==
    /\ Reads
    /\ Head(inbox).path = "cancel"
    /\ ~IsOf(Head(inbox), active)
    /\ UNCHANGED <<actions, accepting, active, jobs, waiting>>
    /\ \A r \in replies' :
          \/ r \in replies
          \/ /\ r.exchange = Head(inbox).exchange
             /\ r.running = 0
             /\ r.ok => IsOf(Head(inbox), Head(inbox).id)

Restarts ==
    /\ inbox' = <<>> /\ actions' = <<>> /\ waiting' = {}
    /\ accepting' = Runtime!NoJob /\ active' = 0
    /\ \A r \in replies' : r \in replies \/ ~r.ok
    /\ \A id \in Runtime!Ids :
          /\ Known(id) => jobs'[id] # Runtime!NoJob
          /\ jobs'[id] # Runtime!NoJob =>
                \/ Known(id) /\ jobs'[id].lease = jobs[id].lease
                \/ /\ accepting # Runtime!NoJob /\ id = accepting.id
                   /\ jobs'[id].lease = accepting.lease

Accepts ==
    /\ accepting # Runtime!NoJob
    /\ accepting' = Runtime!NoJob
    /\ UNCHANGED <<inbox, actions, waiting>>
    /\ \A id \in Runtime!Ids :
          IF id = accepting.id
          THEN jobs'[id] # Runtime!NoJob /\ jobs'[id].lease = accepting.lease
          ELSE jobs'[id] = jobs[id]
    /\ \E ok \in BOOLEAN :
          /\ active' = IF ok THEN accepting.id ELSE 0
          /\ \A r \in replies' :
                \/ r \in replies
                \/ /\ r.exchange = accepting.exchange
                   /\ r.ok <=> ok
                   /\ r.running = accepting.id

Saves ==
    /\ UNCHANGED <<inbox, actions, accepting>>
    /\ waiting' = {} /\ active' = 0
    /\ Progress
    /\ \A r \in replies' :
          r \in replies \/ (Awaited(r.exchange) /\ r.running = 0)

\* A job goes on, or is aborted.
LEMMA ProgressIs ==
    ASSUME TypeOK, NEW STATE id, NEW STATE j,
           jobs' = [jobs EXCEPT ![id] = j],
           id \in Runtime!Ids =>
               /\ jobs[id] # Runtime!NoJob
               /\ \/ \E s \in {"settled", "done"} : j = [jobs[id] EXCEPT !.stage = s]
                  \/ /\ jobs[id].stage \notin {"settled", "done"}
                     /\ \E s \in Runtime!Stages : j = [jobs[id] EXCEPT !.stage = s]
                  \/ j = [jobs[id] EXCEPT !.aborted = TRUE]
    PROVE  /\ Progress
           /\ id \in Runtime!Ids => jobs'[id] = j
<1>1. jobs \in [Runtime!Ids -> Runtime!Jobs \cup {Runtime!NoJob}]
    BY DEF TypeOK, Runtime!TypeOK
<1>2. ASSUME id \in Runtime!Ids PROVE Goes(jobs[id], j)
  <2>1. jobs[id] \in Runtime!Jobs
      BY <1>1, <1>2
  <2>2. ASSUME NEW s \in Runtime!Stages, j = [jobs[id] EXCEPT !.stage = s]
        PROVE  /\ j.lease = jobs[id].lease /\ j.aborted = jobs[id].aborted
               /\ j.stage = s /\ j \in Runtime!Jobs
      BY <2>1, <2>2 DEF Runtime!Jobs
  <2>3. ASSUME j = [jobs[id] EXCEPT !.aborted = TRUE]
        PROVE  /\ j.lease = jobs[id].lease /\ j.aborted
               /\ j.stage = jobs[id].stage /\ j \in Runtime!Jobs
      BY <2>1, <2>3 DEF Runtime!Jobs
  <2>4. {"settled", "done"} \subseteq Runtime!Stages
      BY DEF Runtime!Stages
  <2>5. j \in Runtime!Jobs
      BY <1>2, <2>2, <2>3, <2>4
  <2> QED BY <1>2, <2>2, <2>3, <2>4, <2>5, JobIsSomething DEF Goes
<1>3. ASSUME NEW k \in Runtime!Ids PROVE Goes(jobs[k], jobs'[k])
  <2>1. k = id => jobs'[k] = j
      BY <1>1
  <2>2. k # id => jobs'[k] = jobs[k]
      BY <1>1
  <2> QED BY <1>2, <2>1, <2>2 DEF Goes
<1> QED BY <1>1, <1>3 DEF Progress

LEMMA NoProgress ==
    ASSUME UNCHANGED jobs
    PROVE  Progress
BY DEF Progress, Goes

LEMMA AnswersAre ==
    ASSUME NEW STATE X, NEW STATE ok, NEW STATE id,
           replies' = Runtime!Answers(X, ok, id)
    PROVE  \A r \in replies' :
              \/ r \in replies
              \/ r.exchange \in X /\ r.ok = ok /\ r.running = id
BY DEF Runtime!Answers

LEMMA ServeDoes ==
    ASSUME TypeOK, Runtime!Serve
    PROVE  \/ HangsUp \/ Executes \/ StartRefused \/ StartBegins
           \/ CancelBegins \/ CancelAnswered
<1> DEFINE q == Head(inbox)
           none == 0
           no == FALSE
<1>0. Reads /\ actions \in Seq(Runtime!Actions)
      /\ inbox \in Seq(Runtime!Requests) /\ q \in Runtime!Requests
    BY HeadTail DEF TypeOK, Runtime!TypeOK, Runtime!Serve, Reads
<1>r. ASSUME NEW ok, NEW id, replies' = Runtime!Answers({q.exchange}, ok, id)
      PROVE  \A r \in replies' :
                \/ r \in replies
                \/ r = [exchange |-> q.exchange, ok |-> ok, running |-> id]
  <2> DEFINE X == {q.exchange}
  <2>1. replies' = Runtime!Answers(X, ok, id)
      BY <1>r
  <2> SUFFICES ASSUME NEW r \in replies'
               PROVE  \/ r \in replies
                      \/ r = [exchange |-> q.exchange, ok |-> ok, running |-> id]
      OBVIOUS
  <2> DEFINE x == r.exchange
  <2>2. (x \in X <=> x = q.exchange) /\ r.exchange = x
      OBVIOUS
  <2> HIDE DEF X, q, x
  <2>3. r \in replies \/ (x \in X /\ r = [exchange |-> x, ok |-> ok, running |-> id])
      BY <2>1, <2>2, ThenReplied
  <2> QED BY <2>2, <2>3
<1>1. CASE Runtime!Hangup(q)
  <2>1. \A x \in Nat \ {0} : Acted(x)' => Acted(x)
    <3> SUFFICES ASSUME NEW x \in Nat \ {0}, NEW i \in DOMAIN actions',
                        actions'[i].exchange = x
                 PROVE  Acted(x)
        BY DEF Acted
    <3>1. \A k \in DOMAIN actions : actions[k] \in Runtime!Actions
        BY <1>0
    <3>2. actions' = [k \in DOMAIN actions |-> Runtime!Cut(actions[k], q.exchange)]
        BY <1>1 DEF Runtime!Hangup
    <3> HIDE DEF q
    <3>3. i \in DOMAIN actions /\ actions'[i] = Runtime!Cut(actions[i], q.exchange)
        BY <3>2
    <3>4. actions[i].exchange = x
        BY <3>1, <3>3, CutIsUnheard
    <3> QED BY <3>3, <3>4 DEF Acted
  <2> QED BY <1>0, <1>1, <2>1 DEF Runtime!Hangup, HangsUp
<1>2. CASE Runtime!Execute(q)
  <2>1. q.path \in {"command", "power", "screenshot"}
        /\ UNCHANGED <<jobs, accepting, active, waiting>>
      BY <1>2 DEF Runtime!Execute, Runtime!installing
  <2>2. \A x \in Nat \ {0} : Acted(x)' => Acted(x) \/ x = q.exchange
    <3> DEFINE new == Runtime!Action(q.path, q, 0)
    <3>1. new.exchange = q.exchange
        BY DEF Runtime!Action
    <3>2. actions' = Append(actions, new) \/ actions' = actions
        BY <1>2 DEF Runtime!Execute
    <3>3. CASE actions' = Append(actions, new)
      <4>1. \A i \in DOMAIN actions' :
                \/ i \in DOMAIN actions /\ actions'[i] = actions[i]
                \/ actions'[i].exchange = q.exchange
        <5> HIDE DEF new
        <5> QED BY <1>0, <3>1, <3>3
      <4> QED BY <4>1 DEF Acted
    <3>4. CASE actions' = actions
        BY <3>4 DEF Acted
    <3> QED BY <3>2, <3>3, <3>4
  <2>3. \A r \in replies' : r \in replies \/ r.exchange = q.exchange
    <3>1. UNCHANGED replies \/ replies' = Runtime!Answers({q.exchange}, no, none)
        BY <1>2 DEF Runtime!Execute
    <3> HIDE DEF q, no, none
    <3> QED BY <1>r, <3>1
  <2> QED BY <1>0, <2>1, <2>2, <2>3 DEF Executes
<1>3. CASE Runtime!Start(q)
  <2> DEFINE mine == jobs[q.id] # Runtime!NoJob /\ jobs[q.id].lease = q.reservation
             id == IF mine /\ ~Runtime!Settled(q.id) THEN q.id ELSE 0
             job == [id |-> q.id, lease |-> q.reservation,
                     session |-> q.session, exchange |-> q.exchange]
  <2>0. q.path = "start" /\ UNCHANGED <<actions, jobs, active, waiting>>
      BY <1>3 DEF Runtime!Start
  <2>1. \/ /\ replies' = Runtime!Answers({q.exchange}, mine, id)
           /\ UNCHANGED accepting
        \/ /\ active = 0 /\ accepting = Runtime!NoJob
           /\ accepting' = job
           /\ UNCHANGED replies
      BY <1>3 DEF Runtime!Start
  <2>2. mine => jobs[q.id] # Runtime!NoJob
      OBVIOUS
  <2>3. job # Runtime!NoJob /\ job.id = q.id /\ job.lease = q.reservation
        /\ job.exchange = q.exchange
      BY DEF Runtime!NoJob
  <2> HIDE DEF mine, id, job, q
  <2>4. CASE replies' = Runtime!Answers({q.exchange}, mine, id) /\ UNCHANGED accepting
    <3>1. \A r \in replies' :
              \/ r \in replies
              \/ r.exchange = q.exchange /\ (r.ok => jobs[q.id] # Runtime!NoJob)
        BY <1>r, <2>2, <2>4
    <3> QED BY <1>0, <2>0, <2>4, <3>1 DEF StartRefused, q
  <2>5. CASE /\ active = 0 /\ accepting = Runtime!NoJob
             /\ accepting' = job
             /\ UNCHANGED replies
      BY <1>0, <2>0, <2>3, <2>5 DEF StartBegins, q
  <2> QED BY <2>1, <2>4, <2>5
<1>4. CASE Runtime!Cancel(q)
  <2> DEFINE mine == jobs[q.id] # Runtime!NoJob /\ jobs[q.id].lease = q.reservation
  <2>0. q.path = "cancel" /\ UNCHANGED <<actions, accepting, active>>
      BY <1>4 DEF Runtime!Cancel
  <2>1. CASE mine /\ active = q.id
    <3>1. /\ jobs' = [jobs EXCEPT ![q.id].aborted = TRUE]
          /\ waiting' = waiting \cup ({q.exchange} \ {0})
          /\ UNCHANGED replies
        BY <1>4, <2>1 DEF Runtime!Cancel
    <3> DEFINE j == [jobs[q.id] EXCEPT !.aborted = TRUE]
    <3>2. jobs' = [jobs EXCEPT ![q.id] = j]
        BY <3>1
    <3>3. Progress /\ (q.id \in Runtime!Ids => jobs'[q.id] = j)
      <4> DEFINE key == q.id
      <4>1. jobs' = [jobs EXCEPT ![key] = j]
            /\ (key \in Runtime!Ids =>
                    jobs[key] # Runtime!NoJob /\ j = [jobs[key] EXCEPT !.aborted = TRUE])
          BY <2>1, <3>2
      <4> HIDE DEF key, j
      <4>2. Progress /\ (key \in Runtime!Ids => jobs'[key] = j)
          BY <4>1, ProgressIs
      <4> QED BY <4>2 DEF key
    <3>4. q.id \in Runtime!Ids => j.aborted
      <4>1. q.id \in Runtime!Ids => jobs[q.id] \in Runtime!Jobs
          BY <2>1 DEF TypeOK, Runtime!TypeOK
      <4> QED BY <4>1 DEF Runtime!Jobs
    <3>5. waiting' \subseteq waiting \cup {q.exchange}
        BY <3>1
    <3> HIDE DEF j
    <3>6. q.id \in Runtime!Ids => jobs'[q.id].aborted
        BY <3>3, <3>4
    <3> QED BY <1>0, <2>0, <3>1, <3>3, <3>5, <3>6 DEF CancelBegins
  <2>2. CASE ~(mine /\ active = q.id)
    <3>1. replies' = Runtime!Answers({q.exchange}, mine, none)
          /\ UNCHANGED <<jobs, waiting>>
        BY <1>4, <2>2 DEF Runtime!Cancel
    <3>2. mine => IsOf(q, q.id)
        BY DEF IsOf
    <3>3. ~IsOf(q, active)
        BY <2>2 DEF IsOf
    <3>4. \A r \in replies' :
              \/ r \in replies
              \/ r.exchange = q.exchange /\ r.running = 0 /\ (r.ok => IsOf(q, q.id))
      <4> HIDE DEF mine, q, none
      <4>1. \A r \in replies' :
                \/ r \in replies
                \/ r = [exchange |-> q.exchange, ok |-> mine, running |-> none]
          BY <1>r, <3>1
      <4> QED BY <3>2, <4>1 DEF none
    <3> HIDE DEF mine
    <3> QED BY <1>0, <2>0, <3>1, <3>3, <3>4 DEF CancelAnswered
  <2> QED BY <2>1, <2>2
<1> QED BY <1>1, <1>2, <1>3, <1>4 DEF Runtime!Serve

LEMMA QueueDoes ==
    ASSUME TypeOK, Runtime!Queue
    PROVE  Works
<1>0. actions \in Seq(Runtime!Actions)
    BY DEF TypeOK, Runtime!TypeOK
<1>1. CASE Runtime!Begin
  <2>1. actions' = [actions EXCEPT ![1].running = TRUE] /\ 1 \in DOMAIN actions
        /\ UNCHANGED <<inbox, replies, jobs, accepting, active, waiting>>
      BY <1>0, <1>1, HeadTail DEF Runtime!Begin, Runtime!installing
  <2>2. \A i \in DOMAIN actions' :
            i \in DOMAIN actions /\ actions'[i].exchange = actions[i].exchange
      BY <1>0, <2>1 DEF Runtime!Actions
  <2>3. \A x \in Nat \ {0} : Acted(x)' => Acted(x)
      BY <2>2 DEF Acted
  <2> QED BY <2>1, <2>3, NoProgress DEF Works
<1>2. CASE Runtime!Refuse \/ Runtime!End
  <2> DEFINE a == Head(actions)
             none == 0
             j == [jobs[a.id] EXCEPT !.stage = "settled"]
  <2>1. PICK ok : actions # <<>> /\ Runtime!Over(a, ok)
      BY <1>2 DEF Runtime!Refuse, Runtime!End
  <2>2. /\ actions' = Tail(actions)
        /\ replies' = Runtime!Answers({a.exchange}, ok, none)
        /\ jobs' = IF a.path = "launch" THEN [jobs EXCEPT ![a.id] = j] ELSE jobs
        /\ UNCHANGED <<inbox, accepting, active, waiting>>
      BY <2>1 DEF Runtime!Over
  <2>3. /\ a = actions[1] /\ 1 \in DOMAIN actions /\ a \in Runtime!Actions
        /\ \A i \in DOMAIN Tail(actions) :
              i + 1 \in DOMAIN actions /\ Tail(actions)[i] = actions[i + 1]
      BY <1>0, <2>1, HeadTail
  <2>4. \A x \in Nat \ {0} : Acted(x)' => Acted(x)
      BY <2>2, <2>3 DEF Acted
  <2>5. \A r \in replies' : r \in replies \/ Acted(r.exchange)
    <3> DEFINE X == {a.exchange}
    <3>1. replies' = Runtime!Answers(X, ok, none)
        BY <2>2
    <3>2. \A x \in X : Acted(x)
        BY <2>3 DEF Acted
    <3> HIDE DEF X, a, none
    <3> SUFFICES ASSUME NEW r \in replies' PROVE r \in replies \/ Acted(r.exchange)
        OBVIOUS
    <3> DEFINE x == r.exchange
    <3>3. r.exchange = x
        OBVIOUS
    <3> HIDE DEF x
    <3>4. r \in replies \/ x \in X
        BY <3>1, <3>3, ThenReplied
    <3> QED BY <3>2, <3>3, <3>4
  <2>6. Progress
    <3>1. CASE a.path = "launch"
      <4> DEFINE key == a.id
      <4>1. key \in Runtime!Ids /\ jobs[key] # Runtime!NoJob
          BY <2>3, <3>1 DEF TypeOK, Runtime!TypeOK
      <4>2. jobs' = [jobs EXCEPT ![key] = j]
            /\ j = [jobs[key] EXCEPT !.stage = "settled"]
          BY <2>2, <3>1
      <4> HIDE DEF a, j, key
      <4> QED BY <4>1, <4>2, ProgressIs
    <3>2. CASE a.path # "launch"
        BY <2>2, <3>2, NoProgress
    <3> QED BY <3>1, <3>2
  <2> QED BY <2>2, <2>4, <2>5, <2>6 DEF Works
<1> QED BY <1>1, <1>2 DEF Runtime!Queue

LEMMA RestartDoes ==
    ASSUME TypeOK, Runtime!Restart
    PROVE  Restarts
<1> DEFINE X == Runtime!Exchanges
           no == FALSE
           none == 0
<1>1. /\ inbox' = <<>> /\ actions' = <<>> /\ waiting' = {}
      /\ accepting' = Runtime!NoJob /\ active' = 0
      /\ replies' = Runtime!Answers(X, no, none)
    BY DEF Runtime!Restart
<1>2. \A r \in replies' : r \in replies \/ ~r.ok
  <2>1. replies' = Runtime!Answers(X, no, none)
      BY <1>1
  <2> HIDE DEF X, no, none
  <2>2. \A r \in replies' : r \in replies \/ r.ok = no
      BY <2>1, AnswersAre
  <2> QED BY <2>2 DEF no
<1>3. PICK saved \in BOOLEAN :
          jobs' = [id \in Runtime!Ids |->
              IF saved /\ accepting.id = id THEN Runtime!Job(accepting, "done")
              ELSE IF jobs[id] = Runtime!NoJob THEN Runtime!NoJob
              ELSE [jobs[id] EXCEPT !.stage = "done"]]
    BY DEF Runtime!Restart
<1>4. ASSUME NEW id \in Runtime!Ids
      PROVE  /\ Known(id) => jobs'[id] # Runtime!NoJob
             /\ jobs'[id] # Runtime!NoJob =>
                   \/ Known(id) /\ jobs'[id].lease = jobs[id].lease
                   \/ /\ accepting # Runtime!NoJob /\ id = accepting.id
                      /\ jobs'[id].lease = accepting.lease
  <2>1. id # 0 /\ jobs[id] \in Runtime!Jobs \cup {Runtime!NoJob}
      BY InstallsAreCounted DEF TypeOK, Runtime!TypeOK, Runtime!Ids
  <2>2. CASE saved /\ accepting.id = id
    <3>1. jobs'[id] = Runtime!Job(accepting, "done")
        BY <1>3, <2>2
    <3>2. accepting # Runtime!NoJob
        BY <2>1, <2>2 DEF Runtime!NoJob
    <3>3. jobs'[id] # Runtime!NoJob /\ jobs'[id].lease = accepting.lease
        BY <3>1 DEF Runtime!Job, Runtime!NoJob
    <3> QED BY <2>2, <3>2, <3>3
  <2>3. CASE ~(saved /\ accepting.id = id) /\ jobs[id] = Runtime!NoJob
      BY <1>3, <2>3 DEF Known
  <2>4. CASE ~(saved /\ accepting.id = id) /\ jobs[id] # Runtime!NoJob
    <3> DEFINE j == [jobs[id] EXCEPT !.stage = "done"]
    <3>1. jobs'[id] = j
        BY <1>3, <2>4
    <3>2. j.lease = jobs[id].lease /\ j \in Runtime!Jobs
        BY <2>1, <2>4 DEF Runtime!Jobs, Runtime!Stages
    <3> HIDE DEF j
    <3> QED BY <2>4, <3>1, <3>2, JobIsSomething DEF Known
  <2> QED BY <2>2, <2>3, <2>4
<1> QED BY <1>1, <1>2, <1>4 DEF Restarts

LEMMA AcceptedDoes ==
    ASSUME TypeOK, Runtime!Accepted
    PROVE  Accepts
<1> DEFINE ok == Runtime!Current(accepting)
           id == accepting.id
           X == {accepting.exchange}
           job == Runtime!Job(accepting, IF ok THEN "downloading" ELSE "done")
<1>1. /\ accepting # Runtime!NoJob /\ accepting' = Runtime!NoJob
      /\ UNCHANGED <<inbox, actions, waiting>>
      /\ jobs' = [jobs EXCEPT ![id] = job]
      /\ active' = IF ok THEN id ELSE 0
      /\ replies' = Runtime!Answers(X, ok, id)
    BY DEF Runtime!Accepted
<1>2. job # Runtime!NoJob /\ job.lease = accepting.lease
    BY DEF Runtime!Job, Runtime!NoJob
<1>3. ok \in BOOLEAN
    BY DEF Runtime!Current
<1>4. \A r \in replies' :
          \/ r \in replies
          \/ r.exchange = accepting.exchange /\ (r.ok <=> ok) /\ r.running = id
  <2> SUFFICES ASSUME NEW r \in replies'
               PROVE  \/ r \in replies
                      \/ /\ r.exchange = accepting.exchange
                         /\ r.ok <=> ok
                         /\ r.running = id
      OBVIOUS
  <2> DEFINE x == r.exchange
  <2>1. r.exchange = x /\ (x \in X <=> x = accepting.exchange)
      OBVIOUS
  <2> HIDE DEF X, ok, id, x
  <2>2. r \in replies \/ (x \in X /\ r = [exchange |-> x, ok |-> ok, running |-> id])
      BY <1>1, <2>1, ThenReplied
  <2> QED BY <2>1, <2>2
<1>5. jobs \in [Runtime!Ids -> Runtime!Jobs \cup {Runtime!NoJob}]
    BY DEF TypeOK, Runtime!TypeOK
<1> HIDE DEF job, ok
<1>6. \A k \in Runtime!Ids :
          IF k = id THEN jobs'[k] = job ELSE jobs'[k] = jobs[k]
    BY <1>1, <1>5
<1> QED BY <1>1, <1>2, <1>3, <1>4, <1>6 DEF Accepts

LEMMA RuntimeDoes ==
    ASSUME TypeOK, Plain, RuntimeStep
    PROVE  /\ UNCHANGED bridge
           /\ \/ Works \/ HangsUp \/ Executes \/ StartRefused \/ StartBegins
              \/ CancelBegins \/ CancelAnswered \/ Restarts \/ Accepts \/ Saves
<1> SUFFICES Works \/ HangsUp \/ Executes \/ StartRefused \/ StartBegins
             \/ CancelBegins \/ CancelAnswered \/ Restarts \/ Accepts \/ Saves
    BY DEF RuntimeStep
<1>0. actions \in Seq(Runtime!Actions) /\ active \in 0..MaxInstalls
      /\ (active # 0 => active \in Runtime!Ids /\ jobs[active] # Runtime!NoJob)
    BY InstallsAreCounted DEF TypeOK, Runtime!TypeOK, Runtime!Ids
<1>w. ASSUME Progress,
             UNCHANGED <<inbox, replies, accepting, waiting, active>>,
             UNCHANGED actions \/ \E a : a.exchange = 0 /\ actions' = Append(actions, a)
      PROVE  Works
  <2>1. \A x \in Nat \ {0} : Acted(x)' => Acted(x)
    <3>1. CASE UNCHANGED actions
        BY <3>1 DEF Acted
    <3>2. CASE \E a : a.exchange = 0 /\ actions' = Append(actions, a)
      <4>1. PICK a : a.exchange = 0 /\ actions' = Append(actions, a)
          BY <3>2
      <4>2. \A i \in DOMAIN actions' :
                (i \in DOMAIN actions /\ actions'[i] = actions[i])
                \/ actions'[i] = a
          BY <1>0, <4>1
      <4> QED BY <4>1, <4>2 DEF Acted
    <3> QED BY <1>w, <3>1, <3>2
  <2> QED BY <1>w, <2>1 DEF Works
<1>s. ASSUME NEW s \in Runtime!Stages, active # 0,
             s \in {"settled", "done"} \/ jobs[active].stage \notin {"settled", "done"},
             jobs' = [jobs EXCEPT ![active].stage = s]
      PROVE  Progress
  <2> DEFINE j == [jobs[active] EXCEPT !.stage = s]
  <2>1. jobs' = [jobs EXCEPT ![active] = j] /\ j = [jobs[active] EXCEPT !.stage = s]
      BY <1>s
  <2> HIDE DEF j
  <2> QED BY <1>0, <1>s, <2>1, ProgressIs
<1>n. {"installing", "launching", "settled", "done"} \subseteq Runtime!Stages
    BY DEF Runtime!Stages
<1>1. CASE Runtime!Queue
    BY <1>1, QueueDoes
<1>2. CASE Looping
  <2>1. UNCHANGED <<inbox, replies, actions, jobs, accepting, active, waiting>>
      BY <1>2
      DEF Looping, Runtime!Prepared, Runtime!PrepareFails, Runtime!ProbeFails,
          Runtime!GoDown, Runtime!Drained, Runtime!Rested, Runtime!installing
  <2> QED BY <1>w, <2>1, NoProgress
<1>3. CASE Runtime!Restart
    BY <1>3, RestartDoes
<1>4. CASE Runtime!Accepted
    BY <1>4, AcceptedDoes
<1>5. ~Runtime!NotAccepted
    BY DEF Runtime!NotAccepted, Plain
<1>6. CASE Runtime!Downloaded
  <2>1. PICK s \in {"installing", "settled"} :
            jobs' = [jobs EXCEPT ![active].stage = s]
      BY <1>6 DEF Runtime!Downloaded, Runtime!GoesTo
  <2>2. active # 0 /\ jobs[active].stage \notin {"settled", "done"}
        /\ UNCHANGED <<inbox, replies, actions, accepting, waiting, active>>
      BY <1>6 DEF Runtime!Downloaded, Runtime!GoesTo, Runtime!AtStage
  <2> QED BY <1>n, <1>s, <1>w, <2>1, <2>2
<1>7. CASE Runtime!Installed
  <2>1. PICK s \in {"launching", "settled"} :
            jobs' = [jobs EXCEPT ![active].stage = s]
      BY <1>7 DEF Runtime!Installed, Runtime!GoesTo
  <2>2. active # 0 /\ jobs[active].stage \notin {"settled", "done"}
        /\ UNCHANGED <<inbox, replies, accepting, waiting, active>>
      BY <1>7 DEF Runtime!Installed, Runtime!GoesTo, Runtime!AtStage
  <2>3. UNCHANGED actions \/ \E a : a.exchange = 0 /\ actions' = Append(actions, a)
    <3> DEFINE a == Runtime!Action("launch",
                        [exchange |-> 0, reservation |-> jobs[active].lease], active)
    <3>1. a.exchange = 0
        BY DEF Runtime!Action
    <3>2. UNCHANGED actions \/ actions' = Append(actions, a)
        BY <1>7 DEF Runtime!Installed
    <3> HIDE DEF a
    <3> QED BY <3>1, <3>2
  <2> QED BY <1>n, <1>s, <1>w, <2>1, <2>2, <2>3
<1>8. CASE Runtime!InstallFails
  <2>1. jobs' = [jobs EXCEPT ![active].stage = "settled"] /\ active # 0
        /\ UNCHANGED <<inbox, replies, actions, accepting, waiting, active>>
      BY <1>8 DEF Runtime!InstallFails, Runtime!GoesTo, Runtime!AtStage
  <2> QED BY <1>n, <1>s, <1>w, <2>1
<1>9. CASE Runtime!Interrupt
  <2> DEFINE j == [jobs[active] EXCEPT !.aborted = TRUE]
  <2>1. jobs' = [jobs EXCEPT ![active] = j] /\ active # 0
        /\ UNCHANGED <<inbox, replies, actions, accepting, waiting, active>>
      BY <1>9 DEF Runtime!Interrupt, Runtime!AtStage
  <2>2. j = [jobs[active] EXCEPT !.aborted = TRUE]
      OBVIOUS
  <2> HIDE DEF j
  <2>3. Progress
      BY <1>0, <2>1, <2>2, ProgressIs
  <2> QED BY <1>w, <2>1, <2>3
<1>10. CASE Runtime!Saved
  <2> DEFINE yes == TRUE
             none == 0
  <2>1. jobs' = [jobs EXCEPT ![active].stage = "done"] /\ active # 0
        /\ UNCHANGED <<inbox, actions, accepting>>
        /\ waiting' = {} /\ active' = 0
        /\ replies' = Runtime!Answers(waiting, yes, none)
      BY <1>10 DEF Runtime!Saved, Runtime!GoesTo, Runtime!AtStage
  <2>2. \A r \in replies' :
            r \in replies \/ (Awaited(r.exchange) /\ r.running = 0)
    <3>1. replies' = Runtime!Answers(waiting, yes, none)
        BY <2>1
    <3> HIDE DEF yes, none
    <3>2. \A r \in replies' :
              r \in replies \/ (r.exchange \in waiting /\ r.running = none)
        BY <3>1, AnswersAre
    <3> QED BY <3>2 DEF Awaited, none
  <2>3. Progress
      BY <1>n, <1>s, <2>1
  <2> QED BY <2>1, <2>2, <2>3 DEF Saves
<1>11. CASE Runtime!Serve
    BY <1>11, ServeDoes
<1> QED
  BY <1>1, <1>2, <1>3, <1>4, <1>5, <1>6, <1>7, <1>8, <1>9, <1>10, <1>11
  DEF RuntimeStep, Runtime!Next, Runtime!Installing, Looping

-----------------------------------------------------------------------------
\* What is asked for, and where.
LEMMA FirstIsTyped ==
    ASSUME TypeOK, AskedInv, Bridge!Waits
    PROVE  /\ queue # <<>> /\ Head(queue) \in Bridge!Operations
           /\ Head(queue).exchange \in Nat \ {0}
           /\ Head(queue).id \in Nat
           /\ PathOf(Head(queue)) \in
                 {"command", "power", "start", "status", "cancel"}
<1>1. queue # <<>> /\ Head(queue) \in Bridge!Operations
    BY QueueTyped1 DEF Bridge!Waits, Bridge!AtStage
<1>2. \A op \in Bridge!Operations :
          /\ op.exchange \in Nat /\ op.id \in Nat
          /\ PathOf(op) \in {"command", "power", "start", "status", "cancel"}
    BY InstallsAreCounted DEF Bridge!Operations, PathOf
<1> QED BY <1>1, <1>2 DEF AskedInv, AskedFor

LEMMA AskedAtRuntime ==
    ASSUME AskedInv, UNCHANGED bridge, NEW CONSTANT k,
           NEW CONSTANT op, op = Head(queue), NEW CONSTANT x, x = op.exchange,
           \A i \in DOMAIN inbox' : i + k \in DOMAIN inbox /\ inbox'[i] = inbox[i + k],
           Bridge!Waits =>
               /\ Acted(x)' => PathOf(op) \in Forwarded
               /\ Accepted(x)' => /\ PathOf(op) = "start"
                                  /\ accepting'.id = op.id
                                  /\ accepting'.lease = op.reservation
               /\ Awaited(x)' => PathOf(op) = "cancel",
           accepting' # Runtime!NoJob =>
               Starting /\ x = accepting'.exchange /\ active' = 0
    PROVE  AskedInv'
<1>0. (Bridge!Waits' <=> Bridge!Waits) /\ (Starting' <=> Starting)
      /\ Head(queue') = op
    BY DEF bridge, Bridge!Waits, Bridge!AtStage, Starting, PathOf
<1>1. ASSUME Bridge!Waits PROVE AskedFor(op)'
  <2>0. AskedFor(op)
      BY <1>1 DEF AskedInv
  <2>1. ~ClosePending(x)'
      BY <2>0 DEF AskedFor, ClosePending
  <2>2. \A i \in DOMAIN inbox' :
            AsksAt(i, x)' => /\ inbox'[i].path = PathOf(op)
                             /\ inbox'[i].id = op.id
                             /\ inbox'[i].reservation = op.reservation
      BY <2>0 DEF AskedFor, AsksAt
  <2>3. x # 0 /\ (PathOf(op) = "start" => op.reservation # 0)
      BY <2>0 DEF AskedFor
  <2> QED BY <1>1, <2>1, <2>2, <2>3 DEF AskedFor
<1>2. \A i \in DOMAIN inbox' :
          inbox'[i].path = "start" => Starting /\ x = inbox'[i].exchange
    BY DEF AskedInv
<1> QED BY <1>0, <1>1, <1>2 DEF AskedInv

\* Nothing is asked for, nor was it.
LEMMA AskedIfSilent ==
    ASSUME AskedInv, ~Bridge!Waits, ~Bridge!Waits', UNCHANGED <<inbox, accepting>>
    PROVE  AskedInv'
BY DEF AskedInv, Starting

\* What the server reads leaves the rest.
LEMMA InboxIsRead ==
    ASSUME TypeOK, Reads
    PROVE  /\ 1 \in DOMAIN inbox /\ Head(inbox) = inbox[1]
           /\ Head(inbox) \in Runtime!Requests
           /\ \A i \in DOMAIN inbox' :
                 i \in Nat /\ i + 1 \in DOMAIN inbox /\ inbox'[i] = inbox[i + 1]
           /\ \A i \in DOMAIN inbox :
                 i = 1 \/ (i - 1 \in DOMAIN inbox' /\ inbox'[i - 1] = inbox[i])
<1>1. inbox \in Seq(Runtime!Requests) /\ inbox # <<>> /\ inbox' = Tail(inbox)
    BY DEF TypeOK, Runtime!TypeOK, Reads
<1> QED BY <1>1

LEMMA InboxStays ==
    ASSUME TypeOK, UNCHANGED inbox
    PROVE  \A i \in DOMAIN inbox' : i + 0 \in DOMAIN inbox /\ inbox'[i] = inbox[i + 0]
<1>1. inbox \in Seq(Runtime!Requests)
    BY DEF TypeOK, Runtime!TypeOK
<1> QED BY <1>1

\* No connection closes over which an installation was asked for.
LEMMA HangupIsOfAnother ==
    ASSUME TypeOK, AskedInv, HangsUp
    PROVE  accepting' = accepting
<1>1. CASE accepting # Runtime!NoJob /\ accepting.exchange = Head(inbox).exchange
  <2>1. Bridge!Waits /\ Head(inbox).exchange = Head(queue).exchange
      BY <1>1 DEF AskedInv, Starting
  <2>2. 1 \in DOMAIN inbox /\ Head(inbox) = inbox[1] /\ Head(inbox).path = "close"
      BY InboxIsRead DEF HangsUp
  <2> QED BY <2>1, <2>2 DEF AskedInv, AskedFor, ClosePending
<1> QED BY <1>1 DEF HangsUp

LEMMA AskedWhenRuns ==
    ASSUME TypeOK, AskedInv, Plain, RuntimeStep
    PROVE  AskedInv'
<1>0. UNCHANGED bridge
    BY RuntimeDoes
<1>o. PICK op, x, q : op = Head(queue) /\ x = op.exchange /\ q = Head(inbox)
    OBVIOUS
<1>1. Bridge!Waits =>
          /\ x \in Nat \ {0}
          /\ PathOf(op) \in {"command", "power", "start", "status", "cancel"}
          /\ Acted(x) => PathOf(op) \in Forwarded
          /\ Accepted(x) => /\ PathOf(op) = "start"
                            /\ accepting.id = op.id
                            /\ accepting.lease = op.reservation
          /\ Awaited(x) => PathOf(op) = "cancel"
          /\ ~ClosePending(x)
          /\ \A i \in DOMAIN inbox :
                AsksAt(i, x) => /\ inbox[i].path = PathOf(op)
                                /\ inbox[i].id = op.id
                                /\ inbox[i].reservation = op.reservation
    BY <1>o, FirstIsTyped DEF AskedInv, AskedFor
<1>2. accepting # Runtime!NoJob =>
          Starting /\ x = accepting.exchange /\ active = 0
    BY <1>o DEF AskedInv
<1>3. Starting <=> Bridge!Waits /\ PathOf(op) = "start"
    BY <1>o DEF Starting
\* What is read.
<1>r. ASSUME Reads
      PROVE  /\ \A i \in DOMAIN inbox' :
                   i + 1 \in DOMAIN inbox /\ inbox'[i] = inbox[i + 1]
             /\ Bridge!Waits /\ q.exchange = x =>
                   /\ q.path = PathOf(op) /\ q.id = op.id
                   /\ q.reservation = op.reservation
             /\ q.path = "start" => Starting /\ x = q.exchange
  <2>1. 1 \in DOMAIN inbox /\ q = inbox[1]
        /\ \A i \in DOMAIN inbox' :
              i + 1 \in DOMAIN inbox /\ inbox'[i] = inbox[i + 1]
      BY <1>o, <1>r, InboxIsRead
  <2>2. q.path = "start" => Starting /\ x = q.exchange
      BY <1>o, <2>1 DEF AskedInv
  <2>3. Bridge!Waits /\ q.exchange = x => AsksAt(1, x)
      BY <1>1, <2>1 DEF AsksAt, ClosePending
  <2> QED BY <1>1, <2>1, <2>2, <2>3
<1>a. ASSUME NEW CONSTANT k,
             \A i \in DOMAIN inbox' : i + k \in DOMAIN inbox /\ inbox'[i] = inbox[i + k],
             Bridge!Waits =>
                 /\ Acted(x)' => PathOf(op) \in Forwarded
                 /\ Accepted(x)' => /\ PathOf(op) = "start"
                                    /\ accepting'.id = op.id
                                    /\ accepting'.lease = op.reservation
                 /\ Awaited(x)' => PathOf(op) = "cancel",
             accepting' # Runtime!NoJob =>
                 Starting /\ x = accepting'.exchange /\ active' = 0
      PROVE  AskedInv'
    BY <1>0, <1>a, <1>o, AskedAtRuntime
\* Where nothing new is asked.
<1>b. ASSUME UNCHANGED inbox \/ Reads,
             Bridge!Waits =>
                 /\ Acted(x)' => Acted(x) \/ PathOf(op) \in Forwarded
                 /\ Awaited(x)' => Awaited(x) \/ PathOf(op) = "cancel",
             accepting' = Runtime!NoJob \/ UNCHANGED <<accepting, active>>
      PROVE  AskedInv'
  <2>1. PICK k \in {0, 1} : \A i \in DOMAIN inbox' :
            i + k \in DOMAIN inbox /\ inbox'[i] = inbox[i + k]
    <3>1. CASE UNCHANGED inbox
        BY <3>1, InboxStays
    <3>2. CASE Reads
        BY <1>r, <3>2
    <3> QED BY <1>b, <3>1, <3>2
  <2>2. Accepted(x)' => Accepted(x) /\ UNCHANGED accepting
      BY <1>b DEF Accepted
  <2>3. accepting' # Runtime!NoJob =>
            Starting /\ x = accepting'.exchange /\ active' = 0
      BY <1>2, <1>b
  <2> QED BY <1>1, <1>a, <1>b, <2>1, <2>2, <2>3
<1>4. CASE Works
  <2>1. Bridge!Waits => (Acted(x)' => Acted(x))
      BY <1>1, <1>4 DEF Works
  <2>2. Awaited(x)' => Awaited(x)
      BY <1>4 DEF Works, Awaited
  <2> QED BY <1>4, <1>b, <2>1, <2>2 DEF Works
<1>5. CASE HangsUp
  <2>1. Bridge!Waits => (Acted(x)' => Acted(x))
      BY <1>1, <1>5 DEF HangsUp
  <2>2. Awaited(x)' => Awaited(x)
      BY <1>5 DEF HangsUp, Awaited
  <2>3. accepting' = accepting
      BY <1>5, HangupIsOfAnother
  <2> QED BY <1>5, <1>b, <2>1, <2>2, <2>3 DEF HangsUp
<1>6. CASE Executes
  <2>1. Bridge!Waits => (Acted(x)' => Acted(x) \/ x = q.exchange)
      BY <1>1, <1>6, <1>o DEF Executes
  <2>2. Bridge!Waits /\ x = q.exchange => PathOf(op) \in Forwarded
      BY <1>1, <1>6, <1>o, <1>r DEF Executes, Forwarded
  <2>3. Awaited(x)' => Awaited(x)
      BY <1>6 DEF Executes, Awaited
  <2> QED BY <1>6, <1>b, <2>1, <2>2, <2>3 DEF Executes
<1>7. CASE StartRefused \/ CancelAnswered
  <2>1. (Acted(x)' => Acted(x)) /\ (Awaited(x)' => Awaited(x))
      BY <1>7 DEF StartRefused, CancelAnswered, Acted, Awaited
  <2> QED BY <1>7, <1>b, <2>1 DEF StartRefused, CancelAnswered
<1>8. CASE StartBegins
  <2>1. (Acted(x)' => Acted(x)) /\ (Awaited(x)' => Awaited(x))
      BY <1>8 DEF StartBegins, Acted, Awaited
  <2>2. Starting /\ x = q.exchange /\ q.id = op.id /\ q.reservation = op.reservation
      BY <1>3, <1>8, <1>o, <1>r DEF StartBegins
  <2>3. /\ accepting'.id = op.id /\ accepting'.lease = op.reservation
        /\ accepting'.exchange = x /\ active' = 0
      BY <1>8, <1>o, <2>2 DEF StartBegins
  <2>4. \A i \in DOMAIN inbox' : i + 1 \in DOMAIN inbox /\ inbox'[i] = inbox[i + 1]
      BY <1>8, <1>r DEF StartBegins
  <2> QED BY <1>1, <1>3, <1>a, <2>1, <2>2, <2>3, <2>4
<1>9. CASE CancelBegins
  <2>1. Acted(x)' => Acted(x)
      BY <1>9 DEF CancelBegins, Acted
  <2>2. Awaited(x)' => Awaited(x) \/ x = q.exchange
      BY <1>9, <1>o DEF CancelBegins, Awaited
  <2>3. Bridge!Waits /\ x = q.exchange => PathOf(op) = "cancel"
      BY <1>9, <1>o, <1>r DEF CancelBegins
  <2> QED BY <1>9, <1>b, <2>1, <2>2, <2>3 DEF CancelBegins
<1>10. CASE Restarts
  <2>1. /\ \A i \in DOMAIN inbox' : i + 0 \in DOMAIN inbox /\ inbox'[i] = inbox[i + 0]
        /\ accepting' = Runtime!NoJob
        /\ ~Acted(x)' /\ ~Awaited(x)' /\ ~Accepted(x)'
      BY <1>10 DEF Restarts, Acted, Awaited, Accepted
  <2> QED BY <1>a, <2>1
<1>11. CASE Accepts \/ Saves
  <2>1. (Acted(x)' => Acted(x)) /\ (Awaited(x)' => Awaited(x))
      BY <1>11 DEF Accepts, Saves, Acted, Awaited
  <2>2. accepting' = Runtime!NoJob \/ UNCHANGED <<accepting, active>>
      BY <1>2, <1>11 DEF Accepts, Saves
  <2>3. UNCHANGED inbox
      BY <1>11 DEF Accepts, Saves
  <2> QED BY <1>b, <2>1, <2>2, <2>3
<1> QED
  BY <1>4, <1>5, <1>6, <1>7, <1>8, <1>9, <1>10, <1>11, RuntimeDoes

\* The operations after the first wait for it to be over.
LEMMA NextIsQueued ==
    ASSUME TypeOK, OnlyFirst, queue # <<>>, queue' = Tail(queue)
    PROVE  ~Bridge!Waits' /\ ~Starting'
<1>1. ASSUME queue' # <<>> PROVE Head(queue').stage = "queued"
  <2>1. queue \in Seq(Bridge!Operations)
      BY DEF TypeOK, Bridge!TypeOK
  <2>2. 2 \in DOMAIN queue /\ Head(queue') = queue[2]
      BY <1>1, <2>1
  <2> QED BY <2>2 DEF OnlyFirst
<1> QED BY <1>1 DEF Bridge!Waits, Bridge!AtStage, Starting

\* What is written to the runtime comes last.
LEMMA InboxGrows ==
    ASSUME TypeOK, NEW e, inbox' = Append(inbox, e)
    PROVE  /\ \A i \in DOMAIN inbox : i \in DOMAIN inbox' /\ inbox'[i] = inbox[i]
           /\ \A i \in DOMAIN inbox' :
                 (i \in DOMAIN inbox /\ inbox'[i] = inbox[i]) \/ inbox'[i] = e
<1>1. inbox \in Seq(Runtime!Requests)
    BY DEF TypeOK, Runtime!TypeOK
<1> QED BY <1>1

\* The answer is there, so that the request is nowhere.
LEMMA AnsweredIsOver ==
    ASSUME TypeOK, AskedOnce, AskedInv, Bridge!Waits,
           \E r \in replies : r.exchange = Head(queue).exchange
    PROVE  LET x == Head(queue).exchange
           IN  /\ ~Sent(x) /\ ~Acted(x) /\ ~Accepted(x) /\ ~Awaited(x)
               /\ \A i \in DOMAIN inbox : inbox[i].path # "start"
               /\ accepting = Runtime!NoJob
<1>1. PICK x : x = Head(queue).exchange
    OBVIOUS
<1>2. x \in Nat \ {0} /\ Replied(x)
    BY <1>1, FirstIsTyped DEF Replied
<1>3. ~Sent(x) /\ ~Acted(x) /\ ~Accepted(x) /\ ~Awaited(x)
    BY <1>2 DEF AskedOnce, Once
<1>4. \A i \in DOMAIN inbox : inbox[i].path # "start"
    BY <1>1, <1>3 DEF AskedInv, Sent, AsksAt
<1>5. accepting = Runtime!NoJob
    BY <1>1, <1>3 DEF AskedInv, Accepted
<1> QED BY <1>1, <1>3, <1>4, <1>5

\* The first operation goes on waiting, for the same.
LEMMA AskedStill ==
    ASSUME AskedInv, UNCHANGED <<actions, accepting, waiting, active>>,
           Bridge!Waits, NEW CONSTANT op, op = Head(queue),
           NEW CONSTANT x, x = op.exchange,
           Bridge!Waits', Head(queue') = op,
           \A i \in DOMAIN inbox' :
               \/ i \in DOMAIN inbox /\ inbox'[i] = inbox[i]
               \/ /\ inbox'[i].exchange # x
                  /\ inbox'[i].path # "start"
    PROVE  AskedInv'
<1>1. AskedFor(op)
    BY DEF AskedInv
<1>2. ~ClosePending(x)'
    BY <1>1 DEF AskedFor, ClosePending
<1>3. \A i \in DOMAIN inbox' :
          AsksAt(i, x)' => i \in DOMAIN inbox /\ inbox'[i] = inbox[i] /\ AsksAt(i, x)
    BY DEF AsksAt
<1>4. AskedFor(op)'
    BY <1>1, <1>2, <1>3 DEF AskedFor, Acted, Accepted, Awaited
<1>5. Starting' <=> Starting
    BY DEF Starting
<1> QED BY <1>4, <1>5 DEF AskedInv

LEMMA AskedWhenBridged ==
    ASSUME TypeOK, AskedOnce, OnlyFirst, AskedInv, Plain, BridgeStep
    PROVE  AskedInv'
<1>0. UNCHANGED <<actions, accepting, waiting, active>>
    BY BridgeDoes DEF runtime
<1>o. PICK op, x : op = Head(queue) /\ x = op.exchange
    OBVIOUS
<1>1. CASE Idles \/ Joins
  <2>1. UNCHANGED <<queue, inbox>>
      BY <1>1 DEF Idles, Joins
  <2>2. Bridge!Waits' <=> Bridge!Waits
      BY <2>1 DEF Bridge!Waits, Bridge!AtStage
  <2>3. CASE Bridge!Waits
    <3>1. \A i \in DOMAIN inbox' : i \in DOMAIN inbox /\ inbox'[i] = inbox[i]
        BY <2>1
    <3> QED BY <1>0, <1>o, <2>1, <2>2, <2>3, <3>1, AskedStill
  <2> QED BY <1>0, <2>1, <2>2, <2>3, AskedIfSilent
<1>2. CASE Parts
  <2>1. /\ queue' = IF Bridge!Abortable THEN Tail(queue) ELSE queue
        /\ \A i \in DOMAIN inbox' :
              (i \in DOMAIN inbox /\ inbox'[i] = inbox[i]) \/ Parting(inbox'[i])
      BY <1>2 DEF Parts
  <2>2. \A i \in DOMAIN inbox' :
            (i \in DOMAIN inbox /\ inbox'[i] = inbox[i]) \/ inbox'[i].path # "start"
      BY <2>1 DEF Parting
  <2>3. CASE Bridge!Abortable
    <3>0. queue # <<>> /\ queue' = Tail(queue)
        BY <2>1, <2>3 DEF Bridge!Abortable, Bridge!AtStage
    <3>1. ~Starting
      <4>1. Head(queue).kind # "start"
          BY <3>0, QueueTyped1 DEF Bridge!Operations
      <4> QED
        BY <2>3, <4>1 DEF Starting, PathOf, Bridge!Abortable, Bridge!AtStage
    <3>2. ~Bridge!Waits'
        BY <3>0, NextIsQueued
    <3>3. \A i \in DOMAIN inbox' : inbox'[i].path # "start"
        BY <2>2, <3>1 DEF AskedInv
    <3>4. accepting' = Runtime!NoJob
        BY <1>0, <3>1 DEF AskedInv
    <3> QED BY <3>2, <3>3, <3>4 DEF AskedInv
  <2>4. CASE ~Bridge!Abortable /\ Bridge!Waits
    <3>1. queue' = queue /\ Bridge!Waits'
        BY <2>1, <2>4 DEF Bridge!Waits, Bridge!AtStage
    <3>2. x # 0
        BY <1>o, <2>4 DEF AskedInv, AskedFor
    <3>3. \A i \in DOMAIN inbox' :
              Parting(inbox'[i]) =>
                  inbox'[i].exchange # x /\ inbox'[i].path # "start"
        BY <1>o, <2>4, <3>2 DEF Parting
    <3>4. \A i \in DOMAIN inbox' :
              \/ i \in DOMAIN inbox /\ inbox'[i] = inbox[i]
              \/ inbox'[i].exchange # x /\ inbox'[i].path # "start"
        BY <2>1, <3>3
    <3> QED BY <1>0, <1>o, <2>4, <3>1, <3>4, AskedStill
  <2>5. CASE ~Bridge!Waits
    <3>1. queue' = queue /\ ~Bridge!Waits'
        BY <2>1, <2>5 DEF Bridge!Waits, Bridge!AtStage, Bridge!Abortable
    <3>2. \A i \in DOMAIN inbox' : inbox'[i].path # "start"
        BY <2>2, <2>5 DEF AskedInv, Starting
    <3>3. accepting' = Runtime!NoJob
        BY <1>0, <2>5 DEF AskedInv, Starting
    <3> QED BY <3>1, <3>2, <3>3 DEF AskedInv
  <2> QED BY <2>3, <2>4, <2>5
<1>3. CASE Enqueues
  <2>1. PICK new : new.stage = "queued" /\ queue' = Append(queue, new)
                   /\ UNCHANGED inbox
      BY <1>3 DEF Enqueues
  <2>2. CASE Bridge!Waits
    <3>1. Head(queue') = op /\ Bridge!Waits'
        BY <1>o, <2>1, <2>2, QueueGrows DEF Bridge!Waits, Bridge!AtStage
    <3>2. \A i \in DOMAIN inbox' : i \in DOMAIN inbox /\ inbox'[i] = inbox[i]
        BY <2>1
    <3> QED BY <1>0, <1>o, <2>2, <3>1, <3>2, AskedStill
  <2>3. CASE ~Bridge!Waits
    <3>1. ~Bridge!Waits'
        BY <2>1, <2>3, QueueGrows DEF Bridge!Waits, Bridge!AtStage
    <3> QED BY <1>0, <2>1, <2>3, <3>1, AskedIfSilent
  <2> QED BY <2>2, <2>3
<1>4. CASE Looks
  <2>1. PICK next : next.stage = "checked" /\ queue' = [queue EXCEPT ![1] = next]
      BY <1>4 DEF Looks
  <2>2. ~Bridge!Waits /\ queue # <<>> /\ UNCHANGED inbox
      BY <1>4 DEF Looks, Bridge!Waits, Bridge!AtStage
  <2>3. ~Bridge!Waits'
      BY <2>1, <2>2, QueueChanges DEF Bridge!Waits, Bridge!AtStage
  <2> QED BY <1>0, <2>2, <2>3, AskedIfSilent
<1>5. CASE Passes
  <2>1. ~Bridge!Waits /\ ~Bridge!Waits' /\ UNCHANGED inbox
      BY <1>5, NextIsQueued DEF Passes
  <2> QED BY <1>0, <2>1, AskedIfSilent
<1>6. CASE Asks
  <2>1. PICK next \in Bridge!Operations, e \in Runtime!Requests :
          /\ next.stage = "requesting"
          /\ next.reservation # 0
          /\ next.exchange \in Nat \ {0}
          /\ ~(Sent(next.exchange) \/ Acted(next.exchange)
               \/ Accepted(next.exchange) \/ Awaited(next.exchange)
               \/ ClosePending(next.exchange))
          /\ e.path = PathOf(next)
          /\ e.exchange = next.exchange
          /\ e.id = next.id
          /\ e.reservation = next.reservation
          /\ queue' = [queue EXCEPT ![1] = next]
          /\ inbox' = Append(inbox, e)
      BY <1>6 DEF Asks
  <2>2. PICK y : y = next.exchange
      OBVIOUS
  <2>3. ~Bridge!Waits /\ queue # <<>>
      BY <1>6 DEF Asks, Bridge!Waits, Bridge!AtStage
  <2>4. Bridge!Waits' /\ Head(queue') = next
        /\ (Starting' <=> PathOf(next) = "start")
      BY <2>1, <2>3, QueueChanges DEF Bridge!Waits, Bridge!AtStage, Starting
  <2>5. \A i \in DOMAIN inbox' :
            (i \in DOMAIN inbox /\ inbox'[i] = inbox[i]) \/ inbox'[i] = e
      BY <2>1, InboxGrows
  <2>6. \A i \in DOMAIN inbox : inbox[i].path # "start"
      BY <2>3 DEF AskedInv, Starting
  <2>7. accepting' = Runtime!NoJob
      BY <1>0, <2>3 DEF AskedInv, Starting
  <2>8. PathOf(next) # "close"
      BY DEF PathOf, Bridge!Operations
  <2>9. ~ClosePending(y)'
      BY <2>1, <2>2, <2>5, <2>8 DEF ClosePending
  <2>10. \A i \in DOMAIN inbox' : AsksAt(i, y)' => inbox'[i] = e
      BY <2>1, <2>2, <2>5 DEF AsksAt, Sent
  <2>11. ~Acted(y)' /\ ~Accepted(y)' /\ ~Awaited(y)'
      BY <1>0, <2>1, <2>2 DEF Acted, Accepted, Awaited
  <2>12. AskedFor(next)'
      BY <2>1, <2>2, <2>9, <2>10, <2>11 DEF AskedFor
  <2> QED BY <2>1, <2>4, <2>5, <2>6, <2>7, <2>12 DEF AskedInv
<1>7. CASE Hears
  <2>1. ~Bridge!Waits' /\ UNCHANGED inbox
    <3>1. queue # <<>> /\ queue' = Tail(queue) /\ UNCHANGED inbox
        BY <1>7 DEF Hears, Bridge!Waits, Bridge!AtStage
    <3> QED BY <3>1, NextIsQueued
  <2>2. /\ \A i \in DOMAIN inbox : inbox[i].path # "start"
        /\ accepting = Runtime!NoJob
      BY <1>7, AnsweredIsOver DEF Hears
  <2> QED BY <1>0, <2>1, <2>2 DEF AskedInv
<1>8. CASE TakesBack
  <2>1. PICK next \in Bridge!Operations, e \in Runtime!Requests :
          /\ Same(Head(queue), next)
          /\ next.stage = "canceling"
          /\ next.exchange = Head(queue).exchange
          /\ e.path = "cancel"
          /\ e.exchange = next.exchange
          /\ e.id = next.id
          /\ e.reservation = next.reservation
          /\ queue' = [queue EXCEPT ![1] = next]
          /\ inbox' = Append(inbox, e)
      BY <1>8 DEF TakesBack
  <2>2. Starting /\ \E r \in replies : r.exchange = Head(queue).exchange
      BY <1>8 DEF TakesBack
  <2>3. Bridge!Waits /\ queue # <<>>
      BY <2>2 DEF Starting, Bridge!Waits, Bridge!AtStage
  <2>4. Bridge!Waits' /\ Head(queue') = next /\ PathOf(next) = "cancel"
      BY <2>1, <2>3, QueueChanges DEF Bridge!Waits, Bridge!AtStage, PathOf
  <2>5. /\ ~Sent(x) /\ ~Acted(x) /\ ~Accepted(x) /\ ~Awaited(x)
        /\ \A i \in DOMAIN inbox : inbox[i].path # "start"
        /\ accepting = Runtime!NoJob
      BY <1>o, <2>2, <2>3, AnsweredIsOver
  <2>6. \A i \in DOMAIN inbox' :
            (i \in DOMAIN inbox /\ inbox'[i] = inbox[i]) \/ inbox'[i] = e
      BY <2>1, InboxGrows
  <2>7. x # 0 /\ ~ClosePending(x)
      BY <1>o, <2>3 DEF AskedInv, AskedFor
  <2>8. ~ClosePending(x)'
      BY <2>1, <2>6, <2>7 DEF ClosePending
  <2>9. \A i \in DOMAIN inbox' : AsksAt(i, x)' => inbox'[i] = e
      BY <2>5, <2>6 DEF AsksAt, Sent
  <2>10. ~Acted(x)' /\ ~Accepted(x)' /\ ~Awaited(x)'
      BY <1>0, <2>5 DEF Acted, Accepted, Awaited
  <2>11. AskedFor(next)'
      BY <1>o, <2>1, <2>4, <2>7, <2>8, <2>9, <2>10 DEF AskedFor
  <2>12. \A i \in DOMAIN inbox' : inbox'[i].path # "start"
      BY <2>1, <2>5, <2>6
  <2> QED BY <1>0, <2>4, <2>5, <2>11, <2>12 DEF AskedInv
<1> QED
  BY <1>1, <1>2, <1>3, <1>4, <1>5, <1>6, <1>7, <1>8, BridgeDoes

LEMMA AskedKept ==
    ASSUME TypeOK, AskedOnce, HeldInv, AskedInv, Plain, [Next]_vars
    PROVE  AskedInv'
<1>1. CASE UNCHANGED vars
    BY <1>1
    DEF vars, bridge, runtime, AskedInv, AskedFor, Starting, PathOf,
        Bridge!Waits, Bridge!AtStage, ClosePending, AsksAt, Acted, Accepted,
        Awaited
<1> QED
  BY <1>1, AskedWhenRuns, AskedWhenBridged DEF Next, HeldInv

-----------------------------------------------------------------------------
\* What is known, and when.
LEMMA FitIfSame ==
    ASSUME TypeOK, AllAreFit, UNCHANGED <<jobs, active>>,
           requested \subseteq requested', issued' \in Nat, issued =< issued',
           NEW CONSTANT k \in Nat, k = 0 /\ Bridge!Waits => Bridge!Waits',
           \A i \in DOMAIN queue' :
               /\ i \in Nat \ {0}
               /\ i + k \in DOMAIN queue
               /\ Same(queue[i + k], queue'[i])
    PROVE  AllAreFit'
<1> SUFFICES ASSUME NEW id \in Runtime!Ids, Known(id)'
             PROVE  IsFit(id)'
    BY DEF AllAreFit, Runtime!Ids
<1>1. Known(id) /\ IsFit(id)
    BY DEF AllAreFit, Known
<1>2. jobs'[id].lease # 0 /\ jobs'[id].lease =< issued'
  <2>1. issued \in Nat /\ jobs[id].lease \in Nat
    <3>1. jobs[id] \in Runtime!Jobs
        BY <1>1 DEF TypeOK, Runtime!TypeOK, Known
    <3> QED BY <3>1 DEF TypeOK, Bridge!TypeOK, Runtime!Jobs
  <2> QED BY <1>1, <2>1 DEF IsFit
<1>3. ASSUME NEW i \in DOMAIN queue', NEW op, op = queue'[i]
      PROVE  NotBefore(op, id, i = 1)'
  <2>1. NotBefore(queue[i + k], id, i + k = 1) /\ Same(queue[i + k], op)
        /\ i \in Nat \ {0}
      BY <1>1, <1>3 DEF IsFit
  <2>2. i + k = 1 => i = 1 /\ k = 0
      BY <2>1
  <2> QED BY <2>1, <2>2 DEF NotBefore, Same
<1>4. \A i \in DOMAIN queue' : NotBefore(queue[i], id, i = 1)'
  <2> SUFFICES ASSUME NEW i \in DOMAIN queue' PROVE NotBefore(queue[i], id, i = 1)'
      OBVIOUS
  <2>1. PICK op : op = queue'[i]
      OBVIOUS
  <2> QED BY <1>3, <2>1 DEF NotBefore
<1> QED BY <1>1, <1>2, <1>4 DEF IsFit

LEMMA FitWhenEnqueued ==
    ASSUME TypeOK, NumberedInv, AllAreFit, UNCHANGED runtime, Enqueues
    PROVE  AllAreFit'
<1> SUFFICES ASSUME NEW id \in Runtime!Ids, Known(id)'
             PROVE  IsFit(id)'
    BY DEF AllAreFit, Runtime!Ids
<1>0. UNCHANGED <<jobs, active>>
    BY DEF runtime
<1>1. Known(id) /\ IsFit(id)
    BY <1>0 DEF AllAreFit, Known
<1>2. PICK op \in Bridge!Operations :
        /\ queue' = Append(queue, op)
        /\ op.stage = "queued"
        /\ op.kind = "install" =>
               op.id = Cardinality(requested) + 1
               /\ requested' = requested \cup {op.id}
        /\ op.kind # "install" => UNCHANGED requested
        /\ op.kind = "cancel" => op.id = Cardinality(requested)
        /\ UNCHANGED <<owner, issued>>
    BY DEF Enqueues
<1>3. PICK n \in Nat : requested = 1..n
    BY DEF NumberedInv
<1>4. Cardinality(requested) = n
  <2>1. Cardinality(1..n) = IF 1 > n THEN 0 ELSE n - 1 + 1
      BY <1>3, FS_Interval
  <2> QED BY <1>3, <2>1
<1>5. id \in 1..n
    BY <1>1, <1>3 DEF IsFit
<1>6. (op.kind = "install" => id < op.id) /\ (op.kind = "cancel" => id =< op.id)
    BY <1>2, <1>4, <1>5
<1>7. requested \subseteq requested'
    BY <1>2
<1>8. ASSUME NEW i \in DOMAIN queue', NEW o, o = queue'[i]
      PROVE  NotBefore(o, id, i = 1)'
  <2>1. CASE i \in DOMAIN queue /\ o = queue[i]
    <3>1. NotBefore(o, id, i = 1)
        BY <1>1, <2>1 DEF IsFit
    <3>2. Bridge!Waits => Bridge!Waits'
        BY <1>2, QueueGrows DEF Bridge!Waits, Bridge!AtStage
    <3> QED BY <3>1, <3>2 DEF NotBefore
  <2>2. CASE o = op
      BY <1>6, <2>2 DEF NotBefore
  <2> QED BY <1>2, <1>8, <2>1, <2>2, QueueGrows
<1>9. \A i \in DOMAIN queue' : NotBefore(queue[i], id, i = 1)'
  <2> SUFFICES ASSUME NEW i \in DOMAIN queue' PROVE NotBefore(queue[i], id, i = 1)'
      OBVIOUS
  <2>1. PICK o : o = queue'[i]
      OBVIOUS
  <2> QED BY <1>8, <2>1 DEF NotBefore
<1> QED BY <1>0, <1>1, <1>2, <1>7, <1>9 DEF IsFit

\* What is known stays so.
LEMMA KnownGoesOn ==
    ASSUME TypeOK, UNCHANGED bridge, Progress,
           NEW CONSTANT id \in Runtime!Ids
    PROVE  /\ Known(id)' <=> Known(id)
           /\ Known(id) => jobs'[id].lease = jobs[id].lease
BY DEF Progress, Goes, Known

LEMMA KnownIfMoved ==
    ASSUME TypeOK, KnownInv, UNCHANGED bridge, Progress, active' \in {0, active},
           NEW CONSTANT x, x = Head(queue).exchange,
           Starting /\ (Sent(x)' \/ Accepted(x)') => Sent(x) \/ Accepted(x),
           Starting => Head(queue).id \in Runtime!Ids
    PROVE  KnownInv'
<1>1. AllAreFit'
  <2> SUFFICES ASSUME NEW id \in Runtime!Ids, Known(id)'
               PROVE  IsFit(id)'
      BY DEF AllAreFit, Runtime!Ids
  <2>1. Known(id) /\ jobs'[id].lease = jobs[id].lease
      BY KnownGoesOn
  <2>2. IsFit(id)
      BY <2>1 DEF KnownInv, AllAreFit
  <2>3. \A i \in DOMAIN queue' : NotBefore(queue[i], id, i = 1)'
      BY <2>2 DEF IsFit, NotBefore, bridge, Bridge!Waits, Bridge!AtStage
  <2> QED BY <2>1, <2>2, <2>3 DEF IsFit, bridge
<1>2. StartIsNew'
  <2> SUFFICES ASSUME Starting, Sent(x)' \/ Accepted(x)', NEW id,
                      id = Head(queue).id
               PROVE  ~Known(id)'
    <3>1. (Starting' <=> Starting) /\ Head(queue') = Head(queue)
        BY DEF Starting, bridge, Bridge!Waits, Bridge!AtStage, PathOf
    <3> QED BY <3>1 DEF StartIsNew, Known
  <2>1. ~Known(id) /\ id \in Runtime!Ids
      BY DEF KnownInv, StartIsNew
  <2> QED BY <2>1, KnownGoesOn
<1> QED BY <1>1, <1>2 DEF KnownInv

\* What is being saved, is saved.
LEMMA FitWhenSaved ==
    ASSUME TypeOK, NumberedInv, AskedInv, KnownInv, UNCHANGED bridge,
           accepting # Runtime!NoJob, active' \in {0, accepting.id},
           \A id \in Runtime!Ids :
               Known(id)' =>
                   \/ Known(id) /\ jobs'[id].lease = jobs[id].lease
                   \/ id = accepting.id /\ jobs'[id].lease = accepting.lease
    PROVE  AllAreFit'
<1> SUFFICES ASSUME NEW id \in Runtime!Ids, Known(id)'
             PROVE  IsFit(id)'
    BY DEF AllAreFit, Runtime!Ids
<1>o. PICK op : op = Head(queue)
    OBVIOUS
<1>1. /\ Starting /\ Bridge!Waits /\ op.id = accepting.id
      /\ op.reservation = accepting.lease /\ accepting.lease # 0
  <2>1. Starting /\ Accepted(op.exchange)
      BY <1>o DEF AskedInv, Accepted
  <2>2. AskedFor(op) /\ PathOf(op) = "start" /\ Bridge!Waits
      BY <1>o, <2>1 DEF AskedInv, Starting
  <2> QED BY <2>1, <2>2 DEF AskedFor
<1>2. /\ 1 \in DOMAIN queue /\ op = queue[1] /\ op.kind = "install"
      /\ op.id \in Nat /\ op.reservation \in Nat
      /\ \A i \in DOMAIN queue : i \in Nat \ {0}
  <2>1. queue # <<>>
      BY <1>1 DEF Bridge!Waits, Bridge!AtStage
  <2>2. 1 \in DOMAIN queue /\ op = queue[1] /\ op \in Bridge!Operations
        /\ op.id \in Nat /\ op.reservation \in Nat
        /\ \A i \in DOMAIN queue : i \in Nat \ {0}
      BY <1>o, <2>1, QueueTyped1
  <2>3. op.kind = "install"
    <3>1. PathOf(op) = "start" /\ op.kind # "start"
        BY <1>o, <1>1, <2>2 DEF Starting, Bridge!Operations
    <3> QED BY <3>1 DEF PathOf
  <2> QED BY <2>2, <2>3
<1>3. op.id \in requested /\ op.reservation =< issued
    BY <1>2 DEF NumberedInv, AreNumbered, Numbered
<1>4. ASSUME Known(id), jobs'[id].lease = jobs[id].lease
      PROVE  IsFit(id)'
  <2>1. IsFit(id)
      BY <1>4 DEF KnownInv, AllAreFit
  <2>2. id \in Nat
      BY InstallsAreCounted DEF Runtime!Ids
  <2>3. id =< op.id
      BY <1>2, <2>1, <2>2 DEF IsFit, NotBefore
  <2>4. active' # 0 => id =< active'
      BY <1>1, <2>3
  <2>5. \A i \in DOMAIN queue' : NotBefore(queue[i], id, i = 1)'
      BY <2>1 DEF IsFit, NotBefore, bridge, Bridge!Waits, Bridge!AtStage
  <2> QED BY <1>4, <2>1, <2>4, <2>5 DEF IsFit, bridge
<1>5. ASSUME id = accepting.id, jobs'[id].lease = accepting.lease
      PROVE  IsFit(id)'
  <2>1. ASSUME NEW i \in DOMAIN queue PROVE NotBefore(queue[i], id, i = 1)
    <3>1. CASE i = 1
        BY <1>1, <1>2, <1>5, <3>1 DEF NotBefore
    <3>2. CASE i # 1
      <4>1. 1 < i
          BY <1>2, <2>1, <3>2
      <4>2. Later(op, queue[i])
          BY <1>2, <4>1 DEF NumberedInv, AreInOrder
      <4> QED BY <1>1, <1>2, <1>5, <4>2 DEF NotBefore, Later
    <3> QED BY <3>1, <3>2
  <2>2. \A i \in DOMAIN queue' : NotBefore(queue[i], id, i = 1)'
      BY <2>1 DEF NotBefore, bridge, Bridge!Waits, Bridge!AtStage
  <2>3. active' # 0 => id =< active'
      BY <1>1, <1>2, <1>5
  <2> QED BY <1>1, <1>3, <1>5, <2>2, <2>3 DEF IsFit, bridge
<1> QED BY <1>4, <1>5

LEMMA KnownWhenRuns ==
    ASSUME TypeOK, AskedOnce, NumberedInv, AskedInv, KnownInv, Plain, RuntimeStep
    PROVE  KnownInv'
<1>0. UNCHANGED bridge
    BY RuntimeDoes
<1>x. PICK x : x = Head(queue).exchange
    OBVIOUS
<1>1. Starting => Head(queue).id \in Runtime!Ids /\ x \in Nat \ {0}
  <2> SUFFICES ASSUME Starting PROVE Head(queue).id \in Runtime!Ids /\ x \in Nat \ {0}
      OBVIOUS
  <2>1. Bridge!Waits /\ queue # <<>> /\ x \in Nat \ {0}
      BY <1>x, FirstIsTyped DEF Starting
  <2>2. 1 \in DOMAIN queue /\ Head(queue) = queue[1]
        /\ Head(queue) \in Bridge!Operations
      BY <2>1, QueueTyped1
  <2>3. Head(queue).kind = "install"
    <3>1. PathOf(Head(queue)) = "start" /\ Head(queue).kind # "start"
        BY <2>2 DEF Starting, Bridge!Operations
    <3> QED BY <3>1 DEF PathOf
  <2>4. Head(queue).id \in requested /\ \A id \in requested : id >= 1
      BY <2>2, <2>3 DEF NumberedInv, AreNumbered, Numbered
  <2>5. Head(queue).id \in 0..MaxInstalls
      BY <2>2 DEF Bridge!Operations
  <2> QED BY <2>1, <2>4, <2>5, InstallsAreCounted DEF Runtime!Ids
<1>s. ASSUME UNCHANGED inbox \/ Reads PROVE Sent(x)' => Sent(x)
  <2>1. CASE UNCHANGED inbox
      BY <2>1 DEF Sent, AsksAt
  <2>2. CASE Reads
      BY <2>2, InboxIsRead DEF Sent, AsksAt
  <2> QED BY <1>s, <2>1, <2>2
<1>a. ASSUME Progress, active' \in {0, active},
             UNCHANGED inbox \/ Reads, UNCHANGED accepting
      PROVE  KnownInv'
  <2>1. Sent(x)' \/ Accepted(x)' => Sent(x) \/ Accepted(x)
      BY <1>a, <1>s DEF Accepted
  <2> QED BY <1>0, <1>1, <1>a, <1>x, <2>1, KnownIfMoved
<1>2. CASE Works \/ Executes \/ StartRefused \/ CancelBegins \/ CancelAnswered
           \/ Saves
    BY <1>2, <1>a, NoProgress
    DEF Works, Executes, StartRefused, CancelBegins, CancelAnswered, Saves
<1>3. CASE HangsUp
    BY <1>3, <1>a, NoProgress, HangupIsOfAnother DEF HangsUp
<1>4. CASE StartBegins
  <2>1. Progress /\ active' \in {0, active} /\ Reads
      BY <1>4, NoProgress DEF StartBegins
  <2>2. Starting /\ Accepted(x)' => Sent(x)
    <3>1. 1 \in DOMAIN inbox /\ Head(inbox) = inbox[1]
          /\ Head(inbox).path = "start" /\ accepting'.exchange = Head(inbox).exchange
        BY <1>4, InboxIsRead DEF StartBegins
    <3> QED BY <3>1 DEF Accepted, Sent, AsksAt
  <2> QED BY <1>0, <1>1, <1>s, <1>x, <2>1, <2>2, KnownIfMoved
<1>5. CASE Restarts
  <2>1. StartIsNew'
      BY <1>5 DEF Restarts, StartIsNew, Sent, Accepted
  <2>2. CASE accepting # Runtime!NoJob
    <3>1. active' \in {0, accepting.id}
          /\ \A id \in Runtime!Ids :
                Known(id)' =>
                    \/ Known(id) /\ jobs'[id].lease = jobs[id].lease
                    \/ id = accepting.id /\ jobs'[id].lease = accepting.lease
        BY <1>5 DEF Restarts, Known
    <3>2. AllAreFit'
        BY <1>0, <2>2, <3>1, FitWhenSaved
    <3> QED BY <2>1, <3>2 DEF KnownInv
  <2>3. CASE accepting = Runtime!NoJob
    <3> SUFFICES ASSUME NEW id \in Runtime!Ids, Known(id)'
                 PROVE  IsFit(id)'
        BY <2>1 DEF KnownInv, AllAreFit, Runtime!Ids
    <3>1. Known(id) /\ jobs'[id].lease = jobs[id].lease /\ active' = 0
        BY <1>5, <2>3 DEF Restarts, Known
    <3>2. IsFit(id)
        BY <3>1 DEF KnownInv, AllAreFit
    <3>3. \A i \in DOMAIN queue' : NotBefore(queue[i], id, i = 1)'
        BY <1>0, <3>2 DEF IsFit, NotBefore, bridge, Bridge!Waits, Bridge!AtStage
    <3> QED BY <1>0, <3>1, <3>2, <3>3 DEF IsFit, bridge
  <2> QED BY <2>2, <2>3
<1>6. CASE Accepts
  <2>1. accepting # Runtime!NoJob /\ active' \in {0, accepting.id}
        /\ \A id \in Runtime!Ids :
              Known(id)' =>
                  \/ Known(id) /\ jobs'[id].lease = jobs[id].lease
                  \/ id = accepting.id /\ jobs'[id].lease = accepting.lease
      BY <1>6 DEF Accepts, Known
  <2>2. AllAreFit'
      BY <1>0, <2>1, FitWhenSaved
  <2>3. ~Accepted(x)' /\ (Starting => ~Sent(x)')
    <3>1. ~Accepted(x)' /\ (Sent(x)' => Sent(x))
        BY <1>6, <1>s DEF Accepts, Accepted
    <3>2. Starting => Accepted(x) /\ Once(x)
        BY <1>1, <1>6, <1>x DEF AskedInv, AskedOnce, Accepted, Accepts
    <3> QED BY <3>1, <3>2 DEF Once
  <2>4. (Starting' <=> Starting) /\ x = Head(queue').exchange
      BY <1>0, <1>x DEF Starting, bridge, Bridge!Waits, Bridge!AtStage, PathOf
  <2>5. StartIsNew'
      BY <2>3, <2>4 DEF StartIsNew
  <2> QED BY <2>2, <2>5 DEF KnownInv
<1> QED BY <1>2, <1>3, <1>4, <1>5, <1>6, RuntimeDoes

LEMMA KnownWhenBridged ==
    ASSUME TypeOK, TypeOK', OnlyFirst, NumberedInv, AskedInv, KnownInv, Plain,
           BridgeStep
    PROVE  KnownInv'
<1>0. UNCHANGED runtime /\ issued \in Nat /\ issued' \in Nat
    BY BridgeDoes DEF TypeOK, Bridge!TypeOK
<1>1. UNCHANGED <<jobs, active, accepting>>
    BY <1>0 DEF runtime
<1>2. \A i \in DOMAIN queue : i \in Nat \ {0} /\ i + 0 = i /\ Same(queue[i], queue[i])
    BY QueueTyped1 DEF Same
<1>s. ASSUME UNCHANGED <<queue, requested>>, issued =< issued',
             \A y \in Nat \ {0} :
                 Bridge!Waits /\ y = Head(queue).exchange =>
                     (Sent(y)' => Sent(y))
      PROVE  KnownInv'
  <2>1. \A i \in DOMAIN queue' :
            /\ i \in Nat \ {0} /\ i + 0 \in DOMAIN queue
            /\ Same(queue[i + 0], queue'[i])
      BY <1>2, <1>s
  <2>2. Bridge!Waits' <=> Bridge!Waits
      BY <1>s DEF Bridge!Waits, Bridge!AtStage
  <2>3. AllAreFit'
      BY <1>0, <1>1, <1>s, <2>1, <2>2, FitIfSame DEF KnownInv
  <2>4. StartIsNew'
    <3> SUFFICES ASSUME Starting, NEW op, op = Head(queue),
                        NEW x, x = op.exchange, Sent(x)' \/ Accepted(x)'
                 PROVE  ~Known(op.id)'
      <4>1. (Starting' <=> Starting) /\ Head(queue') = Head(queue)
          BY <1>s, <2>2 DEF Starting, PathOf
      <4> QED BY <4>1 DEF StartIsNew, Known
    <3>1. Bridge!Waits /\ x \in Nat \ {0}
        BY FirstIsTyped DEF Starting
    <3>2. Sent(x) \/ Accepted(x)
        BY <1>1, <1>s, <3>1 DEF Accepted
    <3>3. ~Known(op.id)
        BY <3>2 DEF KnownInv, StartIsNew
    <3> QED BY <1>1, <3>3 DEF Known
  <2> QED BY <2>3, <2>4 DEF KnownInv
<1>t. ASSUME UNCHANGED <<requested, issued>>, queue # <<>>, queue' = Tail(queue)
      PROVE  KnownInv'
  <2>1. \A i \in DOMAIN queue' :
            /\ i \in Nat \ {0} /\ i + 1 \in DOMAIN queue
            /\ Same(queue[i + 1], queue'[i])
      BY <1>t, QueueAdvances DEF Same
  <2>2. AllAreFit'
      BY <1>0, <1>1, <1>t, <2>1, FitIfSame DEF KnownInv
  <2>3. StartIsNew'
      BY <1>t, NextIsQueued DEF StartIsNew
  <2> QED BY <2>2, <2>3 DEF KnownInv
<1>n. ASSUME UNCHANGED <<requested, issued>>, queue # <<>>,
             NEW next, queue' = [queue EXCEPT ![1] = next],
             Same(Head(queue), next), Bridge!Waits => Bridge!Waits'
      PROVE  AllAreFit'
  <2>1. \A i \in DOMAIN queue' :
            /\ i \in Nat \ {0} /\ i + 0 \in DOMAIN queue
            /\ Same(queue[i + 0], queue'[i])
    <3>1. Head(queue) = queue[1]
        BY <1>n, QueueTyped1
    <3> QED BY <1>2, <1>n, <3>1, QueueChanges
  <2>2. PICK k \in Nat : k = 0
      OBVIOUS
  <2>3. \A i \in DOMAIN queue' :
            /\ i \in Nat \ {0} /\ i + k \in DOMAIN queue
            /\ Same(queue[i + k], queue'[i])
      BY <2>1, <2>2
  <2>4. issued =< issued' /\ requested \subseteq requested' /\ AllAreFit
      BY <1>0, <1>n DEF KnownInv
  <2>5. k = 0 /\ Bridge!Waits => Bridge!Waits'
      BY <1>n
  <2> QED BY <1>0, <1>1, <2>3, <2>4, <2>5, FitIfSame
<1>3. CASE Idles \/ Joins
  <2>1. UNCHANGED <<queue, requested, inbox>> /\ issued =< issued'
      BY <1>0, <1>3 DEF Idles, Joins
  <2>2. \A y \in Nat \ {0} : Sent(y)' => Sent(y)
      BY <2>1 DEF Sent, AsksAt
  <2> QED BY <1>s, <2>1, <2>2
<1>4. CASE Parts
  <2>1. /\ queue' = IF Bridge!Abortable THEN Tail(queue) ELSE queue
        /\ UNCHANGED <<issued, requested>>
        /\ \A i \in DOMAIN inbox' :
              (i \in DOMAIN inbox /\ inbox'[i] = inbox[i]) \/ Parting(inbox'[i])
      BY <1>4 DEF Parts
  <2>2. CASE Bridge!Abortable
      BY <1>t, <2>1, <2>2 DEF Bridge!Abortable, Bridge!AtStage
  <2>3. CASE ~Bridge!Abortable
    <3> SUFFICES ASSUME NEW y \in Nat \ {0}, Bridge!Waits,
                        y = Head(queue).exchange, Sent(y)'
                 PROVE  Sent(y)
        BY <1>0, <1>s, <2>1, <2>3
    <3>1. PICK i \in DOMAIN inbox' : AsksAt(i, y)'
        BY DEF Sent
    <3>2. ~Parting(inbox'[i])
        BY <3>1 DEF AsksAt, Parting
    <3> QED BY <2>1, <3>1, <3>2 DEF Sent, AsksAt
  <2> QED BY <2>2, <2>3
<1>5. CASE Enqueues
  <2>1. PICK new : new.stage = "queued" /\ queue' = Append(queue, new)
                   /\ UNCHANGED inbox
      BY <1>5 DEF Enqueues
  <2>2. AllAreFit'
      BY <1>0, <1>5, FitWhenEnqueued DEF KnownInv
  <2>3. StartIsNew'
    <3>1. CASE queue = <<>>
      <4>1. ~Bridge!Waits'
          BY <2>1, <3>1, QueueGrows DEF Bridge!Waits, Bridge!AtStage
      <4> QED BY <4>1 DEF StartIsNew, Starting
    <3>2. CASE queue # <<>>
      <4>1. queue' # <<>> /\ Head(queue') = Head(queue)
          BY <2>1, <3>2, QueueGrows
      <4>2. Starting' <=> Starting
          BY <3>2, <4>1 DEF Starting, Bridge!Waits, Bridge!AtStage, PathOf
      <4> QED
        BY <1>1, <2>1, <4>1, <4>2
        DEF KnownInv, StartIsNew, Sent, AsksAt, Accepted, Known
    <3> QED BY <3>1, <3>2
  <2> QED BY <2>2, <2>3 DEF KnownInv
<1>6. CASE Looks
  <2>1. PICK next : /\ next.stage = "checked" /\ Same(Head(queue), next)
                    /\ queue' = [queue EXCEPT ![1] = next]
      BY <1>6 DEF Looks
  <2>2. ~Bridge!Waits /\ queue # <<>> /\ UNCHANGED <<requested, issued>>
      BY <1>6 DEF Looks, Bridge!Waits, Bridge!AtStage
  <2>3. ~Bridge!Waits'
      BY <2>1, <2>2, QueueChanges DEF Bridge!Waits, Bridge!AtStage
  <2>4. AllAreFit'
      BY <1>n, <2>1, <2>2
  <2> QED BY <2>3, <2>4 DEF KnownInv, StartIsNew, Starting
<1>7. CASE Passes
    BY <1>7, <1>t DEF Passes
<1>8. CASE Asks
  <2>1. PICK next \in Bridge!Operations :
          /\ Same(Head(queue), next)
          /\ next.stage = "requesting"
          /\ queue' = [queue EXCEPT ![1] = next]
      BY <1>8 DEF Asks
  <2>2. ~Bridge!Waits /\ queue # <<>> /\ UNCHANGED <<requested, issued>>
      BY <1>8 DEF Asks, Bridge!Waits, Bridge!AtStage
  <2>3. AllAreFit' /\ Head(queue') = next
      BY <1>n, <2>1, <2>2, QueueChanges
  <2>4. StartIsNew'
    <3> SUFFICES ASSUME Starting' PROVE ~Known(next.id)'
        BY <2>3 DEF StartIsNew, Known
    <3>1. 1 \in DOMAIN queue /\ Head(queue) = queue[1] /\ next.id \in Nat
        BY <2>2, QueueTyped1, InstallsAreCounted DEF Bridge!Operations
    <3>2. PathOf(next) = "start" /\ next.kind # "start"
        BY <2>3 DEF Starting, PathOf, Bridge!Operations
    <3>3. next.kind = "install"
        BY <3>2 DEF PathOf
    <3>4. \A id \in Runtime!Ids : Known(id) => id < next.id
        BY <2>1, <2>2, <3>1, <3>3
        DEF KnownInv, AllAreFit, IsFit, NotBefore, Same
    <3>5. ~Known(next.id)
        BY <3>1, <3>4 DEF Known
    <3> QED BY <1>1, <3>5 DEF Known
  <2> QED BY <2>3, <2>4 DEF KnownInv
<1>9. CASE Hears
  <2>1. queue # <<>> /\ queue' = Tail(queue) /\ UNCHANGED <<requested, issued>>
      BY <1>9 DEF Hears, Bridge!Waits, Bridge!AtStage
  <2> QED BY <1>t, <2>1
<1>10. CASE TakesBack
  <2>1. PICK next : /\ next.stage = "canceling" /\ Same(Head(queue), next)
                    /\ queue' = [queue EXCEPT ![1] = next]
      BY <1>10 DEF TakesBack
  <2>2. queue # <<>> /\ UNCHANGED <<requested, issued>>
      BY <1>10 DEF TakesBack, Starting, Bridge!Waits, Bridge!AtStage
  <2>3. Bridge!Waits' /\ ~Starting'
      BY <2>1, <2>2, QueueChanges DEF Bridge!Waits, Bridge!AtStage, Starting, PathOf
  <2>4. AllAreFit'
      BY <1>n, <2>1, <2>2, <2>3
  <2> QED BY <2>3, <2>4 DEF KnownInv, StartIsNew
<1> QED
  BY <1>3, <1>4, <1>5, <1>6, <1>7, <1>8, <1>9, <1>10, BridgeDoes

LEMMA KnownKept ==
    ASSUME TypeOK, TypeOK', AskedOnce, HeldInv, NumberedInv, AskedInv, KnownInv,
           Plain, [Next]_vars
    PROVE  KnownInv'
<1>1. CASE UNCHANGED vars
  <2>1. /\ UNCHANGED bridge /\ Progress /\ active' \in {0, active}
        /\ UNCHANGED <<inbox, accepting, jobs>>
      BY <1>1, NoProgress DEF vars, runtime
  <2>2. AllAreFit'
    <3> SUFFICES ASSUME NEW id \in Runtime!Ids, Known(id)' PROVE IsFit(id)'
        BY DEF AllAreFit, Runtime!Ids
    <3>1. IsFit(id)
        BY <2>1 DEF KnownInv, AllAreFit, Known
    <3>2. \A i \in DOMAIN queue' : NotBefore(queue[i], id, i = 1)'
        BY <2>1, <3>1 DEF IsFit, NotBefore, bridge, Bridge!Waits, Bridge!AtStage
    <3> QED BY <1>1, <2>1, <3>1, <3>2 DEF IsFit, bridge, vars, runtime
  <2>3. StartIsNew'
      BY <2>1
      DEF KnownInv, StartIsNew, Starting, bridge, Bridge!Waits, Bridge!AtStage,
          PathOf, Sent, AsksAt, Accepted, Known
  <2> QED BY <2>2, <2>3 DEF KnownInv
<1> QED
  BY <1>1, KnownWhenRuns, KnownWhenBridged DEF Next, HeldInv

-----------------------------------------------------------------------------
\* What the bridge is told.
LEMMA StartIsOfInstall ==
    ASSUME TypeOK, Bridge!Waits
    PROVE  /\ 1 \in DOMAIN queue /\ Head(queue) = queue[1]
           /\ Starting <=>
                 Head(queue).kind = "install" /\ Head(queue).stage = "requesting"
           /\ Head(queue).kind = "cancel" => PathOf(Head(queue)) = "cancel"
<1>1. queue # <<>>
      /\ Head(queue).stage \in {"requesting", "canceling"}
    BY DEF Bridge!Waits, Bridge!AtStage
<1>2. 1 \in DOMAIN queue /\ Head(queue) = queue[1]
      /\ Head(queue) \in Bridge!Operations
    BY <1>1, QueueTyped1
<1>3. Head(queue).kind # "start"
    BY <1>2 DEF Bridge!Operations
<1> QED BY <1>1, <1>2, <1>3 DEF Starting, PathOf

LEMMA FirstIsNumbered ==
    ASSUME TypeOK, NumberedInv, Bridge!Waits,
           Head(queue).kind \in {"install", "cancel"}
    PROVE  Head(queue).id \in Runtime!Ids
<1>1. 1 \in DOMAIN queue /\ Head(queue) = queue[1]
      /\ Head(queue) \in Bridge!Operations
    BY StartIsOfInstall, QueueTyped1
<1>2. Head(queue).id \in requested /\ \A id \in requested : id >= 1
    BY <1>1 DEF NumberedInv, AreNumbered, Numbered
<1>3. Head(queue).id \in 0..MaxInstalls
    BY <1>1 DEF Bridge!Operations
<1> QED BY <1>2, <1>3, InstallsAreCounted DEF Runtime!Ids

LEMMA ActiveIsKnown ==
    ASSUME TypeOK, active # 0
    PROVE  Known(active)
BY InstallsAreCounted DEF TypeOK, Runtime!TypeOK, Known, Runtime!Ids

\* What was answered stays true.
LEMMA StillSays ==
    ASSUME NEW CONSTANT op, NEW CONSTANT r, Says(op, r),
           active' \in {0, active},
           Known(op.id) =>
               Known(op.id)' /\ jobs'[op.id].lease = jobs[op.id].lease
    PROVE  Says(op, r)'
BY DEF Says, PathOf

LEMMA AnswersWhenRuns ==
    ASSUME TypeOK, AskedOnce, NumberedInv, AskedInv, KnownInv, AnswersAreTrue,
           Plain, RuntimeStep
    PROVE  AnswersAreTrue'
<1>0. UNCHANGED bridge
    BY RuntimeDoes
<1> SUFFICES ASSUME Bridge!Waits, NEW op, op = Head(queue),
                    NEW r \in replies', r.exchange = op.exchange
             PROVE  Says(op, r)'
  <2>1. (Bridge!Waits' <=> Bridge!Waits) /\ Head(queue') = Head(queue)
      BY <1>0 DEF bridge, Bridge!Waits, Bridge!AtStage
  <2> QED BY <2>1 DEF AnswersAreTrue
<1>x. PICK x, q : x = op.exchange /\ q = Head(inbox)
    OBVIOUS
<1>1. /\ x \in Nat \ {0} /\ Once(x) /\ AskedFor(op)
      /\ Starting <=> PathOf(op) = "start"
      /\ Starting <=> op.kind = "install" /\ op.stage = "requesting"
      /\ op.kind = "cancel" => PathOf(op) = "cancel"
  <2>1. x \in Nat \ {0} /\ AskedFor(op)
      BY <1>x, FirstIsTyped DEF AskedInv
  <2> QED BY <2>1, StartIsOfInstall DEF AskedOnce, Starting
<1>2. PathOf(op) \in Forwarded => Says(op, r)'
    BY <1>1 DEF Says, Forwarded, PathOf
\* The answer was there.
<1>3. CASE r \in replies
  <2>1. Says(op, r)
      BY <1>3 DEF AnswersAreTrue
  <2>2. accepting = Runtime!NoJob
      BY <1>3, AnsweredIsOver
  <2>3. active' \in {0, active}
      BY <2>2, RuntimeDoes
      DEF Works, HangsUp, Executes, StartRefused, StartBegins, CancelBegins,
          CancelAnswered, Restarts, Accepts, Saves
  <2>4. Known(op.id) =>
            Known(op.id)' /\ jobs'[op.id].lease = jobs[op.id].lease
    <3> SUFFICES ASSUME Known(op.id)
                 PROVE  Known(op.id)' /\ jobs'[op.id].lease = jobs[op.id].lease
        OBVIOUS
    <3>1. op.id \in Runtime!Ids
        BY DEF Known
    <3>2. PICK id : id = op.id
        OBVIOUS
    <3>3. CASE Progress
        BY <3>1, <3>3 DEF Progress, Goes, Known
    <3>4. CASE Restarts
        BY <2>2, <3>1, <3>4 DEF Restarts, Known
    <3> QED
      BY <2>2, <3>3, <3>4, NoProgress, RuntimeDoes
      DEF Works, HangsUp, Executes, StartRefused, StartBegins, CancelBegins,
          CancelAnswered, Accepts, Saves
  <2> QED BY <2>1, <2>3, <2>4, StillSays
\* It is a new one.
<1>r. ASSUME Reads, q.exchange = x
      PROVE  /\ Sent(x)
             /\ q.path = "close" \/ (/\ q.path = PathOf(op) /\ q.id = op.id
                                     /\ q.reservation = op.reservation)
  <2>1. 1 \in DOMAIN inbox /\ q = inbox[1]
      BY <1>r, <1>x, InboxIsRead
  <2>2. q.path # "close"
      BY <1>1, <1>r, <1>x, <2>1 DEF AskedFor, ClosePending
  <2>3. AsksAt(1, x)
      BY <1>r, <2>1, <2>2 DEF AsksAt
  <2> QED BY <1>1, <1>x, <2>1, <2>3 DEF AskedFor, Sent
<1>4. CASE r \notin replies
  <2>1. CASE Works
      BY <1>1, <1>2, <1>4, <1>x, <2>1 DEF Works, AskedFor
  <2>2. CASE HangsUp \/ StartBegins \/ CancelBegins
      BY <1>4, <2>2 DEF HangsUp, StartBegins, CancelBegins
  <2>3. CASE Executes
    <3>1. Reads /\ q.exchange = x /\ q.path \in {"command", "power", "screenshot"}
        BY <1>4, <1>x, <2>3 DEF Executes
    <3>2. PathOf(op) \in {"command", "power", "screenshot"}
        BY <1>r, <3>1
    <3> QED BY <1>1, <3>2 DEF Says, PathOf
  <2>4. CASE StartRefused
    <3>1. Reads /\ q.exchange = x /\ q.path = "start"
          /\ (r.ok => jobs[q.id] # Runtime!NoJob) /\ UNCHANGED <<jobs, active>>
        BY <1>4, <1>x, <2>4 DEF StartRefused
    <3>2. PathOf(op) = "start" /\ q.id = op.id /\ Sent(x)
        BY <1>r, <3>1
    <3>3. ~Known(op.id) /\ op.id \in Runtime!Ids /\ op.kind = "install"
        BY <1>1, <1>x, <3>2, FirstIsNumbered DEF KnownInv, StartIsNew
    <3>4. ~r.ok
        BY <3>1, <3>2, <3>3 DEF Known
    <3>5. active = 0 \/ active # op.id
        BY <3>3, ActiveIsKnown
    <3> QED BY <3>1, <3>3, <3>4, <3>5 DEF Says
  <2>5. CASE CancelAnswered
    <3>1. Reads /\ q.exchange = x /\ q.path = "cancel" /\ ~IsOf(q, active)
          /\ r.running = 0 /\ (r.ok => IsOf(q, q.id)) /\ UNCHANGED active
        BY <1>4, <1>x, <2>5 DEF CancelAnswered
    <3>2. PathOf(op) = "cancel" /\ q.id = op.id
        BY <1>r, <3>1
    <3>3. ASSUME op.kind = "cancel", r.ok, active # 0 PROVE FALSE
      <4>1. op.id \in Runtime!Ids /\ 1 \in DOMAIN queue /\ op = queue[1]
          BY <3>3, FirstIsNumbered, StartIsOfInstall
      <4>2. Known(op.id) /\ op.id # active
          BY <3>1, <3>2, <3>3, <4>1 DEF IsOf, Known
      <4>3. op.id =< active
          BY <3>3, <4>1, <4>2 DEF KnownInv, AllAreFit, IsFit
      <4>4. active \in Runtime!Ids /\ active =< op.id
        <5>1. Known(active)
            BY <3>3, ActiveIsKnown
        <5> QED
          BY <3>3, <4>1, <5>1 DEF KnownInv, AllAreFit, IsFit, NotBefore, Known
      <4> QED BY <4>1, <4>2, <4>3, <4>4, InstallsAreCounted DEF Runtime!Ids
    <3> QED BY <1>1, <3>1, <3>2, <3>3 DEF Says
  <2>6. CASE Restarts
      BY <1>4, <2>6 DEF Restarts, Says
  <2>7. CASE Accepts
    <3>1. PICK ok \in BOOLEAN :
              /\ active' = IF ok THEN accepting.id ELSE 0
              /\ r.exchange = accepting.exchange
              /\ r.ok <=> ok
              /\ r.running = accepting.id
        BY <1>4, <2>7 DEF Accepts
    <3>2. /\ Starting /\ accepting.id = op.id /\ accepting.lease = op.reservation
        BY <1>1, <1>x, <2>7, <3>1 DEF Accepts, AskedInv, AskedFor, Accepted
    <3>3. op.id \in Runtime!Ids /\ op.kind = "install" /\ PathOf(op) = "start"
        BY <1>1, <3>2, FirstIsNumbered
    <3>4. jobs'[op.id] # Runtime!NoJob /\ jobs'[op.id].lease = op.reservation
        BY <2>7, <3>2, <3>3 DEF Accepts
    <3>5. op.id # 0
        BY <3>3, InstallsAreCounted DEF Runtime!Ids
    <3> QED BY <3>1, <3>2, <3>3, <3>4, <3>5 DEF Says, Known
  <2>8. CASE Saves
    <3>1. Awaited(x) /\ r.running = 0 /\ active' = 0
        BY <1>4, <1>x, <2>8 DEF Saves
    <3>2. PathOf(op) = "cancel"
        BY <1>1, <1>x, <3>1 DEF AskedFor
    <3> QED BY <3>1, <3>2 DEF Says
  <2> QED
    BY <2>1, <2>2, <2>3, <2>4, <2>5, <2>6, <2>7, <2>8, RuntimeDoes
<1> QED BY <1>3, <1>4

LEMMA AnswersWhenBridged ==
    ASSUME TypeOK, AskedOnce, OnlyFirst, AskedInv, AnswersAreTrue, Plain,
           BridgeStep
    PROVE  AnswersAreTrue'
<1>0. UNCHANGED <<jobs, active>>
    BY BridgeDoes DEF runtime
<1>s. ASSUME Bridge!Waits => Bridge!Waits' /\ Head(queue') = Head(queue),
             Bridge!Waits' => Bridge!Waits, replies' \subseteq replies
      PROVE  AnswersAreTrue'
  <2> SUFFICES ASSUME Bridge!Waits', NEW op, op = Head(queue),
                      NEW r \in replies', r.exchange = op.exchange
               PROVE  Says(op, r)'
      BY <1>s DEF AnswersAreTrue
  <2>1. Says(op, r)
      BY <1>s DEF AnswersAreTrue
  <2> QED BY <1>0, <2>1 DEF Says, Known, PathOf
<1>n. ASSUME ~Bridge!Waits' PROVE AnswersAreTrue'
    BY <1>n DEF AnswersAreTrue
<1>1. CASE Idles \/ Joins
  <2>1. UNCHANGED queue /\ replies' \subseteq replies
      BY <1>1 DEF Idles, Joins
  <2> QED BY <1>s, <2>1 DEF Bridge!Waits, Bridge!AtStage
<1>2. CASE Parts
  <2>1. replies' \subseteq replies
        /\ queue' = IF Bridge!Abortable THEN Tail(queue) ELSE queue
      BY <1>2 DEF Parts
  <2>2. CASE Bridge!Abortable
      BY <1>n, <2>1, <2>2, NextIsQueued DEF Bridge!Abortable, Bridge!AtStage
  <2>3. CASE ~Bridge!Abortable
      BY <1>s, <2>1, <2>3 DEF Bridge!Waits, Bridge!AtStage
  <2> QED BY <2>2, <2>3
<1>3. CASE Enqueues
  <2>1. PICK new : new.stage = "queued" /\ queue' = Append(queue, new)
                   /\ UNCHANGED replies
      BY <1>3 DEF Enqueues
  <2> QED BY <1>s, <2>1, QueueGrows DEF Bridge!Waits, Bridge!AtStage
<1>4. CASE Looks
  <2>1. PICK next : next.stage = "checked" /\ queue' = [queue EXCEPT ![1] = next]
      BY <1>4 DEF Looks
  <2>2. queue # <<>>
      BY <1>4 DEF Looks, Bridge!AtStage
  <2> QED BY <1>n, <2>1, <2>2, QueueChanges DEF Bridge!Waits, Bridge!AtStage
<1>5. CASE Passes \/ Hears
  <2>1. queue # <<>> /\ queue' = Tail(queue)
      BY <1>5 DEF Passes, Hears, Bridge!Waits, Bridge!AtStage
  <2> QED BY <1>n, <2>1, NextIsQueued
<1>6. CASE Asks
  <2>1. PICK next : /\ ~Replied(next.exchange)
                    /\ queue' = [queue EXCEPT ![1] = next]
                    /\ UNCHANGED replies
      BY <1>6 DEF Asks
  <2>2. queue # <<>>
      BY <1>6 DEF Asks, Bridge!AtStage
  <2> QED BY <2>1, <2>2, QueueChanges DEF AnswersAreTrue, Replied
<1>7. CASE TakesBack
  <2>1. PICK r \in replies, next \in Bridge!Operations :
          /\ r.exchange = Head(queue).exchange
          /\ replies' = replies \ {r}
          /\ next.exchange = Head(queue).exchange
          /\ queue' = [queue EXCEPT ![1] = next]
      BY <1>7 DEF TakesBack
  <2>2. queue # <<>> /\ Bridge!Waits
      BY <1>7 DEF TakesBack, Starting, Bridge!Waits, Bridge!AtStage
  <2>3. PICK x : x = Head(queue).exchange
      OBVIOUS
  <2>4. x \in Nat \ {0}
      BY <2>2, <2>3, FirstIsTyped
  <2>5. \A s \in replies' : s.exchange # x
      BY <2>1, <2>3, <2>4 DEF AskedOnce, Once
  <2>6. Head(queue').exchange = x
      BY <2>1, <2>2, <2>3, QueueChanges
  <2> QED BY <2>5, <2>6 DEF AnswersAreTrue
<1> QED
  BY <1>1, <1>2, <1>3, <1>4, <1>5, <1>6, <1>7, BridgeDoes

\* Nothing is kept alive but what is known.
LEMMA InstallStaysKnown ==
    ASSUME TypeOK, AnswersAreTrue, InstallIsKnown, Plain, [Next]_vars
    PROVE  InstallIsKnown'
<1>1. CASE UNCHANGED vars
    BY <1>1 DEF vars, bridge, runtime, InstallIsKnown, Known
<1>2. CASE RuntimeStep
  <2>1. UNCHANGED installId
      BY <1>2, RuntimeDoes DEF bridge
  <2>2. ASSUME NEW id \in Runtime!Ids, Known(id) PROVE Known(id)'
    <3>1. Progress \/ Restarts \/ Accepts
        BY <1>2, RuntimeDoes, NoProgress
        DEF Works, HangsUp, Executes, StartRefused, StartBegins, CancelBegins,
            CancelAnswered, Saves
    <3>2. CASE Progress
        BY <2>2, <3>2 DEF Progress, Goes, Known
    <3>3. CASE Restarts
        BY <2>2, <3>3 DEF Restarts, Known
    <3>4. CASE Accepts
        BY <2>2, <3>4 DEF Accepts, Known
    <3> QED BY <3>1, <3>2, <3>3, <3>4
  <2>3. PICK id : id = installId
      OBVIOUS
  <2> QED BY <2>1, <2>2, <2>3 DEF InstallIsKnown, Known
<1>3. CASE BridgeStep
  <2>1. UNCHANGED <<jobs, active>>
      BY <1>3, BridgeDoes DEF runtime
  <2>2. ASSUME installId' # 0, ~Known(installId') PROVE FALSE
    <3>1. installId' # installId
        BY <2>2 DEF InstallIsKnown
    <3>2. CASE Passes
      <4>1. installId' = active /\ active # 0
          BY <2>2, <3>1, <3>2 DEF Passes, Unsettled
      <4> QED BY <2>2, <4>1, ActiveIsKnown
    <3>3. CASE Hears
      <4>1. PICK r \in replies :
              /\ r.exchange = Head(queue).exchange
              /\ Bridge!Waits
              /\ IF Starting /\ r.ok
                 THEN installId' = r.running
                 ELSE installId' = IF Head(queue).kind = "cancel" /\ r.ok
                                   THEN r.running ELSE installId
          BY <3>3 DEF Hears
      <4>2. Says(Head(queue), r)
          BY <4>1 DEF AnswersAreTrue
      <4>3. Starting => PathOf(Head(queue)) = "start"
          BY DEF Starting
      <4> QED BY <2>2, <3>1, <4>1, <4>2, <4>3 DEF Says
    <3> QED
      BY <1>3, <2>2, <3>1, <3>2, <3>3, BridgeDoes
      DEF Idles, Joins, Parts, Enqueues, Looks, Asks, TakesBack
  <2> QED BY <2>1, <2>2 DEF InstallIsKnown, Known
<1> QED BY <1>1, <1>2, <1>3 DEF Next

\* What is being installed goes on.
LEMMA GoingWhenRuns ==
    ASSUME TypeOK, AskedOnce, NumberedInv, AskedInv, KnownInv, InstallIsKnown,
           GoingIsOwned, KeepaliveIsRight, Plain, RuntimeStep
    PROVE  GoingIsOwned' /\ KeepaliveIsRight'
<1>0. UNCHANGED bridge
    BY RuntimeDoes
<1>1. Starting' <=> Starting
    BY <1>0 DEF bridge, Starting, Bridge!Waits, Bridge!AtStage, PathOf
\* It is accepted.
<1>2. CASE Accepts
  <2> SUFFICES ASSUME active' # 0
               PROVE  BeingStarted' /\ ~Kept'
      BY DEF Going, GoingIsOwned, KeepaliveIsRight
  <2>1. active' = accepting.id /\ accepting # Runtime!NoJob
      BY <1>2 DEF Accepts
  <2>2. /\ Starting /\ Bridge!Waits /\ accepting.id = Head(queue).id
        /\ accepting.lease = Head(queue).reservation
        /\ Accepted(Head(queue).exchange)
      BY <2>1 DEF AskedInv, AskedFor, Starting, Accepted
  <2>3. active' \in Runtime!Ids
      BY <2>1, <2>2, FirstIsNumbered, StartIsOfInstall
  <2>4. jobs'[active'].lease = Head(queue).reservation
      BY <1>2, <2>1, <2>2, <2>3 DEF Accepts
  <2>5. installId # active'
      BY <2>1, <2>2 DEF KnownInv, StartIsNew, InstallIsKnown
  <2> QED
    BY <1>0, <1>1, <2>1, <2>2, <2>4, <2>5 DEF BeingStarted, Kept, bridge
\* It goes on.
<1>3. CASE ~Accepts /\ active' # 0
  <2>1. active' = active /\ active \in Runtime!Ids /\ Known(active)
    <3>1. active' = active
        BY <1>3, RuntimeDoes
        DEF Works, HangsUp, Executes, StartRefused, StartBegins, CancelBegins,
            CancelAnswered, Restarts, Saves
    <3> QED BY <1>3, <3>1, ActiveIsKnown DEF Known
  <2>2. Goes(jobs[active], jobs'[active])
    <3>1. Progress
        BY <1>3, RuntimeDoes, NoProgress
        DEF Works, HangsUp, Executes, StartRefused, StartBegins, CancelBegins,
            CancelAnswered, Restarts, Saves
    <3> QED BY <2>1, <3>1 DEF Progress
  <2>3. jobs'[active'].lease = jobs[active].lease /\ (Going' => Going)
      BY <2>1, <2>2 DEF Goes, Going, Known
  <2>4. (Kept' <=> Kept) /\ (BeingStarted' <=> BeingStarted)
      BY <1>0, <1>1, <2>1, <2>3 DEF Kept, BeingStarted, bridge
  <2>5. Canceled /\ Going' => Canceled'
    <3> SUFFICES ASSUME Going', Canceled PROVE Canceled'
        OBVIOUS
    <3>1. PICK i \in DOMAIN inbox :
              /\ inbox[i].path = "cancel"
              /\ inbox[i].id = active
              /\ inbox[i].reservation = jobs[active].lease
        BY DEF Canceled
    <3>2. \E j \in DOMAIN inbox' : inbox'[j] = inbox[i]
      <4>1. CASE UNCHANGED inbox
          BY <4>1
      <4>2. CASE Reads /\ i # 1
          BY <4>2, InboxIsRead
      <4>3. CASE Reads /\ i = 1
        <5>1. Head(inbox) = inbox[i]
            BY <4>3, InboxIsRead
        <5>2. IsOf(Head(inbox), active) /\ Head(inbox).path = "cancel"
            BY <2>1, <3>1, <5>1 DEF IsOf, Known
        <5>3. CancelBegins
            BY <1>3, <4>3, <5>2, RuntimeDoes
            DEF Works, HangsUp, Executes, StartRefused, StartBegins,
                CancelAnswered, Restarts, Saves, Reads
        <5>4. jobs'[active].aborted
            BY <2>1, <3>1, <5>1, <5>3 DEF CancelBegins
        <5> QED BY <2>1, <5>4 DEF Going
      <4> QED
        BY <1>3, <4>1, <4>2, <4>3, RuntimeDoes
        DEF Works, HangsUp, Executes, StartRefused, StartBegins, CancelBegins,
            CancelAnswered, Restarts, Saves
    <3>3. owner'.reservationId # jobs'[active'].lease
        BY <1>0, <2>3 DEF Canceled, bridge
    <3> QED BY <2>1, <2>3, <3>1, <3>2, <3>3 DEF Canceled
  <2>6. GoingIsOwned'
      BY <2>3, <2>4, <2>5 DEF GoingIsOwned
  <2>7. KeepaliveIsRight'
      BY <1>0, <2>1, <2>3, <2>4 DEF KeepaliveIsRight, bridge, Bridge!Held
  <2> QED BY <2>6, <2>7
<1>4. CASE active' = 0
    BY <1>4 DEF GoingIsOwned, KeepaliveIsRight, Going
<1> QED BY <1>2, <1>3, <1>4

LEMMA GoingWhenBridged ==
    ASSUME TypeOK, OnlyFirst, NumberedInv, AskedInv, KnownInv, AnswersAreTrue,
           GoingIsOwned, KeepaliveIsRight, Plain, BridgeStep
    PROVE  GoingIsOwned' /\ KeepaliveIsRight'
<1>0. UNCHANGED <<jobs, active>>
    BY BridgeDoes DEF runtime
<1> SUFFICES ASSUME Going
             PROVE  /\ Kept' \/ BeingStarted' \/ Canceled'
                    /\ Kept' /\ polling'.stage = "keepalive"
                             /\ Bridge!Held(polling.reservation)'
                       => polling'.id = active
    BY <1>0 DEF GoingIsOwned, KeepaliveIsRight, Going
<1>l. PICK lease : lease = jobs[active].lease
    OBVIOUS
<1>1. /\ active # 0 /\ lease # 0 /\ lease =< issued
      /\ lease \in Nat /\ issued \in Nat
      /\ Unsettled.id = active /\ Unsettled.lease = lease
  <2>1. active # 0 /\ jobs[active].stage # "settled"
      BY DEF Going
  <2>2. Known(active) /\ active \in Runtime!Ids
      BY <2>1, ActiveIsKnown DEF Known
  <2>3. jobs[active] \in Runtime!Jobs /\ issued \in Nat
      BY <2>2 DEF TypeOK, Runtime!TypeOK, Bridge!TypeOK, Known
  <2>4. lease # 0 /\ lease =< issued
      BY <1>l, <2>2 DEF KnownInv, AllAreFit, IsFit
  <2>5. Unsettled.id = active /\ Unsettled.lease = lease
      BY <1>l, <2>1 DEF Unsettled
  <2> QED BY <1>l, <2>1, <2>3, <2>4, <2>5 DEF Runtime!Jobs
<1>2. /\ Kept <=> installId = active /\ owner.reservationId = lease
      /\ Kept' <=> installId' = active /\ owner'.reservationId = lease
      /\ BeingStarted <=> /\ Starting
                          /\ Head(queue).id = active
                          /\ Head(queue).reservation = lease
      /\ BeingStarted' <=> /\ Starting'
                           /\ Head(queue').id = active
                           /\ Head(queue').reservation = lease
    BY <1>0, <1>l DEF Kept, BeingStarted
<1>3. /\ Canceled => owner.reservationId # lease
      /\ Canceled' => owner'.reservationId # lease
    BY <1>0, <1>l DEF Canceled
<1>c. ASSUME owner'.reservationId # lease,
             \/ Canceled /\ \A i \in DOMAIN inbox :
                               \E j \in DOMAIN inbox' : inbox'[j] = inbox[i]
             \/ \E i \in DOMAIN inbox' :
                   /\ inbox'[i].path = "cancel"
                   /\ inbox'[i].id = active
                   /\ inbox'[i].reservation = lease
      PROVE  Canceled'
  <2>1. PICK j \in DOMAIN inbox' :
            /\ inbox'[j].path = "cancel"
            /\ inbox'[j].id = active
            /\ inbox'[j].reservation = lease
      BY <1>c, <1>l DEF Canceled
  <2> QED BY <1>0, <1>c, <1>l, <2>1 DEF Canceled
<1>4. Kept \/ BeingStarted \/ Canceled
    BY DEF GoingIsOwned
<1>5. Kept /\ polling.stage = "keepalive" /\ Bridge!Held(polling.reservation)
      => polling.id = active
    BY DEF KeepaliveIsRight
<1>k. ASSUME Kept' => Kept, UNCHANGED <<owner, polling>>
      PROVE  Kept' /\ polling'.stage = "keepalive"
                   /\ Bridge!Held(polling.reservation)'
             => polling'.id = active
    BY <1>5, <1>k DEF Bridge!Held
\* The first operation, if it waits, stays the first.
<1>s. ASSUME BeingStarted, queue' # <<>>, Head(queue') = Head(queue)
      PROVE  BeingStarted'
    BY <1>2, <1>s DEF Starting, Bridge!Waits, Bridge!AtStage, PathOf
<1>6. CASE Idles
  <2>1. UNCHANGED <<queue, inbox, owner>>
      BY <1>6 DEF Idles
  <2>2. Kept => installId' = installId
      BY <1>1, <1>5, <1>6 DEF Idles
  <2>3. BeingStarted => BeingStarted'
      BY <1>s, <2>1 DEF BeingStarted, Starting, Bridge!Waits, Bridge!AtStage
  <2>4. Canceled => Canceled'
      BY <1>3, <1>c, <2>1
  <2>5. Kept' /\ polling'.stage = "keepalive"
              /\ Bridge!Held(polling.reservation)'
        => polling'.id = active
    <3>1. CASE installId' = installId /\ polling' = polling
        BY <1>2, <1>k, <2>1, <3>1
    <3>2. CASE installId' = installId /\ polling'.id = installId
        BY <1>2, <3>2
    <3> QED BY <1>6, <3>1, <3>2 DEF Idles
  <2> QED BY <1>2, <1>4, <2>1, <2>2, <2>3, <2>4, <2>5
<1>7. CASE Joins
  <2>1. /\ owner.reservationId = 0 /\ owner'.reservationId = issued + 1
        /\ UNCHANGED <<queue, inbox>>
      BY <1>7 DEF Joins
  <2>2. ~Kept /\ ~Kept' /\ owner'.reservationId # lease
      BY <1>1, <1>2, <2>1
  <2>3. BeingStarted => BeingStarted'
      BY <1>s, <2>1 DEF BeingStarted, Starting, Bridge!Waits, Bridge!AtStage
  <2>4. Canceled => Canceled'
      BY <1>c, <2>1, <2>2
  <2> QED BY <1>4, <2>2, <2>3, <2>4
<1>8. CASE Parts
  <2>1. /\ owner'.reservationId = 0 /\ installId' = 0
        /\ queue' = IF Bridge!Abortable THEN Tail(queue) ELSE queue
        /\ \A i \in DOMAIN inbox : i \in DOMAIN inbox' /\ inbox'[i] = inbox[i]
        /\ installId # 0 =>
              \E i \in DOMAIN inbox' :
                  /\ inbox'[i].path = "cancel"
                  /\ inbox'[i].id = installId
                  /\ inbox'[i].reservation = owner.reservationId
      BY <1>8 DEF Parts
  <2>2. ~Kept' /\ owner'.reservationId # lease
      BY <1>1, <1>2, <2>1
  <2>3. Kept => Canceled'
      BY <1>1, <1>2, <1>c, <2>1, <2>2
  <2>4. BeingStarted => BeingStarted'
    <3> SUFFICES ASSUME BeingStarted PROVE BeingStarted'
        OBVIOUS
    <3>1. Bridge!Waits /\ Starting
        BY DEF BeingStarted, Starting
    <3>2. Head(queue).kind = "install" /\ queue # <<>>
        BY <3>1, StartIsOfInstall DEF Bridge!Waits, Bridge!AtStage
    <3>3. queue' = queue
        BY <2>1, <3>2 DEF Bridge!Abortable
    <3> QED BY <1>s, <3>2, <3>3
  <2>5. Canceled => Canceled'
      BY <1>c, <2>1, <2>2
  <2> QED BY <1>4, <2>2, <2>3, <2>4, <2>5
<1>9. CASE Enqueues
  <2>1. PICK new : queue' = Append(queue, new)
                   /\ UNCHANGED <<inbox, owner, installId, polling>>
      BY <1>9 DEF Enqueues
  <2>2. (Kept' <=> Kept) /\ (Canceled => Canceled')
      BY <1>2, <1>3, <1>c, <2>1
  <2>3. BeingStarted => BeingStarted'
      BY <1>s, <2>1, QueueGrows
      DEF BeingStarted, Starting, Bridge!Waits, Bridge!AtStage
  <2> QED BY <1>4, <1>k, <2>1, <2>2, <2>3
<1>10. CASE Looks \/ Asks
  <2>1. ~BeingStarted /\ UNCHANGED <<owner, installId, polling>>
      BY <1>10
      DEF Looks, Asks, BeingStarted, Starting, Bridge!Waits, Bridge!AtStage
  <2>2. \A i \in DOMAIN inbox : \E j \in DOMAIN inbox' : inbox'[j] = inbox[i]
    <3>1. CASE UNCHANGED inbox
        BY <3>1
    <3>2. CASE \E e \in Runtime!Requests : inbox' = Append(inbox, e)
        BY <3>2, InboxGrows
    <3> QED BY <1>10, <3>1, <3>2 DEF Looks, Asks
  <2>3. (Kept' <=> Kept) /\ (Canceled => Canceled')
      BY <1>2, <1>3, <1>c, <2>1, <2>2
  <2> QED BY <1>4, <1>k, <2>1, <2>3
<1>11. CASE Passes
  <2>1. ~BeingStarted /\ UNCHANGED <<inbox, owner, polling>>
      BY <1>11 DEF Passes, BeingStarted, Starting
  <2>2. Canceled => Canceled'
      BY <1>3, <1>c, <2>1
  <2>3. Kept => Kept'
      BY <1>1, <1>2, <1>11 DEF Passes, Bridge!Held
  <2>4. Kept' => Kept
      BY <1>2, <1>3, <1>4, <2>1
  <2> QED BY <1>4, <1>k, <2>1, <2>2, <2>3, <2>4
<1>12. CASE Hears
  <2>1. PICK r \in replies :
          /\ r.exchange = Head(queue).exchange
          /\ IF Starting /\ r.ok
             THEN /\ Bridge!Held(Head(queue).reservation)
                  /\ polling.stage # "keepalive"
                  /\ installId' = r.running
             ELSE installId' = IF Head(queue).kind = "cancel" /\ r.ok
                               THEN r.running ELSE installId
      BY <1>12 DEF Hears
  <2>2. UNCHANGED <<inbox, owner, polling>> /\ Bridge!Waits
      BY <1>12 DEF Hears
  <2>3. Says(Head(queue), r)
      BY <2>1, <2>2 DEF AnswersAreTrue
  <2>4. Canceled => Canceled'
      BY <1>3, <1>c, <2>2
  <2>5. CASE Starting /\ r.ok
    <3>1. /\ r.running = Head(queue).id /\ active = Head(queue).id
          /\ lease = Head(queue).reservation
        BY <1>1, <1>l, <2>3, <2>5 DEF Says, Starting
    <3>2. Kept'
        BY <1>2, <2>1, <2>2, <2>5, <3>1 DEF Bridge!Held
    <3> QED BY <2>1, <2>2, <2>5, <3>2
  <2>6. CASE ~(Starting /\ r.ok)
    <3>1. ~BeingStarted
        BY <1>1, <1>2, <2>3, <2>6 DEF Says, Starting
    <3>2. installId' = installId
        BY <1>1, <2>1, <2>3, <2>6 DEF Says
    <3> QED BY <1>2, <1>4, <1>k, <2>2, <2>4, <3>1, <3>2
  <2> QED BY <2>5, <2>6
<1>13. CASE TakesBack
  <2>1. PICK next \in Bridge!Operations, e \in Runtime!Requests :
          /\ Same(Head(queue), next)
          /\ e.path = "cancel"
          /\ e.id = next.id
          /\ e.reservation = next.reservation
          /\ inbox' = Append(inbox, e)
      BY <1>13 DEF TakesBack
  <2>2. ~Bridge!Held(Head(queue).reservation)
        /\ UNCHANGED <<owner, installId, polling>>
      BY <1>13 DEF TakesBack
  <2>3. (Kept' <=> Kept) /\ (Canceled => Canceled')
    <3>1. \A i \in DOMAIN inbox : \E j \in DOMAIN inbox' : inbox'[j] = inbox[i]
        BY <2>1, InboxGrows
    <3> QED BY <1>2, <1>3, <1>c, <2>2, <3>1
  <2>4. BeingStarted => Canceled'
    <3> SUFFICES ASSUME BeingStarted PROVE Canceled'
        OBVIOUS
    <3>1. owner'.reservationId # lease
        BY <1>1, <1>2, <2>2 DEF Bridge!Held
    <3>2. e.path = "cancel" /\ e.id = active /\ e.reservation = lease
        BY <1>2, <2>1 DEF Same
    <3>3. \E i \in DOMAIN inbox' : inbox'[i] = e
      <4>1. inbox \in Seq(Runtime!Requests)
          BY DEF TypeOK, Runtime!TypeOK
      <4>2. Len(inbox) + 1 \in DOMAIN inbox' /\ inbox'[Len(inbox) + 1] = e
          BY <2>1, <4>1
      <4> QED BY <4>2
    <3> QED BY <1>c, <3>1, <3>2, <3>3
  <2> QED BY <1>4, <1>k, <2>2, <2>3, <2>4
<1> QED
  BY <1>6, <1>7, <1>8, <1>9, <1>10, <1>11, <1>12, <1>13, BridgeDoes

LEMMA OwnedKept ==
    ASSUME TypeOK, AskedOnce, HeldInv, NumberedInv, AskedInv, KnownInv, OwnedInv,
           Plain, [Next]_vars
    PROVE  OwnedInv'
<1>1. InstallIsKnown'
    BY InstallStaysKnown DEF OwnedInv
<1>2. CASE UNCHANGED vars
  <2>1. AnswersAreTrue'
      BY <1>2
      DEF vars, bridge, runtime, OwnedInv, AnswersAreTrue, Says, PathOf, Known,
          Bridge!Waits, Bridge!AtStage
  <2>2. GoingIsOwned' /\ KeepaliveIsRight'
      BY <1>2
      DEF vars, bridge, runtime, OwnedInv, GoingIsOwned, KeepaliveIsRight, Going,
          Kept, BeingStarted, Canceled, Starting, PathOf, Bridge!Waits,
          Bridge!AtStage, Bridge!Held
  <2> QED BY <1>1, <2>1, <2>2 DEF OwnedInv
<1>3. CASE RuntimeStep
    BY <1>1, <1>3, AnswersWhenRuns, GoingWhenRuns DEF OwnedInv
<1>4. CASE BridgeStep
    BY <1>1, <1>4, AnswersWhenBridged, GoingWhenBridged DEF OwnedInv, HeldInv
<1> QED BY <1>2, <1>3, <1>4 DEF Next

\* An installation that goes on is known to the bridge, which will cancel it
\* when its owner goes: its start is under way, or it is the one to keep
\* alive, or its cancelation is on the way (bridge.ts 162-183, 240-252,
\* 337-345, 448-457).  That holds as long as the bridge does not die, no
\* request fails and no answers cross.
THEOREM InstallOwned == Spec => []InstallIsOwned
<1> DEFINE AllInv == NumberedInv /\ AskedInv /\ KnownInv /\ OwnedInv
<1>1. Init => AskedOnce /\ HeldInv /\ (Plain => AllInv)
  <2> SUFFICES ASSUME Init PROVE AskedOnce /\ HeldInv /\ AllInv
      OBVIOUS
  <2>1. /\ inbox = <<>> /\ actions = <<>> /\ queue = <<>> /\ replies = {}
        /\ accepting = Runtime!NoJob /\ waiting = {} /\ viewers = {}
        /\ active = 0 /\ installId = 0 /\ requested = {} /\ issued = 0
        /\ owner = Bridge!NoGroup /\ jobs = [id \in Runtime!Ids |-> Runtime!NoJob]
      BY DEF Init, Runtime!Init, Bridge!Init
  <2>2. ~Bridge!Waits /\ DOMAIN queue = {} /\ DOMAIN inbox = {}
      BY <2>1 DEF Bridge!Waits, Bridge!AtStage
  <2>3. AskedOnce
      BY <2>1
      DEF AskedOnce, Once, Sent, Acted, Accepted, Awaited, Replied
  <2>4. HeldInv
      BY <2>1, <2>2
      DEF HeldInv, OnlyFirst, FirstIsHeld, ActionsAreWanted, RequestsAreWanted,
          ViewersAreOwners, Bridge!Waits, Bridge!AtStage
  <2>5. NumberedInv
    <3>1. requested = 1..0
        BY <2>1
    <3>2. \E n \in Nat : requested = 1..n
        BY <3>1
    <3> QED
      BY <2>1, <2>2, <3>2
      DEF NumberedInv, AreNumbered, AreInOrder, Bridge!NoGroup
  <2>6. AskedInv
      BY <2>1, <2>2 DEF AskedInv
  <2>7. KnownInv
      BY <2>1, <2>2 DEF KnownInv, AllAreFit, StartIsNew, Known, Starting
  <2>8. OwnedInv
      BY <2>1, <2>2
      DEF OwnedInv, AnswersAreTrue, InstallIsKnown, GoingIsOwned,
          KeepaliveIsRight, Going
  <2> QED BY <2>3, <2>4, <2>5, <2>6, <2>7, <2>8
<1>2. TypeOK /\ TypeOK' /\ AskedOnce /\ HeldInv /\ (Plain => AllInv)
      /\ [Next]_vars
      => (Plain => AllInv)'
  <2> SUFFICES ASSUME TypeOK, TypeOK', AskedOnce, HeldInv, Plain => AllInv,
                      [Next]_vars, Plain'
               PROVE  AllInv'
      OBVIOUS
  <2>1. Plain
      BY UsesStay DEF Plain
  <2>2. NumberedInv /\ AskedInv /\ KnownInv /\ OwnedInv
      BY <2>1
  <2> QED BY <2>1, <2>2, NumberedKept, AskedKept, KnownKept, OwnedKept
<1>3. TypeOK /\ (Plain => AllInv) => InstallIsOwned
  <2> SUFFICES ASSUME TypeOK, Plain => AllInv, Plain, Going
               PROVE  \/ Kept
                      \/ queue # <<>> /\ Head(queue).kind = "install"
                         /\ Head(queue).id = active
                         /\ Head(queue).stage = "requesting"
                      \/ CancelPending(active)
      BY DEF InstallIsOwned, Plain, Going, Kept
  <2>1. Kept \/ BeingStarted \/ Canceled
      BY DEF OwnedInv, GoingIsOwned
  <2>2. CASE BeingStarted
    <3>1. Bridge!Waits /\ queue # <<>>
        BY <2>2 DEF BeingStarted, Starting, Bridge!Waits, Bridge!AtStage
    <3> QED BY <2>2, <3>1, StartIsOfInstall DEF BeingStarted
  <2>3. CASE Canceled
      BY <2>3 DEF Canceled, CancelPending
  <2> QED BY <2>1, <2>2, <2>3
<1> QED
  BY <1>1, <1>2, <1>3, TypeCorrect, AskedOnceKept, HeldKept, PTL DEF Spec
=============================================================================
