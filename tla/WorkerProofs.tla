---------------------------- MODULE WorkerProofs ----------------------------
(***************************************************************************)
(* What a device worker promises: first what its group plugin does, for    *)
(* every set of users, every number of reservations and every number of    *)
(* events that one turn emits; then that nothing else that goes on in the  *)
(* worker disturbs it; that forwards end with the tenure of the device;    *)
(* and that the screen is current.                                         *)
(***************************************************************************)
EXTENDS Worker, SequenceTheorems, TLAPS

-----------------------------------------------------------------------------
(***************************************************************************)
(* The group plugin.  AcknowledgedIsHeld and HeldIsKnown speak of the head *)
(* of the queue and of the ends of turns, and are not inductive: they say  *)
(* nothing of what the continuations that wait in the middle of a turn     *)
(* will find.  The inductive invariant does: it says in which order kinds  *)
(* of continuations can wait behind each other, and that what each of them *)
(* found is still so or will do no harm.                                   *)
(***************************************************************************)
Held == {currentGroup.group} \ {None}

Queued(q) == {q[i] : i \in 1..Len(q)}

IsMatch(job) == job.step \in {"matchJoin", "matchLeave"}

\* A continuation that a GroupMessage left once its match had resolved.
Answers(job) ==
    \/ job.step = "okay"
    \/ job.step \in {"join", "take"} /\ job.reply

\* One join at most waits that found the device free, no leave waits behind
\* it, and no match waits behind a join that is to be answered.
Ordered(q) ==
    /\ \A i, j \in 1..Len(q) : IsSeeker(q[i]) /\ IsSeeker(q[j]) => i = j
    /\ \A i, j \in 1..Len(q) : IsSeeker(q[i]) /\ i < j => q[j].step # "leave"
    /\ \A i, j \in 1..Len(q) : Answers(q[i]) /\ i < j => ~IsMatch(q[j])

\* What a continuation found is still so, as far as it will matter.
StillTrue(job) ==
    /\ IsSeeker(job) => currentGroup = NoGroup
    /\ job.step = "leave" => currentGroup \in {NoGroup, job.found}
    /\ Answers(job) => received = Batch
    /\ job.step = "okay" => /\ job.found.reservationId = issued
                            /\ currentGroup \in {NoGroup, job.found}

\* While an acknowledgement waits, nothing does that could lead to a join.
Settling(q) ==
    \A job, other \in Queued(q) :
        job.step = "okay" => ~IsMatch(other) /\ ~IsSeeker(other)

JobsFit ==
    /\ Ordered(jobs)
    /\ \A job \in Queued(jobs) : StillTrue(job)
    /\ Settling(jobs)

\* The worker's records agree with the group it holds.
Settled ==
    /\ channels = Held
    /\ alias = currentGroup.group
    /\ timers = Held \X {"own"}

\* The idle timer has unregistered the channel; the leave is yet to come.
Leaving ==
    /\ currentGroup # NoGroup
    /\ \E job \in Queued(jobs) : job.step = "leave" /\ job.reservationId = 0
    /\ channels = {}
    /\ alias = None
    /\ timers = {}

\* A group is held by a user.
GroupHasUser == currentGroup # NoGroup => currentGroup.group \in Users

\* A dead worker holds nothing.
ExitedIsEmpty ==
    phase = "exited" =>
        /\ currentGroup = NoGroup
        /\ channels = {}
        /\ alias = None
        /\ timers = {}
        /\ subscribed = {}
        /\ jobs = <<>>

\* A live worker and everybody else agree.
LiveIsKnown ==
    phase # "exited" =>
        /\ announced = currentGroup
        /\ subscribed = Held
        /\ Settled \/ Leaving

IInv ==
    /\ GroupHasUser
    /\ ExitedIsEmpty
    /\ ~contested => JobsFit /\ LiveIsKnown
-----------------------------------------------------------------------------
(***************************************************************************)
(* Types.                                                                  *)
(***************************************************************************)
\* The jobs that actions queue are jobs.
LEMMA NoGroupIsTyped == NoGroup \in Groups
  BY DEF NoGroup, Groups

LEMMA JoinJobIsTyped ==
    ASSUME NEW step \in {"matchJoin", "join", "take"}, NEW u \in Users,
           NEW reply \in BOOLEAN, NEW found \in Groups
    PROVE  /\ JoinJob(step, u, reply, found) \in Jobs
           /\ <<JoinJob(step, u, reply, found)>> \in Seq(Jobs)
<1>1. JoinJob(step, u, reply, found) \in Jobs
  BY DEF Jobs, JobsOf, JoinJob
<1> QED BY <1>1

LEMMA OkayJobIsTyped ==
    ASSUME NEW found \in Groups
    PROVE  <<JoinJob("okay", None, TRUE, found)>> \in Seq(Jobs)
<1>1. JoinJob("okay", None, TRUE, found)
        \in JobsOf({"okay", "matchLeave", "leave"}, {None})
  BY DEF JobsOf, JoinJob
<1>2. JoinJob("okay", None, TRUE, found) \in Jobs
  BY <1>1 DEF Jobs
<1> QED BY <1>2 DEF JoinJob

LEMMA LeaveJobIsTyped ==
    ASSUME NEW step \in {"matchLeave", "leave"}, NEW found \in Groups,
           NEW id \in Nat
    PROVE  <<LeaveJob(step, found, id)>> \in Seq(Jobs)
<1>1. LeaveJob(step, found, id) \in Jobs
  BY DEF Jobs, JobsOf, LeaveJob
<1> QED BY <1>1

LEMMA LeaveNowIsTyped ==
    ASSUME NEW found \in Groups, NEW id \in Nat
    PROVE  LeaveNow(found, id) \in Seq(Jobs)
BY LeaveJobIsTyped DEF LeaveNow

\* A join that is passed on stays the join it is.
LEMMA TakeJobIsTyped ==
    ASSUME NEW q \in Seq(Jobs), q # <<>>, Head(q).step = "join"
    PROVE  /\ Head(q).user \in Users /\ Head(q).reply \in BOOLEAN
           /\ <<[Head(q) EXCEPT !.step = "take"]>> \in Seq(Jobs)
<1>1. Head(q) \in JobsOf({"matchJoin", "join", "take"}, Users)
  BY HeadTailProperties DEF Jobs, JobsOf
<1>2. [Head(q) EXCEPT !.step = "take"] \in Jobs
  BY <1>1 DEF Jobs, JobsOf
<1> QED BY <1>1, <1>2 DEF JobsOf

\* Emitting an event keeps the queue and the count of the turn well typed.
LEMMA EmitIsTyped ==
    ASSUME TypeOK, NEW s \in Seq(Jobs), Emit(s)
    PROVE  jobs' \in Seq(Jobs) /\ received' \in 0..Batch
    BY BatchIsPositive DEF TypeOK, Emit

\* So does running a continuation.
LEMMA ContinueIsTyped ==
    ASSUME TypeOK, jobs # <<>>, NEW s \in Seq(Jobs), Continue(s)
    PROVE  /\ Head(jobs) \in Jobs
           /\ jobs' \in Seq(Jobs)
           /\ received' \in 0..Batch
           /\ phase' = phase
    BY BatchIsPositive DEF TypeOK, Continue

\* Every variable of the worker keeps its type, however turns batch.
THEOREM TypeCorrect == Spec => []TypeOK
<1>1. Init => TypeOK
  <2> SUFFICES ASSUME Init PROVE TypeOK
    OBVIOUS
  <2>1. 0 \in 0..Batch /\ <<>> \in Seq(Jobs)
    BY BatchIsPositive
  <2> QED BY <2>1, NoGroupIsTyped DEF Init, TypeOK
<1>2. TypeOK /\ [Next]_vars => TypeOK'
  <2> SUFFICES ASSUME TypeOK, [Next]_vars PROVE TypeOK'
    OBVIOUS
  <2> USE DEF worker, records
  <2>0. <<>> \in Seq(Jobs)
    OBVIOUS
  <2>1. CASE \E u \in Users : ReceiveGroup(u)
    <3>1. PICK u \in Users : ReceiveGroup(u)
      BY <2>1
    <3>2. <<JoinJob("matchJoin", u, TRUE, NoGroup)>> \in Seq(Jobs)
      BY JoinJobIsTyped, NoGroupIsTyped
    <3> QED BY <3>1, <3>2, EmitIsTyped DEF ReceiveGroup, TypeOK
  <2>2. CASE \E u \in Users : ReceiveAutoGroup(u)
    <3>1. PICK u \in Users : ReceiveAutoGroup(u)
      BY <2>2
    <3>2. <<JoinJob("join", u, FALSE, currentGroup)>> \in Seq(Jobs)
      BY JoinJobIsTyped DEF TypeOK
    <3> QED BY <3>1, <3>2, EmitIsTyped DEF ReceiveAutoGroup, JoinAsks, TypeOK
  <2>3. CASE \E id \in 0..issued : ReceiveUngroup(id)
    <3>1. PICK id \in 0..issued : ReceiveUngroup(id)
      BY <2>3
    <3>2. <<LeaveJob("matchLeave", NoGroup, id)>> \in Seq(Jobs)
      BY LeaveJobIsTyped, NoGroupIsTyped DEF TypeOK
    <3> QED BY <3>1, <3>2, EmitIsTyped DEF ReceiveUngroup, TypeOK
  <2>4. CASE \E u \in Users, kind \in TimerKinds : CheckTimeout(u, kind)
    <3>1. PICK u \in Users, kind \in TimerKinds : CheckTimeout(u, kind)
      BY <2>4
    <3> DEFINE s == IF currentGroup.group = u THEN LeaveNow(currentGroup, 0)
                                              ELSE <<>>
    <3>2. s \in Seq(Jobs)
      BY LeaveNowIsTyped DEF TypeOK
    <3>3. jobs' \in Seq(Jobs) /\ received' \in 0..Batch
      BY <3>1, <3>2, EmitIsTyped DEF CheckTimeout
    <3> QED BY <3>1, <3>3 DEF CheckTimeout, TypeOK
  <2>5. CASE Stop
    <3>1. LeaveNow(currentGroup, 0) \in Seq(Jobs)
      BY LeaveNowIsTyped DEF TypeOK
    <3> QED BY <2>5, <3>1, EmitIsTyped DEF Stop, TypeOK
  <2>6. CASE MatchedJoin
    <3>1. Head(jobs).user \in Users
      BY <2>6 DEF MatchedJoin, Drain, TypeOK, Jobs, JobsOf
    <3>2. <<JoinJob("join", Head(jobs).user, TRUE, currentGroup)>> \in Seq(Jobs)
      BY <3>1, JoinJobIsTyped DEF TypeOK
    <3> QED BY <2>6, <3>2, ContinueIsTyped DEF MatchedJoin, JoinAsks, Drain, TypeOK
  <2>7. CASE JoinGrouped
    <3> DEFINE s == IF Head(jobs).reply /\ currentGroup.group = Head(jobs).user
                    THEN <<JoinJob("okay", None, TRUE, currentGroup)>>
                    ELSE <<>>
    <3>1. s \in Seq(Jobs)
      <4>1. <<JoinJob("okay", None, TRUE, currentGroup)>> \in Seq(Jobs)
        BY OkayJobIsTyped DEF TypeOK
      <4> QED BY <4>1, <2>0
    <3>2. jobs # <<>> /\ Continue(s)
      BY <2>7 DEF JoinGrouped, Drain
    <3> HIDE DEF s
    <3> QED BY <2>7, <3>1, <3>2, ContinueIsTyped DEF JoinGrouped, TypeOK
  <2>16. CASE JoinMissed
    <3> DEFINE j == [Head(jobs) EXCEPT !.step = "take"]
    <3>1. jobs # <<>> /\ Continue(<<j>>)
      BY <2>16 DEF JoinMissed, Drain
    <3>2. <<j>> \in Seq(Jobs)
      BY <2>16, TakeJobIsTyped DEF JoinMissed, Drain, TypeOK
    <3> HIDE DEF j
    <3> QED BY <2>16, <3>1, <3>2, ContinueIsTyped DEF JoinMissed, TypeOK
  <2>8. CASE JoinFree
    <3> DEFINE u   == Head(jobs).user
               new == Owner(u, issued + 1)
    <3>1. u \in Users
      BY <2>8 DEF JoinFree, Drain, TypeOK, Jobs, JobsOf
    <3>2. PICK s \in Seq(Jobs) : Continue(s)
      <4>1. new \in Groups
        BY <3>1 DEF TypeOK, Owner, Groups
      <4>2. <<JoinJob("okay", None, TRUE, new)>> \in Seq(Jobs)
        BY <4>1, OkayJobIsTyped
      <4> QED BY <2>8, <4>2, <2>0 DEF JoinFree
    <3>3. jobs' \in Seq(Jobs) /\ received' \in 0..Batch /\ phase' = phase
      BY <2>8, <3>2, ContinueIsTyped DEF JoinFree, Drain
    <3>4. new \in Groups
      BY <3>1 DEF TypeOK, Owner, Groups
    <3>5. timers' \subseteq Users \X TimerKinds
      BY <2>8, <3>1 DEF JoinFree, TypeOK, TimerKinds
    <3> QED BY <2>8, <3>1, <3>3, <3>4, <3>5 DEF JoinFree, TypeOK
  <2>9. CASE Acknowledge
    BY <2>9, <2>0, ContinueIsTyped DEF Acknowledge, Drain, TypeOK
  <2>10. CASE MatchedLeave
    <3>1. Head(jobs) \in Jobs
      BY <2>10 DEF MatchedLeave, Drain, TypeOK
    <3>2. LeaveNow(currentGroup, Head(jobs).reservationId) \in Seq(Jobs)
      BY <3>1, LeaveNowIsTyped DEF TypeOK, Jobs, JobsOf
    <3> QED BY <2>10, <3>2, ContinueIsTyped DEF MatchedLeave, Drain, TypeOK
  <2>11. CASE LeaveRefused
    BY <2>11, <2>0, ContinueIsTyped DEF LeaveRefused, Drain, TypeOK
  <2>12. CASE Leave
    <3>1. jobs' \in Seq(Jobs) /\ received' \in 0..Batch /\ phase' = phase
      BY <2>12, <2>0, ContinueIsTyped DEF Leave, Left, Drain
    <3>2. /\ channels' \subseteq Users
          /\ alias' \in Users \cup {None}
          /\ timers' \subseteq Users \X TimerKinds
      BY <2>12 DEF Leave, Left, Unregistered, TypeOK
    <3>3. subscribed' \subseteq Users
      BY <2>12 DEF Leave, Left, TypeOK
    <3> QED BY <2>12, <3>1, <3>2, <3>3, NoGroupIsTyped DEF Leave, Left, TypeOK
  <2>13. CASE Exit \/ Crash
    <3>1. 0 \in 0..Batch
      BY BatchIsPositive
    <3> QED
      BY <2>13, <2>0, <3>1, NoGroupIsTyped DEF Exit, Crash, Forget, TypeOK
  <2>14. CASE Restart
    BY <2>14 DEF Restart, TypeOK, NoGroup, Groups
  <2>15. CASE UNCHANGED vars
    BY <2>15 DEF vars, TypeOK
  <2> QED
    BY <2>1, <2>2, <2>3, <2>4, <2>5, <2>6, <2>7, <2>8, <2>9, <2>10, <2>11,
       <2>12, <2>13, <2>14, <2>15, <2>16 DEF Next
<1> QED BY <1>1, <1>2, PTL DEF Spec
-----------------------------------------------------------------------------
(***************************************************************************)
(* Reservation ids, however turns batch messages.                          *)
(***************************************************************************)
\* What the queue q knows of was drawn by the time id was.
Drawn(q, id) == \A i \in 1..Len(q) : q[i].found.reservationId <= id

LEMMA DrawnConcat ==
    ASSUME NEW q \in Seq(Jobs), NEW s \in Seq(Jobs), NEW id \in Nat,
           Drawn(q, id), Drawn(s, id)
    PROVE  Drawn(q \o s, id)
<1> SUFFICES ASSUME NEW i \in 1..Len(q \o s)
             PROVE  (q \o s)[i].found.reservationId <= id
  BY DEF Drawn
<1>1. CASE i <= Len(q)
  <2>1. (q \o s)[i] = q[i] /\ i \in 1..Len(q)
    BY <1>1, ConcatProperties
  <2> QED BY <2>1 DEF Drawn
<1>2. CASE i > Len(q)
  <2>1. (q \o s)[i] = s[i - Len(q)] /\ i - Len(q) \in 1..Len(s)
    BY <1>2, ConcatProperties
  <2> QED BY <2>1 DEF Drawn
<1> QED BY <1>1, <1>2

LEMMA DrawnTail ==
    ASSUME NEW q \in Seq(Jobs), q # <<>>, NEW id \in Nat, Drawn(q, id)
    PROVE  Drawn(Tail(q), id)
BY HeadTailProperties DEF Drawn

LEMMA DrawnMonotone ==
    ASSUME NEW q \in Seq(Jobs), NEW id \in Nat, NEW later \in Nat,
           id <= later, Drawn(q, id)
    PROVE  Drawn(q, later)
<1> SUFFICES ASSUME NEW i \in 1..Len(q)
             PROVE  q[i].found.reservationId <= later
  BY DEF Drawn
<1>1. q[i] \in Jobs /\ q[i].found.reservationId <= id
  BY DEF Drawn
<1>2. q[i].found.reservationId \in Nat
  BY <1>1 DEF Jobs, JobsOf, Groups
<1> QED BY <1>1, <1>2

\* A worker never uses a reservation id twice: the group it holds has the
\* last one it drew, and no continuation knows of a later one.
THEOREM ReservationIsFresh == Spec => []ReservationIsLatest
<1> DEFINE Latest == /\ currentGroup # NoGroup => currentGroup.reservationId = issued
                     /\ Drawn(jobs, issued)
<1>0. Latest <=> ReservationIsLatest
  BY DEF ReservationIsLatest, Drawn
<1>1. Init => Latest
  BY DEF Init, Drawn
<1>2. TypeOK /\ Latest /\ [Next]_vars /\ TypeOK' => Latest'
  <2> SUFFICES ASSUME TypeOK, Latest, [Next]_vars, TypeOK' PROVE Latest'
    OBVIOUS
  <2>1. <<>> \in Seq(Jobs) /\ Drawn(<<>>, issued)
    BY DEF Drawn
  <2>2. currentGroup.reservationId \in Nat /\ currentGroup.reservationId <= issued
    BY DEF TypeOK, Groups, NoGroup
  <2>3. ASSUME NEW j, <<j>> \in Seq(Jobs), j.found.reservationId <= issued
        PROVE  Drawn(<<j>>, issued)
    BY <2>3 DEF Drawn
  <2>4. ASSUME NEW s, s \in Seq(Jobs), Drawn(s, issued), Emit(s)
        PROVE  Drawn(jobs', issued)
    BY <2>4, DrawnConcat DEF Emit, TypeOK
  <2>4b. ASSUME NEW s, s \in Seq(Jobs), Drawn(s, issued), jobs # <<>>, Continue(s)
        PROVE  Drawn(jobs', issued)
    <3>1. Drawn(Tail(jobs), issued) /\ Tail(jobs) \in Seq(Jobs)
      BY <2>4b, DrawnTail DEF TypeOK
    <3> QED BY <2>4b, <3>1, DrawnConcat DEF Continue, TypeOK
  <2>5. ASSUME NEW id \in Nat
        PROVE  LeaveNow(currentGroup, id) \in Seq(Jobs)
               /\ Drawn(LeaveNow(currentGroup, id), issued)
    <3>1. LeaveNow(currentGroup, id) \in Seq(Jobs)
      BY LeaveNowIsTyped DEF TypeOK
    <3>2. <<LeaveJob("leave", currentGroup, id)>> \in Seq(Jobs)
      BY LeaveJobIsTyped DEF TypeOK
    <3>3. Drawn(<<LeaveJob("leave", currentGroup, id)>>, issued)
      BY <2>2, <2>3, <3>2 DEF LeaveJob
    <3> QED BY <2>1, <3>1, <3>3 DEF LeaveNow
  <2>6. CASE \E u \in Users : ReceiveGroup(u)
    <3>1. PICK u \in Users : ReceiveGroup(u)
      BY <2>6
    <3> DEFINE j == JoinJob("matchJoin", u, TRUE, NoGroup)
    <3>2. <<j>> \in Seq(Jobs)
      BY JoinJobIsTyped, NoGroupIsTyped
    <3>3. j.found.reservationId <= issued
      BY DEF JoinJob, NoGroup, TypeOK
    <3>4. Emit(<<j>>)
      BY <3>1 DEF ReceiveGroup
    <3> HIDE DEF j
    <3>5. Drawn(<<j>>, issued)
      BY <3>2, <3>3, <2>3
    <3>6. Drawn(jobs', issued)
      BY <3>2, <3>4, <3>5, <2>4
    <3> QED BY <3>1, <3>6 DEF ReceiveGroup, worker, records
  <2>7. CASE \E u \in Users : ReceiveAutoGroup(u)
    <3>1. PICK u \in Users : ReceiveAutoGroup(u)
      BY <2>7
    <3> DEFINE j == JoinJob("join", u, FALSE, currentGroup)
    <3>2. <<j>> \in Seq(Jobs)
      BY JoinJobIsTyped DEF TypeOK
    <3>3. j.found.reservationId <= issued
      BY <2>2 DEF JoinJob
    <3>4. Emit(<<j>>)
      BY <3>1 DEF ReceiveAutoGroup
    <3> HIDE DEF j
    <3>5. Drawn(<<j>>, issued)
      BY <3>2, <3>3, <2>3
    <3>6. Drawn(jobs', issued)
      BY <3>2, <3>4, <3>5, <2>4
    <3> QED BY <3>1, <3>6 DEF ReceiveAutoGroup, records
  <2>8. CASE \E id \in 0..issued : ReceiveUngroup(id)
    <3>1. PICK id \in 0..issued : ReceiveUngroup(id)
      BY <2>8
    <3> DEFINE j == LeaveJob("matchLeave", NoGroup, id)
    <3>2. <<j>> \in Seq(Jobs)
      BY LeaveJobIsTyped, NoGroupIsTyped DEF TypeOK
    <3>3. j.found.reservationId <= issued
      BY DEF LeaveJob, NoGroup, TypeOK
    <3>4. Emit(<<j>>)
      BY <3>1 DEF ReceiveUngroup
    <3> HIDE DEF j
    <3>5. Drawn(<<j>>, issued)
      BY <3>2, <3>3, <2>3
    <3>6. Drawn(jobs', issued)
      BY <3>2, <3>4, <3>5, <2>4
    <3> QED BY <3>1, <3>6 DEF ReceiveUngroup, worker, records
  <2>9. CASE \E u \in Users, kind \in TimerKinds : CheckTimeout(u, kind)
    <3>1. PICK u \in Users, kind \in TimerKinds : CheckTimeout(u, kind)
      BY <2>9
    <3> DEFINE s == IF currentGroup.group = u THEN LeaveNow(currentGroup, 0)
                                              ELSE <<>>
    <3>2. s \in Seq(Jobs) /\ Drawn(s, issued)
      BY <2>1, <2>5
    <3>3. Emit(s)
      BY <3>1 DEF CheckTimeout
    <3> HIDE DEF s
    <3> QED BY <3>1, <3>2, <3>3, <2>4 DEF CheckTimeout
  <2>10. CASE Stop
    <3> DEFINE s == LeaveNow(currentGroup, 0)
    <3>1. s \in Seq(Jobs) /\ Drawn(s, issued)
      BY <2>5
    <3>2. Emit(s)
      BY <2>10 DEF Stop
    <3> HIDE DEF s
    <3>3. Drawn(jobs', issued)
      BY <3>1, <3>2, <2>4
    <3> QED BY <2>10, <3>3 DEF Stop, worker, records
  <2>11. CASE MatchedJoin
    <3> DEFINE j == JoinJob("join", Head(jobs).user, TRUE, currentGroup)
    <3>1. Head(jobs).user \in Users
      BY <2>11 DEF MatchedJoin, Drain, TypeOK, Jobs, JobsOf
    <3>2. <<j>> \in Seq(Jobs)
      BY <3>1, JoinJobIsTyped DEF TypeOK
    <3>3. j.found.reservationId <= issued
      BY <2>2 DEF JoinJob
    <3>4. jobs # <<>> /\ Continue(<<j>>)
      BY <2>11 DEF MatchedJoin, Drain
    <3> HIDE DEF j
    <3>5. Drawn(<<j>>, issued)
      BY <3>2, <3>3, <2>3
    <3>6. Drawn(jobs', issued)
      BY <3>2, <3>4, <3>5, <2>4b
    <3> QED BY <2>11, <3>6 DEF MatchedJoin, records
  <2>12. CASE JoinGrouped
    <3> DEFINE j == JoinJob("okay", None, TRUE, currentGroup)
               s == IF Head(jobs).reply /\ currentGroup.group = Head(jobs).user
                    THEN <<j>> ELSE <<>>
    <3>1. <<j>> \in Seq(Jobs)
      BY OkayJobIsTyped DEF TypeOK
    <3>2. j.found.reservationId <= issued
      BY <2>2 DEF JoinJob
    <3>3. jobs # <<>> /\ Continue(s)
      BY <2>12 DEF JoinGrouped, Drain
    <3> HIDE DEF j
    <3>4. s \in Seq(Jobs) /\ Drawn(s, issued)
      BY <2>1, <2>3, <3>1, <3>2
    <3> HIDE DEF s
    <3> QED BY <2>12, <3>3, <3>4, <2>4b DEF JoinGrouped, worker, records
  <2>19. CASE JoinMissed
    <3> DEFINE j == [Head(jobs) EXCEPT !.step = "take"]
    <3>1. jobs # <<>> /\ Continue(<<j>>)
      BY <2>19 DEF JoinMissed, Drain
    <3>2. <<j>> \in Seq(Jobs)
      BY <2>19, TakeJobIsTyped DEF JoinMissed, Drain, TypeOK
    <3>3. j.found.reservationId <= issued
      <4>1. Head(jobs) \in Jobs /\ Head(jobs).found = NoGroup
        BY <2>19 DEF JoinMissed, Drain, TypeOK
      <4>2. j.found = NoGroup
        BY <4>1 DEF Jobs, JobsOf
      <4> QED BY <4>2 DEF NoGroup, TypeOK
    <3> HIDE DEF j
    <3>4. Drawn(<<j>>, issued)
      BY <3>2, <3>3, <2>3
    <3> QED BY <2>19, <3>1, <3>2, <3>4, <2>4b DEF JoinMissed, worker, records
  <2>13. CASE JoinFree
    <3> DEFINE u   == Head(jobs).user
               new == Owner(u, issued + 1)
               j   == JoinJob("okay", None, TRUE, new)
    <3>1. u \in Users
      BY <2>13 DEF JoinFree, Drain, TypeOK, Jobs, JobsOf
    <3>2. new \in Groups
      BY <3>1 DEF TypeOK, Owner, Groups
    <3>3. <<j>> \in Seq(Jobs)
      BY <3>2, OkayJobIsTyped
    <3>4. j.found.reservationId = issued + 1
      BY DEF JoinJob, Owner
    <3>5. jobs # <<>> /\ issued' = issued + 1
          /\ currentGroup'.reservationId = issued'
      BY <2>13 DEF JoinFree, Drain, Owner
    <3>6. Continue(<<j>>) \/ Continue(<<>>)
      BY <2>13 DEF JoinFree
    <3> HIDE DEF j
    <3>7. issued' \in Nat
      BY DEF TypeOK
    <3>8. Drawn(Tail(jobs), issued') /\ Tail(jobs) \in Seq(Jobs)
      <4>1. Tail(jobs) \in Seq(Jobs) /\ Drawn(Tail(jobs), issued)
        BY <3>5, DrawnTail DEF TypeOK
      <4>2. issued \in Nat /\ issued <= issued'
        BY <3>5 DEF TypeOK
      <4> QED BY <3>7, <4>1, <4>2, DrawnMonotone
    <3>9. Drawn(<<j>>, issued')
      BY <3>4, <3>5, <3>7 DEF Drawn
    <3>10. Drawn(<<>>, issued')
      BY DEF Drawn
    <3>11. Drawn(jobs', issued')
      BY <2>1, <3>3, <3>6, <3>7, <3>8, <3>9, <3>10, DrawnConcat DEF Continue
    <3> QED BY <3>5, <3>11
  <2>14. CASE Acknowledge \/ LeaveRefused
    BY <2>14, <2>1, <2>4b DEF Acknowledge, LeaveRefused, Drain, worker, records
  <2>15. CASE MatchedLeave
    <3>1. Head(jobs).reservationId \in Nat
      BY <2>15 DEF MatchedLeave, Drain, TypeOK, Jobs, JobsOf
    <3>2. Drawn(jobs', issued)
      BY <2>15, <3>1, <2>4b, <2>5 DEF MatchedLeave, Drain
    <3> QED BY <2>15, <3>2 DEF MatchedLeave, worker, records
  <2>16. CASE Leave
    BY <2>16, <2>1, <2>4b DEF Leave, Left, Drain
  <2>17. CASE Exit \/ Crash
    BY <2>17, <2>1 DEF Exit, Crash, Forget
  <2>18. CASE Restart \/ UNCHANGED vars
    BY <2>18 DEF Restart, vars
  <2> QED
    BY <2>6, <2>7, <2>8, <2>9, <2>10, <2>11, <2>12, <2>13, <2>14, <2>15,
       <2>16, <2>17, <2>18, <2>19 DEF Next
<1> QED BY <1>0, <1>1, <1>2, TypeCorrect, PTL DEF Spec
-----------------------------------------------------------------------------
(***************************************************************************)
(* The queue: what one more continuation, and one less, does to it.        *)
(***************************************************************************)
LEMMA AppendedQueue ==
    ASSUME NEW q \in Seq(Jobs), NEW j \in Jobs
    PROVE  /\ q \o <<j>> \in Seq(Jobs)
           /\ q \o <<j>> # <<>>
           /\ Queued(q \o <<j>>) = Queued(q) \cup {j}
           /\ Len(q \o <<j>>) = Len(q) + 1
           /\ (q \o <<j>>)[Len(q) + 1] = j
           /\ \A i \in 1..Len(q) : (q \o <<j>>)[i] = q[i]
<1>1. /\ q \o <<j>> \in Seq(Jobs)
      /\ Len(q \o <<j>>) = Len(q) + 1
      /\ \A i \in 1..Len(q) + 1 :
           (q \o <<j>>)[i] = IF i <= Len(q) THEN q[i] ELSE <<j>>[i - Len(q)]
  <2>1. <<j>> \in Seq(Jobs) /\ Len(<<j>>) = 1
    OBVIOUS
  <2> QED BY <2>1, ConcatProperties
<1>2. Len(q) \in Nat
  OBVIOUS
<1>3. (q \o <<j>>)[Len(q) + 1] = j
  <2>1. <<j>>[(Len(q) + 1) - Len(q)] = j
    BY <1>2
  <2> QED BY <1>1, <1>2, <2>1
<1>4. \A i \in 1..Len(q) : (q \o <<j>>)[i] = q[i]
  BY <1>1, <1>2
<1>5. Queued(q \o <<j>>) = Queued(q) \cup {j}
  BY <1>1, <1>2, <1>3, <1>4 DEF Queued
<1> QED BY <1>1, <1>2, <1>3, <1>4, <1>5

LEMMA ShortenedQueue ==
    ASSUME NEW q \in Seq(Jobs), q # <<>>
    PROVE  /\ Tail(q) \in Seq(Jobs)
           /\ Head(q) \in Jobs
           /\ Queued(q) = {Head(q)} \cup Queued(Tail(q))
           /\ Len(q) \in Nat \ {0}
           /\ Head(q) = q[1]
           /\ Len(Tail(q)) = Len(q) - 1
           /\ \A i \in 1..Len(q) - 1 : Tail(q)[i] = q[i + 1]
<1>1. /\ Tail(q) \in Seq(Jobs)
      /\ Head(q) \in Jobs
      /\ Len(Tail(q)) = Len(q) - 1
      /\ \A i \in 1..Len(q) - 1 : Tail(q)[i] = q[i + 1]
  BY HeadTailProperties
<1>2. Len(q) \in Nat \ {0} /\ Head(q) = q[1]
  OBVIOUS
<1>3. ASSUME NEW i \in 1..Len(q)
      PROVE  q[i] \in {Head(q)} \cup Queued(Tail(q))
  <2>1. CASE i = 1
    BY <1>2, <2>1
  <2>2. CASE i # 1
    <3>1. i - 1 \in 1..Len(Tail(q)) /\ Tail(q)[i - 1] = q[i]
      BY <1>1, <1>2, <2>2
    <3> QED BY <3>1 DEF Queued
  <2> QED BY <2>1, <2>2
<1>4. ASSUME NEW i \in 1..Len(Tail(q))
      PROVE  Tail(q)[i] \in Queued(q)
  <2>1. i + 1 \in 1..Len(q) /\ Tail(q)[i] = q[i + 1]
    BY <1>1, <1>2
  <2> QED BY <2>1 DEF Queued
<1>5. Queued(q) = {Head(q)} \cup Queued(Tail(q))
  BY <1>2, <1>3, <1>4 DEF Queued
<1> QED BY <1>1, <1>2, <1>5

\* A continuation may queue up if it is in order behind all that wait.
LEMMA AppendedInOrder ==
    ASSUME NEW q \in Seq(Jobs), NEW j \in Jobs, Ordered(q),
           IsSeeker(j) \/ j.step = "leave" =>
               \A job \in Queued(q) : ~IsSeeker(job),
           IsMatch(j) => \A job \in Queued(q) : ~Answers(job)
    PROVE  Ordered(q \o <<j>>)
<1> DEFINE r == q \o <<j>>
<1>1. /\ Len(r) = Len(q) + 1
      /\ r[Len(q) + 1] = j
      /\ \A i \in 1..Len(q) : r[i] = q[i] /\ r[i] \in Queued(q)
  BY AppendedQueue DEF Queued
<1>2. Len(q) \in Nat
  OBVIOUS
<1>3. \A i \in 1..Len(r) : i \in 1..Len(q) \/ i = Len(q) + 1
  BY <1>1, <1>2
<1>4. \A i, k \in 1..Len(r) : i < k => i \in 1..Len(q)
  BY <1>1, <1>2
<1> HIDE DEF r
<1>5. \A i, k \in 1..Len(r) : IsSeeker(r[i]) /\ IsSeeker(r[k]) => i = k
  BY <1>1, <1>3 DEF Ordered
<1>6. \A i, k \in 1..Len(r) : IsSeeker(r[i]) /\ i < k => r[k].step # "leave"
  BY <1>1, <1>3, <1>4 DEF Ordered
<1>7. \A i, k \in 1..Len(r) : Answers(r[i]) /\ i < k => ~IsMatch(r[k])
  BY <1>1, <1>3, <1>4 DEF Ordered
<1>8. Ordered(r)
  BY <1>5, <1>6, <1>7 DEF Ordered
<1> QED BY <1>8 DEF r

\* The queue stays in order without its head; and what the head must not have
\* behind it, is not there.
LEMMA ShortenedInOrder ==
    ASSUME NEW q \in Seq(Jobs), q # <<>>, Ordered(q)
    PROVE  /\ Ordered(Tail(q))
           /\ IsSeeker(Head(q)) => \A job \in Queued(Tail(q)) :
                                      ~IsSeeker(job) /\ job.step # "leave"
           /\ Answers(Head(q)) => \A job \in Queued(Tail(q)) : ~IsMatch(job)
<1> DEFINE r == Tail(q)
<1>1. /\ Len(q) \in Nat \ {0}
      /\ Head(q) = q[1]
      /\ Len(r) = Len(q) - 1
      /\ \A i \in 1..Len(r) : r[i] = q[i + 1] /\ i + 1 \in 1..Len(q) /\ 1 < i + 1
  BY ShortenedQueue
<1>2. \A i, k \in 1..Len(r) : (i + 1 = k + 1 => i = k) /\ (i < k => i + 1 < k + 1)
  BY <1>1
<1>3. 1 \in 1..Len(q) /\ \A i \in 1..Len(r) : i + 1 # 1
  BY <1>1
<1> HIDE DEF r
<1>4. Ordered(r)
  BY <1>1, <1>2 DEF Ordered
<1>5. ASSUME NEW i \in 1..Len(r)
      PROVE  /\ IsSeeker(Head(q)) => ~IsSeeker(r[i]) /\ r[i].step # "leave"
             /\ Answers(Head(q)) => ~IsMatch(r[i])
  BY <1>1, <1>3 DEF Ordered
<1>6. \A job \in Queued(r) : \E i \in 1..Len(r) : job = r[i]
  BY DEF Queued
<1>7. /\ IsSeeker(Head(q)) => \A job \in Queued(r) :
                                 ~IsSeeker(job) /\ job.step # "leave"
      /\ Answers(Head(q)) => \A job \in Queued(r) : ~IsMatch(job)
  BY <1>5, <1>6
<1> QED BY <1>4, <1>7 DEF r
-----------------------------------------------------------------------------
(***************************************************************************)
(* What keeps the queue fit: an event, and the run of a continuation, that *)
(* queue another one or none.                                              *)
(***************************************************************************)
LEMMA EmitKeeps ==
    ASSUME TypeOK, JobsFit, NEW j \in Jobs, Emit(<<j>>),
           UNCHANGED <<currentGroup, issued>>,
           ~Answers(j),
           IsSeeker(j) => /\ currentGroup = NoGroup
                          /\ \A job \in Queued(jobs) : ~IsSeeker(job),
           j.step = "leave" => currentGroup # NoGroup /\ j.found = currentGroup
    PROVE  /\ JobsFit'
           /\ Queued(jobs') = Queued(jobs) \cup {j}
           /\ phase # "exited"
<1>1. jobs \in Seq(Jobs) /\ jobs' = jobs \o <<j>> /\ phase # "exited"
  BY DEF TypeOK, Emit
<1>2. Queued(jobs') = Queued(jobs) \cup {j}
  BY <1>1, AppendedQueue
<1>3. \A job \in Queued(jobs) : ~Answers(job) /\ job.step # "okay"
  <2>1. received # Batch
    BY BatchIsPositive DEF Emit, TypeOK
  <2> QED BY <2>1 DEF JobsFit, StillTrue, Answers
<1>4. Ordered(jobs')
  <2>1. j.step = "leave" => \A job \in Queued(jobs) : ~IsSeeker(job)
    BY DEF JobsFit, StillTrue
  <2> QED BY <1>1, <1>3, <2>1, AppendedInOrder DEF JobsFit
<1>5. ASSUME NEW job \in Queued(jobs')
      PROVE  StillTrue(job)'
  BY <1>2, <1>3 DEF JobsFit, StillTrue, Answers, IsSeeker
<1>6. Settling(jobs')
  BY <1>2, <1>3 DEF Settling, Answers
<1> QED BY <1>1, <1>2, <1>4, <1>5, <1>6 DEF JobsFit

LEMMA EmitNothingKeeps ==
    ASSUME TypeOK, JobsFit, Emit(<<>>), UNCHANGED <<currentGroup, issued>>
    PROVE  JobsFit' /\ jobs' = jobs /\ phase # "exited"
<1>1. jobs' = jobs /\ phase # "exited"
  BY ConcatEmptySeq DEF TypeOK, Emit
<1>2. \A job \in Queued(jobs) : ~Answers(job)
  <2>1. received # Batch
    BY BatchIsPositive DEF Emit, TypeOK
  <2> QED BY <2>1 DEF JobsFit, StillTrue
<1>3. ASSUME NEW job \in Queued(jobs)
      PROVE  StillTrue(job)'
  BY <1>2 DEF JobsFit, StillTrue
<1> QED BY <1>1, <1>3 DEF JobsFit

\* What the queue holds once its head has run and queued s.
LEMMA Continued ==
    ASSUME TypeOK, JobsFit, jobs # <<>>
    PROVE  /\ Tail(jobs) \in Seq(Jobs)
           /\ Head(jobs) \in Jobs
           /\ Queued(jobs) = {Head(jobs)} \cup Queued(Tail(jobs))
           /\ Ordered(Tail(jobs))
           /\ \A job \in Queued(Tail(jobs)) : job \in Queued(jobs) /\ StillTrue(job)
           /\ Settling(Tail(jobs))
           /\ Continue(<<>>) => jobs' = Tail(jobs) /\ phase' = phase
           /\ \A j \in Jobs :
                Continue(<<j>>) => /\ jobs' = Tail(jobs) \o <<j>>
                                   /\ Queued(jobs') = Queued(Tail(jobs)) \cup {j}
                                   /\ received' = Batch
                                   /\ phase' = phase
<1>1. /\ Tail(jobs) \in Seq(Jobs)
      /\ Head(jobs) \in Jobs
      /\ Queued(jobs) = {Head(jobs)} \cup Queued(Tail(jobs))
      /\ Ordered(Tail(jobs))
  BY ShortenedQueue, ShortenedInOrder DEF TypeOK, JobsFit
<1>2. /\ \A job \in Queued(Tail(jobs)) : job \in Queued(jobs) /\ StillTrue(job)
      /\ Settling(Tail(jobs))
  BY <1>1 DEF JobsFit, Settling
<1>3. ASSUME Continue(<<>>) PROVE jobs' = Tail(jobs) /\ phase' = phase
  BY <1>1, <1>3, ConcatEmptySeq DEF Continue
<1>4. ASSUME NEW j \in Jobs, Continue(<<j>>)
      PROVE  /\ jobs' = Tail(jobs) \o <<j>>
             /\ Queued(jobs') = Queued(Tail(jobs)) \cup {j}
             /\ received' = Batch
             /\ phase' = phase
  BY <1>1, <1>4, AppendedQueue DEF Continue
<1> QED BY <1>1, <1>2, <1>3, <1>4

LEMMA ContinueKeeps ==
    ASSUME TypeOK, JobsFit, jobs # <<>>, NEW j \in Jobs, Continue(<<j>>),
           UNCHANGED <<currentGroup, issued>>,
           ~IsMatch(j),
           IsSeeker(j) =>
               /\ currentGroup = NoGroup
               /\ \A job \in Queued(Tail(jobs)) : ~IsSeeker(job) /\ job.step # "okay",
           j.step \in {"leave", "okay"} =>
               currentGroup # NoGroup /\ j.found = currentGroup,
           j.step = "okay" =>
               Answers(Head(jobs)) /\ currentGroup.reservationId = issued
    PROVE  JobsFit'
<1> DEFINE q == Tail(jobs)
<1>1. /\ q \in Seq(Jobs) /\ Ordered(q) /\ Settling(q)
      /\ \A job \in Queued(q) : StillTrue(job)
      /\ jobs' = q \o <<j>>
      /\ Queued(jobs') = Queued(q) \cup {j}
      /\ received' = Batch
  BY Continued
<1>2. Answers(Head(jobs)) => \A job \in Queued(q) : ~IsMatch(job)
  BY ShortenedInOrder DEF TypeOK, JobsFit
<1>0. IsSeeker(j) => /\ currentGroup = NoGroup
                     /\ \A job \in Queued(q) : ~IsSeeker(job) /\ job.step # "okay"
  OBVIOUS
<1> HIDE DEF q
<1>3. currentGroup # NoGroup => \A job \in Queued(q) : ~IsSeeker(job)
  BY <1>1 DEF StillTrue
<1>4. Ordered(jobs')
  <2>1. j.step = "leave" => \A job \in Queued(q) : ~IsSeeker(job)
    BY <1>3
  <2> QED BY <1>0, <1>1, <2>1, AppendedInOrder
<1>5. ASSUME NEW job \in Queued(jobs')
      PROVE  StillTrue(job)'
  <2>1. CASE job = j
    BY <1>1, <2>1 DEF StillTrue, IsSeeker
  <2>2. CASE job \in Queued(q)
    BY <1>1, <2>2 DEF StillTrue, IsSeeker
  <2> QED BY <1>1, <2>1, <2>2
<1>6. Settling(jobs')
  <2> SUFFICES ASSUME NEW job \in Queued(q) \cup {j}, NEW other \in Queued(q) \cup {j},
                      job.step = "okay"
               PROVE  ~IsMatch(other) /\ ~IsSeeker(other)
    BY <1>1 DEF Settling
  <2>1. CASE job = j
    BY <1>2, <1>3, <2>1 DEF IsSeeker
  <2>2. CASE job \in Queued(q)
    BY <1>0, <1>1, <2>2 DEF Settling
  <2> QED BY <2>1, <2>2
<1> QED BY <1>1, <1>4, <1>5, <1>6 DEF JobsFit

LEMMA ContinueNothingKeeps ==
    ASSUME TypeOK, JobsFit, jobs # <<>>, Continue(<<>>),
           currentGroup' \in {currentGroup, NoGroup}, issued' = issued
    PROVE  JobsFit'
<1>1. /\ Ordered(Tail(jobs)) /\ Settling(Tail(jobs))
      /\ \A job \in Queued(Tail(jobs)) : StillTrue(job)
      /\ jobs' = Tail(jobs)
  BY Continued
<1>2. ASSUME NEW job \in Queued(jobs')
      PROVE  StillTrue(job)'
  <2>1. jobs' # <<>> => received' = Batch
    BY <1>1 DEF Continue
  <2>2. jobs' # <<>>
    BY DEF Queued
  <2> QED BY <1>1, <2>1, <2>2 DEF StillTrue, IsSeeker
<1> QED BY <1>1, <1>2 DEF JobsFit

\* Nothing is amiss as long as the leave that the idle timer queued waits.
LEMMA KnownStays ==
    ASSUME LiveIsKnown, UNCHANGED records, phase # "exited",
           \A job \in Queued(jobs) :
               job.step = "leave" /\ job.reservationId = 0 => job \in Queued(jobs')
    PROVE  LiveIsKnown'
<1>1. Held' = Held /\ (Settled => Settled')
  BY DEF records, Held, Settled
<1>2. Leaving => Leaving'
  BY DEF records, Leaving
<1> QED BY <1>1, <1>2 DEF LiveIsKnown, records
-----------------------------------------------------------------------------
(***************************************************************************)
(* The invariant is inductive: one step per action.                        *)
(***************************************************************************)
LEMMA OnlyToAsk ==
    ASSUME TypeOK, JoinAsks, ~contested', currentGroup = NoGroup
    PROVE  \A job \in Queued(jobs) : ~IsSeeker(job)
<1>1. DOMAIN jobs = 1..Len(jobs)
  BY DEF TypeOK
<1>2. ~ \E i \in DOMAIN jobs : IsSeeker(jobs[i])
  BY Zenon DEF JoinAsks
<1> QED BY <1>1, <1>2 DEF Queued

LEMMA FitStays ==
    ASSUME TypeOK, TypeOK', ReservationIsLatest, IInv, [Next]_vars, ~contested'
    PROVE  (JobsFit /\ LiveIsKnown)'
<1>0. \/ ~contested /\ JobsFit /\ LiveIsKnown
      \/ Exit \/ Crash
  BY DEF IInv, Next, ReceiveGroup, ReceiveAutoGroup, JoinAsks, ReceiveUngroup,
         CheckTimeout, Stop, MatchedJoin, JoinGrouped, JoinMissed, JoinFree,
         Acknowledge, MatchedLeave, LeaveRefused, Leave, Left, Restart, worker,
         vars, TypeOK
<1>1. CASE Exit \/ Crash
  <2>1. jobs' = <<>> /\ phase' = "exited"
    BY <1>1 DEF Exit, Crash, Forget
  <2>2. Queued(jobs') = {} /\ Ordered(jobs')
    BY <2>1 DEF Queued, Ordered
  <2> QED BY <2>1, <2>2 DEF JobsFit, Settling, LiveIsKnown
<1> SUFFICES ASSUME ~contested, JobsFit, LiveIsKnown
             PROVE  (JobsFit /\ LiveIsKnown)'
  BY <1>0, <1>1
<1>2. CASE \E u \in Users : ReceiveGroup(u)
  <2>1. PICK u \in Users : ReceiveGroup(u)
    BY <1>2
  <2> DEFINE j == JoinJob("matchJoin", u, TRUE, NoGroup)
  <2>2. j \in Jobs
    BY JoinJobIsTyped, NoGroupIsTyped
  <2>3. ~Answers(j) /\ ~IsSeeker(j) /\ j.step # "leave"
    BY DEF JoinJob, Answers, IsSeeker
  <2>4. Emit(<<j>>) /\ UNCHANGED <<records, phase>>
    BY <2>1 DEF ReceiveGroup, worker
  <2> HIDE DEF j
  <2> QED BY <2>2, <2>3, <2>4, EmitKeeps, KnownStays DEF records
<1>3. CASE \E u \in Users : ReceiveAutoGroup(u)
  <2>1. PICK u \in Users : ReceiveAutoGroup(u)
    BY <1>3
  <2> DEFINE j == JoinJob("join", u, FALSE, currentGroup)
  <2>2. j \in Jobs
    BY JoinJobIsTyped DEF TypeOK
  <2>3. /\ ~Answers(j) /\ j.step # "leave"
        /\ IsSeeker(j) <=> currentGroup = NoGroup
    BY DEF JoinJob, Answers, IsSeeker
  <2>4. Emit(<<j>>) /\ JoinAsks /\ UNCHANGED <<records, phase>>
    BY <2>1 DEF ReceiveAutoGroup
  <2> HIDE DEF j
  <2>5. currentGroup = NoGroup => \A job \in Queued(jobs) : ~IsSeeker(job)
    BY <2>4, OnlyToAsk
  <2> QED BY <2>2, <2>3, <2>4, <2>5, EmitKeeps, KnownStays DEF records
<1>4. CASE \E id \in 0..issued : ReceiveUngroup(id)
  <2>1. PICK id \in 0..issued : ReceiveUngroup(id)
    BY <1>4
  <2> DEFINE j == LeaveJob("matchLeave", NoGroup, id)
  <2>2. j \in Jobs
    BY LeaveJobIsTyped, NoGroupIsTyped DEF TypeOK
  <2>3. ~Answers(j) /\ ~IsSeeker(j) /\ j.step # "leave"
    BY DEF LeaveJob, Answers, IsSeeker
  <2>4. Emit(<<j>>) /\ UNCHANGED <<records, phase>>
    BY <2>1 DEF ReceiveUngroup, worker
  <2> HIDE DEF j
  <2> QED BY <2>2, <2>3, <2>4, EmitKeeps, KnownStays DEF records
<1>5. ASSUME Emit(LeaveNow(currentGroup, 0)), UNCHANGED <<currentGroup, issued>>
      PROVE  /\ JobsFit' /\ phase # "exited"
             /\ \A job \in Queued(jobs) : job \in Queued(jobs')
             /\ currentGroup # NoGroup => \E job \in Queued(jobs') :
                    job.step = "leave" /\ job.reservationId = 0
  <2>1. CASE currentGroup = NoGroup
    BY <1>5, <2>1, EmitNothingKeeps DEF LeaveNow
  <2>2. CASE currentGroup # NoGroup
    <3> DEFINE j == LeaveJob("leave", currentGroup, 0)
    <3>1. j \in Jobs
      BY LeaveJobIsTyped DEF TypeOK
    <3>2. /\ ~Answers(j) /\ ~IsSeeker(j)
          /\ j.step = "leave" /\ j.reservationId = 0 /\ j.found = currentGroup
      BY DEF LeaveJob, Answers, IsSeeker
    <3>3. Emit(<<j>>)
      BY <1>5, <2>2 DEF LeaveNow
    <3> HIDE DEF j
    <3> QED BY <1>5, <2>2, <3>1, <3>2, <3>3, EmitKeeps
  <2> QED BY <2>1, <2>2
<1>6. CASE \E u \in Users, kind \in TimerKinds : CheckTimeout(u, kind)
  <2>1. PICK u \in Users, kind \in TimerKinds : CheckTimeout(u, kind)
    BY <1>6
  <2>2. phase # "exited" /\ phase' = phase
    BY <2>1 DEF CheckTimeout, Emit
  <2>3. Settled /\ currentGroup.group = u /\ kind = "own" /\ currentGroup # NoGroup
    BY <2>1, <2>2, NoneIsNoUser DEF CheckTimeout, LiveIsKnown, Settled, Leaving,
       Held, NoGroup
  <2>4. channels' = {} /\ timers' = {} /\ alias' = None
    BY <2>1, <2>3 DEF CheckTimeout, Settled, Held
  <2>5. Emit(LeaveNow(currentGroup, 0))
    BY <2>1, <2>3 DEF CheckTimeout
  <2>6. UNCHANGED <<currentGroup, issued, subscribed, announced>>
    BY <2>1 DEF CheckTimeout
  <2>7. JobsFit' /\ Leaving'
    BY <1>5, <2>3, <2>4, <2>5, <2>6 DEF Leaving
  <2> QED BY <2>2, <2>6, <2>7 DEF LiveIsKnown, Held
<1>7. CASE Stop
  <2>1. /\ Emit(LeaveNow(currentGroup, 0)) /\ UNCHANGED records
        /\ UNCHANGED <<currentGroup, issued>>
    BY <1>7 DEF Stop, worker, records
  <2> QED BY <1>5, <2>1, KnownStays
<1>8. ASSUME jobs # <<>>, Head(jobs).step # "leave" \/ Head(jobs).reservationId # 0,
             \A job \in Queued(Tail(jobs)) : job \in Queued(jobs'),
             UNCHANGED records, phase # "exited"
      PROVE  LiveIsKnown'
  BY <1>8, Continued, KnownStays
<1>9. CASE MatchedJoin
  <2> DEFINE j == JoinJob("join", Head(jobs).user, TRUE, currentGroup)
  <2>1. /\ jobs # <<>> /\ Head(jobs).step = "matchJoin" /\ phase # "exited"
        /\ Continue(<<j>>) /\ JoinAsks /\ UNCHANGED records
    BY <1>9 DEF MatchedJoin, Drain
  <2>2. j \in Jobs
    <3>1. Head(jobs).user \in Users
      BY <2>1 DEF TypeOK, Jobs, JobsOf
    <3> QED BY <3>1, JoinJobIsTyped DEF TypeOK
  <2>3. /\ ~IsMatch(j) /\ j.step \notin {"leave", "okay"}
        /\ IsSeeker(j) <=> currentGroup = NoGroup
    BY DEF JoinJob, IsMatch, IsSeeker
  <2> HIDE DEF j
  <2>4. currentGroup = NoGroup => \A job \in Queued(jobs) : ~IsSeeker(job)
    BY <2>1, OnlyToAsk
  <2>5. \A job \in Queued(jobs) : job.step # "okay"
    BY <2>1, Continued DEF JobsFit, Settling, IsMatch
  <2>6. \A job \in Queued(Tail(jobs)) : job \in Queued(jobs) /\ job \in Queued(jobs')
    BY <2>1, <2>2, Continued
  <2>7. JobsFit'
    BY <2>1, <2>2, <2>3, <2>4, <2>5, <2>6, ContinueKeeps DEF records
  <2> QED BY <1>8, <2>1, <2>6, <2>7
<1>10. CASE JoinGrouped
  <2> DEFINE j == JoinJob("okay", None, TRUE, currentGroup)
  <2>1. /\ jobs # <<>> /\ Head(jobs).step = "join" /\ phase # "exited"
        /\ UNCHANGED records
    BY <1>10 DEF JoinGrouped, Drain, worker
  <2>2. CASE Head(jobs).reply /\ currentGroup.group = Head(jobs).user
    <3>1. Continue(<<j>>)
      BY <1>10, <2>2 DEF JoinGrouped
    <3>2. j \in Jobs
      BY OkayJobIsTyped DEF TypeOK, JoinJob
    <3>3. /\ ~IsMatch(j) /\ ~IsSeeker(j) /\ j.step = "okay"
          /\ j.found = currentGroup
      BY DEF JoinJob, IsMatch, IsSeeker
    <3> HIDE DEF j
    <3>4. currentGroup # NoGroup
      <4>1. Head(jobs).user \in Users
        BY <2>1 DEF TypeOK, Jobs, JobsOf
      <4> QED BY <2>2, <4>1, NoneIsNoUser DEF NoGroup
    <3>5. currentGroup.reservationId = issued /\ Answers(Head(jobs))
      BY <2>1, <2>2, <3>4 DEF ReservationIsLatest, Answers
    <3>6. JobsFit'
      BY <2>1, <3>1, <3>2, <3>3, <3>4, <3>5, ContinueKeeps DEF records
    <3>7. \A job \in Queued(Tail(jobs)) : job \in Queued(jobs')
      BY <2>1, <3>1, <3>2, Continued
    <3> QED BY <1>8, <2>1, <3>6, <3>7
  <2>3. CASE ~(Head(jobs).reply /\ currentGroup.group = Head(jobs).user)
    <3>1. Continue(<<>>)
      BY <1>10, <2>3 DEF JoinGrouped
    <3>2. JobsFit' /\ jobs' = Tail(jobs)
      BY <2>1, <3>1, Continued, ContinueNothingKeeps DEF records
    <3> QED BY <1>8, <2>1, <3>2
  <2> QED BY <2>2, <2>3
<1>11. CASE JoinMissed
  <2> DEFINE j == [Head(jobs) EXCEPT !.step = "take"]
  <2>1. /\ jobs # <<>> /\ Head(jobs).step = "join" /\ phase # "exited"
        /\ Head(jobs).found = NoGroup
        /\ Continue(<<j>>) /\ UNCHANGED records
    BY <1>11 DEF JoinMissed, Drain, worker
  <2>2. j \in Jobs
    BY <2>1, TakeJobIsTyped DEF TypeOK
  <2>3. IsSeeker(Head(jobs))
    BY <2>1 DEF IsSeeker
  <2>4. ~IsMatch(j) /\ j.step = "take"
    <3>1. Head(jobs) \in Jobs
      BY <2>1, Continued
    <3>2. j.step = "take"
      BY <3>1 DEF Jobs, JobsOf
    <3> QED BY <3>2 DEF IsMatch
  <2> HIDE DEF j
  <2>5. /\ currentGroup = NoGroup
        /\ \A job \in Queued(Tail(jobs)) : ~IsSeeker(job) /\ job.step # "okay"
    <3>1. Head(jobs) \in Queued(jobs)
      BY <2>1, Continued
    <3>2. \A job \in Queued(Tail(jobs)) : job \in Queued(jobs) /\ ~IsSeeker(job)
      BY <2>1, <2>3, Continued, ShortenedInOrder DEF TypeOK, JobsFit
    <3> QED BY <2>3, <3>1, <3>2 DEF JobsFit, StillTrue, Settling
  <2>6. \A job \in Queued(Tail(jobs)) : job \in Queued(jobs')
    BY <2>1, <2>2, Continued
  <2>7. JobsFit'
    BY <2>1, <2>2, <2>4, <2>5, ContinueKeeps DEF records
  <2> QED BY <1>8, <2>1, <2>6, <2>7
<1>12. CASE JoinFree
  <2> DEFINE u   == Head(jobs).user
             new == Owner(u, issued + 1)
             j   == JoinJob("okay", None, TRUE, new)
             q   == Tail(jobs)
  <2>1. jobs # <<>> /\ Head(jobs).step = "take" /\ phase # "exited"
    BY <1>12 DEF JoinFree, Drain
  <2>2. u \in Users
    BY <2>1 DEF TypeOK, Jobs, JobsOf
  <2>3. j \in Jobs /\ new \in Groups
    <3>1. new \in Groups
      BY <2>2 DEF TypeOK, Owner, Groups
    <3> QED BY <3>1, OkayJobIsTyped DEF JoinJob
  <2>4. currentGroup = NoGroup
    BY <2>1, Continued DEF JobsFit, StillTrue, IsSeeker
  <2>5. /\ q \in Seq(Jobs) /\ Ordered(q)
        /\ \A job \in Queued(q) : /\ StillTrue(job) /\ ~IsSeeker(job)
                                  /\ job.step \notin {"leave", "okay"}
        /\ Head(jobs).reply => \A job \in Queued(q) : ~IsMatch(job)
    <3>1. /\ \A job \in Queued(q) : ~IsSeeker(job) /\ job.step # "leave"
          /\ Head(jobs).reply => \A job \in Queued(q) : ~IsMatch(job)
      BY <2>1, ShortenedInOrder DEF TypeOK, JobsFit, IsSeeker, Answers
    <3>2. Head(jobs) \in Queued(jobs)
      BY <2>1, Continued
    <3>3. \A job \in Queued(q) : job \in Queued(jobs) /\ job.step # "okay"
      BY <2>1, <3>2, Continued DEF JobsFit, Settling, IsSeeker
    <3> QED BY <2>1, <3>1, <3>3, Continued
  <2>6. channels = {} /\ alias = None /\ timers = {} /\ subscribed = {}
    BY <2>1, <2>4 DEF LiveIsKnown, Settled, Leaving, Held, NoGroup
  <2>7. /\ currentGroup' = new
        /\ channels' = {u}
        /\ alias' = u
        /\ timers' = {<<u, "own">>}
        /\ subscribed' = {u}
        /\ announced' = new
        /\ issued' = issued + 1
        /\ Continue(IF Head(jobs).reply THEN <<j>> ELSE <<>>)
    BY <1>12, <2>6 DEF JoinFree
  <2>8. currentGroup'.group = u /\ Held' = {u} /\ currentGroup'.reservationId = issued'
    BY <2>2, <2>7, NoneIsNoUser DEF Owner, Held
  <2>9. Settled' /\ phase' = phase
    BY <2>7, <2>8 DEF Settled, Continue
  <2>10. /\ ~IsMatch(j) /\ ~IsSeeker(j) /\ j.step = "okay" /\ j.found = new
    BY DEF JoinJob, IsMatch, IsSeeker
  <2>11. JobsFit'
    <3> HIDE DEF j, new, q
    <3>1. CASE Head(jobs).reply
      <4>1. /\ jobs' = q \o <<j>> /\ Queued(jobs') = Queued(q) \cup {j}
            /\ received' = Batch
        BY <2>1, <2>3, <2>7, <3>1, Continued DEF q
      <4>2. Ordered(jobs')
        BY <2>3, <2>5, <2>10, <4>1, AppendedInOrder
      <4>3. Settling(jobs')
        BY <2>5, <2>10, <3>1, <4>1 DEF Settling
      <4>4. ASSUME NEW job \in Queued(jobs')
            PROVE  StillTrue(job)'
        BY <2>5, <2>7, <2>8, <2>10, <4>1 DEF StillTrue, IsSeeker
      <4> QED BY <4>2, <4>3, <4>4 DEF JobsFit
    <3>2. CASE ~Head(jobs).reply
      <4>1. jobs' = q
        BY <2>1, <2>7, <3>2, Continued DEF q
      <4>2. Settling(jobs')
        BY <2>5, <4>1 DEF Settling
      <4>3. ASSUME NEW job \in Queued(jobs')
            PROVE  StillTrue(job)'
        <5>1. received' = Batch
          <6>1. jobs' # <<>>
            BY DEF Queued
          <6> QED BY <2>7, <6>1 DEF Continue
        <5> QED BY <2>5, <4>1, <5>1 DEF StillTrue, IsSeeker
      <4> QED BY <2>5, <4>1, <4>2, <4>3 DEF JobsFit
    <3> QED BY <3>1, <3>2
  <2> QED BY <2>7, <2>8, <2>9, <2>11 DEF LiveIsKnown
<1>13. CASE Acknowledge
  <2>1. /\ jobs # <<>> /\ Head(jobs).step = "okay" /\ phase # "exited"
        /\ Continue(<<>>) /\ UNCHANGED records
    BY <1>13 DEF Acknowledge, Drain, worker
  <2>2. JobsFit' /\ jobs' = Tail(jobs)
    BY <2>1, Continued, ContinueNothingKeeps DEF records
  <2> QED BY <1>8, <2>1, <2>2
<1>14. CASE MatchedLeave
  <2> DEFINE id == Head(jobs).reservationId
             j  == LeaveJob("leave", currentGroup, id)
  <2>1. /\ jobs # <<>> /\ Head(jobs).step = "matchLeave" /\ phase # "exited"
        /\ Continue(LeaveNow(currentGroup, id)) /\ UNCHANGED records
    BY <1>14 DEF MatchedLeave, Drain, worker
  <2>2. CASE currentGroup = NoGroup
    <3>1. Continue(<<>>)
      BY <2>1, <2>2 DEF LeaveNow
    <3>2. JobsFit' /\ jobs' = Tail(jobs)
      BY <2>1, <3>1, Continued, ContinueNothingKeeps DEF records
    <3> QED BY <1>8, <2>1, <3>2
  <2>3. CASE currentGroup # NoGroup
    <3>1. Continue(<<j>>)
      BY <2>1, <2>3 DEF LeaveNow
    <3>2. j \in Jobs
      <4>1. id \in Nat
        BY <2>1 DEF TypeOK, Jobs, JobsOf
      <4> QED BY <4>1, LeaveJobIsTyped DEF TypeOK
    <3>3. /\ ~IsMatch(j) /\ ~IsSeeker(j) /\ j.step = "leave"
          /\ j.found = currentGroup
      BY DEF LeaveJob, IsMatch, IsSeeker
    <3> HIDE DEF j
    <3>4. JobsFit'
      BY <2>1, <2>3, <3>1, <3>2, <3>3, ContinueKeeps DEF records
    <3>5. \A job \in Queued(Tail(jobs)) : job \in Queued(jobs')
      BY <2>1, <3>1, <3>2, Continued
    <3> QED BY <1>8, <2>1, <3>4, <3>5
  <2> QED BY <2>2, <2>3
<1>15. CASE LeaveRefused
  <2>1. /\ jobs # <<>> /\ Head(jobs).reservationId # 0 /\ phase # "exited"
        /\ Continue(<<>>) /\ UNCHANGED records
    BY <1>15 DEF LeaveRefused, Drain, worker
  <2>2. JobsFit' /\ jobs' = Tail(jobs)
    BY <2>1, Continued, ContinueNothingKeeps DEF records
  <2> QED BY <1>8, <2>1, <2>2
<1>16. CASE Leave
  <2> DEFINE u == Head(jobs).found.group
  <2>1. /\ jobs # <<>> /\ Head(jobs).step = "leave" /\ phase # "exited"
        /\ Continue(<<>>)
        /\ currentGroup' = NoGroup /\ announced' = NoGroup /\ issued' = issued
        /\ subscribed' = subscribed \ {u}
        /\ IF u \in channels THEN Unregistered(u)
                             ELSE UNCHANGED <<channels, timers, alias>>
    BY <1>16 DEF Leave, Left, Drain
  <2>2. JobsFit' /\ phase' = phase
    BY <2>1, Continued, ContinueNothingKeeps
  <2>3. currentGroup \in {NoGroup, Head(jobs).found}
    <3>1. StillTrue(Head(jobs))
      BY <2>1, Continued DEF JobsFit
    <3> QED BY <2>1, <3>1 DEF StillTrue
  <2>4. Held \subseteq {u}
    BY <2>3 DEF Held, NoGroup
  <2>5. subscribed' = {} /\ Held' = {} /\ currentGroup'.group = None
    BY <2>1, <2>4 DEF LiveIsKnown, Held, NoGroup
  <2>6. channels' = {} /\ timers' = {} /\ alias' = None
    <3>1. CASE Leaving
      BY <2>1, <3>1 DEF Leaving
    <3>2. CASE Settled /\ currentGroup = NoGroup
      BY <2>1, <3>2 DEF Settled, Held, NoGroup
    <3>3. CASE Settled /\ currentGroup # NoGroup
      <4>1. Held = {u} /\ channels = {u} /\ timers = {<<u, "own">>}
        <5>1. currentGroup.group = u /\ u \in Users
          BY <2>3, <3>3 DEF IInv, GroupHasUser
        <5> QED BY <3>3, <5>1, NoneIsNoUser DEF Held, Settled
      <4> QED BY <2>1, <4>1 DEF Unregistered
    <3> QED BY <2>1, <3>1, <3>2, <3>3 DEF LiveIsKnown
  <2> QED BY <2>1, <2>2, <2>5, <2>6 DEF LiveIsKnown, Settled
<1>17. CASE Restart
  <2>1. Settled' /\ Held' = {} /\ subscribed' = {} /\ announced' = currentGroup'
    BY <1>17 DEF Restart, IInv, ExitedIsEmpty, Settled, Held, NoGroup
  <2>2. JobsFit'
    BY <1>17 DEF Restart, JobsFit, Ordered, StillTrue, Settling
  <2> QED BY <2>1, <2>2 DEF LiveIsKnown
<1>18. CASE UNCHANGED vars
  <2>1. UNCHANGED <<records, jobs, received, phase>>
    BY <1>18 DEF vars, records
  <2>2. JobsFit'
    BY <2>1 DEF records, JobsFit, Ordered, StillTrue, Settling
  <2>3. LiveIsKnown'
    BY <2>1 DEF records, LiveIsKnown, Settled, Leaving, Held
  <2> QED BY <2>2, <2>3
<1> QED
  BY <1>1, <1>2, <1>3, <1>4, <1>6, <1>7, <1>9, <1>10, <1>11, <1>12, <1>13,
     <1>14, <1>15, <1>16, <1>17, <1>18 DEF Next

LEMMA Inductive ==
    ASSUME TypeOK, TypeOK', ReservationIsLatest, IInv, [Next]_vars
    PROVE  IInv'
<1>1. GroupHasUser' /\ ExitedIsEmpty'
  <2>1. CASE JoinFree
    <3>1. Head(jobs).user \in Users /\ phase # "exited" /\ phase' = phase
      BY <2>1 DEF JoinFree, Drain, Continue, TypeOK, Jobs, JobsOf
    <3> QED BY <2>1, <3>1 DEF JoinFree, Owner, GroupHasUser, ExitedIsEmpty
  <2>2. CASE Leave
    BY <2>2 DEF Leave, Left, Drain, Continue, GroupHasUser, ExitedIsEmpty
  <2>3. CASE Exit \/ Crash
    BY <2>3 DEF Exit, Crash, Forget, GroupHasUser, ExitedIsEmpty
  <2>4. CASE Restart \/ UNCHANGED vars
    BY <2>4 DEF Restart, vars, IInv, GroupHasUser, ExitedIsEmpty
  <2>5. CASE currentGroup' = currentGroup /\ phase # "exited" /\ phase' # "exited"
    BY <2>5 DEF IInv, GroupHasUser, ExitedIsEmpty
  <2> QED
    BY <2>1, <2>2, <2>3, <2>4, <2>5
    DEF Next, ReceiveGroup, ReceiveAutoGroup, ReceiveUngroup, CheckTimeout,
        Stop, MatchedJoin, JoinGrouped, JoinMissed, Acknowledge, MatchedLeave,
        LeaveRefused, Emit, Drain, Continue, worker, records
<1> QED BY <1>1, FitStays DEF IInv
-----------------------------------------------------------------------------
(***************************************************************************)
(* The theorems.                                                           *)
(***************************************************************************)
\* The inductive invariant holds, however many events one turn emits.
THEOREM Invariant == Spec => []IInv
<1>1. Init => IInv
  <2> SUFFICES ASSUME Init PROVE IInv
    OBVIOUS
  <2>1. Held = {} /\ currentGroup.group = None
    BY DEF Init, Held, NoGroup
  <2>2. Queued(jobs) = {} /\ Ordered(jobs)
    BY DEF Init, Queued, Ordered
  <2> QED
    BY <2>1, <2>2 DEF Init, IInv, GroupHasUser, ExitedIsEmpty, JobsFit,
       Settling, LiveIsKnown, Settled
<1>2. TypeOK /\ TypeOK' /\ ReservationIsLatest /\ IInv /\ [Next]_vars => IInv'
  BY Inductive
<1> QED BY <1>1, <1>2, TypeCorrect, ReservationIsFresh, PTL DEF Spec

\* Unless two joins of a turn both found the device free, whoever is told of
\* a reservation was given the last one, and the device is still held under
\* it or is free again: whatever joins, releases, idle timers and signals the
\* turn emitted between the request and the answer (group.ts 45-160).
THEOREM AcknowledgementIsTrue == Spec => []AcknowledgedIsHeld
<1>1. TypeOK /\ IInv => AcknowledgedIsHeld
  <2> SUFFICES ASSUME TypeOK, IInv, ~contested, jobs # <<>>,
                      Head(jobs).step = "okay"
               PROVE  /\ Head(jobs).found.reservationId = issued
                      /\ currentGroup \in {NoGroup, Head(jobs).found}
    BY DEF AcknowledgedIsHeld
  <2>1. Head(jobs) \in Queued(jobs)
    BY ShortenedQueue DEF TypeOK
  <2> QED BY <2>1 DEF IInv, JobsFit, StillTrue
<1> QED BY <1>1, TypeCorrect, Invariant, PTL

\* On the same condition, whenever a turn has ended the worker, its channel
\* manager, its subscription and the rest of the system agree about who holds
\* the device.
THEOREM HoldingIsKnown == Spec => []HeldIsKnown
<1>1. IInv => HeldIsKnown
  <2>1. jobs = <<>> => Queued(jobs) = {}
    BY DEF Queued
  <2> QED BY <2>1 DEF IInv, HeldIsKnown, LiveIsKnown, Settled, Leaving, Held
<1> QED BY <1>1, Invariant, PTL

\* The plugin implements the exclusive reservation: as long as no two joins of
\* a turn both found the device free, a step that changes the current group
\* takes a free device or frees a taken one.
THEOREM ReservationImplemented == Spec => ImplementsReservation
<1> USE DEF NoGroup, Exclusive!NoGroup
<1>1. Init => Exclusive!Init
  BY DEF Init, Exclusive!Init
<1>2. TypeOK /\ IInv /\ [Next]_vars
        => [contested' \/ Exclusive!Next]_(Exclusive!vars)
  <2> SUFFICES ASSUME TypeOK, IInv, [Next]_vars, ~contested'
               PROVE  [Exclusive!Next]_(Exclusive!vars)
    OBVIOUS
  <2> USE DEF Exclusive!vars
  <2>1. CASE JoinFree
    <3> DEFINE u == Head(jobs).user
    <3>1. jobs # <<>> /\ Head(jobs).step = "take" /\ ~contested
      BY <2>1 DEF JoinFree, Drain
    <3>2. u \in Users
      BY <3>1 DEF TypeOK, Jobs, JobsOf
    <3>3. currentGroup = NoGroup
      BY <3>1, ShortenedQueue DEF TypeOK, IInv, JobsFit, StillTrue, IsSeeker
    <3>4. Exclusive!Acquire(u)
      BY <2>1, <3>3 DEF JoinFree, Owner, Exclusive!Acquire
    <3> QED BY <3>2, <3>4 DEF Exclusive!Next
  <2>2. CASE Leave
    <3>1. currentGroup' = NoGroup /\ issued' = issued
      BY <2>2 DEF Leave, Left
    <3> QED BY <3>1 DEF Exclusive!Next, Exclusive!Release
  <2>3. CASE Exit \/ Crash
    BY <2>3 DEF Exit, Crash, Forget, Exclusive!Next, Exclusive!Release
  <2>4. CASE UNCHANGED <<currentGroup, issued>>
    BY <2>4
  <2> QED
    BY <2>1, <2>2, <2>3, <2>4
    DEF Next, ReceiveGroup, ReceiveAutoGroup, ReceiveUngroup, CheckTimeout,
        Stop, MatchedJoin, JoinGrouped, JoinMissed, Acknowledge, MatchedLeave,
        LeaveRefused, Restart, worker, records, vars
<1> QED
  BY <1>1, <1>2, TypeCorrect, Invariant, PTL
  DEF Spec, ImplementsReservation
-----------------------------------------------------------------------------
(***************************************************************************)
(* The group plugin in the worker.                                         *)
(***************************************************************************)
\* A step of the worker is a step of its group plugin or leaves it alone.
LEMMA GroupSteps == [WorkerNext]_all => [Next]_vars
<1> SUFFICES ASSUME [WorkerNext]_all PROVE [Next]_vars
  OBVIOUS
<1>1. CASE Grouping
  BY <1>1 DEF Grouping, GroupOnly, Next
<1>2. CASE Releasing \/ Stopping \/ Dying \/ Restarting
  BY <1>2 DEF Releasing, Stopping, Dying, Restarting, Next
<1>3. CASE ScreenFails
  BY <1>3 DEF ScreenFails, Dying, Next
<1>4. CASE Screening \/ Forwarding \/ UNCHANGED all
  BY <1>4 DEF Screening, Forwarding, all
<1> QED BY <1>1, <1>2, <1>3, <1>4 DEF WorkerNext

\* The worker implements its group plugin: screen and forwards neither touch
\* it nor hold it up (device/index.ts 26-51).
THEOREM GroupImplemented == WorkerSpec => Spec
BY GroupSteps, PTL DEF WorkerSpec, WorkerInit, Spec

\* On the condition of each, nothing that goes on in the worker makes its
\* group plugin acknowledge a reservation that was replaced, ...
THEOREM WorkerAcknowledgesTruly == WorkerSpec => []AcknowledgedIsHeld
BY GroupImplemented, AcknowledgementIsTrue, PTL

\* ... or lose track of the reservation it holds, ...
THEOREM WorkerKnowsItsHolder == WorkerSpec => []HeldIsKnown
BY GroupImplemented, HoldingIsKnown, PTL

\* ... or give the device to two holders.
THEOREM WorkerIsReserved == WorkerSpec => ImplementsReservation
BY GroupImplemented, ReservationImplemented, PTL
-----------------------------------------------------------------------------
(***************************************************************************)
(* The forwards.                                                           *)
(***************************************************************************)
Connections == [number : Nat \ {0}, id : Ids, port : Ports, during : Int]

ForwardsTyped ==
    /\ creating \subseteq Connections
    /\ open \subseteq Connections
    /\ ending \subseteq Connections
    /\ handlers \in [Ids -> Nat]

\* A number stands for one connection, which is in one state.
Numbered ==
    /\ \A c, d \in Reverse!Live : c.number = d.number => c = d
    /\ creating \cap open = {}
    /\ creating \cap ending = {}
    /\ open \cap ending = {}

PortsListedOnce ==
    \A c, d \in Reverse!Listed(Ids) : c.port = d.port => c = d

\* An id stands for one connection, and the manager lists all that are open
\* and not told to end; so a release finds them all.  What is open belongs to
\* this tenure, unless the tenure was taken over by a second join.
Orderly ==
    {"reuse", "late"} \cap uses = {} =>
        /\ \A c, d \in Reverse!Live : c.id = d.id => c = d
        /\ \A c \in open : /\ handlers[c.id] = c.number
                           /\ ~contested => c.during = Tenure

ForwardInv ==
    /\ ForwardsTyped
    /\ Numbered
    /\ PortsListedOnce
    /\ Orderly

\* A worker starts without forwards, whatever it was before.
LEMMA NoForwards ==
    ASSUME Reverse!Gone PROVE ForwardInv'
BY DEF Reverse!Gone, Reverse!Unlisted, Reverse!Live, Reverse!Listed,
       ForwardInv, ForwardsTyped, Numbered, PortsListedOnce, Orderly

\* A release leaves no forward open that is listed: if ids are not used too
\* early, none at all.
LEMMA ReleaseEndsForwards ==
    ASSUME ForwardInv, Reverse!Reset, uses' = uses
    PROVE  ForwardInv'
<1> USE DEF Reverse!Reset, Reverse!Removed, Reverse!Without
<1>1. ForwardsTyped'
  BY DEF ForwardInv, ForwardsTyped, Reverse!Listed
<1>2. Reverse!Live' = Reverse!Live
  BY DEF Reverse!Live, Reverse!Listed
<1>3. Numbered'
  BY <1>2 DEF ForwardInv, Numbered, Reverse!Listed
<1>4. PortsListedOnce'
  <2>1. handlers' = [id \in Ids |-> 0]
    OBVIOUS
  <2>2. \A c \in open' : c \in Connections /\ c.number # 0
    BY DEF ForwardInv, ForwardsTyped, Connections
  <2> QED BY <2>1, <2>2 DEF PortsListedOnce, Reverse!Listed, Connections
<1>5. ASSUME {"reuse", "late"} \cap uses = {}
      PROVE  open' = {}
  <2>1. open \subseteq Reverse!Listed(Ids)
    BY <1>5 DEF ForwardInv, ForwardsTyped, Connections, Orderly, Reverse!Listed
  <2> QED BY <2>1
<1>6. Orderly'
  BY <1>2, <1>5 DEF ForwardInv, Orderly
<1> QED BY <1>1, <1>3, <1>4, <1>6 DEF ForwardInv

\* The end of a connection is told by id, which is no other's by then if ids
\* are not used too early.
LEMMA EndKeepsForwards ==
    ASSUME ForwardInv, NEW c \in open \cup ending, Reverse!Ended(c),
           uses' = uses, contested' = contested, Tenure' = Tenure
    PROVE  ForwardInv'
<1> USE DEF Reverse!Ended
<1>1. c.id \in Ids
  BY DEF ForwardInv, ForwardsTyped, Connections
<1>2. ForwardsTyped'
  BY DEF ForwardInv, ForwardsTyped
<1>3. Reverse!Live' \subseteq Reverse!Live
  BY DEF Reverse!Live
<1>4. Numbered'
  BY <1>3 DEF ForwardInv, Numbered
<1>5. \A d \in open : d.id \in Ids /\ d.number # 0
  BY DEF ForwardInv, ForwardsTyped, Connections
<1>6. Reverse!Listed(Ids)' \subseteq Reverse!Listed(Ids)
  BY <1>1, <1>5 DEF Reverse!Listed, ForwardInv, ForwardsTyped
<1>7. PortsListedOnce'
  BY <1>6 DEF ForwardInv, PortsListedOnce
<1>8. Orderly'
  <2> SUFFICES ASSUME {"reuse", "late"} \cap uses = {}, NEW d \in open'
               PROVE  /\ handlers'[d.id] = d.number
                      /\ ~contested => d.during = Tenure
    BY <1>3 DEF ForwardInv, Orderly
  <2>1. d \in open /\ d # c /\ d.id # c.id
    BY DEF ForwardInv, Orderly, Reverse!Live
  <2> QED BY <1>1, <1>5, <2>1 DEF ForwardInv, Orderly, ForwardsTyped
<1> QED BY <1>2, <1>4, <1>7, <1>8 DEF ForwardInv

\* The handlers of some ids are removed: those that remain are listed still.
LEMMA RemovalKeepsForwards ==
    ASSUME ForwardInv, NEW id \in Ids, Reverse!Remove(id),
           uses' = uses, contested' = contested, Tenure' = Tenure
    PROVE  ForwardInv'
<1> USE DEF Reverse!Remove, Reverse!Removed, Reverse!Without
<1>1. ForwardsTyped'
  BY DEF ForwardInv, ForwardsTyped, Reverse!Listed
<1>2. Reverse!Live' = Reverse!Live
  BY DEF Reverse!Live, Reverse!Listed
<1>3. Numbered'
  BY <1>2 DEF ForwardInv, Numbered, Reverse!Listed
<1>4. \A d \in open : d.id \in Ids /\ d.number # 0
  BY DEF ForwardInv, ForwardsTyped, Connections
<1>5. Reverse!Listed(Ids)' \subseteq Reverse!Listed(Ids)
  BY <1>4 DEF Reverse!Listed, ForwardInv, ForwardsTyped
<1>6. PortsListedOnce'
  BY <1>5 DEF ForwardInv, PortsListedOnce
<1>7. Orderly'
  BY <1>2, <1>4 DEF ForwardInv, Orderly, Reverse!Listed
<1> QED BY <1>1, <1>3, <1>6, <1>7 DEF ForwardInv

\* A connection that is begun has a number of its own.
LEMMA CreationKeepsForwards ==
    ASSUME ForwardInv, NEW id \in Ids, NEW port \in Ports,
           Reverse!Create(id, port),
           uses' = uses, contested' = contested, Tenure \in Int,
           Tenure' = Tenure
    PROVE  ForwardInv'
<1>1. PICK n \in 1..MaxConnections :
        /\ {c.number : c \in Reverse!Live} \cap 1..n = 1..n-1
        /\ creating' = creating \cup
               {[number |-> n, id |-> id, port |-> port, during |-> Tenure]}
  BY DEF Reverse!Create
<1> DEFINE new == [number |-> n, id |-> id, port |-> port, during |-> Tenure]
<1>2. UNCHANGED <<open, ending, handlers>>
  BY DEF Reverse!Create
<1>3. \A c \in Reverse!Live : c.number # n
  <2>1. n \in 1..n /\ n \notin 1..n-1
    OBVIOUS
  <2> QED BY <1>1, <2>1
<1>4. new \in Connections /\ new.number = n /\ new.id = id
  BY DEF Connections
<1>5. creating' = creating \cup {new}
  BY <1>1
<1> HIDE DEF new
<1>6. ForwardsTyped'
  BY <1>2, <1>4, <1>5 DEF ForwardInv, ForwardsTyped
<1>7. Reverse!Live' = Reverse!Live \cup {new}
  BY <1>2, <1>5 DEF Reverse!Live
<1>8. new \notin open \cup ending
  BY <1>3, <1>4 DEF Reverse!Live
<1>9. Numbered'
  BY <1>2, <1>3, <1>4, <1>5, <1>7, <1>8 DEF ForwardInv, Numbered
<1>10. PortsListedOnce'
  BY <1>2 DEF ForwardInv, PortsListedOnce, Reverse!Listed
<1>11. Orderly'
  <2>1. "reuse" \in uses \/ \A c \in Reverse!Live : c.id # id
    BY DEF Reverse!Create
  <2> QED BY <1>2, <1>4, <1>7, <2>1 DEF ForwardInv, Orderly
<1> QED BY <1>6, <1>9, <1>10, <1>11 DEF ForwardInv

\* A connection that is refused is forgotten.
LEMMA RefusalKeepsForwards ==
    ASSUME ForwardInv, NEW c \in creating, Reverse!Refused(c),
           uses' = uses, contested' = contested, Tenure' = Tenure
    PROVE  ForwardInv'
<1> USE DEF Reverse!Refused
<1>1. Reverse!Live' \subseteq Reverse!Live
  BY DEF Reverse!Live
<1> QED BY <1>1 DEF ForwardInv, ForwardsTyped, Numbered, PortsListedOnce,
                    Orderly, Reverse!Listed

\* A connection that is there takes the place of the one with its id, and of
\* one on its port: there is no more than one.
LEMMA ConnectionKeepsForwards ==
    ASSUME ForwardInv, NEW c \in creating, Reverse!Connected(c),
           uses' = uses, contested' = contested, Tenure' = Tenure
    PROVE  ForwardInv'
<1> DEFINE clashing == {d \in Reverse!Listed(Ids \ {c.id}) : d.port = c.port}
<1>1. PICK first \in IF clashing = {} THEN {{}} ELSE {{d.id} : d \in clashing} :
        LET replaced == {c.id} \cup first
        IN  /\ creating' = creating \ {c}
            /\ open' = (open \ Reverse!Listed(replaced)) \cup {c}
            /\ ending' = ending \cup Reverse!Listed(replaced)
            /\ handlers' = [Reverse!Without(first) EXCEPT ![c.id] = c.number]
  BY DEF Reverse!Connected
<1> DEFINE removed == Reverse!Listed({c.id} \cup first)
<1>2. /\ c \in Connections /\ c.id \in Ids /\ c.number # 0
      /\ \A d \in open : d \in Connections /\ d.id \in Ids /\ d.number # 0
  BY DEF ForwardInv, ForwardsTyped, Connections
<1>3. removed \subseteq open
  BY DEF Reverse!Listed
<1>4. /\ creating' = creating \ {c}
      /\ open' = (open \ removed) \cup {c}
      /\ ending' = ending \cup removed
  BY <1>1
<1>5. \A id \in Ids : handlers'[id] = IF id = c.id THEN c.number
                                      ELSE IF id \in first THEN 0 ELSE handlers[id]
  BY <1>1, <1>2 DEF Reverse!Without
<1>6. handlers' \in [Ids -> Nat]
  BY <1>1, <1>2 DEF ForwardInv, ForwardsTyped, Reverse!Without, Connections
<1>7. \A d \in clashing : first = {d.id}
  BY <1>1, <1>2 DEF ForwardInv, PortsListedOnce, Reverse!Listed
<1>8. removed = {d \in open : d.id \in {c.id} \cup first /\ handlers[d.id] = d.number}
  BY DEF Reverse!Listed
<1>9. \A d \in Reverse!Listed(Ids) : d.id # c.id /\ d.port = c.port => d \in clashing
  BY <1>2 DEF Reverse!Listed
<1> HIDE DEF clashing, removed
<1>10. ForwardsTyped'
  BY <1>2, <1>3, <1>4, <1>6 DEF ForwardInv, ForwardsTyped
<1>11. Reverse!Live' = Reverse!Live
  BY <1>3, <1>4 DEF Reverse!Live
<1>12. Numbered'
  BY <1>3, <1>4, <1>11 DEF ForwardInv, Numbered
<1>13. \A d \in Reverse!Listed(Ids)' :
         \/ d = c
         \/ d \in Reverse!Listed(Ids) /\ d.id # c.id /\ d.id \notin first
  <2> SUFFICES ASSUME NEW d \in open', handlers'[d.id] = d.number, d # c
               PROVE  /\ d \in open
                      /\ d.id # c.id
                      /\ d.id \notin first
                      /\ handlers[d.id] = d.number
    BY <1>2 DEF Reverse!Listed
  <2>1. d \in open /\ d.number # c.number
    BY <1>4 DEF ForwardInv, Numbered, Reverse!Live
  <2> QED BY <1>2, <1>5, <2>1
<1>14. PortsListedOnce'
  <2> SUFFICES ASSUME NEW d \in Reverse!Listed(Ids)', NEW e \in Reverse!Listed(Ids)',
                      d.port = e.port
               PROVE  d = e
    BY DEF PortsListedOnce
  <2>1. ASSUME NEW x \in Reverse!Listed(Ids)', x.port = c.port
        PROVE  x = c
    BY <1>7, <1>9, <1>13, <2>1
  <2> QED BY <1>13, <2>1 DEF ForwardInv, PortsListedOnce
<1>15. Orderly'
  <2> SUFFICES ASSUME {"reuse", "late"} \cap uses = {}, NEW d \in open'
               PROVE  /\ handlers'[d.id] = d.number
                      /\ ~contested => d.during = Tenure
    BY <1>11 DEF ForwardInv, Orderly
  <2>1. CASE d = c
    BY <1>2, <1>5, <2>1 DEF Reverse!Connected
  <2>2. CASE d # c
    <3>1. d \in open /\ d \notin removed
      BY <1>4, <2>2
    <3>2. handlers[d.id] = d.number /\ (~contested => d.during = Tenure)
      BY <3>1 DEF ForwardInv, Orderly
    <3> QED BY <1>2, <1>5, <1>8, <3>1, <3>2
  <2> QED BY <2>1, <2>2
<1> QED BY <1>10, <1>12, <1>14, <1>15 DEF ForwardInv

\* Only a release, an exit, a crash and a second join end a tenure.
LEMMA TenureKept ==
    ASSUME TypeOK, IInv, [Next]_vars, ~contested',
           GroupOnly \/ Stop \/ Restart \/ UNCHANGED vars
    PROVE  ~contested /\ Tenure' = Tenure
<1>0. ~contested
  <2>1. contested' = contested \/ JoinAsks
    BY DEF GroupOnly, ReceiveGroup, ReceiveAutoGroup, ReceiveUngroup,
           CheckTimeout, Stop, MatchedJoin, JoinGrouped, JoinMissed, JoinFree,
           Acknowledge, MatchedLeave, LeaveRefused, Restart, worker, vars
  <2>2. JoinAsks => ~contested
    BY Zenon DEF JoinAsks
  <2> QED BY <2>1, <2>2
<1>1. CASE JoinFree
  <2>1. jobs # <<>> /\ Head(jobs).step = "take"
    BY <1>1 DEF JoinFree, Drain
  <2>2. currentGroup = NoGroup
    BY <1>0, <2>1, ShortenedQueue DEF TypeOK, IInv, JobsFit, StillTrue, IsSeeker
  <2>3. currentGroup' # NoGroup /\ issued' = issued + 1
    BY <1>1 DEF JoinFree, Owner, NoGroup, TypeOK
  <2> QED BY <1>0, <2>2, <2>3 DEF Tenure, TypeOK
<1>2. CASE UNCHANGED <<currentGroup, issued>>
  BY <1>0, <1>2 DEF Tenure
<1> QED
  BY <1>1, <1>2
  DEF GroupOnly, ReceiveGroup, ReceiveAutoGroup, ReceiveUngroup, CheckTimeout,
      Stop, MatchedJoin, JoinGrouped, JoinMissed, Acknowledge, MatchedLeave,
      LeaveRefused, Restart, worker, records, vars

\* No forward is inherited, however forwards are created, replaced, removed
\* and dying when the device is released (forward/index.ts 156-160,
\* manager.ts 162-202), and however many events each turn emits; unless two
\* joins of a turn both found the device free.
THEOREM NoForwardIsInherited == WorkerSpec => []NothingIsInherited
<1>1. WorkerInit => ForwardInv
  BY DEF WorkerInit, Reverse!Init, Reverse!Unlisted, Reverse!Live,
         Reverse!Listed, ForwardInv, ForwardsTyped, Numbered, PortsListedOnce,
         Orderly
<1>2. TypeOK /\ IInv /\ ForwardInv /\ [WorkerNext]_all => ForwardInv'
  <2> SUFFICES ASSUME TypeOK, IInv, ForwardInv, [WorkerNext]_all PROVE ForwardInv'
    OBVIOUS
  <2>1. CASE Releasing
    BY <2>1, ReleaseEndsForwards DEF Releasing
  <2>2. CASE Dying \/ ScreenFails
    BY <2>2, NoForwards DEF Dying, ScreenFails
  <2>3. CASE Forwarding
    <3>1. /\ uses' = uses /\ contested' = contested
          /\ Tenure \in Int /\ Tenure' = Tenure
      BY <2>3 DEF Forwarding, Tenure, vars, TypeOK
    <3>2. Reverse!Next
      BY <2>3 DEF Forwarding
    <3> QED
      BY <3>1, <3>2, CreationKeepsForwards, RefusalKeepsForwards,
         ConnectionKeepsForwards, RemovalKeepsForwards, EndKeepsForwards
      DEF Reverse!Next
  <2>4. CASE Grouping \/ Stopping \/ Restarting \/ Screening \/ UNCHANGED all
    <3>1. UNCHANGED <<uses, forwards>>
      BY <2>4 DEF Grouping, Stopping, Restarting, Screening, all
    <3>2. [Next]_vars
      BY GroupSteps
    <3>3. ~contested' => ~contested /\ Tenure' = Tenure
      BY <2>4, <3>2, TenureKept DEF Grouping, Stopping, Restarting, Screening, all
    <3>4. Numbered' /\ PortsListedOnce' /\ ForwardsTyped'
      BY <3>1
      DEF forwards, ForwardInv, ForwardsTyped, Numbered, PortsListedOnce,
          Reverse!Live, Reverse!Listed
    <3>5. Orderly'
      <4>1. Reverse!Live' = Reverse!Live
        BY <3>1 DEF forwards, Reverse!Live
      <4> QED BY <3>1, <3>3, <4>1 DEF forwards, ForwardInv, Orderly
    <3> QED BY <3>4, <3>5 DEF ForwardInv
  <2> QED BY <2>1, <2>2, <2>3, <2>4 DEF WorkerNext
<1>3. ForwardInv => NothingIsInherited
  BY DEF ForwardInv, PortsListedOnce, Orderly, NothingIsInherited,
         Reverse!NothingIsInherited
<1>4. WorkerSpec => [](TypeOK /\ IInv)
  BY GroupImplemented, TypeCorrect, Invariant, PTL
<1> QED BY <1>1, <1>2, <1>3, <1>4, PTL DEF WorkerSpec
-----------------------------------------------------------------------------
(***************************************************************************)
(* The screen.                                                             *)
(***************************************************************************)
\* StateQueue's push: the queues of two states that it makes of each other
\* (statequeue.ts 16-31).
LEMMA PushedOne ==
    ASSUME NEW s
    PROVE  Capture!Pushed(<<>>, s) = <<s>>
BY DEF Capture!Pushed, Capture!Range

LEMMA PushedSecond ==
    ASSUME NEW s, NEW t
    PROVE  Capture!Pushed(<<s>>, t) = IF s = t THEN <<s>> ELSE <<s, t>>
<1>1. DOMAIN <<s>> = {1} /\ Capture!Range(<<s>>) = {s}
  BY DEF Capture!Range
<1>2. CASE s = t
  <2>1. (CHOOSE i \in DOMAIN <<s>> : <<s>>[i] = t) = 1
    BY <1>1, <1>2
  <2>2. SubSeq(<<s>>, 1, 1) = <<s>>
    <3>1. <<s>> \in Seq({s}) /\ Len(<<s>>) = 1
      OBVIOUS
    <3> QED BY <3>1, SubSeqFull
  <2> QED BY <1>1, <1>2, <2>1, <2>2 DEF Capture!Pushed
<1>3. CASE s # t
  <2>1. t \notin Capture!Range(<<s>>)
    BY <1>1, <1>3
  <2>2. Append(<<s>>, t) = <<s, t>>
    <3> DEFINE q == Append(<<s>>, t)
    <3>1. q \in Seq({s, t}) /\ Len(q) = 2 /\ q[1] = s /\ q[2] = t
      <4>1. <<s>> \in Seq({s, t}) /\ Len(<<s>>) = 1 /\ <<s>>[1] = s
        OBVIOUS
      <4> QED BY <4>1, AppendProperties
    <3>2. <<s, t>> \in Seq({s, t}) /\ Len(<<s, t>>) = 2
      OBVIOUS
    <3> HIDE DEF q
    <3>3. q = <<s, t>>
      BY <3>1, <3>2, SeqEqual
    <3> QED BY <3>3 DEF q
  <2>3. Capture!Pushed(<<s>>, t) = Append(<<s>>, t)
    BY <2>1 DEF Capture!Pushed
  <2> QED BY <1>3, <2>2, <2>3
<1> QED BY <1>2, <1>3

LEMMA PushedThird ==
    ASSUME NEW s, NEW t, NEW u \in {s, t}, s # t
    PROVE  Capture!Pushed(<<s, t>>, u) = IF u = s THEN <<s>> ELSE <<s, t>>
<1>1. DOMAIN <<s, t>> = {1, 2} /\ Capture!Range(<<s, t>>) = {s, t}
  BY DEF Capture!Range
<1>2. CASE u = s
  <2>1. (CHOOSE i \in DOMAIN <<s, t>> : <<s, t>>[i] = u) = 1
    BY <1>1, <1>2
  <2>2. SubSeq(<<s, t>>, 1, 1) = <<s>>
    <3> DEFINE q == SubSeq(<<s, t>>, 1, 1)
    <3>1. q \in Seq({s}) /\ Len(q) = 1 /\ q[1] = s
      <4>1. \A i \in 1..1 : <<s, t>>[i] \in {s}
        OBVIOUS
      <4> QED BY <4>1, SubSeqProperties
    <3>2. <<s>> \in Seq({s}) /\ Len(<<s>>) = 1
      OBVIOUS
    <3> HIDE DEF q
    <3>3. q = <<s>>
      BY <3>1, <3>2, SeqEqual
    <3> QED BY <3>3 DEF q
  <2> QED BY <1>1, <1>2, <2>1, <2>2 DEF Capture!Pushed
<1>3. CASE u = t
  <2>1. (CHOOSE i \in DOMAIN <<s, t>> : <<s, t>>[i] = u) = 2
    BY <1>1, <1>3
  <2>2. SubSeq(<<s, t>>, 1, 2) = <<s, t>>
    <3>1. <<s, t>> \in Seq({s, t}) /\ Len(<<s, t>>) = 2
      OBVIOUS
    <3> QED BY <3>1, SubSeqFull
  <2> QED BY <1>1, <1>3, <2>1, <2>2 DEF Capture!Pushed
<1> QED BY <1>2, <1>3

\* The queues that there are, while restarts do not come when a stop waits.
S  == <<"stopped">>
T  == <<"started">>
ST == <<"stopped", "started">>
TS == <<"started", "stopped">>

LEMMA Queues ==
    /\ Head(S) = "stopped" /\ Tail(S) = <<>>
    /\ Head(T) = "started" /\ Tail(T) = <<>>
    /\ Head(ST) = "stopped" /\ Tail(ST) = T
    /\ Head(TS) = "started" /\ Tail(TS) = S
    /\ S # <<>> /\ T # <<>> /\ ST # <<>> /\ TS # <<>>
    /\ S # T /\ S # ST /\ S # TS /\ T # ST /\ T # TS /\ ST # TS
<1>1. Head(S) = "stopped" /\ Head(T) = "started"
      /\ Head(ST) = "stopped" /\ Head(TS) = "started"
  BY DEF S, T, ST, TS
<1>2. Len(S) = 1 /\ Len(T) = 1 /\ Len(ST) = 2 /\ Len(TS) = 2
  BY DEF S, T, ST, TS
<1>3. Tail(S) = <<>> /\ Tail(T) = <<>>
  BY DEF S, T
<1>4. Tail(ST) = T /\ Tail(TS) = S
  BY DEF S, T, ST, TS
<1> QED BY <1>1, <1>2, <1>3, <1>4

LEMMA PushedStopped ==
    /\ Capture!Pushed(<<>>, "stopped") = S
    /\ Capture!Pushed(S, "stopped") = S
    /\ Capture!Pushed(T, "stopped") = TS
    /\ Capture!Pushed(ST, "stopped") = S
    /\ Capture!Pushed(TS, "stopped") = TS
BY PushedOne, PushedSecond, PushedThird DEF S, T, ST, TS

LEMMA PushedStarted ==
    /\ Capture!Pushed(<<>>, "started") = T
    /\ Capture!Pushed(S, "started") = ST
    /\ Capture!Pushed(T, "started") = T
    /\ Capture!Pushed(ST, "started") = ST
    /\ Capture!Pushed(TS, "started") = T
BY PushedOne, PushedSecond, PushedThird DEF S, T, ST, TS

\* What the producer may still have to do, in a running state, with and
\* without anybody who watches: it will end up running if somebody does.
Fits(state, queue, watched) ==
    \/ /\ state = "stopped"
       /\ queue = <<>> \/ (watched /\ queue = T)
    \/ /\ state = "starting"
       /\ queue = S \/ (watched /\ queue \in {<<>>, ST})
    \/ /\ state = "started"
       /\ watched /\ queue = <<>>
    \/ /\ state = "stopping"
       /\ queue \in {<<>>, S, TS} \/ (watched /\ queue \in {T, ST})

\* What _ensureState may find: it leaves something that fits.
Ensurable(state, queue, watched) ==
    \/ /\ state \in {"stopped", "stopping"}
       /\ queue \in {<<>>, S, TS} \/ (watched /\ queue \in {T, ST})
    \/ /\ state = "starting"
       /\ queue = S \/ (watched /\ queue \in {<<>>, ST})
    \/ /\ state = "started"
       /\ queue = S \/ (watched /\ queue \in {<<>>, T, ST})

\* The stage of a chain belongs to its running state.
StageFits(at, state) ==
    /\ at \in {"launch", "connect", "banner", "robbed"} => state = "starting"
    /\ at \in {"disconnect", "kill"} => state \in {"starting", "stopping"}

\* A producer with nothing left to do captures, or is about to capture, with
\* the current rotation.
Fresh ==
    runningState \in {"starting", "started"} /\ desiredState = <<>>
        => captured = config

LEMMA EnsureKeeps ==
    ASSUME NEW STATE state, NEW STATE queue, NEW STATE at, NEW STATE due,
           NEW STATE watched,
           StageFits(at, state), Capture!Ensure(state, queue, at, due)
    PROVE  /\ StageFits(stage', runningState')
           /\ runningState' = "started" => state = "started"
           /\ Ensurable(state, queue, watched) =>
                /\ Fits(runningState', desiredState', watched)
                /\ (state \in {"starting", "started"} /\ queue \in {<<>>, T}
                        => captured = config') => Fresh'
<1>1. CASE queue = <<>> \/ state \in {"starting", "stopping"}
  <2>1. /\ runningState' = state /\ desiredState' = queue
        /\ stage' = at /\ captured' = captured
    BY <1>1 DEF Capture!Ensure
  <2> QED BY <1>1, <2>1, Queues DEF StageFits, Ensurable, Fits, Fresh
<1>2. CASE queue # <<>> /\ state \notin {"starting", "stopping"}
  <2>1. /\ desiredState' = Tail(queue)
        /\ \/ /\ state = "stopped" /\ Head(queue) = "started"
              /\ runningState' = "starting" /\ stage' = "launch"
              /\ captured' = config'
           \/ /\ state = "started" /\ Head(queue) = "stopped"
              /\ runningState' = "stopping" /\ stage' \in {"disconnect", "kill"}
              /\ captured' = captured
           \/ /\ ~(state = "stopped" /\ Head(queue) = "started")
              /\ ~(state = "started" /\ Head(queue) = "stopped")
              /\ runningState' = state /\ stage' = at
              /\ captured' = captured
    BY <1>2 DEF Capture!Ensure
  <2>2. StageFits(stage', runningState') /\ (runningState' = "started" => state = "started")
    BY <2>1 DEF StageFits
  <2>3. ASSUME Ensurable(state, queue, watched)
        PROVE  Fits(runningState', desiredState', watched)
    BY <1>2, <2>1, <2>3, Queues DEF Ensurable, Fits
  <2>4. ASSUME Ensurable(state, queue, watched),
               state \in {"starting", "started"} /\ queue \in {<<>>, T} => captured = config'
        PROVE  Fresh'
    BY <1>2, <2>1, <2>4, Queues DEF Ensurable, Fresh
  <2> QED BY <2>2, <2>3, <2>4
<1> QED BY <1>1, <1>2

Watched == Capture!Watchers # {}

\* Who watches a producer that is up was told so.
ToldAll ==
    runningState = "started" =>
        \A c \in Clients : clients[c] = "on" => c \in told

ScreenInv ==
    /\ clients \in [Clients -> {"off", "on", "closing"}]
    /\ StageFits(stage, runningState)
    /\ ToldAll
    /\ "restart" \notin uses =>
           /\ Fits(runningState, desiredState, Watched)
           /\ Fresh

\* start and stop, asked for by who comes first and leaves last.
LEMMA DesireKeeps ==
    ASSUME ScreenInv, NEW state \in {"started", "stopped"}, NEW STATE watched,
           Capture!Desire(state), config' = config,
           state = "started" => watched /\ ~Watched,
           watched => state = "started" \/ Watched
    PROVE  /\ StageFits(stage', runningState')
           /\ runningState' = "started" => runningState = "started"
           /\ "restart" \notin uses =>
                /\ Fits(runningState', desiredState', watched)
                /\ Fresh'
<1> DEFINE queue == Capture!Pushed(desiredState, state)
<1>1. StageFits(stage, runningState) /\ Capture!Ensure(runningState, queue, stage, ensuring)
  BY DEF ScreenInv, Capture!Desire
<1>2. ASSUME "restart" \notin uses
      PROVE  /\ Ensurable(runningState, queue, watched)
             /\ runningState \in {"starting", "started"} /\ queue \in {<<>>, T}
                    => captured = config'
  <2>1. Fits(runningState, desiredState, Watched) /\ Fresh
    BY <1>2 DEF ScreenInv
  <2>2. CASE state = "stopped"
    <3>1. Ensurable(runningState, queue, FALSE) /\ queue \in {S, TS}
      BY <2>1, <2>2, PushedStopped DEF Fits, Ensurable
    <3> QED BY <3>1, Queues DEF Ensurable
  <2>3. CASE state = "started"
    <3>1. Fits(runningState, desiredState, FALSE) /\ watched
      BY <2>1, <2>3 DEF Fits
    <3>2. \/ runningState = "stopped" /\ desiredState = <<>>
          \/ runningState = "starting" /\ desiredState = S
          \/ runningState = "stopping" /\ desiredState \in {<<>>, S, TS}
      BY <3>1 DEF Fits
    <3>3. \/ runningState = "stopped" /\ queue = T
          \/ runningState = "starting" /\ queue = ST
          \/ runningState = "stopping" /\ queue \in {T, ST}
      BY <2>3, <3>2, PushedStarted
    <3> HIDE DEF queue
    <3> QED BY <3>1, <3>3, Queues DEF Ensurable
  <2> QED BY <2>2, <2>3
<1> HIDE DEF queue
<1> QED BY <1>1, <1>2, EnsureKeeps

\* A restart puts a stop and a start behind each other, or is one already.
LEMMA RestartKeeps ==
    ASSUME ScreenInv, Capture!Restart, UNCHANGED <<clients, told, uses>>,
           "restart" \in uses \/ ~Capture!StopWaits
    PROVE  ScreenInv'
<1> DEFINE queue == Capture!Restarted(desiredState)
<1>1. Watched' = Watched
  BY DEF Watched, Capture!Watchers
<1>2. CASE runningState \in {"started", "starting"}
  <2>1. StageFits(stage, runningState) /\ Capture!Ensure(runningState, queue, stage, ensuring)
    BY <1>2 DEF ScreenInv, Capture!Restart
  <2>2. ASSUME "restart" \notin uses
        PROVE  Ensurable(runningState, queue, Watched) /\ queue = ST
    <3>1. Fits(runningState, desiredState, Watched)
          /\ ~(runningState = "starting" /\ desiredState = S)
      BY <2>2 DEF ScreenInv, Capture!StopWaits, S
    <3>2. Watched /\ desiredState \in {<<>>, ST}
      BY <1>2, <3>1 DEF Fits
    <3>3. queue = ST
      BY <3>2, PushedStopped, PushedStarted DEF Capture!Restarted
    <3> QED BY <1>2, <3>2, <3>3 DEF Ensurable
  <2> HIDE DEF queue
  <2>3. StageFits(stage', runningState')
        /\ (runningState' = "started" => runningState = "started")
    BY <2>1, EnsureKeeps
  <2>4. ASSUME "restart" \notin uses
        PROVE  Fits(runningState', desiredState', Watched) /\ Fresh'
    <3>1. queue \notin {<<>>, T}
      BY <2>2, <2>4, Queues
    <3> QED BY <2>1, <2>2, <2>4, <3>1, EnsureKeeps
  <2> QED BY <1>1, <2>3, <2>4 DEF ScreenInv, ToldAll
<1>3. CASE runningState \notin {"started", "starting"}
  <2>1. UNCHANGED <<runningState, desiredState, stage, captured>>
    BY <1>3 DEF Capture!Restart, Capture!chain
  <2> QED BY <1>1, <1>3, <2>1 DEF ScreenInv, ToldAll, Fresh
<1> QED BY <1>2, <1>3

LEMMA WatchKeeps ==
    ASSUME ScreenInv, NEW c \in Clients, Capture!Watch(c), uses' = uses
    PROVE  ScreenInv'
<1> USE DEF Capture!Watch
<1>1. clients' = [clients EXCEPT ![c] = "on"] /\ told' = Capture!ToldAtOnce(c)
      /\ config' = config
  OBVIOUS
<1>2. clients' \in [Clients -> {"off", "on", "closing"}] /\ clients'[c] = "on"
      /\ \A d \in Clients \ {c} : clients'[d] = clients[d]
  BY <1>1 DEF ScreenInv
<1>3. Watched'
  BY <1>2 DEF Watched, Capture!Watchers
<1>4. told \subseteq told' /\ (runningState = "started" => c \in told')
  BY <1>1 DEF Capture!ToldAtOnce
<1>5. ASSUME runningState' = "started" => runningState = "started"
      PROVE  ToldAll'
  BY <1>2, <1>4, <1>5 DEF ScreenInv, ToldAll
<1>6. CASE Capture!Watchers = {}
  <2>1. Capture!Desire("started")
    BY <1>6
  <2>2. /\ StageFits(stage', runningState')
        /\ runningState' = "started" => runningState = "started"
        /\ "restart" \notin uses => Fits(runningState', desiredState', TRUE) /\ Fresh'
    BY <1>1, <1>6, <2>1, DesireKeeps DEF Watched
  <2> QED BY <1>2, <1>3, <1>5, <2>2 DEF ScreenInv
<1>7. CASE Capture!Watchers # {}
  <2>1. UNCHANGED <<runningState, desiredState, stage, captured>>
    BY <1>7 DEF Capture!chain
  <2>2. Watched
    BY <1>7 DEF Watched
  <2> QED BY <1>1, <1>2, <1>3, <1>5, <2>1, <2>2 DEF ScreenInv, Fresh
<1> QED BY <1>6, <1>7

LEMMA UnwatchKeeps ==
    ASSUME ScreenInv, NEW c \in Clients, Capture!Unwatch(c), uses' = uses
    PROVE  ScreenInv'
<1> USE DEF Capture!Unwatch
<1>1. clients' = [clients EXCEPT ![c] = "off"] /\ told' = told \ {c}
      /\ config' = config /\ clients[c] # "off"
  OBVIOUS
<1>2. clients' \in [Clients -> {"off", "on", "closing"}] /\ clients'[c] = "off"
      /\ \A d \in Clients \ {c} : clients'[d] = clients[d]
  BY <1>1 DEF ScreenInv
<1>3. Capture!Watchers' = Capture!Watchers \ {c} /\ c \in Capture!Watchers
  BY <1>1, <1>2 DEF Capture!Watchers
<1>4. ASSUME runningState' = "started" => runningState = "started"
      PROVE  ToldAll'
  BY <1>1, <1>2, <1>4 DEF ScreenInv, ToldAll
<1>5. CASE Capture!Watchers = {c}
  <2>1. Capture!Desire("stopped") /\ Watched' = FALSE
    BY <1>3, <1>5 DEF Watched
  <2>2. /\ StageFits(stage', runningState')
        /\ runningState' = "started" => runningState = "started"
        /\ "restart" \notin uses => Fits(runningState', desiredState', FALSE) /\ Fresh'
    BY <1>1, <2>1, DesireKeeps
  <2> QED BY <1>2, <1>4, <2>1, <2>2 DEF ScreenInv
<1>6. CASE Capture!Watchers # {c}
  <2>1. UNCHANGED <<runningState, desiredState, stage, captured>>
    BY <1>6 DEF Capture!chain
  <2>2. Watched /\ Watched'
    BY <1>3, <1>6 DEF Watched
  <2> QED BY <1>1, <1>2, <1>4, <2>1, <2>2 DEF ScreenInv, Fresh
<1> QED BY <1>5, <1>6

\* The chains of starts and stops, and the frames.
LEMMA EnsureAgainKeeps ==
    ASSUME ScreenInv, Capture!EnsureAgain, uses' = uses
    PROVE  ScreenInv'
<1>1. /\ Capture!Ensure(runningState, desiredState, stage, FALSE)
      /\ UNCHANGED <<clients, told, config>>
      /\ Watched' = Watched
  BY DEF Capture!EnsureAgain, Watched, Capture!Watchers
<1>2. StageFits(stage, runningState)
  BY DEF ScreenInv
<1>3. StageFits(stage', runningState') /\ (runningState' = "started" => runningState = "started")
  BY <1>1, <1>2, EnsureKeeps
<1>4. ASSUME "restart" \notin uses
      PROVE  Fits(runningState', desiredState', Watched) /\ Fresh'
  <2>1. Fits(runningState, desiredState, Watched) /\ Fresh
    BY <1>4 DEF ScreenInv
  <2>2. Ensurable(runningState, desiredState, Watched)
    BY <2>1 DEF Fits, Ensurable
  <2>3. runningState \in {"starting", "started"} /\ desiredState \in {<<>>, T} => captured = config'
    BY <1>1, <2>1, Queues DEF Fits, Fresh
  <2> QED BY <1>1, <1>2, <2>2, <2>3, EnsureKeeps
<1> QED BY <1>1, <1>3, <1>4 DEF ScreenInv, ToldAll

LEMMA BannerReadKeeps ==
    ASSUME ScreenInv, Capture!BannerRead, uses' = uses
    PROVE  ScreenInv'
<1>1. /\ runningState = "starting"
      /\ Capture!Ensure("started", desiredState, "none", ensuring)
      /\ UNCHANGED <<clients, config>>
      /\ told' = {c \in Clients : clients[c] = "on"}
      /\ Watched' = Watched
  BY DEF ScreenInv, StageFits, Capture!BannerRead, Capture!AtStage, Watched,
         Capture!Watchers
<1>2. StageFits("none", "started")
  BY DEF StageFits
<1>3. StageFits(stage', runningState')
  BY <1>1, <1>2, EnsureKeeps
<1>4. ASSUME "restart" \notin uses
      PROVE  Fits(runningState', desiredState', Watched) /\ Fresh'
  <2>1. Fits("starting", desiredState, Watched) /\ Fresh
    BY <1>1, <1>4 DEF ScreenInv
  <2>2. Ensurable("started", desiredState, Watched)
    BY <2>1 DEF Fits, Ensurable
  <2>3. desiredState \in {<<>>, T} => captured = config'
    BY <1>1, <2>1, Queues DEF Fits, Fresh
  <2> QED BY <1>1, <1>2, <2>2, <2>3, EnsureKeeps
<1> QED BY <1>1, <1>3, <1>4 DEF ScreenInv, ToldAll

LEMMA KilledKeeps ==
    ASSUME ScreenInv, Capture!Killed, uses' = uses
    PROVE  ScreenInv'
<1>1. /\ runningState \in {"starting", "stopping"}
      /\ Capture!Ensure("stopped", desiredState, "none", ensuring)
      /\ UNCHANGED <<clients, config, told>>
      /\ Watched' = Watched
  BY DEF ScreenInv, StageFits, Capture!Killed, Capture!AtStage, Watched,
         Capture!Watchers
<1>2. StageFits("none", "stopped")
  BY DEF StageFits
<1>3. StageFits(stage', runningState') /\ runningState' # "started"
  <2>1. StageFits(stage', runningState') /\ (runningState' = "started" => "stopped" = "started")
    BY <1>1, <1>2, EnsureKeeps
  <2> QED BY <2>1
<1>4. ASSUME "restart" \notin uses
      PROVE  Fits(runningState', desiredState', Watched) /\ Fresh'
  <2>1. Fits(runningState, desiredState, Watched)
    BY <1>4 DEF ScreenInv
  <2>2. Ensurable("stopped", desiredState, Watched)
    BY <1>1, <2>1 DEF Fits, Ensurable
  <2> QED BY <1>1, <1>2, <2>2, EnsureKeeps
<1> QED BY <1>1, <1>3, <1>4 DEF ScreenInv, ToldAll

\* Whatever leaves the running and the desired state alone.
LEMMA OthersKeep ==
    ASSUME ScreenInv, UNCHANGED <<told, config, runningState, desiredState, captured, uses>>,
           Watched' = Watched,
           clients' \in [Clients -> {"off", "on", "closing"}],
           \A c \in Clients : clients'[c] = "on" => clients[c] = "on",
           StageFits(stage', runningState)
    PROVE  ScreenInv'
BY DEF ScreenInv, ToldAll, Fresh

LEMMA ScreenKeeps ==
    ASSUME ScreenInv, Capture!Next, uses' = uses
    PROVE  ScreenInv'
<1> USE DEF Capture!chain, Capture!streams, Capture!frames
<1>1. ASSUME NEW c \in Clients, Capture!Close(c)
      PROVE  ScreenInv'
  <2>1. /\ clients[c] = "on" /\ clients' = [clients EXCEPT ![c] = "closing"]
        /\ UNCHANGED <<told, config, runningState, desiredState, captured, stage>>
    BY <1>1 DEF Capture!Close
  <2>2. Watched' = Watched /\ clients' \in [Clients -> {"off", "on", "closing"}]
        /\ \A d \in Clients : clients'[d] = "on" => clients[d] = "on"
    BY <2>1 DEF ScreenInv, Watched, Capture!Watchers
  <2> QED BY <2>1, <2>2, OthersKeep DEF ScreenInv
<1>2. ASSUME NEW c \in Configs, Capture!Reconfigure(c)
      PROVE  ScreenInv'
  BY <1>2, RestartKeeps DEF Capture!Reconfigure
<1>3. CASE Capture!OutputEnded \/ Capture!SocketEnded
  BY <1>3, RestartKeeps DEF Capture!OutputEnded, Capture!SocketEnded, Capture!MayDie
<1>4. CASE Capture!FrameArrives \/ Capture!Forgive
  <2>1. UNCHANGED <<clients, told, config, runningState, desiredState, captured, stage>>
    BY <1>4 DEF Capture!FrameArrives, Capture!Forgive
  <2> QED BY <2>1, OthersKeep DEF ScreenInv, Watched, Capture!Watchers
<1>5. CASE Capture!Sent
  <2>1. /\ UNCHANGED <<clients, told, config, runningState, desiredState, captured>>
        /\ stage' = stage \/ (stage = "banner" /\ stage' = "robbed")
    BY <1>5 DEF Capture!Sent
  <2>2. StageFits(stage', runningState)
    BY <2>1 DEF ScreenInv, StageFits
  <2>3. Watched' = Watched
    BY <2>1 DEF Watched, Capture!Watchers
  <2> QED BY <2>1, <2>2, <2>3, OthersKeep DEF ScreenInv
<1>6. CASE Capture!Launched \/ Capture!Connected \/ Capture!StartFails \/ Capture!Disconnected
  <2>1. UNCHANGED <<clients, told, config, runningState, desiredState, captured>>
    BY <1>6 DEF Capture!Launched, Capture!Connected, Capture!StartFails,
                Capture!Disconnected, Capture!AtStage
  <2>2. StageFits(stage', runningState)
    BY <1>6 DEF ScreenInv, StageFits, Capture!Launched, Capture!Connected,
                Capture!StartFails, Capture!Disconnected, Capture!AtStage
  <2> QED BY <2>1, <2>2, OthersKeep DEF ScreenInv, Watched, Capture!Watchers
<1> QED
  BY <1>1, <1>2, <1>3, <1>4, <1>5, <1>6, WatchKeeps, UnwatchKeeps,
     EnsureAgainKeeps, BannerReadKeeps, KilledKeeps
  DEF Capture!Next, Capture!Chain

\* SIGTERM asks the producer to stop.
LEMMA SigtermKeeps ==
    ASSUME ScreenInv, Capture!Stopped, uses' = uses
    PROVE  ScreenInv'
<1>1. /\ UNCHANGED <<clients, told, config>>
      /\ Capture!Desire("stopped")
      /\ Watched' = Watched /\ Watched \in BOOLEAN
  BY DEF Capture!Stopped, Watched, Capture!Watchers
<1>2. /\ StageFits(stage', runningState')
      /\ runningState' = "started" => runningState = "started"
      /\ "restart" \notin uses => Fits(runningState', desiredState', Watched) /\ Fresh'
  BY <1>1, DesireKeeps
<1> QED BY <1>1, <1>2 DEF ScreenInv, ToldAll

\* The screen is current, whatever its watchers, rotations, failures and the
\* end of the process do while it starts and stops (screen/stream.ts 128-226,
\* 552-563); for any number of watchers and rotations.
THEOREM ScreenCurrent == WorkerSpec => []ScreenIsCurrent
<1>1. WorkerInit => ScreenInv
  BY DEF WorkerInit, Capture!Init, ScreenInv, StageFits, ToldAll, Fits, Fresh
<1>2. ScreenInv /\ [WorkerNext]_all => ScreenInv'
  <2> SUFFICES ASSUME ScreenInv, [WorkerNext]_all PROVE ScreenInv'
    OBVIOUS
  <2>1. CASE Screening
    BY <2>1, ScreenKeeps DEF Screening
  <2>2. CASE Stopping
    BY <2>2, SigtermKeeps DEF Stopping
  <2>3. CASE Dying \/ ScreenFails
    BY <2>3 DEF Dying, ScreenFails, Capture!Reset, ScreenInv, StageFits,
                ToldAll, Fits, Fresh
  <2>4. CASE UNCHANGED <<uses, screen>>
    BY <2>4, OthersKeep DEF screen, ScreenInv, Watched, Capture!Watchers
  <2> QED
    BY <2>1, <2>2, <2>3, <2>4
    DEF WorkerNext, Grouping, Releasing, Restarting, Forwarding, all
<1>3. ScreenInv => ScreenIsCurrent
  BY DEF ScreenInv, ToldAll, Fresh, ScreenIsCurrent, Capture!ScreenIsCurrent
<1> QED BY <1>1, <1>2, <1>3, PTL DEF WorkerSpec
=============================================================================
