---------------------------- MODULE BookingProofs ----------------------------
(***************************************************************************)
(* What Booking promises for any numbers of groups, devices, requests and  *)
(* ticks, any dates and any quotas: types, that the lock of a group has    *)
(* one holder, that no device is booked twice if schedules are changed one *)
(* at a time, and that the owner is charged for the groups there are and   *)
(* for what they book.                                                     *)
(***************************************************************************)
EXTENDS Booking, FiniteSetTheorems, SequenceTheorems, WellFoundedInduction,
        TLAPS

Due1 == [group : GroupRows, todo : Decisions]

-----------------------------------------------------------------------------
(***************************************************************************)
(* Arithmetic and sequences.                                               *)
(***************************************************************************)
LEMMA LeastIsOne ==
    ASSUME NEW S \in SUBSET Nat, S # {}
    PROVE  Min(S) \in S /\ \A y \in S : Min(S) <= y
<1> DEFINE R == {ss \in Nat \X Nat : ss[1] < ss[2]}
<1>1. IsWellFoundedOn(R, Nat)
  BY NatLessThanWellFounded DEF OpToRel
<1>2. PICK x \in S : \A y \in S : ~(<<y, x>> \in R)
  <2> HIDE DEF R
  <2> QED BY <1>1, WFMin
<1>3. \A y \in S : x <= y
  <2> SUFFICES ASSUME NEW y \in S PROVE x <= y
    OBVIOUS
  <2>1. x \in Nat /\ y \in Nat /\ <<y, x>> \in Nat \X Nat
    OBVIOUS
  <2>2. ~(<<y, x>>[1] < <<y, x>>[2])
    BY <1>2, <2>1
  <2>3. ~(y < x)
    BY <2>2
  <2> QED BY <2>1, <2>3
<1> QED BY <1>3 DEF Min

LEMMA HeadDropped ==
    ASSUME NEW S, NEW s \in Seq(S), s # <<>>
    PROVE  /\ Tail(s) \in Seq(S) /\ Head(s) \in S /\ 1 \in DOMAIN s /\ Head(s) = s[1]
           /\ \A j \in DOMAIN Tail(s) : j + 1 \in DOMAIN s /\ Tail(s)[j] = s[j + 1]
           /\ DOMAIN s \subseteq Nat \ {0} /\ DOMAIN Tail(s) \subseteq Nat \ {0}
           /\ Len(s) # 1 => Tail(s) # <<>>
<1>1. /\ DOMAIN s = 1 .. Len(s) /\ Len(s) \in Nat /\ Len(s) # 0
      /\ Head(s) = s[1]
  BY LenProperties, EmptySeq
<1>2. /\ Head(s) \in S /\ Tail(s) \in Seq(S) /\ Len(Tail(s)) = Len(s) - 1
      /\ \A j \in 1 .. Len(Tail(s)) : Tail(s)[j] = s[j + 1]
  BY HeadTailProperties
<1>3. DOMAIN Tail(s) = 1 .. (Len(s) - 1)
  BY <1>1, <1>2, LenProperties
<1>4. Len(s) # 1 => Tail(s) # <<>>
  <2>1. \A q \in Seq(S) : q = <<>> <=> Len(q) = 0
    BY EmptySeq
  <2>2. Len(s) # 1 => Len(Tail(s)) # 0
    BY <1>1, <1>2
  <2> QED BY <1>2, <2>1, <2>2, Zenon
<1> QED BY <1>1, <1>2, <1>3, <1>4

LEMMA OneReplaced ==
    ASSUME NEW S, NEW s \in Seq(S), NEW i \in DOMAIN s, NEW x \in S
    PROVE  /\ [s EXCEPT ![i] = x] \in Seq(S)
           /\ DOMAIN [s EXCEPT ![i] = x] = DOMAIN s
           /\ \A j \in DOMAIN s : [s EXCEPT ![i] = x][j] = IF j = i THEN x ELSE s[j]
<1>1. DOMAIN s = 1 .. Len(s) /\ Len(s) \in Nat /\ \A j \in DOMAIN s : s[j] \in S
  BY LenProperties
<1> DEFINE f == [s EXCEPT ![i] = x]
<1>2. f \in [1 .. Len(s) -> S] /\ \A j \in DOMAIN s : f[j] = IF j = i THEN x ELSE s[j]
  BY <1>1
<1>3. f \in Seq(S)
  BY <1>1, <1>2, SeqDef
<1> QED BY <1>1, <1>2, <1>3

\* An order of a finite set of things is a sequence of them, each once.
LEMMA OrderIsTyped ==
    ASSUME NEW T \in SUBSET Due1, IsFiniteSet(T), T # {}, NEW s \in Ordered(T)
    PROVE  /\ s \in Seq(Due1) /\ s # <<>>
           /\ \A i \in DOMAIN s : s[i] \in T
           /\ \A i, j \in DOMAIN s : s[i] = s[j] => i = j
<1>1. Cardinality(T) \in Nat /\ Cardinality(T) # 0
  BY FS_CardinalityType, FS_EmptySet
<1>2. s \in [1..Cardinality(T) -> T]
  BY DEF Ordered
<1>3. s \in Seq(Due1)
  BY <1>1, <1>2, SeqDef
<1>4. 1 \in DOMAIN s
  BY <1>1, <1>2
<1>5. s # <<>>
  BY <1>4
<1>6. \A i, j \in DOMAIN s : i < j => s[i] # s[j]
  BY DEF Ordered
<1>7. \A i, j \in DOMAIN s : s[i] = s[j] => i = j
  BY <1>1, <1>2, <1>6
<1> QED BY <1>2, <1>3, <1>5, <1>7

-----------------------------------------------------------------------------
(***************************************************************************)
(* The operators of Booking.                                               *)
(***************************************************************************)
LEMMA SchedulesAreDates == Schedules \subseteq Dates
BY DatesAreNumbers DEF Schedules, Dates

LEMMA RowIsTyped ==
    ASSUME NEW g \in Groups, NEW state \in States, NEW s \in Schedules
    PROVE  Row(g, state, s) \in GroupRows /\ Row(g, state, s).id = g
BY SchedulesAreDates DEF Row, GroupRows

LEMMA DurationIsNumber ==
    ASSUME NEW used \in SUBSET Devices, NEW s \in Dates
    PROVE  Duration(used, s) \in Nat
<1>1. Cardinality(used) \in Nat
  BY FS_Subset, FS_CardinalityType, DatabaseIsFinite
<1>2. s.length \in Nat /\ s.times \in Nat
  BY PeriodIsPositive DEF Dates
<1>3. \A a, b \in Nat : a * b \in Nat
  OBVIOUS
<1> QED BY <1>1, <1>2, <1>3 DEF Duration

\* What a request is about to write.
LEMMA ChangedIsTyped ==
    ASSUME NEW q \in Additions \cup Removals \cup Updates
    PROVE  /\ Changed(q) \in GroupRows
           /\ Changed(q).id = q.group.id
           /\ Changed(q).dates =
                IF q.op = "update" THEN q.dates ELSE q.group.dates
           /\ Changed(q).devices =
                CASE q.op = "add"    -> q.group.devices \cup {q.device}
                  [] q.op = "remove" -> q.group.devices \ {q.device}
                  [] q.op = "update" -> q.group.devices
<1> DEFINE used == CASE q.op = "add"    -> q.group.devices \cup {q.device}
                     [] q.op = "remove" -> q.group.devices \ {q.device}
                     [] q.op = "update" -> q.group.devices
           dates == IF q.op = "update" THEN q.dates ELSE q.group.dates
<1>1. q.group \in GroupRows
  BY DEF Additions, Removals, Updates
<1>2. used \in SUBSET Devices /\ dates \in Dates
  BY <1>1 DEF Additions, Removals, Updates, GroupRows
<1>3. Duration(used, dates) \in Nat
  BY <1>2, DurationIsNumber
<1>4. Changed(q) = [q.group EXCEPT !.devices = used, !.dates = dates,
                                   !.duration = Duration(used, dates)]
  BY DEF Changed
<1> HIDE DEF used, dates
<1>5. /\ Changed(q) \in GroupRows
      /\ Changed(q).id = q.group.id
      /\ Changed(q).dates = dates
      /\ Changed(q).devices = used
  BY <1>1, <1>2, <1>3, <1>4 DEF GroupRows
<1> QED BY <1>5 DEF used, dates

Quotas == [number : 0..MaxNumber, duration : Int]

LEMMA ChargedIsTyped ==
    ASSUME consumed \in Quotas, NEW old \in Nat, NEW new \in Nat
    PROVE  Charged(old, new) \in Quotas /\ Charged(old, new).number = consumed.number
BY DEF Charged, Quotas

LEMMA SettledIsTyped ==
    ASSUME consumed \in Quotas, NEW g \in GroupRows
    PROVE  /\ Settled(g) \in Quotas
           /\ consumed.number >= 1 => Settled(g).number = consumed.number - 1
<1> DEFINE c == Charged(g.duration, 0)
<1>1. c \in Quotas /\ c.number = consumed.number
  BY ChargedIsTyped DEF GroupRows
<1>2. Settled(g) = [c EXCEPT !.number = IF c.number >= 1 THEN c.number - 1 ELSE c.number]
  BY DEF Settled
<1> HIDE DEF c
<1> QED BY <1>1, <1>2, QuotasAreNumbers DEF Quotas

\* What a tick decides leaves a date, unless the group is deleted.
LEMMA DecisionFits ==
    ASSUME NEW g \in GroupRows, NEW time
    PROVE  /\ Decision(g, time) \in Decisions
           /\ Decision(g, time).do # "delete" =>
                Decision(g, time).drop < g.dates.times
<1> DEFINE left == {i \in 1..g.dates.times : time < Stop(g.dates, i)}
           first == Min(left)
<1>1. g.dates.times \in Nat \ {0}
  BY DEF GroupRows, Dates
<1>2. left \in SUBSET Nat
  BY <1>1
<1>3. left # {} => first \in 1..g.dates.times
  <2> SUFFICES ASSUME left # {} PROVE first \in left
    OBVIOUS
  <2> HIDE DEF left
  <2> QED BY <1>2, LeastIsOne
<1> DEFINE d == Decision(g, time)
<1>4. \/ d = Todo("nothing", 0) \/ d = Todo("delete", 0)
      \/ g.dates.times # 1 /\ d = Todo("becomeUnactive", 1)
      \/ left # {} /\ d = Todo("becomeActive", first - 1)
      \/ left # {} /\ first > 1 /\ d = Todo("clean", first - 1)
  BY DEF Decision
<1> HIDE DEF d, left, first
<1>5. d \in Decisions /\ (d.do # "delete" => d.drop < g.dates.times)
  BY <1>1, <1>3, <1>4 DEF Todo, Decisions
<1> QED BY <1>5 DEF d

LEMMA DroppedIsTyped ==
    ASSUME NEW g \in GroupRows, NEW drop \in Nat, drop < g.dates.times
    PROVE  Dropped(g, drop) \in Dates
<1>1. /\ g.dates \in Dates /\ g.dates.start \in Nat
      /\ g.dates.times \in 1..MaxTimes
  BY DEF GroupRows, Dates
<1>2. drop * Period \in Nat
  BY PeriodIsPositive
<1>3. g.dates.start + drop * Period \in Nat
  BY <1>1, <1>2
<1>4. g.dates.times - drop \in 1..MaxTimes
  BY <1>1, DatesAreNumbers
<1> QED BY <1>1, <1>3, <1>4 DEF Dropped, Dates
-----------------------------------------------------------------------------
(***************************************************************************)
(* The inductive invariant of the locks.                                   *)
(***************************************************************************)
\* Requests that have the lock of their group, and ticks that have it or are
\* about to give it back (which is of no use once the row is gone).
Owning(r) == requests[r] # None /\ requests[r].at \in Locked
Running(t) == ticks[t] # None /\ ticks[t].at \in {"write", "charge", "unlock"}

RowsAreNamed == \A g \in Groups : Exists(g) => groups[g].id = g

\* A group that is being created is nobody else's business yet.
CreationIsAlone ==
    \A r \in Serving : requests[r].at = "insert" =>
        LET g == requests[r].group.id
        IN  /\ ~Exists(g)
            /\ \A q \in Serving : requests[q].group.id = g => q = r
            /\ \A t \in Scheduling : g \notin GroupsOf(t)

\* What has the lock of a row, has a row and its lock.
OwnedIsLocked ==
    /\ \A r \in Requests : Owning(r) =>
           LET g == requests[r].group.id IN Exists(g) /\ lock[g].user
    /\ \A t \in Ticks : Running(t) =>
           IF Exists(Due(t).id) THEN lock[Due(t).id].user
                                ELSE ticks[t].at = "unlock"

\* What is deleted is gone until what it consumed is settled.
SettlingIsGone ==
    /\ \A r \in Serving :
           requests[r].at = "settle" => ~Exists(requests[r].group.id)
    /\ \A t \in Scheduling : ticks[t].at = "settle" => ~Exists(Due(t).id)

OneOwner ==
    /\ \A q, r \in Requests :
           Owning(q) /\ Owning(r) /\ requests[q].group.id = requests[r].group.id
               => q = r
    /\ \A r \in Requests, t \in Ticks :
           ~(Owning(r) /\ Running(t) /\ requests[r].group.id = Due(t).id)
    /\ \A t, u \in Ticks :
           Running(t) /\ Running(u) /\ Due(t).id = Due(u).id /\ Exists(Due(t).id)
               => t = u

\* What ticks have to do is something, and leaves a date.
DecisionsFit ==
    \A t \in Scheduling :
        /\ ticks[t].todo # <<>>
        /\ \A i \in DOMAIN ticks[t].todo :
               LET d == ticks[t].todo[i]
               IN  /\ d.todo.do # "nothing"
                   /\ d.todo.do # "delete" => d.todo.drop < d.group.dates.times
        /\ ticks[t].at = "charge" => What(t).do # "delete"
        /\ ticks[t].at = "settle" => What(t).do = "delete"

Ownership ==
    /\ RowsAreNamed
    /\ CreationIsAlone
    /\ OwnedIsLocked
    /\ SettlingIsGone
    /\ OneOwner

LockInv == TypeOK /\ DecisionsFit /\ Ownership

\* What a request or a tick knows, from the types.
LEMMA Known ==
    ASSUME TypeOK
    PROVE  /\ \A r \in Serving : requests[r] \in Served /\ requests[r].group \in GroupRows
                                 /\ requests[r].group.id \in Groups
           /\ \A g \in Groups : Exists(g) => groups[g] \in GroupRows
           /\ \A t \in Scheduling : ticks[t] \in Scheduled
BY DEF TypeOK, Serving, Scheduling, Exists, Served, Creations, Additions,
       Removals, Updates, Deletions, GroupRows

LEMMA Listed ==
    ASSUME TypeOK, DecisionsFit, NEW t \in Ticks, ticks[t] # None
    PROVE  /\ ticks[t] \in Scheduled /\ ticks[t].todo # <<>>
           /\ ticks[t].todo \in Seq(Due1)
           /\ Head(ticks[t].todo) = ticks[t].todo[1] /\ 1 \in DOMAIN ticks[t].todo
           /\ Due(t) \in GroupRows /\ Due(t).id \in Groups
           /\ What(t) \in Decisions /\ What(t).do # "nothing"
           /\ What(t).do # "delete" => What(t).drop < Due(t).dates.times
           /\ Due(t).id \in GroupsOf(t)
<1>1. ticks[t] \in Scheduled /\ ticks[t].todo # <<>> /\ ticks[t].todo \in Seq(Due1)
  BY Known DEF Scheduling, DecisionsFit, Scheduled, Due1
<1>2. /\ Head(ticks[t].todo) = ticks[t].todo[1] /\ 1 \in DOMAIN ticks[t].todo
      /\ Head(ticks[t].todo) \in Due1
  BY <1>1, HeadDropped
<1>3. /\ Due(t) \in GroupRows /\ What(t) \in Decisions
      /\ Due(t) = ticks[t].todo[1].group /\ What(t) = ticks[t].todo[1].todo
  BY <1>2 DEF Due, What, Due1
<1>4. Due(t).id \in Groups /\ Due(t).id \in GroupsOf(t)
  BY <1>2, <1>3 DEF GroupRows, GroupsOf
<1>5. What(t).do # "nothing" /\ (What(t).do # "delete" => What(t).drop < Due(t).dates.times)
  BY <1>2, <1>3 DEF DecisionsFit, Scheduling
<1> QED BY <1>1, <1>2, <1>3, <1>4, <1>5

\* One request goes on.
LEMMA RequestGoes ==
    ASSUME TypeOK, NEW r \in Requests, NEW q \in Served \cup {None},
           requests' = [requests EXCEPT ![r] = q]
    PROVE  /\ requests' \in [Requests -> Served \cup {None}]
           /\ requests'[r] = q
           /\ \A s \in Requests : s # r => requests'[s] = requests[s]
BY DEF TypeOK

\* One tick goes on with the same row.
LEMMA TickContinues ==
    ASSUME TypeOK, DecisionsFit, NEW t \in Ticks, ticks[t] # None,
           NEW k \in Scheduled, k.todo = ticks[t].todo,
           ticks' = [ticks EXCEPT ![t] = k],
           k.at = "charge" => What(t).do # "delete",
           k.at = "settle" => What(t).do = "delete"
    PROVE  /\ ticks' \in [Ticks -> Scheduled \cup {None}]
           /\ ticks'[t] # None /\ ticks'[t] = k
           /\ \A u \in Ticks : u # t => ticks'[u] = ticks[u]
           /\ DecisionsFit'
<1>2. k # None
  BY NoneIsNothing
<1>4. /\ ticks' \in [Ticks -> Scheduled \cup {None}]
      /\ ticks'[t] = k /\ \A u \in Ticks : u # t => ticks'[u] = ticks[u]
  BY DEF TypeOK
<1>5. DecisionsFit'
  <2> SUFFICES ASSUME NEW u \in Ticks, ticks'[u] # None
               PROVE  /\ ticks'[u].todo # <<>>
                      /\ \A i \in DOMAIN ticks'[u].todo :
                             LET d == ticks'[u].todo[i]
                             IN  /\ d.todo.do # "nothing"
                                 /\ d.todo.do # "delete" =>
                                        d.todo.drop < d.group.dates.times
                      /\ ticks'[u].at = "charge" => What(u)'.do # "delete"
                      /\ ticks'[u].at = "settle" => What(u)'.do = "delete"
    BY DEF DecisionsFit, Scheduling
  <2>1. CASE u = t
    BY <1>2, <1>4, <2>1 DEF DecisionsFit, Scheduling, What
  <2>2. CASE u # t
    BY <1>4, <2>2 DEF DecisionsFit, Scheduling, What
  <2> QED BY <2>1, <2>2
<1> QED BY <1>2, <1>4, <1>5

LEMMA TickTurns ==
    ASSUME TypeOK, DecisionsFit, NEW t \in Ticks, ticks[t] # None, NextGroup(t)
    PROVE  /\ ticks' \in [Ticks -> Scheduled \cup {None}]
           /\ ticks'[t] = None \/ (/\ ticks'[t] # None /\ ticks'[t].at = "lock"
                                   /\ ticks'[t].todo = Tail(ticks[t].todo))
           /\ ticks'[t] # None => GroupsOf(t)' \subseteq GroupsOf(t)
           /\ \A u \in Ticks : u # t => ticks'[u] = ticks[u]
           /\ DecisionsFit'
<1> DEFINE s == ticks[t].todo
           k == IF Len(s) = 1 THEN None
                ELSE [at |-> "lock", tried |-> FALSE, todo |-> Tail(s)]
<1>1. s \in Seq(Due1) /\ s # <<>>
  BY Listed
<1>2. /\ Tail(s) \in Seq(Due1)
      /\ \A j \in DOMAIN Tail(s) : j + 1 \in DOMAIN s /\ Tail(s)[j] = s[j + 1]
      /\ Len(s) # 1 => Tail(s) # <<>>
  BY <1>1, HeadDropped
<1>3. ticks' = [ticks EXCEPT ![t] = k]
  BY DEF NextGroup
<1>4. k = None \/ (/\ k # None /\ k \in Scheduled /\ k.at = "lock"
                  /\ k.todo = Tail(s) /\ Tail(s) # <<>>)
  BY <1>2, NoneIsNothing DEF Scheduled, Due1
<1> HIDE DEF k, s
<1>5. /\ ticks' \in [Ticks -> Scheduled \cup {None}]
      /\ ticks'[t] = k /\ \A u \in Ticks : u # t => ticks'[u] = ticks[u]
  BY <1>3, <1>4 DEF TypeOK
<1>6. ASSUME ticks'[t] # None
      PROVE  GroupsOf(t)' \subseteq GroupsOf(t)
  <2>1. ticks'[t].todo = Tail(s)
    BY <1>4, <1>5, <1>6
  <2>2. GroupsOf(t)' = {Tail(s)[j].group.id : j \in DOMAIN Tail(s)}
    BY <2>1 DEF GroupsOf
  <2>3. \A j \in DOMAIN Tail(s) : Tail(s)[j].group.id \in GroupsOf(t)
    BY <1>2 DEF GroupsOf, s
  <2> QED BY <2>2, <2>3
<1>7. DecisionsFit'
  <2> SUFFICES ASSUME NEW u \in Ticks, ticks'[u] # None
               PROVE  /\ ticks'[u].todo # <<>>
                      /\ \A i \in DOMAIN ticks'[u].todo :
                             LET d == ticks'[u].todo[i]
                             IN  /\ d.todo.do # "nothing"
                                 /\ d.todo.do # "delete" =>
                                        d.todo.drop < d.group.dates.times
                      /\ ticks'[u].at = "charge" => What(u)'.do # "delete"
                      /\ ticks'[u].at = "settle" => What(u)'.do = "delete"
    BY DEF DecisionsFit, Scheduling
  <2>1. CASE u = t
    <3>1. ticks'[t].todo = Tail(s) /\ ticks'[t].at = "lock" /\ Tail(s) # <<>>
      BY <1>4, <1>5, <2>1
    <3>2. \A j \in DOMAIN Tail(s) :
              LET d == Tail(s)[j]
              IN  /\ d.todo.do # "nothing"
                  /\ d.todo.do # "delete" => d.todo.drop < d.group.dates.times
      BY <1>2 DEF DecisionsFit, Scheduling, s
    <3> QED BY <2>1, <3>1, <3>2
  <2>2. CASE u # t
    BY <1>5, <2>2 DEF DecisionsFit, Scheduling, What
  <2> QED BY <2>1, <2>2
<1> QED BY <1>4, <1>5, <1>6, <1>7 DEF s

-----------------------------------------------------------------------------
(***************************************************************************)
(* Who goes on without taking a lock leaves the ownership of locks alone.  *)
(***************************************************************************)
\* The rows there are stay, with the same ids.
SameRows ==
    \A g \in Groups : /\ Exists(g)' <=> Exists(g)
                      /\ Exists(g) => groups'[g].id = groups[g].id

LEMMA NothingHappensToRows ==
    ASSUME UNCHANGED groups PROVE SameRows
BY DEF SameRows, Exists

\* A request goes on, keeping its lock or giving up what it does not have.
LEMMA RequestKeepsOwnership ==
    ASSUME TypeOK, DecisionsFit, Ownership, NEW r \in Requests, requests[r] # None,
           SameRows, UNCHANGED <<lock, ticks>>,
           \A s \in Requests : s # r => requests'[s] = requests[s],
           requests'[r] # None =>
               /\ requests'[r].group.id = requests[r].group.id
               /\ requests'[r].at \notin {"insert", "settle"}
               /\ requests'[r].at \in Locked => requests[r].at \in Locked
    PROVE  Ownership'
<1> USE DEF Serving, Scheduling
<1>1. \A t : Due(t)' = Due(t) /\ GroupsOf(t)' = GroupsOf(t)
             /\ Running(t)' = Running(t)
  BY DEF Due, GroupsOf, Running
<1>2. \A s \in Requests : Owning(s)' => Owning(s) /\ requests'[s] # None
                              /\ requests'[s].group.id = requests[s].group.id
  BY DEF Owning
<1>3. /\ \A s \in Serving : requests[s].group.id \in Groups
      /\ \A t \in Scheduling : Due(t).id \in Groups
      /\ \A g \in Groups : Exists(g)' <=> Exists(g)
  BY Known, Listed DEF SameRows
<1>4. RowsAreNamed'
  BY DEF Ownership, RowsAreNamed, SameRows
<1>5. CreationIsAlone'
  BY <1>1, <1>3 DEF Ownership, CreationIsAlone
<1>6. OwnedIsLocked'
  BY <1>1, <1>2, <1>3 DEF Ownership, OwnedIsLocked, Owning, Running
<1>7. SettlingIsGone'
  BY <1>1, <1>3 DEF Ownership, SettlingIsGone
<1>8. OneOwner'
  <2>1. \A q, s \in Requests :
           Owning(q)' /\ Owning(s)' /\ requests'[q].group.id = requests'[s].group.id
               => q = s
    BY <1>2 DEF Ownership, OneOwner
  <2>2. \A s \in Requests, t \in Ticks :
           ~(Owning(s)' /\ Running(t)' /\ requests'[s].group.id = Due(t)'.id)
    BY <1>1, <1>2 DEF Ownership, OneOwner
  <2>3. \A t, u \in Ticks :
           Running(t)' /\ Running(u)' /\ Due(t)'.id = Due(u)'.id /\ Exists(Due(t).id)'
               => t = u
    BY <1>1, <1>3 DEF Ownership, OneOwner, Running
  <2> QED BY <2>1, <2>2, <2>3 DEF OneOwner
<1> QED BY <1>4, <1>5, <1>6, <1>7, <1>8 DEF Ownership

\* A tick goes on, keeping its lock or giving it up.
LEMMA TickKeepsOwnership ==
    ASSUME TypeOK, DecisionsFit, Ownership, NEW t \in Ticks, ticks[t] # None,
           SameRows, UNCHANGED <<lock, requests>>,
           \A u \in Ticks : u # t => ticks'[u] = ticks[u],
           ticks'[t] # None => /\ GroupsOf(t)' \subseteq GroupsOf(t)
                               /\ ticks'[t].at # "settle",
           Running(t)' => /\ Running(t) \/ (ticks'[t].at = "unlock" /\ ~Exists(Due(t).id))
                          /\ Due(t)'.id = Due(t).id
                          /\ ticks[t].at = "unlock" => ticks'[t].at = "unlock"
    PROVE  Ownership'
<1> USE DEF Serving, Scheduling
<1>1. \A u \in Ticks : u # t =>
          Due(u)' = Due(u) /\ GroupsOf(u)' = GroupsOf(u) /\ Running(u)' = Running(u)
  BY DEF Due, GroupsOf, Running
<1>2. \A s \in Requests : Owning(s)' <=> Owning(s)
  BY DEF Owning
<1>3. /\ \A s \in Serving : requests[s].group.id \in Groups
      /\ \A u \in Scheduling : Due(u).id \in Groups
      /\ \A g \in Groups : Exists(g)' <=> Exists(g)
  BY Known, Listed DEF SameRows
<1>4. RowsAreNamed'
  BY DEF Ownership, RowsAreNamed, SameRows
<1>5. CreationIsAlone'
  BY <1>1, <1>3 DEF Ownership, CreationIsAlone
<1>6. OwnedIsLocked'
  <2>1. \A s \in Requests : Owning(s)' =>
            Exists(requests[s].group.id)' /\ lock'[requests[s].group.id].user
    BY <1>2, <1>3 DEF Ownership, OwnedIsLocked, Owning
  <2>2. \A u \in Ticks : u # t /\ Running(u)' =>
           IF Exists(Due(u).id)' THEN lock'[Due(u)'.id].user
                                 ELSE ticks'[u].at = "unlock"
    BY <1>1, <1>3 DEF Ownership, OwnedIsLocked, Running
  <2>3. Running(t)' =>
           IF Exists(Due(t).id)' THEN lock'[Due(t)'.id].user
                                 ELSE ticks'[t].at = "unlock"
    BY <1>3 DEF Ownership, OwnedIsLocked, Running
  <2> QED BY <2>1, <2>2, <2>3 DEF OwnedIsLocked
<1>7. SettlingIsGone'
  BY <1>1, <1>3 DEF Ownership, SettlingIsGone
<1>8. OneOwner'
  <2>1. \A q, s \in Requests :
           Owning(q)' /\ Owning(s)' /\ requests'[q].group.id = requests'[s].group.id
               => q = s
    BY <1>2 DEF Ownership, OneOwner
  <2>2. \A s \in Requests, u \in Ticks :
           ~(Owning(s)' /\ Running(u)' /\ requests'[s].group.id = Due(u)'.id)
    BY <1>1, <1>2 DEF Ownership, OneOwner, OwnedIsLocked
  <2>3. \A v, u \in Ticks :
           Running(v)' /\ Running(u)' /\ Due(v)'.id = Due(u)'.id /\ Exists(Due(v).id)'
               => v = u
    <3>1. \A u \in Ticks : Running(u)' /\ Exists(Due(u).id)' =>
              /\ Running(u) /\ Exists(Due(u).id) /\ Due(u)'.id = Due(u).id
      BY <1>1, <1>3 DEF Running
    <3> QED BY <3>1 DEF Ownership, OneOwner
  <2> QED BY <2>1, <2>2, <2>3 DEF OneOwner
<1> QED BY <1>4, <1>5, <1>6, <1>7, <1>8 DEF Ownership

-----------------------------------------------------------------------------
(***************************************************************************)
(* Requests keep the invariant of the locks.                               *)
(***************************************************************************)
LEMMA TicksWait ==
    ASSUME DecisionsFit, UNCHANGED ticks PROVE DecisionsFit'
BY DEF DecisionsFit, Scheduling, What

LEMMA CreateGroupLocks ==
    ASSUME LockInv, NEW r \in Requests, NEW g \in Groups, NEW state \in States,
           NEW dates \in Schedules, CreateGroup(r, g, state, dates)
    PROVE  LockInv'
<1> USE DEF Serving, Scheduling, Exists
<1> DEFINE q == [op |-> "create", at |-> "insert", group |-> Row(g, state, dates)]
<1>1. /\ requests' = [requests EXCEPT ![r] = q] /\ UNCHANGED <<groups, lock, ticks>>
      /\ UNCHANGED <<deviceLock, originLock, now, scenario>>
      /\ ~Exists(g) /\ \A s \in Serving : requests[s].group.id # g
      /\ \A t \in Scheduling : g \notin GroupsOf(t)
      /\ consumed' = [consumed EXCEPT !.number = @ + 1]
      /\ consumed.number + 1 <= MaxNumber
  BY DEF CreateGroup, rows, devices, timing
<1>2. q \in Served /\ q.at = "insert" /\ q.group.id = g /\ q # None
  BY RowIsTyped, NoneIsNothing DEF Served, Creations
<1> HIDE DEF q
<1>3. /\ requests' \in [Requests -> Served \cup {None}] /\ requests'[r] = q
      /\ \A s \in Requests : s # r => requests'[s] = requests[s]
  BY <1>1, <1>2, RequestGoes DEF LockInv
<1>4. consumed' \in [number : 0..MaxNumber, duration : Int]
  BY <1>1, QuotasAreNumbers DEF LockInv, TypeOK
<1>5. TypeOK'
  BY <1>1, <1>3, <1>4 DEF LockInv, TypeOK
<1>6. \A t : Due(t)' = Due(t) /\ GroupsOf(t)' = GroupsOf(t) /\ Running(t)' = Running(t)
  BY <1>1 DEF Due, GroupsOf, Running
<1>7. \A s \in Requests : Owning(s)' => Owning(s) /\ s # r
  BY <1>2, <1>3 DEF Owning, Locked
<1>8. Ownership'
  <2>1. RowsAreNamed'
    BY <1>1 DEF LockInv, Ownership, RowsAreNamed
  <2>2. CreationIsAlone'
    BY <1>1, <1>2, <1>3, <1>6 DEF LockInv, Ownership, CreationIsAlone
  <2>3. OwnedIsLocked'
    BY <1>1, <1>3, <1>6, <1>7 DEF LockInv, Ownership, OwnedIsLocked
  <2>4. SettlingIsGone'
    BY <1>1, <1>2, <1>3, <1>6 DEF LockInv, Ownership, SettlingIsGone
  <2>5. OneOwner'
    BY <1>1, <1>3, <1>6, <1>7 DEF LockInv, Ownership, OneOwner
  <2> QED BY <2>1, <2>2, <2>3, <2>4, <2>5 DEF Ownership
<1> QED BY <1>1, <1>5, <1>8, TicksWait DEF LockInv

LEMMA InsertLocks ==
    ASSUME LockInv, NEW r \in Requests, Insert(r)
    PROVE  LockInv'
<1> USE DEF Serving, Scheduling, Exists
<1> DEFINE g == requests[r].group.id
<1>1. /\ requests' = [requests EXCEPT ![r] = None]
      /\ UNCHANGED <<lock, ticks, consumed>>
      /\ UNCHANGED <<deviceLock, originLock, now, scenario>>
      /\ groups' = [groups EXCEPT ![g] = requests[r].group]
      /\ requests[r] # None /\ requests[r].at = "insert"
  BY DEF Insert, Done, At, devices, timing
<1>2. requests[r].group \in GroupRows /\ g \in Groups /\ requests[r].group # None
  BY <1>1, Known, NoneIsNothing DEF LockInv
<1>3. /\ requests' \in [Requests -> Served \cup {None}] /\ requests'[r] = None
      /\ \A s \in Requests : s # r => requests'[s] = requests[s]
  BY <1>1, RequestGoes DEF LockInv
<1>4. /\ groups' \in [Groups -> GroupRows \cup {None}]
      /\ groups'[g] # None /\ groups'[g].id = g
      /\ \A h \in Groups : h # g => groups'[h] = groups[h]
  BY <1>1, <1>2 DEF LockInv, TypeOK
<1>5. TypeOK'
  BY <1>1, <1>3, <1>4 DEF LockInv, TypeOK
<1>6. /\ ~Exists(g)
      /\ \A q \in Serving : requests[q].group.id = g => q = r
      /\ \A t \in Scheduling : g \notin GroupsOf(t)
  BY <1>1 DEF LockInv, Ownership, CreationIsAlone
<1>7. \A t : Due(t)' = Due(t) /\ GroupsOf(t)' = GroupsOf(t) /\ Running(t)' = Running(t)
  BY <1>1 DEF Due, GroupsOf, Running
<1>8. \A s \in Requests : Owning(s)' => Owning(s) /\ s # r
  BY <1>3 DEF Owning
<1>9. /\ \A t \in Scheduling : Due(t).id # g /\ Due(t).id \in Groups
      /\ \A q \in Serving : requests[q].group.id \in Groups
  BY <1>6, Listed, Known DEF LockInv
<1> HIDE DEF g
<1>10. Ownership'
  <2>1. RowsAreNamed'
    BY <1>4 DEF LockInv, Ownership, RowsAreNamed
  <2>2. CreationIsAlone'
    BY <1>1, <1>3, <1>4, <1>6, <1>7, <1>9 DEF LockInv, Ownership, CreationIsAlone
  <2>3. OwnedIsLocked'
    <3>1. \A s \in Requests : Owning(s)' =>
            Exists(requests[s].group.id)' /\ lock'[requests'[s].group.id].user
      BY <1>1, <1>3, <1>4, <1>8, <1>9 DEF LockInv, Ownership, OwnedIsLocked, Owning
    <3>2. \A t \in Ticks : Running(t)' =>
            IF Exists(Due(t).id)' THEN lock'[Due(t)'.id].user
                                  ELSE ticks'[t].at = "unlock"
      BY <1>1, <1>4, <1>7, <1>9 DEF LockInv, Ownership, OwnedIsLocked, Running
    <3> QED BY <3>1, <3>2 DEF OwnedIsLocked
  <2>4. SettlingIsGone'
    BY <1>1, <1>3, <1>4, <1>6, <1>7, <1>9 DEF LockInv, Ownership, SettlingIsGone
  <2>5. OneOwner'
    BY <1>1, <1>3, <1>4, <1>7, <1>8, <1>9 DEF LockInv, Ownership, OneOwner, Running
  <2> QED BY <2>1, <2>2, <2>3, <2>4, <2>5 DEF Ownership
<1> QED BY <1>1, <1>5, <1>10, TicksWait DEF LockInv

\* lockGroupByOwner, of the four operations that begin with it.
LEMMA LockLocks ==
    ASSUME LockInv, NEW r \in Requests, NEW g \in Groups, NEW op,
           NEW q \in Served, q.group = groups[g], q.at \in Locked,
           Lock(r, g, op, q)
    PROVE  LockInv'
<1> USE DEF Serving, Scheduling, Exists
<1>1. /\ requests' = [requests EXCEPT ![r] = q] /\ UNCHANGED <<groups, ticks, consumed>>
      /\ UNCHANGED <<deviceLock, originLock, now, scenario>>
      /\ lock' = [lock EXCEPT ![g].user = TRUE] /\ lock[g] = Free
      /\ requests[r] = None /\ Exists(g)
  BY DEF Lock, devices, timing
<1>2. q # None /\ q.group.id = g /\ ~lock[g].user /\ q.at \notin {"insert", "settle"}
  BY <1>1, NoneIsNothing DEF LockInv, Ownership, RowsAreNamed, Free, Locked
<1>3. /\ requests' \in [Requests -> Served \cup {None}] /\ requests'[r] = q
      /\ \A s \in Requests : s # r => requests'[s] = requests[s]
  BY <1>1, RequestGoes DEF LockInv
<1>4. /\ lock' \in [Groups -> [user : BOOLEAN, admin : BOOLEAN]]
      /\ lock'[g].user /\ \A h \in Groups : lock[h].user => lock'[h].user
  BY <1>1 DEF LockInv, TypeOK
<1>5. TypeOK'
  BY <1>1, <1>3, <1>4 DEF LockInv, TypeOK
<1>6. \A t : Due(t)' = Due(t) /\ GroupsOf(t)' = GroupsOf(t) /\ Running(t)' = Running(t)
  BY <1>1 DEF Due, GroupsOf, Running
<1>7. \A s \in Requests : Owning(s)' =>
          s = r \/ (Owning(s) /\ requests'[s] = requests[s] /\ requests[s].group.id # g)
  BY <1>2, <1>3 DEF Owning, LockInv, Ownership, OwnedIsLocked
<1>8. \A t \in Ticks : Running(t) => Due(t).id # g
  BY <1>1, <1>2 DEF LockInv, Ownership, OwnedIsLocked
<1>9. /\ \A t \in Scheduling : Due(t).id \in Groups
      /\ \A s \in Serving : requests[s].group.id \in Groups
  BY Listed, Known DEF LockInv
<1>10. Ownership'
  <2>1. RowsAreNamed'
    BY <1>1 DEF LockInv, Ownership, RowsAreNamed
  <2>2. CreationIsAlone'
    BY <1>1, <1>2, <1>3, <1>6 DEF LockInv, Ownership, CreationIsAlone
  <2>3. OwnedIsLocked'
    <3>1. \A s \in Requests : Owning(s)' =>
            Exists(requests[s].group.id)' /\ lock'[requests'[s].group.id].user
      BY <1>1, <1>2, <1>3, <1>4, <1>7, <1>9
      DEF LockInv, Ownership, OwnedIsLocked, Owning
    <3>2. \A t \in Ticks : Running(t)' =>
            IF Exists(Due(t).id)' THEN lock'[Due(t)'.id].user
                                  ELSE ticks'[t].at = "unlock"
      BY <1>1, <1>4, <1>6, <1>9 DEF LockInv, Ownership, OwnedIsLocked, Running
    <3> QED BY <3>1, <3>2 DEF OwnedIsLocked
  <2>4. SettlingIsGone'
    BY <1>1, <1>2, <1>3, <1>6 DEF LockInv, Ownership, SettlingIsGone
  <2>5. OneOwner'
    BY <1>1, <1>2, <1>3, <1>6, <1>7, <1>8 DEF LockInv, Ownership, OneOwner
  <2> QED BY <2>1, <2>2, <2>3, <2>4, <2>5 DEF Ownership
<1> QED BY <1>1, <1>5, <1>10, TicksWait DEF LockInv

\* No group is created or deleted, and nothing is settled, by a request
CountsNothing(r) ==
    /\ UNCHANGED <<ticks, scenario>> /\ SameRows
    /\ consumed'.number = consumed.number
    /\ requests[r] # None => requests[r].at \notin {"insert", "settle"}
    /\ requests'[r] # None => requests'[r].at \notin {"insert", "settle"}
    /\ \A s \in Requests : s # r => requests'[s] = requests[s]

\* or which stays what it is.
RequestStays(r) ==
    /\ requests[r] # None /\ requests'[r] # None
    /\ requests'[r].op = requests[r].op /\ requests'[r].group = requests[r].group
    /\ requests[r].op = "add" => requests'[r].device = requests[r].device
    /\ requests[r].op = "update" => requests'[r].dates = requests[r].dates
    /\ Changed(requests'[r]) = Changed(requests[r])
    /\ \A s \in Requests : s # r => requests'[s] = requests[s]

\* The request goes on, at another step.
LEMMA AtGoesOn ==
    ASSUME TypeOK, NEW r \in Requests, requests[r] # None,
           NEW at, Goto(r, at),
           \/ requests[r].op = "add" /\ at \in {"lockOrigin", "check", "charge", "write", "unlock"}
           \/ requests[r].op = "remove" /\ at \in {"write", "unlock"}
           \/ requests[r].op = "update" /\ at \in {"charge", "write", "unlock"}
    PROVE  /\ requests' \in [Requests -> Served \cup {None}]
           /\ requests'[r] = [requests[r] EXCEPT !.at = at]
           /\ requests'[r].group = requests[r].group /\ requests'[r].at = at
           /\ requests[r].op = "add" => requests'[r].held = requests[r].held
           /\ RequestStays(r)
           /\ \A s \in Requests : s # r => requests'[s] = requests[s]
<1> DEFINE q == [requests[r] EXCEPT !.at = at]
<1>1. requests[r] \in Served /\ requests' = [requests EXCEPT ![r] = q]
  BY Known DEF Serving, Goto
<1>2. requests[r] \in Additions \cup Removals \cup Updates
  BY <1>1 DEF Served, Creations, Additions, Removals, Updates, Deletions
<1>3. /\ q \in Served /\ q.group = requests[r].group /\ q.at = at
      /\ q.op = requests[r].op
      /\ q.op = "add" => q.device = requests[r].device /\ q.held = requests[r].held
      /\ q.op = "remove" => q.device = requests[r].device
      /\ q.op = "update" => q.dates = requests[r].dates
      /\ q.op \in {"add", "remove", "update"}
  <2>1. CASE requests[r] \in Additions
    BY <2>1 DEF Served, Additions
  <2>2. CASE requests[r] \in Removals
    BY <2>2 DEF Served, Removals
  <2>3. CASE requests[r] \in Updates
    BY <2>3 DEF Served, Updates
  <2> QED BY <1>2, <2>1, <2>2, <2>3
<1>4. q # None
  BY <1>3, NoneIsNothing
<1> HIDE DEF q
<1>5. /\ requests' \in [Requests -> Served \cup {None}] /\ requests'[r] = q
      /\ \A s \in Requests : s # r => requests'[s] = requests[s]
  BY <1>1, <1>3, RequestGoes
<1>6. Changed(q) = Changed(requests[r])
  BY <1>3 DEF Changed
<1> QED BY <1>3, <1>4, <1>5, <1>6 DEF q, RequestStays

\* It goes on and holds more.
LEMMA HoldGoesOn ==
    ASSUME TypeOK, NEW r \in Requests, requests[r] # None, requests[r].op = "add",
           NEW at \in {"lockOrigin", "check"}, NEW what \in {"device", "origin"},
           Hold(r, what, at)
    PROVE  /\ requests' \in [Requests -> Served \cup {None}]
           /\ requests'[r].group = requests[r].group /\ requests'[r].at = at
           /\ RequestStays(r)
           /\ requests'[r].held = requests[r].held \cup {what}
           /\ \A s \in Requests : s # r => requests'[s] = requests[s]
<1> DEFINE q == [requests[r] EXCEPT !.at = at, !.held = @ \cup {what}]
<1>1. requests[r] \in Served /\ requests' = [requests EXCEPT ![r] = q]
  BY Known DEF Serving, Hold, TypeOK
<1>2. requests[r] \in Additions
  BY <1>1 DEF Served, Creations, Additions, Removals, Updates, Deletions
<1>3. /\ q \in Served /\ q.group = requests[r].group /\ q.at = at /\ q.op = "add"
      /\ q.device = requests[r].device /\ q.held = requests[r].held \cup {what}
  BY <1>2 DEF Served, Additions
<1>4. q # None
  BY <1>3, NoneIsNothing
<1> HIDE DEF q
<1>5. /\ requests' \in [Requests -> Served \cup {None}] /\ requests'[r] = q
      /\ \A s \in Requests : s # r => requests'[s] = requests[s]
  BY <1>1, <1>3, RequestGoes
<1>6. Changed(q) = Changed(requests[r])
  BY <1>3 DEF Changed
<1> QED BY <1>3, <1>4, <1>5, <1>6 DEF RequestStays

\* Which steps a request can be at tells which request it is.
LEMMA OpOf ==
    ASSUME TypeOK, NEW r \in Requests, requests[r] # None
    PROVE  /\ requests[r].at \in {"lockDevice", "lockOrigin"} => requests[r].op = "add"
           /\ requests[r].at = "check" => requests[r].op \in {"add", "update"}
           /\ requests[r].at \in {"charge", "write", "unlock"} =>
                  requests[r].op \in {"add", "remove", "update"}
           /\ requests[r].at = "insert" => requests[r].op = "create"
           /\ requests[r].at \in {"delete", "settle"} => requests[r].op = "delete"
           /\ requests[r].op \in {"add", "remove", "update"} =>
                  requests[r] \in Additions \cup Removals \cup Updates
           /\ requests[r].op = "add" => requests[r] \in Additions
           /\ requests[r].op = "delete" => requests[r] \in Deletions
           /\ requests[r].op \in {"add", "remove"} => requests[r].device \in Devices
BY Known DEF Serving, Served, Creations, Additions, Removals, Updates, Deletions

LEMMA LockDeviceLocks ==
    ASSUME LockInv, NEW r \in Requests, LockDevice(r)
    PROVE  LockInv' /\ CountsNothing(r) /\ RequestStays(r)
<1> USE DEF LockInv
<1>1. /\ requests[r] # None /\ requests[r].at = "lockDevice"
      /\ requests[r].op = "add" /\ requests[r].device \in Devices
      /\ UNCHANGED <<groups, lock, ticks, consumed, originLock, now, scenario>>
      /\ \/ Goto(r, "unlock") /\ deviceLock' = deviceLock
         \/ /\ Hold(r, "device", "lockOrigin")
            /\ deviceLock' = deviceLock \cup {requests[r].device}
  BY OpOf DEF LockDevice, At, rows, timing
<1>2. /\ requests' \in [Requests -> Served \cup {None}]
      /\ requests'[r].group = requests[r].group
      /\ requests'[r].at \in {"unlock", "lockOrigin"}
      /\ RequestStays(r)
      /\ \A s \in Requests : s # r => requests'[s] = requests[s]
  BY <1>1, AtGoesOn, HoldGoesOn
<1>3. TypeOK'
  BY <1>1, <1>2 DEF TypeOK
<1>4. Ownership'
  BY <1>1, <1>2, NothingHappensToRows, RequestKeepsOwnership DEF Locked
<1>5. CountsNothing(r)
  BY <1>1, <1>2, NothingHappensToRows DEF CountsNothing
<1> QED BY <1>1, <1>2, <1>3, <1>4, <1>5, TicksWait

LEMMA LockOriginLocks ==
    ASSUME LockInv, NEW r \in Requests, LockOrigin(r)
    PROVE  LockInv' /\ CountsNothing(r) /\ RequestStays(r)
<1> USE DEF LockInv
<1>1. /\ requests[r] # None /\ requests[r].at = "lockOrigin"
      /\ requests[r].op = "add" /\ originLock' \in BOOLEAN
      /\ UNCHANGED <<groups, lock, ticks, consumed, deviceLock, now, scenario>>
      /\ Goto(r, "unlock") \/ Hold(r, "origin", "check")
  BY OpOf DEF LockOrigin, At, rows, timing, TypeOK
<1>2. /\ requests' \in [Requests -> Served \cup {None}]
      /\ requests'[r].group = requests[r].group
      /\ requests'[r].at \in {"unlock", "check"}
      /\ RequestStays(r)
      /\ \A s \in Requests : s # r => requests'[s] = requests[s]
  BY <1>1, AtGoesOn, HoldGoesOn
<1>3. TypeOK'
  BY <1>1, <1>2 DEF TypeOK
<1>4. Ownership'
  BY <1>1, <1>2, NothingHappensToRows, RequestKeepsOwnership DEF Locked
<1>5. CountsNothing(r)
  BY <1>1, <1>2, NothingHappensToRows DEF CountsNothing
<1> QED BY <1>1, <1>2, <1>3, <1>4, <1>5, TicksWait

LEMMA CheckLocks ==
    ASSUME LockInv, NEW r \in Requests, Check(r)
    PROVE  LockInv' /\ CountsNothing(r) /\ RequestStays(r)
<1> USE DEF LockInv
<1>1. /\ requests[r] # None /\ requests[r].at = "check"
      /\ requests[r].op \in {"add", "update"}
      /\ UNCHANGED <<groups, lock, ticks, consumed, deviceLock, originLock, now, scenario>>
      /\ \E at \in {"charge", "unlock"} : Goto(r, at)
  BY OpOf DEF Check, At, rows, devices, timing
<1>2. /\ requests' \in [Requests -> Served \cup {None}]
      /\ requests'[r].group = requests[r].group
      /\ requests'[r].at \in {"unlock", "charge"}
      /\ RequestStays(r)
      /\ \A s \in Requests : s # r => requests'[s] = requests[s]
  BY <1>1, AtGoesOn
<1>3. TypeOK'
  BY <1>1, <1>2 DEF TypeOK
<1>4. Ownership'
  BY <1>1, <1>2, NothingHappensToRows, RequestKeepsOwnership DEF Locked
<1>5. CountsNothing(r)
  BY <1>1, <1>2, NothingHappensToRows DEF CountsNothing
<1> QED BY <1>1, <1>2, <1>3, <1>4, <1>5, TicksWait

LEMMA ChargeLocks ==
    ASSUME LockInv, NEW r \in Requests, Charge(r)
    PROVE  LockInv' /\ CountsNothing(r) /\ RequestStays(r)
<1> USE DEF LockInv
<1>1. /\ requests[r] # None /\ requests[r].at = "charge"
      /\ requests[r].op \in {"add", "remove", "update"}
      /\ UNCHANGED <<groups, lock, ticks, deviceLock, originLock, now, scenario>>
      /\ consumed' = Charged(requests[r].group.duration, Changed(requests[r]).duration)
      /\ \E at \in {"write", "unlock"} : Goto(r, at)
  BY OpOf DEF Charge, At, rows, devices, timing
<1>2. /\ requests' \in [Requests -> Served \cup {None}]
      /\ requests'[r].group = requests[r].group
      /\ requests'[r].at \in {"unlock", "write"}
      /\ RequestStays(r)
      /\ \A s \in Requests : s # r => requests'[s] = requests[s]
  BY <1>1, AtGoesOn
<1>3. /\ requests[r].group.duration \in Nat /\ Changed(requests[r]).duration \in Nat
      /\ consumed \in Quotas
  BY <1>1, OpOf, ChangedIsTyped, Known DEF GroupRows, Serving, TypeOK, Quotas
<1>4. consumed' \in Quotas /\ consumed'.number = consumed.number
  BY <1>1, <1>3, ChargedIsTyped
<1>5. TypeOK'
  BY <1>1, <1>2, <1>4 DEF TypeOK, Quotas
<1>6. Ownership'
  BY <1>1, <1>2, NothingHappensToRows, RequestKeepsOwnership DEF Locked
<1>7. CountsNothing(r)
  BY <1>1, <1>2, <1>4, NothingHappensToRows DEF CountsNothing
<1> QED BY <1>1, <1>2, <1>5, <1>6, <1>7, TicksWait

\* What a request writes: the row keeps what the request is not about.
LEMMA WriteWrites ==
    ASSUME LockInv, NEW r \in Requests, Write(r)
    PROVE  LET q   == requests[r]
               g   == q.group.id
           IN  /\ q # None /\ q.at = "write" /\ q \in Additions \cup Removals \cup Updates
               /\ g \in Groups /\ Exists(g)
               /\ groups' \in [Groups -> GroupRows \cup {None}]
               /\ groups'[g] # None /\ groups'[g].id = groups[g].id
               /\ \A h \in Groups : h # g => groups'[h] = groups[h]
               /\ q.op = "update" =>
                      /\ groups'[g].dates = Changed(q).dates
                      /\ groups'[g].devices = groups[g].devices
               /\ q.op # "update" =>
                      /\ groups'[g].devices = Changed(q).devices
                      /\ groups'[g].dates = groups[g].dates
<1> USE DEF LockInv
<1> DEFINE q == requests[r]
           c == Changed(q)
           g == q.group.id
           w == IF q.op = "update"
                THEN [groups[g] EXCEPT !.dates = c.dates, !.duration = c.duration,
                                       !.state = q.state, !.isActive = FALSE]
                ELSE [groups[g] EXCEPT !.devices = c.devices, !.duration = c.duration]
<1>1. q # None /\ q.at = "write" /\ q \in Additions \cup Removals \cup Updates
  BY OpOf DEF Write, At
<1>2. g \in Groups /\ Exists(g) /\ groups[g] \in GroupRows
  BY <1>1, Known DEF Ownership, OwnedIsLocked, Owning, Locked, Serving
<1>3. c \in GroupRows /\ c.id = g
  BY <1>1, ChangedIsTyped
<1>4. q.op = "update" => q.state \in States
  BY <1>1 DEF Additions, Removals, Updates
<1>5. groups' = [groups EXCEPT ![g] = w]
  BY <1>2, <1>3 DEF Write, TypeOK
<1>6. w \in GroupRows /\ w.id = groups[g].id
      /\ (q.op = "update" => w.dates = c.dates /\ w.devices = groups[g].devices)
      /\ (q.op # "update" => w.devices = c.devices /\ w.dates = groups[g].dates)
  <2> HIDE DEF q, c, g
  <2>1. CASE q.op = "update"
    BY <1>2, <1>3, <1>4, <2>1 DEF GroupRows
  <2>2. CASE q.op # "update"
    BY <1>2, <1>3, <2>2 DEF GroupRows
  <2> QED BY <2>1, <2>2
<1>7. w # None
  BY <1>6, NoneIsNothing
<1> HIDE DEF w
<1>8. /\ groups' \in [Groups -> GroupRows \cup {None}] /\ groups'[g] = w
      /\ \A h \in Groups : h # g => groups'[h] = groups[h]
  BY <1>2, <1>5, <1>6 DEF TypeOK
<1> QED BY <1>1, <1>2, <1>6, <1>7, <1>8

LEMMA WriteLocks ==
    ASSUME LockInv, NEW r \in Requests, Write(r)
    PROVE  LockInv' /\ CountsNothing(r) /\ RequestStays(r)
<1> USE DEF LockInv
<1>1. /\ requests[r] # None /\ requests[r].at = "write"
      /\ requests[r].op \in {"add", "remove", "update"}
      /\ UNCHANGED <<lock, ticks, consumed, deviceLock, originLock, now, scenario>>
      /\ Goto(r, "unlock")
  BY OpOf DEF Write, At, devices, timing
<1>2. /\ requests' \in [Requests -> Served \cup {None}]
      /\ requests'[r].group = requests[r].group
      /\ requests'[r].at = "unlock" /\ RequestStays(r)
      /\ \A s \in Requests : s # r => requests'[s] = requests[s]
  BY <1>1, AtGoesOn
<1>3. groups' \in [Groups -> GroupRows \cup {None}] /\ SameRows
  BY WriteWrites DEF SameRows, Exists
<1>4. TypeOK'
  BY <1>1, <1>2, <1>3 DEF TypeOK
<1>5. Ownership'
  BY <1>1, <1>2, <1>3, RequestKeepsOwnership DEF Locked
<1>6. CountsNothing(r)
  BY <1>1, <1>2, <1>3 DEF CountsNothing
<1> QED BY <1>1, <1>2, <1>4, <1>5, <1>6, TicksWait

LEMMA SettleLocks ==
    ASSUME LockInv, NEW r \in Requests, Settle(r)
    PROVE  /\ LockInv'
           /\ consumed.number >= 1 => consumed'.number = consumed.number - 1
           /\ requests[r] # None /\ requests[r].at = "settle" /\ requests'[r] = None
           /\ \A s \in Requests : s # r => requests'[s] = requests[s]
           /\ UNCHANGED <<groups, lock, ticks, scenario>>
<1> USE DEF LockInv
<1>1. /\ requests[r] # None /\ requests[r].at = "settle"
      /\ UNCHANGED <<groups, lock, ticks, deviceLock, originLock, now, scenario>>
      /\ consumed' = Settled(requests[r].group) /\ requests' = [requests EXCEPT ![r] = None]
  BY DEF Settle, At, Done, rows, devices, timing
<1>2. /\ requests' \in [Requests -> Served \cup {None}] /\ requests'[r] = None
      /\ \A s \in Requests : s # r => requests'[s] = requests[s]
  BY <1>1, RequestGoes
<1>3. /\ consumed' \in Quotas
      /\ consumed.number >= 1 => consumed'.number = consumed.number - 1
  <2>1. consumed \in Quotas /\ requests[r].group \in GroupRows
    BY <1>1, Known DEF Serving, TypeOK, Quotas
  <2> QED BY <1>1, <2>1, SettledIsTyped
<1>4. TypeOK'
  BY <1>1, <1>2, <1>3 DEF TypeOK, Quotas
<1>5. Ownership'
  BY <1>1, <1>2, NothingHappensToRows, RequestKeepsOwnership
<1> QED BY <1>1, <1>2, <1>3, <1>4, <1>5, TicksWait

\* A request that gives its lock back was the only one that had it.
LEMMA UnlockLocks ==
    ASSUME LockInv, NEW r \in Requests, Unlock(r)
    PROVE  /\ LockInv' /\ CountsNothing(r)
           /\ requests[r] # None /\ requests[r].at = "unlock" /\ requests'[r] = None
<1> USE DEF Serving, Scheduling, Exists
<1> DEFINE g == requests[r].group.id
<1>1. /\ requests' = [requests EXCEPT ![r] = None] /\ UNCHANGED <<groups, ticks, consumed>>
      /\ UNCHANGED <<now, scenario>>
      /\ deviceLock' \subseteq deviceLock
      /\ originLock' \in BOOLEAN
      /\ lock' = [lock EXCEPT ![g].user = FALSE]
      /\ requests[r] # None /\ requests[r].at = "unlock"
  BY DEF Unlock, Done, At, timing
<1>2. requests[r].group \in GroupRows /\ g \in Groups /\ Owning(r)
  BY <1>1, Known DEF LockInv, Owning, Locked
<1>3. /\ requests' \in [Requests -> Served \cup {None}] /\ requests'[r] = None
      /\ \A s \in Requests : s # r => requests'[s] = requests[s]
  BY <1>1, RequestGoes DEF LockInv
<1>4. /\ lock' \in [Groups -> [user : BOOLEAN, admin : BOOLEAN]]
      /\ \A h \in Groups : h # g => lock'[h] = lock[h]
  BY <1>1 DEF LockInv, TypeOK
<1>5. TypeOK'
  BY <1>1, <1>3, <1>4 DEF LockInv, TypeOK
<1>6. \A t : Due(t)' = Due(t) /\ GroupsOf(t)' = GroupsOf(t) /\ Running(t)' = Running(t)
  BY <1>1 DEF Due, GroupsOf, Running
<1>7. \A s \in Requests : Owning(s)' =>
          Owning(s) /\ requests'[s] = requests[s] /\ requests[s].group.id # g
  BY <1>2, <1>3 DEF Owning, LockInv, Ownership, OneOwner
<1>8. \A t \in Ticks : Running(t) => Due(t).id # g
  BY <1>2 DEF LockInv, Ownership, OneOwner
<1>9. /\ \A t \in Scheduling : Due(t).id \in Groups
      /\ \A s \in Serving : requests[s].group.id \in Groups
  BY Listed, Known DEF LockInv
<1>10. Ownership'
  <2>1. RowsAreNamed'
    BY <1>1 DEF LockInv, Ownership, RowsAreNamed
  <2>2. CreationIsAlone'
    BY <1>1, <1>2, <1>3, <1>6 DEF LockInv, Ownership, CreationIsAlone
  <2>3. OwnedIsLocked'
    <3>1. \A s \in Requests : Owning(s)' =>
            Exists(requests[s].group.id)' /\ lock'[requests'[s].group.id].user
      BY <1>1, <1>2, <1>3, <1>4, <1>7, <1>9
      DEF LockInv, Ownership, OwnedIsLocked, Owning
    <3>2. \A t \in Ticks : Running(t)' =>
            IF Exists(Due(t).id)' THEN lock'[Due(t)'.id].user
                                  ELSE ticks'[t].at = "unlock"
      BY <1>1, <1>4, <1>6, <1>8, <1>9 DEF LockInv, Ownership, OwnedIsLocked, Running
    <3> QED BY <3>1, <3>2 DEF OwnedIsLocked
  <2>4. SettlingIsGone'
    BY <1>1, <1>2, <1>3, <1>6 DEF LockInv, Ownership, SettlingIsGone
  <2>5. OneOwner'
    BY <1>1, <1>2, <1>3, <1>6, <1>7, <1>8 DEF LockInv, Ownership, OneOwner
  <2> QED BY <2>1, <2>2, <2>3, <2>4, <2>5 DEF Ownership
<1>11. CountsNothing(r)
  BY <1>1, <1>3, NothingHappensToRows DEF CountsNothing
<1> QED BY <1>1, <1>3, <1>5, <1>10, <1>11, TicksWait DEF LockInv

LEMMA DeleteRowLocks ==
    ASSUME LockInv, NEW r \in Requests, DeleteRow(r)
    PROVE  /\ LockInv'
           /\ requests[r] # None /\ requests[r].at = "delete"
           /\ requests[r].group.id \in Groups
           /\ requests'[r] # None /\ requests'[r].at = "settle"
           /\ requests'[r].op = requests[r].op
           /\ requests'[r].group.id = requests[r].group.id
           /\ Exists(requests[r].group.id) /\ groups'[requests[r].group.id] = None
           /\ \A h \in Groups : h # requests[r].group.id => groups'[h] = groups[h]
           /\ \A s \in Requests : s # r => requests'[s] = requests[s]
           /\ UNCHANGED <<ticks, consumed, deviceLock, originLock, now, scenario>>
<1> USE DEF Serving, Scheduling, Exists
<1> DEFINE g == requests[r].group.id
           q == [requests[r] EXCEPT !.group = groups[g], !.at = "settle"]
<1>1. /\ UNCHANGED <<ticks, consumed>>
      /\ UNCHANGED <<deviceLock, originLock, now, scenario>>
      /\ groups' = [groups EXCEPT ![g] = None]
      /\ lock' = [lock EXCEPT ![g] = Free]
      /\ requests[r] # None /\ requests[r].at = "delete"
  BY DEF DeleteRow, RowDeleted, At, devices, timing
<1>2. g \in Groups /\ Owning(r) /\ requests[r] \in Deletions
  BY <1>1, Known, OpOf DEF LockInv, Owning, Locked
<1>3. Exists(g) /\ groups[g] \in GroupRows /\ groups[g].id = g
  BY <1>2, Known DEF LockInv, Ownership, OwnedIsLocked, RowsAreNamed
<1>4. /\ q \in Served /\ q.at = "settle" /\ q.group.id = g /\ q.op = requests[r].op
  BY <1>2, <1>3 DEF Served, Deletions
<1>5. q # None
  BY <1>4, NoneIsNothing
<1>6. requests' = [requests EXCEPT ![r] = q]
  BY DEF DeleteRow, LockInv, TypeOK
<1> HIDE DEF q
<1>7. /\ requests' \in [Requests -> Served \cup {None}] /\ requests'[r] = q
      /\ \A s \in Requests : s # r => requests'[s] = requests[s]
  BY <1>4, <1>6, RequestGoes DEF LockInv
<1>8. /\ lock' \in [Groups -> [user : BOOLEAN, admin : BOOLEAN]]
      /\ \A h \in Groups : h # g => lock'[h] = lock[h]
      /\ groups' \in [Groups -> GroupRows \cup {None}] /\ groups'[g] = None
      /\ \A h \in Groups : h # g => groups'[h] = groups[h]
  BY <1>1, <1>2 DEF LockInv, TypeOK, Free
<1>9. TypeOK'
  BY <1>1, <1>7, <1>8 DEF LockInv, TypeOK
<1>10. \A t : Due(t)' = Due(t) /\ GroupsOf(t)' = GroupsOf(t) /\ Running(t)' = Running(t)
  BY <1>1 DEF Due, GroupsOf, Running
<1>11. \A s \in Requests : Owning(s)' =>
          /\ Owning(s) /\ requests'[s] = requests[s] /\ requests[s].group.id # g
          /\ s # r
  BY <1>2, <1>4, <1>7 DEF Owning, LockInv, Ownership, OneOwner, Locked
<1>12. \A t \in Ticks : Running(t) => Due(t).id # g
  BY <1>2 DEF LockInv, Ownership, OneOwner
<1>13. /\ \A t \in Scheduling : Due(t).id \in Groups
       /\ \A s \in Serving : requests[s].group.id \in Groups
  BY Listed, Known DEF LockInv
<1>14. \A s \in Requests : requests'[s] # None =>
           /\ requests[s] # None /\ requests'[s].group.id = requests[s].group.id
           /\ requests'[s].at = "insert" => requests[s].at = "insert"
           /\ requests'[s].at = "settle" => requests[s].at = "settle" \/ s = r
  BY <1>1, <1>4, <1>7
<1> HIDE DEF g
<1>15. Ownership'
  <2>1. RowsAreNamed'
    BY <1>8 DEF LockInv, Ownership, RowsAreNamed
  <2>2. CreationIsAlone'
    <3> SUFFICES ASSUME NEW s \in Requests, requests'[s] # None,
                        requests'[s].at = "insert"
                 PROVE  LET h == requests'[s].group.id
                        IN  /\ groups'[h] = None
                            /\ \A p \in Requests : requests'[p] # None
                                  /\ requests'[p].group.id = h => p = s
                            /\ \A t \in Ticks : ticks'[t] # None => h \notin GroupsOf(t)'
      BY DEF CreationIsAlone
    <3>1. /\ requests[s] # None /\ requests[s].at = "insert"
          /\ requests'[s].group.id = requests[s].group.id
          /\ requests[s].group.id \in Groups
      BY <1>13, <1>14
    <3>2. /\ groups[requests[s].group.id] = None
          /\ \A p \in Requests : requests[p] # None
                /\ requests[p].group.id = requests[s].group.id => p = s
          /\ \A t \in Ticks : ticks[t] # None => requests[s].group.id \notin GroupsOf(t)
      BY <3>1 DEF LockInv, Ownership, CreationIsAlone
    <3> QED BY <1>1, <1>8, <1>10, <1>14, <3>1, <3>2
  <2>3. OwnedIsLocked'
    <3>1. \A s \in Requests : Owning(s)' =>
            Exists(requests[s].group.id)' /\ lock'[requests'[s].group.id].user
      BY <1>8, <1>11, <1>13
      DEF LockInv, Ownership, OwnedIsLocked, Owning
    <3>2. \A t \in Ticks : Running(t)' =>
            IF Exists(Due(t).id)' THEN lock'[Due(t)'.id].user
                                  ELSE ticks'[t].at = "unlock"
      BY <1>1, <1>8, <1>10, <1>12, <1>13 DEF LockInv, Ownership, OwnedIsLocked, Running
    <3> QED BY <3>1, <3>2 DEF OwnedIsLocked
  <2>4. SettlingIsGone'
    BY <1>1, <1>8, <1>10, <1>13, <1>14 DEF LockInv, Ownership, SettlingIsGone, g
  <2>5. OneOwner'
    <3>1. \A t \in Ticks : Exists(Due(t).id)' /\ Running(t)' => Exists(Due(t).id)
      BY <1>8, <1>10, <1>13 DEF Running
    <3> QED BY <3>1, <1>10, <1>11, <1>12 DEF LockInv, Ownership, OneOwner
  <2> QED BY <2>1, <2>2, <2>3, <2>4, <2>5 DEF Ownership
<1>16. LockInv'
  BY <1>1, <1>9, <1>15, TicksWait DEF LockInv
<1> QED BY <1>1, <1>2, <1>3, <1>4, <1>5, <1>7, <1>8, <1>14, <1>16 DEF g

\* What a request is when it has locked its group.
LEMMA AddDeviceBegins ==
    ASSUME TypeOK, NEW r \in Requests, NEW g \in Groups, NEW d \in Devices,
           AddDevice(r, g, d)
    PROVE  \E q \in Additions : /\ Lock(r, g, "add", q) /\ q.group = groups[g]
                                /\ q.at = "lockDevice" /\ q.held = {} /\ q.device = d
<1>1. groups[g] \in GroupRows
  BY Known DEF AddDevice
<1>2. [op |-> "add", at |-> "lockDevice", held |-> {}, group |-> groups[g],
       device |-> d] \in Additions
  BY <1>1 DEF Additions
<1> QED BY <1>2 DEF AddDevice

LEMMA RemoveDeviceBegins ==
    ASSUME TypeOK, NEW r \in Requests, NEW g \in Groups, NEW d \in Devices,
           RemoveDevice(r, g, d)
    PROVE  \E q \in Removals : /\ Lock(r, g, "remove", q) /\ q.group = groups[g]
                               /\ q.at = "charge"
<1>1. groups[g] \in GroupRows
  BY Known DEF RemoveDevice
<1>2. [op |-> "remove", at |-> "charge", held |-> {}, group |-> groups[g],
       device |-> d] \in Removals
  BY <1>1 DEF Removals
<1> QED BY <1>2 DEF RemoveDevice

LEMMA UpdateGroupBegins ==
    ASSUME TypeOK, NEW r \in Requests, NEW g \in Groups, NEW state \in States,
           NEW dates \in Schedules, UpdateGroup(r, g, state, dates)
    PROVE  \E q \in Updates :
               /\ Lock(r, g, "update", q) /\ q.group = groups[g] /\ q.dates = dates
               /\ q.at = IF Widened(groups[g].dates, dates) THEN "check" ELSE "charge"
<1>1. groups[g] \in GroupRows
  BY Known DEF UpdateGroup
<1> DEFINE q == [op |-> "update", held |-> {}, group |-> groups[g],
                 at |-> IF Widened(groups[g].dates, dates) THEN "check" ELSE "charge",
                 state |-> state, dates |-> dates]
<1>2. q \in Updates
  BY <1>1, SchedulesAreDates DEF Updates
<1> QED BY <1>2 DEF UpdateGroup

LEMMA DeleteGroupBegins ==
    ASSUME TypeOK, NEW r \in Requests, NEW g \in Groups, DeleteGroup(r, g)
    PROVE  \E q \in Deletions : /\ Lock(r, g, "delete", q) /\ q.group = groups[g]
                                /\ q.at = "delete"
<1>1. groups[g] \in GroupRows
  BY Known DEF DeleteGroup
<1>2. [op |-> "delete", at |-> "delete", group |-> groups[g]] \in Deletions
  BY <1>1 DEF Deletions
<1> QED BY <1>2 DEF DeleteGroup

\* A request begins: with a group that is created, or with one that is locked.
LocksSome(r) ==
    \E g \in Groups, op \in Operations, q \in Served :
        /\ Lock(r, g, op, q) /\ q.group = groups[g] /\ q.at \in Locked \ {"write"}
        /\ q.op = op
        /\ op = "add" => q.at = "lockDevice" /\ q.held = {}
        /\ op = "update" => q.at = "check" \/ ~Widened(groups[g].dates, q.dates)

LEMMA AskBegins ==
    ASSUME TypeOK, NEW r \in Requests, Ask(r)
    PROVE  \/ \E g \in Groups, state \in States, dates \in Schedules :
                  CreateGroup(r, g, state, dates)
           \/ LocksSome(r)
<1>1. Used \subseteq Groups
  BY FocusIsOnGroups DEF Used
<1>2. ASSUME NEW g \in Groups, NEW op \in Operations, NEW q \in Served,
             Lock(r, g, op, q), q.group = groups[g], q.at \in Locked \ {"write"}, q.op = op,
             op = "add" => q.at = "lockDevice" /\ q.held = {},
             op = "update" => q.at = "check" \/ ~Widened(groups[g].dates, q.dates)
      PROVE  LocksSome(r)
  BY <1>2 DEF LocksSome
<1>3. ASSUME NEW g \in Groups, NEW d \in Devices, AddDevice(r, g, d)
      PROVE  LocksSome(r)
  <2>1. PICK q \in Additions : Lock(r, g, "add", q) /\ q.group = groups[g]
                                /\ q.at = "lockDevice" /\ q.held = {}
    BY <1>3, AddDeviceBegins
  <2>2. q \in Served /\ q.at \in Locked \ {"write"} /\ q.op = "add" /\ "add" \in Operations
    BY <2>1 DEF Served, Additions, Locked, Operations
  <2> QED BY <1>2, <2>1, <2>2
<1>4. ASSUME NEW g \in Groups, NEW d \in Devices, RemoveDevice(r, g, d)
      PROVE  LocksSome(r)
  <2>1. PICK q \in Removals : Lock(r, g, "remove", q) /\ q.group = groups[g]
                               /\ q.at = "charge"
    BY <1>4, RemoveDeviceBegins
  <2>2. q \in Served /\ q.at \in Locked \ {"write"} /\ q.op = "remove" /\ "remove" \in Operations
    BY <2>1 DEF Served, Removals, Locked, Operations
  <2> QED BY <1>2, <2>1, <2>2
<1>5. ASSUME NEW g \in Groups, NEW state \in States, NEW dates \in Schedules,
             UpdateGroup(r, g, state, dates)
      PROVE  LocksSome(r)
  <2>1. PICK q \in Updates : Lock(r, g, "update", q) /\ q.group = groups[g]
                              /\ (q.at = "check" \/ ~Widened(groups[g].dates, q.dates))
                              /\ q.at \in {"check", "charge"}
    BY <1>5, UpdateGroupBegins
  <2>2. q \in Served /\ q.at \in Locked \ {"write"} /\ q.op = "update" /\ "update" \in Operations
    BY <2>1 DEF Served, Updates, Locked, Operations
  <2> QED BY <1>2, <2>1, <2>2
<1>6. ASSUME NEW g \in Groups, DeleteGroup(r, g)
      PROVE  LocksSome(r)
  <2>1. PICK q \in Deletions : Lock(r, g, "delete", q) /\ q.group = groups[g]
                                /\ q.at = "delete"
    BY <1>6, DeleteGroupBegins
  <2>2. q \in Served /\ q.at \in Locked \ {"write"} /\ q.op = "delete" /\ "delete" \in Operations
    BY <2>1 DEF Served, Deletions, Locked, Operations
  <2> QED BY <1>2, <2>1, <2>2
<1>7. CASE \E g \in Used, state \in States, dates \in Schedules :
               CreateGroup(r, g, state, dates)
  BY <1>1, <1>7
<1>8. CASE \E g \in Used, d \in Devices : AddDevice(r, g, d)
  BY <1>1, <1>3, <1>8
<1>9. CASE \E g \in Used, d \in Devices : RemoveDevice(r, g, d)
  BY <1>1, <1>4, <1>9
<1>10. CASE \E g \in Used, state \in States, dates \in Schedules :
               UpdateGroup(r, g, state, dates)
  BY <1>1, <1>5, <1>10
<1>11. CASE \E g \in Used : DeleteGroup(r, g)
  BY <1>1, <1>6, <1>11
<1> QED BY <1>7, <1>8, <1>9, <1>10, <1>11 DEF Ask

LEMMA AskLocks ==
    ASSUME LockInv, NEW r \in Requests, Ask(r)
    PROVE  LockInv'
<1>1. CASE \E g \in Groups, state \in States, dates \in Schedules :
               CreateGroup(r, g, state, dates)
  BY <1>1, CreateGroupLocks
<1>2. CASE LocksSome(r)
  BY <1>2, LockLocks DEF LocksSome
<1> QED BY <1>1, <1>2, AskBegins DEF LockInv

-----------------------------------------------------------------------------
(***************************************************************************)
(* Ticks keep the invariant of the locks.                                  *)
(***************************************************************************)
\* No group is created or deleted, and nothing is settled, by a tick.
TickCountsNothing(t) ==
    /\ UNCHANGED <<requests, scenario>> /\ SameRows
    /\ consumed'.number = consumed.number
    /\ ticks[t] # None => ticks[t].at # "settle"
    /\ ticks'[t] # None => ticks'[t].at # "settle"
    /\ \A u \in Ticks : u # t => ticks'[u] = ticks[u]

\* It goes on with the row that it is at, or with the next one.
TickStays(t) ==
    /\ ticks[t] # None /\ ticks'[t] # None /\ ticks'[t].todo = ticks[t].todo
TickTurnsOver(t) ==
    /\ ticks[t] # None
    /\ ticks'[t] = None \/ (/\ ticks'[t] # None /\ ticks'[t].at = "lock"
                            /\ ticks'[t].todo = Tail(ticks[t].todo))

\* What a tick reads: each row that there is something to do about, once.
LEMMA ReadReads ==
    ASSUME TypeOK, RowsAreNamed, NEW t \in Ticks, Read(t)
    PROVE  /\ ticks[t] = None
           /\ ticks' \in [Ticks -> Scheduled \cup {None}]
           /\ ticks'[t] # None /\ ticks'[t].at = "lock"
           /\ ticks'[t].todo \in Seq(Due1)
           /\ \A u \in Ticks : u # t => ticks'[u] = ticks[u]
           /\ \A i \in DOMAIN ticks'[t].todo :
                  LET d == ticks'[t].todo[i]
                  IN  /\ d.group \in GroupRows /\ d.group.id \in Groups
                      /\ Exists(d.group.id) /\ d.group = groups[d.group.id]
                      /\ d.todo = Decision(d.group, now) /\ d.todo.do # "nothing"
           /\ \A i, j \in DOMAIN ticks'[t].todo :
                  ticks'[t].todo[i].group.id = ticks'[t].todo[j].group.id => i = j
           /\ ticks'[t].todo # <<>>
<1> USE DEF Exists
<1> DEFINE due == {[group |-> g, todo |-> Decision(g, now)] : g \in Rows}
           todo == {d \in due : d.todo.do # "nothing"}
<1>1. PICK s \in Ordered(todo) :
          ticks' = [ticks EXCEPT ![t] = [at |-> "lock", tried |-> FALSE, todo |-> s]]
  BY DEF Read
<1>2. ticks[t] = None /\ todo # {}
  BY DEF Read
<1>3. \A g \in Rows : /\ g \in GroupRows /\ g.id \in Groups
                      /\ groups[g.id] # None /\ g = groups[g.id]
  <2> SUFFICES ASSUME NEW h \in Groups, groups[h] # None
               PROVE  /\ groups[h] \in GroupRows /\ groups[h].id = h
    BY DEF Rows
  <2> QED BY Known DEF RowsAreNamed
<1>4. todo \subseteq Due1
  <2>1. \A g \in Rows : Decision(g, now) \in Decisions
    BY <1>3, DecisionFits
  <2> QED BY <1>3, <2>1 DEF Due1
<1>5. IsFiniteSet(todo)
  <2>1. IsFiniteSet({h \in Groups : groups[h] # None})
    BY DatabaseIsFinite, FS_Subset
  <2>2. IsFiniteSet(Rows)
    <3> DEFINE H == {h \in Groups : groups[h] # None}
               f == [h \in H |-> groups[h]]
    <3>1. f \in Surjection(H, Rows)
      BY DEF Rows, Surjection
    <3> QED BY <2>1, <3>1, FS_Surjection
  <2>3. IsFiniteSet(due)
    <3> DEFINE f == [g \in Rows |-> [group |-> g, todo |-> Decision(g, now)]]
    <3>1. f \in Surjection(Rows, due)
      BY DEF Surjection
    <3> QED BY <2>2, <3>1, FS_Surjection
  <2> QED BY <2>3, FS_Subset
<1>6. \A d \in todo : /\ d.group \in Rows /\ d.todo = Decision(d.group, now)
                      /\ d.todo.do # "nothing"
  OBVIOUS
<1>7. \A d, e \in todo : d.group.id = e.group.id => d = e
  <2> SUFFICES ASSUME NEW d \in due, NEW e \in due, d.group.id = e.group.id
               PROVE  d = e
    OBVIOUS
  <2>1. PICK g \in Rows : d = [group |-> g, todo |-> Decision(g, now)]
    OBVIOUS
  <2>2. PICK h \in Rows : e = [group |-> h, todo |-> Decision(h, now)]
    OBVIOUS
  <2>3. g = h
    BY <1>3, <2>1, <2>2
  <2> QED BY <2>1, <2>2, <2>3
<1> HIDE DEF todo, due
<1>8. /\ s \in Seq(Due1) /\ s # <<>> /\ \A i \in DOMAIN s : s[i] \in todo
      /\ \A i, j \in DOMAIN s : s[i] = s[j] => i = j
  BY <1>2, <1>4, <1>5, OrderIsTyped
<1>9. \A i, j \in DOMAIN s : s[i].group.id = s[j].group.id => i = j
  BY <1>7, <1>8
<1> DEFINE k == [at |-> "lock", tried |-> FALSE, todo |-> s]
<1>10. k \in Scheduled /\ k.at = "lock" /\ k.todo = s
  BY <1>8 DEF Scheduled, Due1
<1>11. k # None
  BY <1>10, NoneIsNothing
<1>12. ticks' = [ticks EXCEPT ![t] = k]
  BY <1>1
<1> HIDE DEF k
<1>13. /\ ticks' \in [Ticks -> Scheduled \cup {None}] /\ ticks'[t] = k
       /\ \A u \in Ticks : u # t => ticks'[u] = ticks[u]
  BY <1>10, <1>12 DEF TypeOK
<1>14. \A i \in DOMAIN s : /\ s[i].group \in GroupRows /\ s[i].group.id \in Groups
                           /\ groups[s[i].group.id] # None
                           /\ s[i].group = groups[s[i].group.id]
                           /\ s[i].todo = Decision(s[i].group, now)
                           /\ s[i].todo.do # "nothing"
  BY <1>3, <1>6, <1>8
<1> QED BY <1>2, <1>8, <1>9, <1>10, <1>11, <1>13, <1>14

LEMMA ReadLocks ==
    ASSUME LockInv, NEW t \in Ticks, Read(t)
    PROVE  LockInv' /\ TickCountsNothing(t)
<1> USE DEF Serving, Scheduling, Exists
<1>1. /\ UNCHANGED <<groups, lock, requests, consumed>>
      /\ UNCHANGED <<deviceLock, originLock, now, scenario>>
  BY DEF Read, rows, devices, timing
<1>2. RowsAreNamed /\ TypeOK
  BY DEF LockInv, Ownership
<1>3. /\ ticks[t] = None
      /\ ticks' \in [Ticks -> Scheduled \cup {None}]
      /\ ticks'[t] # None /\ ticks'[t].at = "lock"
      /\ \A u \in Ticks : u # t => ticks'[u] = ticks[u]
      /\ ticks'[t].todo # <<>>
  BY <1>2, ReadReads
<1>4. \A i \in DOMAIN ticks'[t].todo :
          LET d == ticks'[t].todo[i]
          IN  /\ d.group \in GroupRows /\ d.group.id \in Groups
              /\ groups[d.group.id] # None
              /\ d.todo = Decision(d.group, now) /\ d.todo.do # "nothing"
  BY <1>2, ReadReads
<1>5. \A g \in GroupsOf(t)' : g \in Groups /\ groups[g] # None
  BY <1>4 DEF GroupsOf
<1>6. ~Running(t)'
  BY <1>3 DEF Running
<1>7. \A u \in Ticks : u # t =>
          Due(u)' = Due(u) /\ GroupsOf(u)' = GroupsOf(u) /\ Running(u)' = Running(u)
  BY <1>3 DEF Due, GroupsOf, Running
<1>8. \A s \in Requests : Owning(s)' <=> Owning(s)
  BY <1>1 DEF Owning
<1>9. TypeOK'
  BY <1>1, <1>3 DEF LockInv, TypeOK
<1>10. DecisionsFit'
  <2>1. \A u \in Ticks : u # t => What(u)' = What(u)
    BY <1>3 DEF What
  <2>2. \A i \in DOMAIN ticks'[t].todo :
            LET d == ticks'[t].todo[i]
            IN  d.todo.do # "delete" => d.todo.drop < d.group.dates.times
    BY <1>4, DecisionFits
  <2> QED BY <1>3, <1>4, <2>1, <2>2 DEF LockInv, DecisionsFit
<1>11. Ownership'
  <2>1. RowsAreNamed'
    BY <1>1 DEF LockInv, Ownership, RowsAreNamed
  <2>2. CreationIsAlone'
    BY <1>1, <1>3, <1>5, <1>7 DEF LockInv, Ownership, CreationIsAlone
  <2>3. OwnedIsLocked'
    BY <1>1, <1>3, <1>6, <1>7, <1>8 DEF LockInv, Ownership, OwnedIsLocked
  <2>4. SettlingIsGone'
    BY <1>1, <1>3, <1>7 DEF LockInv, Ownership, SettlingIsGone
  <2>5. OneOwner'
    BY <1>1, <1>3, <1>6, <1>7, <1>8 DEF LockInv, Ownership, OneOwner
  <2> QED BY <2>1, <2>2, <2>3, <2>4, <2>5 DEF Ownership
<1>12. TickCountsNothing(t)
  BY <1>1, <1>3, NothingHappensToRows DEF TickCountsNothing
<1> QED BY <1>9, <1>10, <1>11, <1>12 DEF LockInv

\* The tick goes on with the same row.
LEMMA ContinueContinues ==
    ASSUME TypeOK, DecisionsFit, NEW t \in Ticks, ticks[t] # None,
           NEW at \in {"lock", "write", "charge", "unlock"},
           \/ Continue(t, at)
           \/ ticks' = [ticks EXCEPT ![t].tried = TRUE, ![t].at = at],
           at = "charge" => What(t).do # "delete"
    PROVE  /\ ticks' \in [Ticks -> Scheduled \cup {None}]
           /\ ticks'[t] # None /\ ticks'[t].at = at
           /\ ticks'[t].todo = ticks[t].todo
           /\ Due(t)' = Due(t) /\ GroupsOf(t)' = GroupsOf(t)
           /\ \A u \in Ticks : u # t => ticks'[u] = ticks[u]
           /\ DecisionsFit'
<1>1. ticks[t] \in Scheduled
  BY Known DEF Scheduling
<1>2. \E k \in Scheduled : /\ ticks' = [ticks EXCEPT ![t] = k]
                           /\ k.at = at /\ k.todo = ticks[t].todo
  <2>1. CASE Continue(t, at)
    <3> DEFINE k == [ticks[t] EXCEPT !.at = at]
    <3>1. k \in Scheduled /\ k.at = at /\ k.todo = ticks[t].todo
      BY <1>1 DEF Scheduled
    <3>2. ticks' = [ticks EXCEPT ![t] = k]
      BY <2>1 DEF Continue, TypeOK
    <3> QED BY <3>1, <3>2
  <2>2. CASE ticks' = [ticks EXCEPT ![t].tried = TRUE, ![t].at = at]
    <3> DEFINE k == [ticks[t] EXCEPT !.tried = TRUE, !.at = at]
    <3>1. k \in Scheduled /\ k.at = at /\ k.todo = ticks[t].todo
      BY <1>1 DEF Scheduled
    <3>2. ticks' = [ticks EXCEPT ![t] = k]
      BY <2>2 DEF TypeOK
    <3> QED BY <3>1, <3>2
  <2> QED BY <2>1, <2>2
<1>3. PICK k \in Scheduled : /\ ticks' = [ticks EXCEPT ![t] = k]
                             /\ k.at = at /\ k.todo = ticks[t].todo
  BY <1>2
<1>4. k.at = "settle" => What(t).do = "delete"
  BY <1>3
<1>5. k.at = "charge" => What(t).do # "delete"
  BY <1>3
<1>6. /\ ticks' \in [Ticks -> Scheduled \cup {None}]
      /\ ticks'[t] # None /\ ticks'[t] = k
      /\ \A u \in Ticks : u # t => ticks'[u] = ticks[u]
      /\ DecisionsFit'
  BY <1>3, <1>4, <1>5, TickContinues
<1>7. Due(t)' = Due(t) /\ GroupsOf(t)' = GroupsOf(t)
  BY <1>3, <1>6 DEF Due, GroupsOf
<1> QED BY <1>3, <1>6, <1>7

LEMMA AdminLockLocks ==
    ASSUME LockInv, NEW t \in Ticks, AdminLock(t)
    PROVE  /\ LockInv' /\ TickCountsNothing(t) /\ TickStays(t)
           /\ ticks[t].at = "lock" /\ UNCHANGED groups
<1> USE DEF Serving, Scheduling, Exists
<1> DEFINE g == Due(t).id
           at == IF lock[g].user THEN "lock" ELSE "write"
<1>1. /\ UNCHANGED <<groups, requests, consumed>>
      /\ UNCHANGED <<deviceLock, originLock, now, scenario>>
      /\ ticks[t] # None /\ ticks[t].at = "lock" /\ Exists(g)
      /\ lock' = [lock EXCEPT ![g] = [user |-> TRUE, admin |-> TRUE]]
  BY DEF AdminLock, Step, devices, timing
<1>2. ticks' = [ticks EXCEPT ![t].tried = TRUE, ![t].at = at]
  BY <1>1 DEF AdminLock, LockInv, TypeOK
<1>3. /\ \A u \in Scheduling : Due(u).id \in Groups
      /\ \A s \in Serving : requests[s].group.id \in Groups
  BY Listed, Known DEF LockInv
<1>4. at \in {"lock", "write"} /\ (at = "write" => ~lock[g].user)
  OBVIOUS
<1> HIDE DEF at
<1>5. /\ ticks' \in [Ticks -> Scheduled \cup {None}]
      /\ ticks'[t] # None /\ ticks'[t].at = at
      /\ ticks'[t].todo = ticks[t].todo
      /\ Due(t)' = Due(t) /\ GroupsOf(t)' = GroupsOf(t)
      /\ \A u \in Ticks : u # t => ticks'[u] = ticks[u]
      /\ DecisionsFit'
  <2>1. at \in {"lock", "write", "charge", "unlock"} /\ (at = "charge" => What(t).do # "delete")
    BY <1>4
  <2> QED BY <1>1, <1>2, <2>1, ContinueContinues DEF LockInv
<1>6. /\ lock' \in [Groups -> [user : BOOLEAN, admin : BOOLEAN]]
      /\ lock'[g].user /\ \A h \in Groups : lock[h].user => lock'[h].user
  BY <1>1, <1>3 DEF LockInv, TypeOK
<1>7. TypeOK'
  BY <1>1, <1>5, <1>6 DEF LockInv, TypeOK
<1>8. \A u \in Ticks : u # t =>
          Due(u)' = Due(u) /\ GroupsOf(u)' = GroupsOf(u) /\ Running(u)' = Running(u)
  BY <1>5 DEF Due, GroupsOf, Running
<1>9. \A s \in Requests : Owning(s)' <=> Owning(s)
  BY <1>1 DEF Owning
<1>10. Running(t)' =>
          /\ \A u \in Ticks : Running(u) => Due(u).id # g
          /\ \A s \in Requests : Owning(s) => requests[s].group.id # g
  BY <1>1, <1>4, <1>5 DEF LockInv, Ownership, OwnedIsLocked, Running
<1> HIDE DEF g
<1>11. Ownership'
  <2>1. RowsAreNamed'
    BY <1>1 DEF LockInv, Ownership, RowsAreNamed
  <2>2. CreationIsAlone'
    BY <1>1, <1>5, <1>8 DEF LockInv, Ownership, CreationIsAlone
  <2>3. OwnedIsLocked'
    <3>1. \A s \in Requests : Owning(s)' =>
            Exists(requests[s].group.id)' /\ lock'[requests'[s].group.id].user
      BY <1>1, <1>3, <1>6, <1>9 DEF LockInv, Ownership, OwnedIsLocked, Owning
    <3>2. \A u \in Ticks : u # t /\ Running(u)' =>
            IF Exists(Due(u).id)' THEN lock'[Due(u)'.id].user
                                  ELSE ticks'[u].at = "unlock"
      BY <1>1, <1>3, <1>5, <1>6, <1>8 DEF LockInv, Ownership, OwnedIsLocked, Running
    <3>3. Exists(Due(t).id)' /\ lock'[Due(t)'.id].user
      BY <1>1, <1>5, <1>6 DEF g
    <3> QED BY <3>1, <3>2, <3>3 DEF OwnedIsLocked
  <2>4. SettlingIsGone'
    BY <1>1, <1>4, <1>5, <1>8 DEF LockInv, Ownership, SettlingIsGone
  <2>5. OneOwner'
    BY <1>1, <1>5, <1>8, <1>9, <1>10 DEF LockInv, Ownership, OneOwner, g
  <2> QED BY <2>1, <2>2, <2>3, <2>4, <2>5 DEF Ownership
<1>12. TickCountsNothing(t) /\ TickStays(t)
  BY <1>1, <1>4, <1>5, NothingHappensToRows DEF TickCountsNothing, TickStays
<1> QED BY <1>1, <1>7, <1>5, <1>11, <1>12 DEF LockInv

LEMMA AdminLockSkippedLocks ==
    ASSUME LockInv, NEW t \in Ticks, AdminLockSkipped(t)
    PROVE  /\ LockInv' /\ TickCountsNothing(t) /\ TickTurnsOver(t) /\ UNCHANGED groups
<1> USE DEF LockInv
<1>1. /\ UNCHANGED <<groups, lock, requests, consumed>>
      /\ UNCHANGED <<deviceLock, originLock, now, scenario>>
      /\ ticks[t] # None /\ ticks[t].at = "lock" /\ NextGroup(t)
  BY DEF AdminLockSkipped, Step, rows, devices, timing
<1>2. /\ ticks' \in [Ticks -> Scheduled \cup {None}]
      /\ ticks'[t] = None \/ (/\ ticks'[t] # None /\ ticks'[t].at = "lock"
                              /\ ticks'[t].todo = Tail(ticks[t].todo))
      /\ ticks'[t] # None => GroupsOf(t)' \subseteq GroupsOf(t)
      /\ \A u \in Ticks : u # t => ticks'[u] = ticks[u]
      /\ DecisionsFit'
  BY <1>1, TickTurns
<1>3. TypeOK'
  BY <1>1, <1>2 DEF TypeOK
<1>4. ~Running(t)' /\ (ticks'[t] # None => ticks'[t].at # "settle")
  BY <1>2 DEF Running
<1>5. Ownership'
  BY <1>1, <1>2, <1>4, NothingHappensToRows, TickKeepsOwnership
<1>6. TickCountsNothing(t) /\ TickTurnsOver(t)
  BY <1>1, <1>2, <1>4, NothingHappensToRows DEF TickCountsNothing, TickTurnsOver
<1> QED BY <1>1, <1>2, <1>3, <1>5, <1>6

\* A refused tick touches the state of a row at most.
LEMMA RefusedWrites ==
    ASSUME LockInv, NEW t \in Ticks, AdminLockRefused(t)
    PROVE  /\ groups' \in [Groups -> GroupRows \cup {None}]
           /\ SameRows
           /\ \A g \in Groups : Exists(g) =>
                  /\ groups'[g].dates = groups[g].dates
                  /\ groups'[g].devices = groups[g].devices
                  /\ groups'[g].duration = groups[g].duration
<1> USE DEF LockInv
<1> DEFINE g == Due(t).id
           w == [groups[g] EXCEPT !.isActive = FALSE, !.state = "waiting"]
<1>1. Exists(g) /\ ticks[t] # None
  BY DEF AdminLockRefused, Step
<1>2. g \in Groups /\ groups[g] \in GroupRows
  BY <1>1, Listed, Known
<1>3. CASE groups' = groups
  BY <1>3 DEF SameRows, Exists, TypeOK
<1>4. CASE groups' = [groups EXCEPT ![g].isActive = FALSE, ![g].state = "waiting"]
  <2>1. /\ w \in GroupRows /\ w.id = groups[g].id
        /\ w.dates = groups[g].dates /\ w.devices = groups[g].devices
        /\ w.duration = groups[g].duration
    BY <1>2 DEF GroupRows
  <2>2. groups' = [groups EXCEPT ![g] = w]
    BY <1>2, <1>4 DEF TypeOK
  <2>3. w # None
    BY <2>1, NoneIsNothing
  <2> HIDE DEF w, g
  <2>4. /\ groups' \in [Groups -> GroupRows \cup {None}] /\ groups'[g] = w
        /\ \A h \in Groups : h # g => groups'[h] = groups[h]
    BY <1>2, <2>1, <2>2 DEF TypeOK
  <2> QED BY <1>1, <2>1, <2>3, <2>4 DEF SameRows, Exists
<1> QED BY <1>3, <1>4 DEF AdminLockRefused

LEMMA AdminLockRefusedLocks ==
    ASSUME LockInv, NEW t \in Ticks, AdminLockRefused(t)
    PROVE  /\ LockInv' /\ TickCountsNothing(t) /\ TickTurnsOver(t)
<1> USE DEF LockInv
<1>1. /\ UNCHANGED <<lock, requests, consumed>>
      /\ UNCHANGED <<deviceLock, originLock, now, scenario>>
      /\ ticks[t] # None /\ ticks[t].at = "lock" /\ NextGroup(t)
  BY DEF AdminLockRefused, Step, devices, timing
<1>2. /\ ticks' \in [Ticks -> Scheduled \cup {None}]
      /\ ticks'[t] = None \/ (/\ ticks'[t] # None /\ ticks'[t].at = "lock"
                              /\ ticks'[t].todo = Tail(ticks[t].todo))
      /\ ticks'[t] # None => GroupsOf(t)' \subseteq GroupsOf(t)
      /\ \A u \in Ticks : u # t => ticks'[u] = ticks[u]
      /\ DecisionsFit'
  BY <1>1, TickTurns
<1>3. groups' \in [Groups -> GroupRows \cup {None}] /\ SameRows
  BY RefusedWrites
<1>4. TypeOK'
  BY <1>1, <1>2, <1>3 DEF TypeOK
<1>5. ~Running(t)' /\ (ticks'[t] # None => ticks'[t].at # "settle")
  BY <1>2 DEF Running
<1>6. Ownership'
  BY <1>1, <1>2, <1>3, <1>5, TickKeepsOwnership
<1>7. TickCountsNothing(t) /\ TickTurnsOver(t)
  BY <1>1, <1>2, <1>3, <1>5 DEF TickCountsNothing, TickTurnsOver
<1> QED BY <1>2, <1>4, <1>6, <1>7

\* What a tick writes.
LEMMA DatesWrites ==
    ASSUME LockInv, NEW t \in Ticks, UpdateDates(t)
    PROVE  LET g == Due(t).id
           IN  /\ ticks[t] # None /\ ticks[t].at = "write"
               /\ What(t).do # "delete" /\ What(t).drop \in Nat
               /\ What(t).drop < Due(t).dates.times
               /\ g \in Groups /\ Exists(g)
               /\ groups' \in [Groups -> GroupRows \cup {None}]
               /\ groups'[g] # None /\ groups'[g].id = groups[g].id
               /\ groups'[g].dates = Dropped(Due(t), What(t).drop)
               /\ groups'[g].devices = groups[g].devices
               /\ groups'[g].duration = Duration(Due(t).devices, Dropped(Due(t), What(t).drop))
               /\ \A h \in Groups : h # g => groups'[h] = groups[h]
               /\ SameRows
<1> USE DEF LockInv
<1> DEFINE g == Due(t).id
           dates == Dropped(Due(t), What(t).drop)
           duration == Duration(Due(t).devices, dates)
           active == (What(t).do = "becomeActive")
           w == [groups[g] EXCEPT !.dates = dates, !.duration = duration,
                                  !.isActive = active, !.state = "ready"]
<1>1. ticks[t] # None /\ ticks[t].at = "write" /\ What(t).do # "delete"
  BY DEF UpdateDates, Step
<1>2. /\ Due(t) \in GroupRows /\ g \in Groups
      /\ What(t).drop \in Nat /\ What(t).drop < Due(t).dates.times
  BY <1>1, Listed DEF Decisions
<1>3. Exists(g) /\ groups[g] \in GroupRows
  BY <1>1, <1>2, Known DEF Ownership, OwnedIsLocked, Running
<1>4. dates \in Dates /\ duration \in Nat
  <2>1. dates \in Dates
    BY <1>2, DroppedIsTyped
  <2> HIDE DEF dates
  <2> QED BY <1>2, <2>1, DurationIsNumber DEF GroupRows
<1>5. active \in BOOLEAN
  OBVIOUS
<1>6. groups' = [groups EXCEPT ![g] = w]
  BY <1>2 DEF UpdateDates, TypeOK
<1> HIDE DEF dates, duration, active, g
<1>7. /\ w \in GroupRows /\ w.id = groups[g].id /\ w.dates = dates
      /\ w.devices = groups[g].devices /\ w.duration = duration
  BY <1>3, <1>4, <1>5 DEF GroupRows, States
<1>8. w # None
  BY <1>7, NoneIsNothing
<1> HIDE DEF w
<1>9. /\ groups' \in [Groups -> GroupRows \cup {None}] /\ groups'[g] = w
      /\ \A h \in Groups : h # g => groups'[h] = groups[h]
  BY <1>2, <1>6, <1>7 DEF TypeOK
<1>10. SameRows
  BY <1>3, <1>7, <1>8, <1>9 DEF SameRows, Exists
<1> QED BY <1>1, <1>2, <1>3, <1>7, <1>8, <1>9, <1>10 DEF g, dates, duration

LEMMA UpdateDatesLocks ==
    ASSUME LockInv, NEW t \in Ticks, UpdateDates(t)
    PROVE  /\ LockInv' /\ TickCountsNothing(t) /\ TickStays(t) /\ ticks'[t].at = "charge"
<1> USE DEF LockInv
<1>1. /\ UNCHANGED <<lock, requests, consumed>>
      /\ UNCHANGED <<deviceLock, originLock, now, scenario>>
      /\ ticks[t] # None /\ ticks[t].at = "write" /\ Continue(t, "charge")
      /\ What(t).do # "delete"
  BY DEF UpdateDates, Step, devices, timing
<1>2. /\ ticks' \in [Ticks -> Scheduled \cup {None}]
      /\ ticks'[t] # None /\ ticks'[t].at = "charge"
      /\ ticks'[t].todo = ticks[t].todo
      /\ Due(t)' = Due(t) /\ GroupsOf(t)' = GroupsOf(t)
      /\ \A u \in Ticks : u # t => ticks'[u] = ticks[u]
      /\ DecisionsFit'
  BY <1>1, ContinueContinues
<1>3. groups' \in [Groups -> GroupRows \cup {None}] /\ SameRows
  BY DatesWrites
<1>4. TypeOK'
  BY <1>1, <1>2, <1>3 DEF TypeOK
<1>5. Running(t)
  BY <1>1 DEF Running
<1>6. Ownership'
  BY <1>1, <1>2, <1>3, <1>5, TickKeepsOwnership
<1>7. TickCountsNothing(t) /\ TickStays(t)
  BY <1>1, <1>2, <1>3 DEF TickCountsNothing, TickStays
<1> QED BY <1>2, <1>4, <1>6, <1>7

LEMMA UpdateQuotaLocks ==
    ASSUME LockInv, NEW t \in Ticks, UpdateQuota(t)
    PROVE  /\ LockInv' /\ TickCountsNothing(t) /\ TickStays(t)
           /\ ticks'[t].at = "unlock" /\ UNCHANGED groups
<1> USE DEF LockInv
<1>1. /\ UNCHANGED <<groups, lock, requests>>
      /\ UNCHANGED <<deviceLock, originLock, now, scenario>>
      /\ ticks[t] # None /\ ticks[t].at = "charge" /\ Continue(t, "unlock")
  BY DEF UpdateQuota, Step, rows, devices, timing
<1>2. /\ ticks' \in [Ticks -> Scheduled \cup {None}]
      /\ ticks'[t] # None /\ ticks'[t].at = "unlock"
      /\ ticks'[t].todo = ticks[t].todo
      /\ Due(t)' = Due(t) /\ GroupsOf(t)' = GroupsOf(t)
      /\ \A u \in Ticks : u # t => ticks'[u] = ticks[u]
      /\ DecisionsFit'
  BY <1>1, ContinueContinues
<1>3. /\ Due(t) \in GroupRows /\ What(t).drop \in Nat
      /\ What(t).drop < Due(t).dates.times
  BY <1>1, Listed DEF DecisionsFit, Scheduling, Decisions
<1> DEFINE old == Due(t).duration
           new == Duration(Due(t).devices, Dropped(Due(t), What(t).drop))
<1>4. old \in Nat /\ new \in Nat
  BY <1>3, DroppedIsTyped, DurationIsNumber DEF GroupRows
<1>5. consumed \in Quotas /\ consumed' = Charged(old, new)
  BY DEF UpdateQuota, TypeOK, Quotas
<1>6. consumed' \in Quotas /\ consumed'.number = consumed.number
  BY <1>4, <1>5, ChargedIsTyped
<1>7. TypeOK'
  BY <1>1, <1>2, <1>6 DEF TypeOK, Quotas
<1>8. Running(t)
  BY <1>1 DEF Running
<1>9. Ownership'
  BY <1>1, <1>2, <1>8, NothingHappensToRows, TickKeepsOwnership
<1>10. TickCountsNothing(t) /\ TickStays(t)
  BY <1>1, <1>2, <1>6, NothingHappensToRows DEF TickCountsNothing, TickStays
<1> QED BY <1>1, <1>2, <1>7, <1>9, <1>10

LEMMA SettleOverLocks ==
    ASSUME LockInv, NEW t \in Ticks, SettleOver(t)
    PROVE  /\ LockInv'
           /\ consumed.number >= 1 => consumed'.number = consumed.number - 1
           /\ ticks[t].at = "settle" /\ ticks'[t].at = "unlock" /\ TickStays(t)
           /\ UNCHANGED <<groups, lock, requests, scenario>>
           /\ \A u \in Ticks : u # t => ticks'[u] = ticks[u]
<1> USE DEF LockInv
<1>1. /\ UNCHANGED <<groups, lock, requests>>
      /\ UNCHANGED <<deviceLock, originLock, now, scenario>>
      /\ ticks[t] # None /\ ticks[t].at = "settle" /\ Continue(t, "unlock")
      /\ consumed' = Settled(Due(t))
  BY DEF SettleOver, Step, rows, devices, timing
<1>2. /\ ticks' \in [Ticks -> Scheduled \cup {None}]
      /\ ticks'[t] # None /\ ticks'[t].at = "unlock"
      /\ ticks'[t].todo = ticks[t].todo
      /\ Due(t)' = Due(t) /\ GroupsOf(t)' = GroupsOf(t)
      /\ \A u \in Ticks : u # t => ticks'[u] = ticks[u]
      /\ DecisionsFit'
  BY <1>1, ContinueContinues
<1>3. Due(t) \in GroupRows /\ consumed \in Quotas
  BY <1>1, Listed DEF TypeOK, Quotas
<1>4. /\ consumed' \in Quotas
      /\ consumed.number >= 1 => consumed'.number = consumed.number - 1
  BY <1>1, <1>3, SettledIsTyped
<1>5. TypeOK'
  BY <1>1, <1>2, <1>4 DEF TypeOK, Quotas
<1>6. ~Exists(Due(t).id)
  BY <1>1 DEF Ownership, SettlingIsGone, Scheduling
<1>7. Ownership'
  BY <1>1, <1>2, <1>6, NothingHappensToRows, TickKeepsOwnership
<1> QED BY <1>1, <1>2, <1>4, <1>5, <1>7 DEF TickStays

\* A tick that deletes a group was the only one that had its lock.
LEMMA DeleteOverLocks ==
    ASSUME LockInv, NEW t \in Ticks, DeleteOver(t)
    PROVE  /\ LockInv'
           /\ ticks[t] # None /\ ticks[t].at = "write"
           /\ Due(t).id \in Groups
           /\ ticks'[t] # None /\ ticks'[t].at = "settle" /\ Due(t)'.id = Due(t).id
           /\ Exists(Due(t).id) /\ groups'[Due(t).id] = None
           /\ \A h \in Groups : h # Due(t).id => groups'[h] = groups[h]
           /\ \A u \in Ticks : u # t => ticks'[u] = ticks[u]
           /\ UNCHANGED <<requests, consumed, scenario>>
           /\ DOMAIN ticks'[t].todo = DOMAIN ticks[t].todo
           /\ \A i \in DOMAIN ticks[t].todo :
                 /\ ticks'[t].todo[i].group.id = ticks[t].todo[i].group.id
                 /\ i # 1 => ticks'[t].todo[i] = ticks[t].todo[i]
           /\ ticks'[t].todo[1].group = groups[Due(t).id] /\ Due(t)' = groups[Due(t).id]
<1> USE DEF Serving, Scheduling, Exists
<1> DEFINE g == Due(t).id
           s == ticks[t].todo
           x == [s[1] EXCEPT !.group = groups[g]]
           todo == [s EXCEPT ![1] = x]
           k == [ticks[t] EXCEPT !.at = "settle", !.todo = todo]
<1>1. /\ UNCHANGED <<requests, consumed>>
      /\ UNCHANGED <<deviceLock, originLock, now, scenario>>
      /\ groups' = [groups EXCEPT ![g] = None]
      /\ lock' = [lock EXCEPT ![g] = Free]
      /\ ticks[t] # None /\ ticks[t].at = "write" /\ What(t).do = "delete"
  BY DEF DeleteOver, RowDeleted, Step, devices, timing
<1>2. /\ ticks[t] \in Scheduled /\ s \in Seq(Due1) /\ 1 \in DOMAIN s /\ s[1] \in Due1
      /\ Due(t) = s[1].group /\ What(t) = s[1].todo /\ g \in Groups /\ s # <<>>
  <2>1. ticks[t] \in Scheduled /\ s \in Seq(Due1) /\ s # <<>> /\ g \in Groups
    BY <1>1, Listed DEF LockInv
  <2>2. 1 \in DOMAIN s /\ Head(s) = s[1] /\ Head(s) \in Due1
    BY <2>1, HeadDropped
  <2> QED BY <2>1, <2>2 DEF Due, What
<1>3. Exists(g) /\ groups[g] \in GroupRows /\ groups[g].id = g /\ Running(t)
  BY <1>1, <1>2, Known DEF LockInv, Ownership, OwnedIsLocked, RowsAreNamed, Running
<1>4. x \in Due1 /\ x.group.id = g /\ x.todo = s[1].todo /\ x.group = groups[g]
  BY <1>2, <1>3 DEF Due1
<1>5. ticks' = [ticks EXCEPT ![t] = k]
  BY <1>2 DEF DeleteOver, LockInv, TypeOK
<1> HIDE DEF x, s
<1>6. /\ todo \in Seq(Due1) /\ DOMAIN todo = DOMAIN s
      /\ \A j \in DOMAIN s : todo[j] = IF j = 1 THEN x ELSE s[j]
  BY <1>2, <1>4, OneReplaced
<1>7. todo # <<>> /\ Head(todo) = todo[1] /\ 1 \in DOMAIN todo
  <2>1. 1 \in DOMAIN todo
    BY <1>2, <1>6
  <2>2. todo # <<>>
    BY <2>1
  <2> HIDE DEF todo
  <2> QED BY <1>6, <2>1, <2>2, HeadDropped
<1> HIDE DEF todo
<1>8. k \in Scheduled /\ k.at = "settle" /\ k.todo = todo
  BY <1>2, <1>6 DEF Scheduled, Due1
<1>9. k # None
  BY <1>8, NoneIsNothing
<1> HIDE DEF k
<1>10. /\ ticks' \in [Ticks -> Scheduled \cup {None}] /\ ticks'[t] = k
       /\ \A u \in Ticks : u # t => ticks'[u] = ticks[u]
  BY <1>5, <1>8 DEF LockInv, TypeOK
<1>11. /\ lock' \in [Groups -> [user : BOOLEAN, admin : BOOLEAN]]
       /\ \A h \in Groups : h # g => lock'[h] = lock[h]
       /\ groups' \in [Groups -> GroupRows \cup {None}] /\ groups'[g] = None
       /\ \A h \in Groups : h # g => groups'[h] = groups[h]
  BY <1>1, <1>2 DEF LockInv, TypeOK, Free
<1>12. TypeOK'
  BY <1>1, <1>10, <1>11 DEF LockInv, TypeOK
<1>13. \A j \in DOMAIN s : todo[j].group.id = s[j].group.id
                           /\ (j # 1 => todo[j] = s[j])
  BY <1>2, <1>4, <1>6
<1>14. /\ ticks'[t] # None /\ ticks'[t].at = "settle" /\ ticks'[t].todo = todo
       /\ Due(t)' = x.group /\ What(t)' = What(t)
       /\ GroupsOf(t)' = GroupsOf(t)
  <2>1. /\ ticks'[t] # None /\ ticks'[t].at = "settle" /\ ticks'[t].todo = todo
    BY <1>8, <1>9, <1>10
  <2>2. Due(t)' = x.group /\ What(t)' = What(t)
    BY <2>1, <1>2, <1>4, <1>6, <1>7 DEF Due, What
  <2>3. GroupsOf(t)' = {todo[i].group.id : i \in DOMAIN todo}
    BY <2>1 DEF GroupsOf
  <2>4. GroupsOf(t) = {s[i].group.id : i \in DOMAIN s}
    BY DEF GroupsOf, s
  <2> QED BY <1>6, <1>13, <2>1, <2>2, <2>3, <2>4
<1>15. \A u \in Ticks : u # t =>
           /\ Due(u)' = Due(u) /\ GroupsOf(u)' = GroupsOf(u) /\ Running(u)' = Running(u)
           /\ What(u)' = What(u)
  BY <1>10 DEF Due, GroupsOf, Running, What
<1>16. DecisionsFit'
  <2>1. \A i \in DOMAIN todo :
            /\ todo[i].todo.do # "nothing"
            /\ todo[i].todo.do # "delete" => todo[i].todo.drop < todo[i].group.dates.times
    BY <1>1, <1>2, <1>4, <1>6 DEF LockInv, DecisionsFit, s
  <2> QED BY <1>1, <1>7, <1>10, <1>14, <1>15, <2>1 DEF LockInv, DecisionsFit
<1>17. \A p \in Requests : Owning(p)' => Owning(p) /\ requests[p].group.id # g
  BY <1>1, <1>3 DEF LockInv, Ownership, OneOwner, Owning
<1>18. \A u \in Ticks : Running(u)' => u # t /\ Running(u) /\ Due(u).id # g
  BY <1>3, <1>14, <1>15 DEF LockInv, Ownership, OneOwner, Running
<1>19. /\ \A u \in Scheduling : Due(u).id \in Groups
       /\ \A p \in Serving : requests[p].group.id \in Groups
  BY Listed, Known DEF LockInv
<1> HIDE DEF g
<1>20. Ownership'
  <2>1. RowsAreNamed'
    BY <1>11 DEF LockInv, Ownership, RowsAreNamed
  <2>2. CreationIsAlone'
    BY <1>1, <1>10, <1>11, <1>14, <1>15, <1>19 DEF LockInv, Ownership, CreationIsAlone
  <2>3. OwnedIsLocked'
    <3>1. \A p \in Requests : Owning(p)' =>
            Exists(requests[p].group.id)' /\ lock'[requests'[p].group.id].user
      BY <1>1, <1>11, <1>17, <1>19
      DEF LockInv, Ownership, OwnedIsLocked, Owning
    <3>2. \A u \in Ticks : Running(u)' =>
            IF Exists(Due(u).id)' THEN lock'[Due(u)'.id].user
                                  ELSE ticks'[u].at = "unlock"
      BY <1>10, <1>11, <1>15, <1>18, <1>19
      DEF LockInv, Ownership, OwnedIsLocked, Running
    <3> QED BY <3>1, <3>2 DEF OwnedIsLocked
  <2>4. SettlingIsGone'
    BY <1>1, <1>4, <1>10, <1>11, <1>14, <1>15, <1>19
    DEF LockInv, Ownership, SettlingIsGone
  <2>5. OneOwner'
    <3>1. \A u \in Ticks : Exists(Due(u).id)' /\ Running(u)' => Exists(Due(u).id)
      BY <1>11, <1>15, <1>18, <1>19 DEF Running
    <3> QED BY <3>1, <1>1, <1>15, <1>17, <1>18 DEF LockInv, Ownership, OneOwner
  <2> QED BY <2>1, <2>2, <2>3, <2>4, <2>5 DEF Ownership
<1>21. LockInv'
  BY <1>12, <1>16, <1>20 DEF LockInv
<1>22. /\ DOMAIN ticks'[t].todo = DOMAIN ticks[t].todo
       /\ \A i \in DOMAIN ticks[t].todo :
             /\ ticks'[t].todo[i].group.id = ticks[t].todo[i].group.id
             /\ i # 1 => ticks'[t].todo[i] = ticks[t].todo[i]
  BY <1>6, <1>13, <1>14 DEF s
<1>23. /\ Due(t)'.id = Due(t).id /\ Due(t).id \in Groups
       /\ Exists(Due(t).id) /\ groups'[Due(t).id] = None
       /\ \A h \in Groups : h # Due(t).id => groups'[h] = groups[h]
  BY <1>2, <1>3, <1>4, <1>11, <1>14 DEF g
<1>24. ticks'[t].todo[1].group = groups[Due(t).id] /\ Due(t)' = groups[Due(t).id]
  BY <1>2, <1>4, <1>6, <1>14 DEF g
<1> QED BY <1>1, <1>10, <1>14, <1>21, <1>22, <1>23, <1>24

LEMMA AdminUnlockLocks ==
    ASSUME LockInv, NEW t \in Ticks, AdminUnlock(t)
    PROVE  /\ LockInv' /\ TickCountsNothing(t) /\ TickTurnsOver(t) /\ UNCHANGED groups
<1> USE DEF Serving, Scheduling, Exists
<1> DEFINE g == Due(t).id
<1>1. /\ UNCHANGED <<groups, requests, consumed>>
      /\ UNCHANGED <<deviceLock, originLock, now, scenario>>
      /\ lock' = [lock EXCEPT ![g] = Free]
      /\ ticks[t] # None /\ ticks[t].at = "unlock" /\ NextGroup(t)
  BY DEF AdminUnlock, Step, devices, timing
<1>2. /\ ticks' \in [Ticks -> Scheduled \cup {None}]
      /\ ticks'[t] = None \/ (/\ ticks'[t] # None /\ ticks'[t].at = "lock"
                              /\ ticks'[t].todo = Tail(ticks[t].todo))
      /\ ticks'[t] # None => GroupsOf(t)' \subseteq GroupsOf(t)
      /\ \A u \in Ticks : u # t => ticks'[u] = ticks[u]
      /\ DecisionsFit'
  BY <1>1, TickTurns DEF LockInv
<1>3. /\ \A u \in Scheduling : Due(u).id \in Groups
      /\ \A s \in Serving : requests[s].group.id \in Groups
  BY Listed, Known DEF LockInv
<1>4. /\ lock' \in [Groups -> [user : BOOLEAN, admin : BOOLEAN]]
      /\ \A h \in Groups : h # g => lock'[h] = lock[h]
  BY <1>1, <1>3 DEF LockInv, TypeOK, Free
<1>5. TypeOK'
  BY <1>1, <1>2, <1>4 DEF LockInv, TypeOK
<1>6. \A u \in Ticks : u # t =>
          Due(u)' = Due(u) /\ GroupsOf(u)' = GroupsOf(u) /\ Running(u)' = Running(u)
  BY <1>2 DEF Due, GroupsOf, Running
<1>7. Running(t) /\ ~Running(t)' /\ (ticks'[t] # None => ticks'[t].at = "lock")
  BY <1>1, <1>2 DEF Running
<1>8. \A s \in Requests : Owning(s)' => Owning(s) /\ requests[s].group.id # g
  BY <1>1, <1>7 DEF Owning, LockInv, Ownership, OneOwner
<1>9. \A u \in Ticks : Running(u)' =>
          u # t /\ Running(u) /\ (Exists(Due(u).id) => Due(u).id # g)
  BY <1>6, <1>7 DEF LockInv, Ownership, OneOwner
<1> HIDE DEF g
<1>10. Ownership'
  <2>1. RowsAreNamed'
    BY <1>1 DEF LockInv, Ownership, RowsAreNamed
  <2>2. CreationIsAlone'
    BY <1>1, <1>2, <1>6 DEF LockInv, Ownership, CreationIsAlone
  <2>3. OwnedIsLocked'
    <3>1. \A s \in Requests : Owning(s)' =>
            Exists(requests[s].group.id)' /\ lock'[requests'[s].group.id].user
      BY <1>1, <1>3, <1>4, <1>8 DEF LockInv, Ownership, OwnedIsLocked, Owning
    <3>2. \A u \in Ticks : Running(u)' =>
            IF Exists(Due(u).id)' THEN lock'[Due(u)'.id].user
                                  ELSE ticks'[u].at = "unlock"
      BY <1>1, <1>2, <1>3, <1>4, <1>6, <1>9
      DEF LockInv, Ownership, OwnedIsLocked, Running
    <3> QED BY <3>1, <3>2 DEF OwnedIsLocked
  <2>4. SettlingIsGone'
    BY <1>1, <1>2, <1>6, <1>7 DEF LockInv, Ownership, SettlingIsGone
  <2>5. OneOwner'
    BY <1>1, <1>6, <1>8, <1>9 DEF LockInv, Ownership, OneOwner
  <2> QED BY <2>1, <2>2, <2>3, <2>4, <2>5 DEF Ownership
<1>11. TickCountsNothing(t) /\ TickTurnsOver(t)
  BY <1>1, <1>2, <1>7, NothingHappensToRows DEF TickCountsNothing, TickTurnsOver
<1> QED BY <1>1, <1>2, <1>5, <1>10, <1>11 DEF LockInv

-----------------------------------------------------------------------------
(***************************************************************************)
(* The lock of a group.                                                    *)
(***************************************************************************)
LEMMA LocksBegin == Init => LockInv
<1> SUFFICES ASSUME Init PROVE LockInv
  OBVIOUS
<1>1. TypeOK
  <2>1. Free \in [user : BOOLEAN, admin : BOOLEAN]
    BY DEF Free
  <2>2. consumed \in [number : 0..MaxNumber, duration : Int]
    <3>1. 0 \in 0..MaxNumber /\ 0 \in Int
      BY QuotasAreNumbers
    <3> QED BY <3>1 DEF Init
  <2>3. lock \in [Groups -> [user : BOOLEAN, admin : BOOLEAN]]
    BY <2>1 DEF Init
  <2> QED BY <2>2, <2>3 DEF Init, TypeOK
<1> USE DEF Init, Exists, Serving, Scheduling, Owning, Running
<1>2. DecisionsFit
  BY DEF DecisionsFit
<1>3. Ownership
  BY DEF Ownership, RowsAreNamed, CreationIsAlone, OwnedIsLocked,
         SettlingIsGone, OneOwner
<1> QED BY <1>1, <1>2, <1>3 DEF LockInv

\* Time passes, or nothing happens.
LEMMA WaitingLocks ==
    ASSUME LockInv, UNCHANGED <<groups, lock, deviceLock, originLock, consumed, requests, ticks,
                     scenario>>,
           now' \in Nat
    PROVE  LockInv'
<1>1. TypeOK'
  BY DEF LockInv, TypeOK
<1>2. DecisionsFit'
  BY TicksWait DEF LockInv
<1>3. Ownership'
  <2>1. \A t : Due(t)' = Due(t) /\ GroupsOf(t)' = GroupsOf(t) /\ Running(t)' = Running(t)
    BY DEF Due, GroupsOf, Running
  <2>2. \A s \in Requests : Owning(s)' <=> Owning(s)
    BY DEF Owning
  <2> USE DEF LockInv, Ownership, Exists, Serving, Scheduling
  <2>3. RowsAreNamed'
    BY DEF RowsAreNamed
  <2>4. CreationIsAlone'
    BY <2>1 DEF CreationIsAlone
  <2>5. OwnedIsLocked'
    BY <2>1, <2>2 DEF OwnedIsLocked
  <2>6. SettlingIsGone'
    BY <2>1 DEF SettlingIsGone
  <2>7. OneOwner'
    BY <2>1, <2>2 DEF OneOwner
  <2> QED BY <2>3, <2>4, <2>5, <2>6, <2>7
<1> QED BY <1>1, <1>2, <1>3 DEF LockInv

LEMMA LocksGoOn == LockInv /\ [Next]_vars => LockInv'
<1> SUFFICES ASSUME LockInv, [Next]_vars PROVE LockInv'
  OBVIOUS
<1>1. ASSUME NEW r \in Requests, Ask(r) PROVE LockInv'
  BY <1>1, AskLocks
<1>2. ASSUME NEW r \in Requests, Serve(r) PROVE LockInv'
  BY <1>2, InsertLocks, LockDeviceLocks, LockOriginLocks, CheckLocks, ChargeLocks,
     WriteLocks, UnlockLocks, DeleteRowLocks, SettleLocks DEF Serve
<1>3. ASSUME NEW t \in Ticks, Schedule(t) PROVE LockInv'
  BY <1>3, ReadLocks, AdminLockLocks, AdminLockSkippedLocks, AdminLockRefusedLocks,
     UpdateDatesLocks, UpdateQuotaLocks, DeleteOverLocks, SettleOverLocks,
     AdminUnlockLocks DEF Schedule
<1>4. CASE Time
  <2>1. now' \in Nat
    BY <1>4 DEF Time, LockInv, TypeOK
  <2> QED BY <1>4, <2>1, WaitingLocks DEF Time, rows, devices
<1>5. CASE UNCHANGED vars
  <2>1. now' \in Nat
    BY <1>5 DEF vars, LockInv, TypeOK
  <2> QED BY <1>5, <2>1, WaitingLocks DEF vars
<1> QED BY <1>1, <1>2, <1>3, <1>4, <1>5 DEF Next

\* The inductive invariant of the locks: types, and who has the lock of which
\* row.
THEOREM LocksHold == Spec => []LockInv
BY LocksBegin, LocksGoOn, PTL DEF Spec

\* Every variable keeps its type: the rows of the database, what every request
\* and every tick carries, and the owner's quotas, which stay within the number
\* that is allocated.
THEOREM TypeCorrect == Spec => []TypeOK
<1>1. LockInv => TypeOK
  BY DEF LockInv
<1> QED BY <1>1, LocksHold, PTL

\* One request or tick at most has the lock of a group (lockGroupByOwner,
\* adminLockGroup, unlockGroup and adminUnlockGroup of db/api.ts together make
\* up one lock), with any number of requests and of ticks that overlap.
THEOREM LockHasOneHolder == Spec => []OneHolder
<1>1. ASSUME LockInv PROVE OneHolder
  <2> SUFFICES ASSUME NEW g \in Groups PROVE Cardinality(Holders(g)) <= 1
    BY DEF OneHolder
  <2>1. \A x, y \in Holders(g) : x = y
    <3> DEFINE R == {r \in Serving : requests[r].group.id = g /\ requests[r].at \in Locked}
               T == {t \in Scheduling : Due(t).id = g /\ ticks[t].at \in {"write", "charge"}}
    <3>1. Holders(g) = R \cup T
      BY DEF Holders
    <3>2. \A r \in R : r \in Requests /\ Owning(r) /\ requests[r].group.id = g
      BY DEF Owning, Serving
    <3>3. \A t \in T : t \in Ticks /\ Running(t) /\ Due(t).id = g /\ Exists(Due(t).id)
      BY <1>1 DEF LockInv, Ownership, OwnedIsLocked, Running, Scheduling
    <3> HIDE DEF R, T
    <3> QED BY <1>1, <3>1, <3>2, <3>3 DEF LockInv, Ownership, OneOwner
  <2>2. CASE Holders(g) = {}
    BY <2>2, FS_EmptySet
  <2>3. CASE Holders(g) # {}
    <3>1. PICK x : Holders(g) = {x}
      BY <2>1, <2>3
    <3> QED BY <3>1, FS_Singleton
  <2> QED BY <2>2, <2>3
<1> QED BY <1>1, LocksHold, PTL

-----------------------------------------------------------------------------
(***************************************************************************)
(* The number of groups that the owner is charged for.                     *)
(***************************************************************************)
\* A group that is to come, or is gone but not settled, counts as well.
RequestCounts(r, g) ==
    /\ requests[r] # None /\ requests[r].at \in {"insert", "settle"}
    /\ requests[r].group.id = g
TickCounts(t, g) == ticks[t] # None /\ ticks[t].at = "settle" /\ Due(t).id = g

Counted ==
    {g \in Groups : \/ Exists(g)
                    \/ \E r \in Requests : RequestCounts(r, g)
                    \/ \E t \in Ticks : TickCounts(t, g)}

\* Each counts for one reason.
CountedOnce ==
    \A g \in Groups :
        /\ \A q, r \in Requests : RequestCounts(q, g) /\ RequestCounts(r, g) => q = r
        /\ \A r \in Requests, t \in Ticks : ~(RequestCounts(r, g) /\ TickCounts(t, g))
        /\ \A t, u \in Ticks : TickCounts(t, g) /\ TickCounts(u, g) => t = u

CountInv == CountedOnce /\ consumed.number = Cardinality(Counted)

LEMMA CountsStay ==
    ASSUME CountInv, consumed'.number = consumed.number,
           \A g \in Groups : Exists(g)' <=> Exists(g),
           \A r \in Requests, g \in Groups : RequestCounts(r, g)' <=> RequestCounts(r, g),
           \A t \in Ticks, g \in Groups : TickCounts(t, g)' <=> TickCounts(t, g)
    PROVE  CountInv'
<1>1. Counted' = Counted
  BY DEF Counted
<1>2. CountedOnce'
  BY DEF CountInv, CountedOnce
<1> QED BY <1>1, <1>2 DEF CountInv

LEMMA RequestCountsNothing ==
    ASSUME CountInv, NEW r \in Requests, CountsNothing(r)
    PROVE  CountInv'
<1>1. \A s \in Requests, g \in Groups : RequestCounts(s, g)' <=> RequestCounts(s, g)
  BY DEF CountsNothing, RequestCounts
<1>2. \A t \in Ticks, g \in Groups : TickCounts(t, g)' <=> TickCounts(t, g)
  BY DEF CountsNothing, TickCounts, Due
<1>3. \A g \in Groups : Exists(g)' <=> Exists(g)
  BY DEF CountsNothing, SameRows
<1> QED BY <1>1, <1>2, <1>3, CountsStay DEF CountsNothing

LEMMA TickCountsNothingNew ==
    ASSUME CountInv, NEW t \in Ticks, TickCountsNothing(t)
    PROVE  CountInv'
<1>1. \A s \in Requests, g \in Groups : RequestCounts(s, g)' <=> RequestCounts(s, g)
  BY DEF TickCountsNothing, RequestCounts
<1>2. \A u \in Ticks, g \in Groups : TickCounts(u, g)' <=> TickCounts(u, g)
  BY DEF TickCountsNothing, TickCounts, Due
<1>3. \A g \in Groups : Exists(g)' <=> Exists(g)
  BY DEF TickCountsNothing, SameRows
<1> QED BY <1>1, <1>2, <1>3, CountsStay DEF TickCountsNothing

\* What is created counts from when its instance is reserved.
LEMMA CreateGroupCounts ==
    ASSUME LockInv, CountInv, NEW r \in Requests, NEW g \in Groups,
           NEW state \in States, NEW dates \in Schedules, CreateGroup(r, g, state, dates)
    PROVE  CountInv'
<1> DEFINE q == [op |-> "create", at |-> "insert", group |-> Row(g, state, dates)]
<1>1. /\ requests' = [requests EXCEPT ![r] = q] /\ UNCHANGED <<groups, ticks>>
      /\ ~Exists(g) /\ \A s \in Serving : requests[s].group.id # g
      /\ \A t \in Scheduling : g \notin GroupsOf(t)
      /\ consumed' = [consumed EXCEPT !.number = @ + 1] /\ requests[r] = None
  BY DEF CreateGroup, rows
<1>2. q.at = "insert" /\ q.group.id = g /\ q \in Served /\ q # None
  BY RowIsTyped, NoneIsNothing DEF Served, Creations
<1> HIDE DEF q
<1>3. /\ requests'[r] = q /\ \A s \in Requests : s # r => requests'[s] = requests[s]
  BY <1>1, <1>2, RequestGoes DEF LockInv
<1>4. \A s \in Requests, h \in Groups :
          RequestCounts(s, h)' <=> (s = r /\ h = g) \/ RequestCounts(s, h)
  BY <1>1, <1>2, <1>3 DEF RequestCounts
<1>5. \A t \in Ticks, h \in Groups : TickCounts(t, h)' <=> TickCounts(t, h)
  BY <1>1 DEF TickCounts, Due
<1>6. \A h \in Groups : Exists(h)' <=> Exists(h)
  BY <1>1 DEF Exists
<1>7. /\ \A s \in Requests : ~RequestCounts(s, g)
      /\ \A t \in Ticks : ~TickCounts(t, g)
  BY <1>1, Listed DEF RequestCounts, TickCounts, Serving, Scheduling, LockInv
<1>8. g \notin Counted /\ Counted' = Counted \cup {g}
  BY <1>1, <1>4, <1>5, <1>6, <1>7 DEF Counted
<1>9. CountedOnce'
  BY <1>4, <1>5, <1>7 DEF CountInv, CountedOnce
<1>10. IsFiniteSet(Counted)
  BY DatabaseIsFinite, FS_Subset DEF Counted
<1>11. Cardinality(Counted \cup {g}) = Cardinality(Counted) + 1
  BY <1>8, <1>10, FS_AddElement
<1>12. consumed'.number = consumed.number + 1
  BY <1>1 DEF LockInv, TypeOK
<1> QED BY <1>8, <1>9, <1>11, <1>12 DEF CountInv

LEMMA InsertCounts ==
    ASSUME LockInv, CountInv, NEW r \in Requests, Insert(r)
    PROVE  CountInv'
<1> DEFINE g == requests[r].group.id
<1>1. /\ requests' = [requests EXCEPT ![r] = None] /\ UNCHANGED <<ticks, consumed>>
      /\ groups' = [groups EXCEPT ![g] = requests[r].group]
      /\ requests[r] # None /\ requests[r].at = "insert"
  BY DEF Insert, Done, At
<1>2. requests[r].group \in GroupRows /\ g \in Groups /\ requests[r].group # None
  BY <1>1, Known, NoneIsNothing DEF LockInv, Serving
<1> HIDE DEF g
<1>3. /\ requests'[r] = None /\ \A s \in Requests : s # r => requests'[s] = requests[s]
      /\ \A h \in Groups : Exists(h)' <=> h = g \/ Exists(h)
  BY <1>1, <1>2 DEF LockInv, TypeOK, Exists
<1>4. \A s \in Requests, h \in Groups :
          RequestCounts(s, h)' <=> s # r /\ RequestCounts(s, h)
  BY <1>3 DEF RequestCounts
<1>5. \A t \in Ticks, h \in Groups : TickCounts(t, h)' <=> TickCounts(t, h)
  BY <1>1 DEF TickCounts, Due
<1>6. \A h \in Groups : RequestCounts(r, h) <=> h = g
  BY <1>1 DEF RequestCounts, g
<1>7. Counted' = Counted
  BY <1>2, <1>3, <1>4, <1>5, <1>6 DEF Counted
<1>8. CountedOnce'
  BY <1>4, <1>5 DEF CountInv, CountedOnce
<1> QED BY <1>1, <1>7, <1>8 DEF CountInv

\* What is deleted counts until it is settled.
LEMMA DeleteRowCounts ==
    ASSUME LockInv, CountInv, NEW r \in Requests, DeleteRow(r)
    PROVE  CountInv'
<1> DEFINE g == requests[r].group.id
<1>1. /\ requests[r] # None /\ requests[r].at = "delete" /\ g \in Groups
      /\ requests'[r] # None /\ requests'[r].at = "settle"
      /\ requests'[r].group.id = g
      /\ Exists(g) /\ groups'[g] = None
      /\ \A h \in Groups : h # g => groups'[h] = groups[h]
      /\ \A s \in Requests : s # r => requests'[s] = requests[s]
      /\ UNCHANGED <<ticks, consumed>>
  BY DeleteRowLocks
<1>2. \A h \in Groups : Exists(h)' <=> h # g /\ Exists(h)
  BY <1>1 DEF Exists
<1>3. /\ \A s \in Requests : ~RequestCounts(s, g)
      /\ \A t \in Ticks : ~TickCounts(t, g)
  BY <1>1 DEF LockInv, Ownership, CreationIsAlone, SettlingIsGone, RequestCounts,
              TickCounts, Serving, Scheduling
<1> HIDE DEF g
<1>4. \A s \in Requests, h \in Groups :
          RequestCounts(s, h)' <=> (s = r /\ h = g) \/ RequestCounts(s, h)
  BY <1>1 DEF RequestCounts
<1>5. \A t \in Ticks, h \in Groups : TickCounts(t, h)' <=> TickCounts(t, h)
  BY <1>1 DEF TickCounts, Due
<1>6. Counted' = Counted
  BY <1>1, <1>2, <1>4, <1>5 DEF Counted
<1>7. CountedOnce'
  BY <1>3, <1>4, <1>5 DEF CountInv, CountedOnce
<1> QED BY <1>1, <1>6, <1>7 DEF CountInv

LEMMA DeleteOverCounts ==
    ASSUME LockInv, CountInv, NEW t \in Ticks, DeleteOver(t)
    PROVE  CountInv'
<1> DEFINE g == Due(t).id
<1>1. /\ ticks[t] # None /\ ticks[t].at = "write" /\ g \in Groups
      /\ ticks'[t] # None /\ ticks'[t].at = "settle" /\ Due(t)'.id = g
      /\ Exists(g) /\ groups'[g] = None
      /\ \A h \in Groups : h # g => groups'[h] = groups[h]
      /\ \A u \in Ticks : u # t => ticks'[u] = ticks[u]
      /\ UNCHANGED <<requests, consumed>>
  BY DeleteOverLocks
<1>2. \A h \in Groups : Exists(h)' <=> h # g /\ Exists(h)
  BY <1>1 DEF Exists
<1>3. /\ \A s \in Requests : ~RequestCounts(s, g)
      /\ \A u \in Ticks : ~TickCounts(u, g)
  BY <1>1 DEF LockInv, Ownership, CreationIsAlone, SettlingIsGone, RequestCounts,
              TickCounts, Serving, Scheduling
<1>4. \A u \in Ticks : u # t => Due(u)' = Due(u)
  BY <1>1 DEF Due
<1> HIDE DEF g
<1>5. \A u \in Ticks, h \in Groups :
          TickCounts(u, h)' <=> (u = t /\ h = g) \/ TickCounts(u, h)
  BY <1>1, <1>4 DEF TickCounts
<1>6. \A s \in Requests, h \in Groups : RequestCounts(s, h)' <=> RequestCounts(s, h)
  BY <1>1 DEF RequestCounts
<1>7. Counted' = Counted
  BY <1>1, <1>2, <1>5, <1>6 DEF Counted
<1>8. CountedOnce'
  BY <1>3, <1>5, <1>6 DEF CountInv, CountedOnce
<1> QED BY <1>1, <1>7, <1>8 DEF CountInv

LEMMA OneLess ==
    ASSUME LockInv, CountInv, NEW g \in Counted,
           consumed.number >= 1 => consumed'.number = consumed.number - 1,
           Counted' = Counted \ {g}, CountedOnce'
    PROVE  CountInv'
<1>1. IsFiniteSet(Counted)
  BY DatabaseIsFinite, FS_Subset DEF Counted
<1>2. Cardinality(Counted \ {g}) = Cardinality(Counted) - 1
  BY <1>1, FS_RemoveElement
<1>3. Cardinality(Counted) \in Nat /\ Cardinality(Counted) # 0
  BY <1>1, FS_CardinalityType, FS_EmptySet
<1> QED BY <1>2, <1>3 DEF CountInv

LEMMA SettleCounts ==
    ASSUME LockInv, CountInv, NEW r \in Requests, Settle(r)
    PROVE  CountInv'
<1> DEFINE g == requests[r].group.id
<1>1. /\ consumed.number >= 1 => consumed'.number = consumed.number - 1
      /\ requests[r] # None /\ requests[r].at = "settle" /\ requests'[r] = None
      /\ \A s \in Requests : s # r => requests'[s] = requests[s]
      /\ UNCHANGED <<groups, ticks>>
  BY SettleLocks
<1>2. g \in Groups /\ ~Exists(g)
  BY <1>1, Known DEF LockInv, Ownership, SettlingIsGone, Serving
<1>3. \A h \in Groups : RequestCounts(r, h) <=> h = g
  BY <1>1 DEF RequestCounts
<1> HIDE DEF g
<1>4. \A s \in Requests, h \in Groups :
          RequestCounts(s, h)' <=> s # r /\ RequestCounts(s, h)
  BY <1>1 DEF RequestCounts
<1>5. \A t \in Ticks, h \in Groups : TickCounts(t, h)' <=> TickCounts(t, h)
  BY <1>1 DEF TickCounts, Due
<1>6. \A h \in Groups : Exists(h)' <=> Exists(h)
  BY <1>1 DEF Exists
<1>7. /\ \A s \in Requests : s # r => ~RequestCounts(s, g)
      /\ \A t \in Ticks : ~TickCounts(t, g)
  BY <1>2, <1>3 DEF CountInv, CountedOnce
<1>8. g \in Counted /\ Counted' = Counted \ {g}
  BY <1>2, <1>3, <1>4, <1>5, <1>6, <1>7 DEF Counted
<1>9. CountedOnce'
  BY <1>4, <1>5 DEF CountInv, CountedOnce
<1> QED BY <1>1, <1>8, <1>9, OneLess

LEMMA SettleOverCounts ==
    ASSUME LockInv, CountInv, NEW t \in Ticks, SettleOver(t)
    PROVE  CountInv'
<1> DEFINE g == Due(t).id
<1>1. /\ consumed.number >= 1 => consumed'.number = consumed.number - 1
      /\ ticks[t] # None /\ ticks[t].at = "settle" /\ ticks'[t].at # "settle"
      /\ \A u \in Ticks : u # t => ticks'[u] = ticks[u]
      /\ UNCHANGED <<groups, requests>>
  BY SettleOverLocks DEF TickStays
<1>2. g \in Groups /\ ~Exists(g)
  BY <1>1, Listed DEF LockInv, Ownership, SettlingIsGone, Scheduling
<1>3. \A h \in Groups : TickCounts(t, h) <=> h = g
  BY <1>1 DEF TickCounts
<1>4. \A u \in Ticks : u # t => Due(u)' = Due(u)
  BY <1>1 DEF Due
<1> HIDE DEF g
<1>5. \A u \in Ticks, h \in Groups : TickCounts(u, h)' <=> u # t /\ TickCounts(u, h)
  BY <1>1, <1>4 DEF TickCounts
<1>6. \A s \in Requests, h \in Groups : RequestCounts(s, h)' <=> RequestCounts(s, h)
  BY <1>1 DEF RequestCounts
<1>7. \A h \in Groups : Exists(h)' <=> Exists(h)
  BY <1>1 DEF Exists
<1>8. /\ \A u \in Ticks : u # t => ~TickCounts(u, g)
      /\ \A s \in Requests : ~RequestCounts(s, g)
  BY <1>2, <1>3 DEF CountInv, CountedOnce
<1>9. g \in Counted /\ Counted' = Counted \ {g}
  BY <1>2, <1>3, <1>5, <1>6, <1>7, <1>8 DEF Counted
<1>10. CountedOnce'
  BY <1>5, <1>6 DEF CountInv, CountedOnce
<1> QED BY <1>1, <1>9, <1>10, OneLess

LEMMA LockCounts ==
    ASSUME LockInv, CountInv, NEW r \in Requests, NEW g \in Groups, NEW op,
           NEW q \in Served, q.at \in Locked, Lock(r, g, op, q)
    PROVE  CountInv'
<1>1. /\ requests' = [requests EXCEPT ![r] = q] /\ UNCHANGED <<groups, ticks, consumed>>
      /\ requests[r] = None /\ UNCHANGED scenario
  BY DEF Lock, timing
<1>2. q.at \notin {"insert", "settle"}
  BY DEF Locked
<1>3. requests'[r] = q /\ \A s \in Requests : s # r => requests'[s] = requests[s]
  BY <1>1, RequestGoes DEF LockInv
<1>4. CountsNothing(r)
  BY <1>1, <1>2, <1>3, NothingHappensToRows DEF CountsNothing
<1> QED BY <1>4, RequestCountsNothing

LEMMA CountsBegin == Init => CountInv
<1> SUFFICES ASSUME Init PROVE CountInv
  OBVIOUS
<1>1. /\ \A r \in Requests, g \in Groups : ~RequestCounts(r, g)
      /\ \A t \in Ticks, g \in Groups : ~TickCounts(t, g)
      /\ \A g \in Groups : ~Exists(g)
  BY DEF Init, RequestCounts, TickCounts, Exists
<1>2. Counted = {}
  BY <1>1 DEF Counted
<1>3. consumed.number = 0
  BY DEF Init
<1>4. CountedOnce
  BY <1>1 DEF CountedOnce
<1> QED BY <1>2, <1>3, <1>4, FS_EmptySet DEF CountInv

LEMMA CountsGoOn == LockInv /\ CountInv /\ [Next]_vars => CountInv'
<1> SUFFICES ASSUME LockInv, CountInv, [Next]_vars PROVE CountInv'
  OBVIOUS
<1>1. ASSUME NEW r \in Requests, Ask(r) PROVE CountInv'
  <2>1. CASE \E g \in Groups, state \in States, dates \in Schedules :
                 CreateGroup(r, g, state, dates)
    BY <2>1, CreateGroupCounts
  <2>2. CASE LocksSome(r)
    BY <2>2, LockCounts DEF LocksSome
  <2> QED BY <1>1, <2>1, <2>2, AskBegins DEF LockInv
<1>2. ASSUME NEW r \in Requests, Serve(r) PROVE CountInv'
  <2>1. CASE Insert(r)
    BY <2>1, InsertCounts
  <2>2. CASE DeleteRow(r)
    BY <2>2, DeleteRowCounts
  <2>3. CASE Settle(r)
    BY <2>3, SettleCounts
  <2>4. CASE \/ LockDevice(r) \/ LockOrigin(r) \/ Check(r) \/ Charge(r)
             \/ Write(r) \/ Unlock(r)
    BY <2>4, LockDeviceLocks, LockOriginLocks, CheckLocks, ChargeLocks, WriteLocks,
       UnlockLocks, RequestCountsNothing
  <2> QED BY <1>2, <2>1, <2>2, <2>3, <2>4 DEF Serve
<1>3. ASSUME NEW t \in Ticks, Schedule(t) PROVE CountInv'
  <2>1. CASE DeleteOver(t)
    BY <2>1, DeleteOverCounts
  <2>2. CASE SettleOver(t)
    BY <2>2, SettleOverCounts
  <2>3. CASE \/ Read(t) \/ AdminLock(t) \/ AdminLockSkipped(t) \/ AdminLockRefused(t)
             \/ UpdateDates(t) \/ UpdateQuota(t) \/ AdminUnlock(t)
    BY <2>3, ReadLocks, AdminLockLocks, AdminLockSkippedLocks, AdminLockRefusedLocks,
       UpdateDatesLocks, UpdateQuotaLocks, AdminUnlockLocks, TickCountsNothingNew
  <2> QED BY <1>3, <2>1, <2>2, <2>3 DEF Schedule
<1>4. CASE UNCHANGED <<groups, consumed, requests, ticks>>
  <2>1. /\ \A r \in Requests, g \in Groups : RequestCounts(r, g)' <=> RequestCounts(r, g)
        /\ \A t \in Ticks, g \in Groups : TickCounts(t, g)' <=> TickCounts(t, g)
        /\ \A g \in Groups : Exists(g)' <=> Exists(g)
    BY <1>4 DEF RequestCounts, TickCounts, Due, Exists
  <2> QED BY <1>4, <2>1, CountsStay
<1>5. CASE Time \/ UNCHANGED vars
  BY <1>4, <1>5 DEF Time, vars, rows
<1> QED BY <1>1, <1>2, <1>3, <1>5 DEF Next

\* What is charged is what there is, what is being created and what has been
\* deleted but not settled yet, each for one reason.
THEOREM CountsHold == Spec => [](LockInv /\ CountInv)
<1>1. Init => LockInv /\ CountInv
  BY LocksBegin, CountsBegin
<1>2. LockInv /\ CountInv /\ [Next]_vars => (LockInv /\ CountInv)'
  BY LocksGoOn, CountsGoOn
<1> QED BY <1>1, <1>2, PTL DEF Spec

\* Once nothing is under way, the owner is charged for exactly the groups there
\* are: reserveUserGroupInstance and deleteUserGroup of db/api.ts count every
\* group once, whichever requests and ticks delete it at the same time.
THEOREM NumberOfGroupsIsExact == Spec => []NumberIsExact
<1>1. ASSUME LockInv, CountInv PROVE NumberIsExact
  <2> SUFFICES ASSUME Busy = {} PROVE consumed.number = Cardinality(Rows)
    BY DEF NumberIsExact
  <2> DEFINE H == {h \in Groups : Exists(h)}
             f == [h \in H |-> groups[h]]
  <2>1. Serving = {} /\ Scheduling = {}
    BY DEF Busy
  <2>2. Counted = H
    BY <2>1 DEF Counted, RequestCounts, TickCounts, Serving, Scheduling
  <2>3. IsFiniteSet(H)
    BY DatabaseIsFinite, FS_Subset
  <2>4. f \in Surjection(H, Rows) /\ f \in Injection(H, Rows)
    <3>1. f \in [H -> Rows] /\ \A x \in Rows : \E h \in H : f[h] = x
      BY DEF Rows
    <3>2. \A a, b \in H : f[a] = f[b] => a = b
      BY <1>1 DEF LockInv, Ownership, RowsAreNamed
    <3> HIDE DEF f, H
    <3>3. \A a, b \in DOMAIN f : f[a] = f[b] => a = b
      BY <3>1, <3>2
    <3> QED BY <3>1, <3>3 DEF Surjection, Injection, IsInjective
  <2>5. Cardinality(Rows) = Cardinality(H)
    <3> HIDE DEF f, H
    <3> QED BY <2>3, <2>4, FS_Surjection
  <2> QED BY <1>1, <2>2, <2>5 DEF CountInv
<1> QED BY <1>1, CountsHold, PTL

-----------------------------------------------------------------------------
(***************************************************************************)
(* No double booking.                                                      *)
(***************************************************************************)
\* Schedules are compared date by date: one within another overlaps with less.
LEMMA Multiples ==
    ASSUME NEW a \in Int, NEW b \in Int
    PROVE  a * Period \in Int /\ (a + b) * Period = a * Period + b * Period
<1>1. Period \in Int
  BY PeriodIsPositive
<1>2. \A c \in Int : a * c \in Int /\ (a + b) * c = a * c + b * c
  OBVIOUS
<1> QED BY <1>1, <1>2

LEMMA DatesAreIntegers ==
    ASSUME NEW s \in Dates, NEW i \in 1..s.times
    PROVE  /\ Start(s, i) \in Int /\ Stop(s, i) \in Int /\ s.length \in Int
           /\ Start(s, i) = s.start + (i - 1) * Period
           /\ (i - 1) * Period \in Int
           /\ Stop(s, i) = Start(s, i) + s.length
<1>1. s.start \in Int /\ s.length \in Int /\ i - 1 \in Int
  BY PeriodIsPositive, DatesAreNumbers DEF Dates
<1>2. (i - 1) * Period \in Int
  BY <1>1, Multiples
<1> QED BY <1>1, <1>2 DEF Start, Stop

\* Every date of the one is within a date of the other.
Within(s, t) ==
    \A i \in 1..s.times : \E j \in 1..t.times :
        Start(t, j) <= Start(s, i) /\ Stop(s, i) <= Stop(t, j)

LEMMA WithinOverlapsLess ==
    ASSUME NEW s \in Dates, NEW t \in Dates, NEW u \in Dates, Within(s, t)
    PROVE  /\ Overlap(s, u) => Overlap(t, u)
           /\ Overlap(u, s) => Overlap(u, t)
<1>1. ASSUME NEW i \in 1..s.times, NEW k \in 1..u.times
      PROVE  /\ Start(s, i) \in Int /\ Stop(s, i) \in Int
             /\ Start(u, k) \in Int /\ Stop(u, k) \in Int
             /\ \E j \in 1..t.times : /\ Start(t, j) <= Start(s, i)
                                      /\ Stop(s, i) <= Stop(t, j)
                                      /\ Start(t, j) \in Int /\ Stop(t, j) \in Int
  BY DatesAreIntegers DEF Within
<1>2. ASSUME Overlap(s, u) PROVE Overlap(t, u)
  <2>1. PICK i \in 1..s.times, k \in 1..u.times :
            Start(s, i) < Stop(u, k) /\ Stop(s, i) > Start(u, k)
    BY <1>2 DEF Overlap
  <2>2. PICK j \in 1..t.times : /\ Start(t, j) <= Start(s, i)
                                /\ Stop(s, i) <= Stop(t, j)
                                /\ Start(t, j) \in Int /\ Stop(t, j) \in Int
    BY <1>1
  <2>3. Start(t, j) < Stop(u, k) /\ Stop(t, j) > Start(u, k)
    BY <1>1, <2>1, <2>2
  <2> QED BY <2>3 DEF Overlap
<1>3. ASSUME Overlap(u, s) PROVE Overlap(u, t)
  <2>1. PICK k \in 1..u.times, i \in 1..s.times :
            Start(u, k) < Stop(s, i) /\ Stop(u, k) > Start(s, i)
    BY <1>3 DEF Overlap
  <2>2. PICK j \in 1..t.times : /\ Start(t, j) <= Start(s, i)
                                /\ Stop(s, i) <= Stop(t, j)
                                /\ Start(t, j) \in Int /\ Stop(t, j) \in Int
    BY <1>1
  <2>3. Start(u, k) < Stop(t, j) /\ Stop(u, k) > Start(t, j)
    BY <1>1, <2>1, <2>2
  <2> QED BY <2>3 DEF Overlap
<1> QED BY <1>2, <1>3

LEMMA OverlapIsMutual ==
    ASSUME NEW s \in Dates, NEW t \in Dates, Overlap(s, t)
    PROVE  Overlap(t, s)
<1>1. PICK i \in 1..s.times, j \in 1..t.times :
          Start(s, i) < Stop(t, j) /\ Stop(s, i) > Start(t, j)
  BY DEF Overlap
<1>2. Start(t, j) < Stop(s, i) /\ Stop(t, j) > Start(s, i)
  BY <1>1, DatesAreIntegers
<1> QED BY <1>2 DEF Overlap

\* What a tick drops leaves dates that were there before.
LEMMA DroppedIsWithin ==
    ASSUME NEW g \in GroupRows, NEW drop \in Nat, drop < g.dates.times
    PROVE  Within(Dropped(g, drop), g.dates)
<1> DEFINE s == g.dates
           d == Dropped(g, drop)
<1>1. s \in Dates /\ d \in Dates
  BY DroppedIsTyped DEF GroupRows
<1>2. /\ d.start = s.start + drop * Period /\ d.times = s.times - drop
      /\ d.length = s.length /\ s.start \in Int /\ s.times \in Int /\ s.length \in Int
  BY <1>1, DatesAreNumbers, PeriodIsPositive DEF Dropped, Dates
<1> HIDE DEF s, d
<1>3. ASSUME NEW i \in 1..d.times
      PROVE  /\ i + drop \in 1..s.times
             /\ Start(s, i + drop) = Start(d, i) /\ Stop(s, i + drop) = Stop(d, i)
             /\ Start(d, i) \in Int /\ Stop(d, i) \in Int
  <2>1. i + drop \in 1..s.times /\ i \in Int /\ i - 1 \in Int /\ drop \in Int
    BY <1>2
  <2>2. ((i - 1) + drop) * Period = (i - 1) * Period + drop * Period
    BY <2>1, Multiples
  <2>3. (i + drop) - 1 = (i - 1) + drop
    BY <2>1
  <2>4. (i - 1) * Period \in Int /\ drop * Period \in Int
    BY <2>1, Multiples
  <2>5. /\ Start(d, i) = d.start + (i - 1) * Period
        /\ Start(s, i + drop) = s.start + ((i - 1) + drop) * Period
    BY <2>3 DEF Start
  <2>6. Start(s, i + drop) = Start(d, i) /\ Start(d, i) \in Int
    BY <1>2, <2>2, <2>4, <2>5
  <2>7. Stop(s, i + drop) = Stop(d, i) /\ Stop(d, i) \in Int
    BY <1>2, <2>6 DEF Stop
  <2> QED BY <2>1, <2>6, <2>7
<1>4. Within(d, s)
  <2> SUFFICES ASSUME NEW i \in 1..d.times
               PROVE  \E j \in 1..s.times :
                          Start(s, j) <= Start(d, i) /\ Stop(d, i) <= Stop(s, j)
    BY DEF Within
  <2>1. Start(s, i + drop) <= Start(d, i) /\ Stop(d, i) <= Stop(s, i + drop)
    BY <1>3
  <2> QED BY <1>3, <2>1
<1> QED BY <1>4 DEF s, d

\* updateGroup does not look for conflicts only if dates shrink.
LEMMA NotWidenedIsWithin ==
    ASSUME NEW old \in Dates, NEW new \in Dates, ~Widened(old, new)
    PROVE  Within(new, old)
<1>1. /\ new.start >= old.start /\ Stop(new, 1) <= Stop(old, 1) /\ new.times <= old.times
      /\ new.start \in Int /\ old.start \in Int /\ new.length \in Int /\ old.length \in Int
      /\ new.times \in 1..MaxTimes /\ old.times \in 1..MaxTimes
  <2>1. /\ new.start \in Int /\ old.start \in Int /\ new.length \in Int /\ old.length \in Int
        /\ new.times \in 1..MaxTimes /\ old.times \in 1..MaxTimes
    BY DatesAreNumbers, PeriodIsPositive DEF Dates
  <2>2. 1 \in 1..new.times /\ 1 \in 1..old.times
    BY <2>1, DatesAreNumbers
  <2>3. Stop(new, 1) \in Int /\ Stop(old, 1) \in Int
    BY <2>2, DatesAreIntegers
  <2> QED BY <2>1, <2>3, DatesAreNumbers DEF Widened
<1>2. new.start + new.length <= old.start + old.length
  <2>1. /\ Stop(new, 1) = new.start + (1 - 1) * Period + new.length
        /\ Stop(old, 1) = old.start + (1 - 1) * Period + old.length
    BY DEF Stop, Start
  <2>2. (1 - 1) * Period = 0
    BY PeriodIsPositive
  <2> QED BY <1>1, <2>1, <2>2
<1>3. ASSUME NEW i \in 1..new.times
      PROVE  i \in 1..old.times /\ Start(old, i) <= Start(new, i)
                                /\ Stop(new, i) <= Stop(old, i)
  <2>1. i \in 1..old.times
    BY <1>1, DatesAreNumbers
  <2>2. /\ Start(new, i) = new.start + (i - 1) * Period /\ (i - 1) * Period \in Int
        /\ Stop(new, i) = Start(new, i) + new.length
        /\ Start(old, i) = old.start + (i - 1) * Period
        /\ Stop(old, i) = Start(old, i) + old.length
    BY <2>1, DatesAreIntegers
  <2> DEFINE x == (i - 1) * Period
  <2> HIDE DEF x
  <2>3. /\ Start(new, i) = new.start + x /\ x \in Int
        /\ Stop(new, i) = new.start + x + new.length
        /\ Start(old, i) = old.start + x
        /\ Stop(old, i) = old.start + x + old.length
    BY <2>2 DEF x
  <2> QED BY <1>1, <1>2, <2>1, <2>3
<1> QED BY <1>3 DEF Within

\* A group that is being created has no devices yet.
NewIsEmpty ==
    \A r \in Requests : requests[r] # None /\ requests[r].at = "insert" =>
        requests[r].group.devices = {}

\* An operation that does not overlap with others is alone.
UpdateIsAlone ==
    \A r \in Requests : requests[r] # None /\ requests[r].op = "update" =>
        /\ \A q \in Requests : requests[q] # None => q = r
        /\ \A t \in Ticks : ticks[t] = None
OneTick == \A t, u \in Ticks : ticks[t] # None /\ ticks[u] # None => t = u

\* Schedules are changed one at a time.
Calm == "update" \in scenario /\ TicksFollowEachOther

AloneInv == NewIsEmpty /\ (Calm => UpdateIsAlone /\ OneTick)

\* A request or a tick goes on, or ends.
LEMMA AloneStays ==
    ASSUME AloneInv, UNCHANGED scenario,
           \A s \in Requests : requests'[s] # None =>
               /\ requests[s] # None /\ requests'[s].op = requests[s].op
               /\ requests'[s].at = "insert" => /\ requests[s].at = "insert"
                                                /\ requests'[s].group = requests[s].group,
           \A t \in Ticks : ticks'[t] # None => ticks[t] # None
    PROVE  AloneInv'
<1>1. NewIsEmpty'
  BY DEF AloneInv, NewIsEmpty
<1>2. Calm' => Calm
  BY DEF Calm, TicksFollowEachOther
<1>3. ASSUME UpdateIsAlone, OneTick PROVE UpdateIsAlone' /\ OneTick'
  BY <1>3 DEF UpdateIsAlone, OneTick
<1> QED BY <1>1, <1>2, <1>3 DEF AloneInv

\* What waits for others to end.
LEMMA OthersWait ==
    ASSUME Calm, NEW op, MayStart(op)
    PROVE  /\ op = "update" => /\ \A r \in Requests : requests[r] = None
                               /\ \A t \in Ticks : ticks[t] = None
           /\ op # "update" => \A r \in Requests : requests[r] # None =>
                                   requests[r].op # "update"
           /\ op = "tick" => \A t, u \in Ticks : ticks[t] # None => t = u \/ ticks[u] = None
<1>1. /\ \A r \in Requests : requests[r] # None => requests[r].op \in Busy
      /\ \A t \in Ticks : ticks[t] # None => "tick" \in Busy
  BY DEF Busy, Serving, Scheduling
<1>2. CASE op \in scenario
  BY <1>1, <1>2 DEF MayStart
<1>3. CASE op \notin scenario
  BY <1>1, <1>3 DEF MayStart, Calm, TicksFollowEachOther
<1> QED BY <1>2, <1>3

LEMMA CreateGroupAlone ==
    ASSUME LockInv, AloneInv, NEW r \in Requests, NEW g \in Groups,
           NEW state \in States, NEW dates \in Schedules, CreateGroup(r, g, state, dates)
    PROVE  AloneInv'
<1> DEFINE q == [op |-> "create", at |-> "insert", group |-> Row(g, state, dates)]
<1>1. /\ requests' = [requests EXCEPT ![r] = q] /\ UNCHANGED <<ticks, scenario>>
      /\ MayStart("create") /\ requests[r] = None
  BY DEF CreateGroup, timing
<1>2. q \in Served /\ q.op = "create" /\ q.group.devices = {}
  BY RowIsTyped DEF Served, Creations, Row
<1> HIDE DEF q
<1>3. requests'[r] = q /\ \A s \in Requests : s # r => requests'[s] = requests[s]
  BY <1>1, <1>2, RequestGoes DEF LockInv
<1>4. NewIsEmpty'
  BY <1>2, <1>3 DEF AloneInv, NewIsEmpty
<1>5. ASSUME Calm PROVE UpdateIsAlone' /\ OneTick'
  <2>1. \A s \in Requests : requests[s] # None => requests[s].op # "update"
    BY <1>1, <1>5, OthersWait
  <2>2. UpdateIsAlone'
    BY <1>2, <1>3, <2>1 DEF UpdateIsAlone
  <2> QED BY <1>1, <1>5, <2>2 DEF AloneInv, OneTick
<1>6. Calm' => Calm
  BY <1>1 DEF Calm, TicksFollowEachOther
<1> QED BY <1>4, <1>5, <1>6 DEF AloneInv

LEMMA LockAlone ==
    ASSUME LockInv, AloneInv, NEW r \in Requests, NEW g \in Groups, NEW op,
           NEW q \in Served, q.at \in Locked, q.op = op, Lock(r, g, op, q)
    PROVE  AloneInv'
<1>1. /\ requests' = [requests EXCEPT ![r] = q] /\ UNCHANGED <<ticks, scenario>>
      /\ MayStart(op) /\ requests[r] = None
  BY DEF Lock, timing
<1>2. q.at # "insert"
  BY DEF Locked
<1>3. requests'[r] = q /\ \A s \in Requests : s # r => requests'[s] = requests[s]
  BY <1>1, RequestGoes DEF LockInv
<1>4. NewIsEmpty'
  BY <1>2, <1>3 DEF AloneInv, NewIsEmpty
<1>5. ASSUME Calm PROVE UpdateIsAlone' /\ OneTick'
  <2>1. /\ op = "update" => /\ \A s \in Requests : requests[s] = None
                            /\ \A t \in Ticks : ticks[t] = None
        /\ op # "update" => \A s \in Requests : requests[s] # None =>
                                requests[s].op # "update"
    BY <1>1, <1>5, OthersWait
  <2>2. UpdateIsAlone'
    BY <1>1, <1>3, <2>1 DEF UpdateIsAlone
  <2> QED BY <1>1, <1>5, <2>2 DEF AloneInv, OneTick
<1>6. Calm' => Calm
  BY <1>1 DEF Calm, TicksFollowEachOther
<1> QED BY <1>4, <1>5, <1>6 DEF AloneInv

LEMMA ReadAlone ==
    ASSUME LockInv, AloneInv, NEW t \in Ticks, Read(t)
    PROVE  AloneInv'
<1>1. /\ UNCHANGED <<requests, scenario>> /\ MayStart("tick") /\ ticks[t] = None
      /\ \A u \in Ticks : u # t => ticks'[u] = ticks[u]
  BY ReadLocks DEF Read, timing, TickCountsNothing
<1>2. NewIsEmpty'
  BY <1>1 DEF AloneInv, NewIsEmpty
<1>3. ASSUME Calm PROVE UpdateIsAlone' /\ OneTick'
  <2>1. /\ \A r \in Requests : requests[r] # None => requests[r].op # "update"
        /\ \A u, v \in Ticks : ticks[u] # None => u = v \/ ticks[v] = None
    BY <1>1, <1>3, OthersWait
  <2>2. \A u \in Ticks : ticks[u] # None => u = t
    <3>1. CASE "tick" \in scenario
      <4>1. Busy = {}
        BY <1>1, <3>1 DEF MayStart
      <4> QED BY <4>1 DEF Busy, Scheduling
    <3>2. CASE "tick" \notin scenario
      BY <1>3, <3>2 DEF Calm, TicksFollowEachOther
    <3> QED BY <3>1, <3>2
  <2> QED BY <1>1, <2>1, <2>2 DEF UpdateIsAlone, OneTick
<1>4. Calm' => Calm
  BY <1>1 DEF Calm, TicksFollowEachOther
<1> QED BY <1>2, <1>3, <1>4 DEF AloneInv

LEMMA AloneGoesOn == LockInv /\ AloneInv /\ [Next]_vars => AloneInv'
<1> SUFFICES ASSUME LockInv, AloneInv, [Next]_vars PROVE AloneInv'
  OBVIOUS
<1>1. ASSUME NEW r \in Requests, Ask(r) PROVE AloneInv'
  <2>1. CASE \E g \in Groups, state \in States, dates \in Schedules :
                 CreateGroup(r, g, state, dates)
    BY <2>1, CreateGroupAlone
  <2>2. CASE LocksSome(r)
    BY <2>2, LockAlone DEF LocksSome
  <2> QED BY <1>1, <2>1, <2>2, AskBegins DEF LockInv
<1>2. ASSUME NEW r \in Requests, Serve(r) PROVE AloneInv'
  <2>1. ASSUME requests'[r] # None =>
                   /\ requests[r] # None /\ requests'[r].op = requests[r].op
                   /\ requests'[r].at # "insert",
               \A s \in Requests : s # r => requests'[s] = requests[s],
               UNCHANGED <<ticks, scenario>>
        PROVE  AloneInv'
    BY <2>1, AloneStays
  <2>2. CASE Insert(r)
    <3>1. requests' = [requests EXCEPT ![r] = None] /\ UNCHANGED <<ticks, scenario>>
      BY <2>2 DEF Insert, Done, timing
    <3>2. requests'[r] = None /\ \A s \in Requests : s # r => requests'[s] = requests[s]
      BY <3>1, RequestGoes DEF LockInv
    <3> QED BY <2>1, <3>1, <3>2
  <2>3. CASE DeleteRow(r)
    BY <2>1, <2>3, DeleteRowLocks
  <2>4. CASE Settle(r)
    BY <2>1, <2>4, SettleLocks
  <2>5. CASE Unlock(r)
    BY <2>1, <2>5, UnlockLocks DEF CountsNothing
  <2>6. CASE LockDevice(r) \/ LockOrigin(r) \/ Check(r) \/ Charge(r) \/ Write(r)
    <3>1. CountsNothing(r) /\ RequestStays(r)
      BY <2>6, LockDeviceLocks, LockOriginLocks, CheckLocks, ChargeLocks, WriteLocks
    <3> QED BY <2>1, <3>1 DEF CountsNothing, RequestStays
  <2> QED BY <1>2, <2>2, <2>3, <2>4, <2>5, <2>6 DEF Serve
<1>3. ASSUME NEW t \in Ticks, Schedule(t) PROVE AloneInv'
  <2>1. ASSUME ticks[t] # None, UNCHANGED <<requests, scenario>>,
               \A u \in Ticks : u # t => ticks'[u] = ticks[u]
        PROVE  AloneInv'
    BY <2>1, AloneStays
  <2>2. CASE Read(t)
    BY <2>2, ReadAlone
  <2>3. CASE DeleteOver(t)
    BY <2>1, <2>3, DeleteOverLocks
  <2>4. CASE SettleOver(t)
    BY <2>1, <2>4, SettleOverLocks DEF TickStays
  <2>5. CASE \/ AdminLock(t) \/ AdminLockSkipped(t) \/ AdminLockRefused(t)
             \/ UpdateDates(t) \/ UpdateQuota(t) \/ AdminUnlock(t)
    <3>1. TickCountsNothing(t) /\ (TickStays(t) \/ TickTurnsOver(t))
      BY <2>5, AdminLockLocks, AdminLockSkippedLocks, AdminLockRefusedLocks,
         UpdateDatesLocks, UpdateQuotaLocks, AdminUnlockLocks
    <3> QED BY <2>1, <3>1 DEF TickCountsNothing, TickStays, TickTurnsOver
  <2> QED BY <1>3, <2>2, <2>3, <2>4, <2>5 DEF Schedule
<1>4. CASE UNCHANGED <<requests, ticks, scenario>>
  BY <1>4, AloneStays
<1>5. CASE Time \/ UNCHANGED vars
  BY <1>4, <1>5 DEF Time, vars
<1> QED BY <1>1, <1>2, <1>3, <1>5 DEF Next

LEMMA AloneBegins == Init => AloneInv
BY DEF Init, AloneInv, NewIsEmpty, UpdateIsAlone, OneTick

\* The row that a request goes on with is the one there is.
Changing == {"lockDevice", "lockOrigin", "check", "charge", "write"}
RowIsKept ==
    \A r \in Requests : requests[r] # None /\ requests[r].at \in Changing =>
        LET g == requests[r].group
        IN  groups[g.id].devices = g.devices /\ groups[g.id].dates = g.dates

LEMMA ChangingOwns ==
    ASSUME LockInv, NEW r \in Requests, requests[r] # None, requests[r].at \in Changing
    PROVE  /\ Owning(r) /\ Exists(requests[r].group.id) /\ requests[r].group.id \in Groups
           /\ requests[r].group \in GroupRows /\ requests[r] \in Served
           /\ \A s \in Requests : Owning(s) /\ requests[s].group.id = requests[r].group.id
                                      => s = r
           /\ \A t \in Ticks : Running(t) => Due(t).id # requests[r].group.id
<1>1. Owning(r)
  BY DEF Owning, Changing, Locked
<1>2. requests[r].group.id \in Groups /\ requests[r].group \in GroupRows /\ requests[r] \in Served
  BY Known DEF LockInv, Serving
<1> QED BY <1>1, <1>2 DEF LockInv, Ownership, OwnedIsLocked, OneOwner

LEMMA RowsStayKept ==
    ASSUME RowIsKept,
           \A s \in Requests : requests'[s] # None /\ requests'[s].at \in Changing =>
               /\ requests[s] # None /\ requests[s].at \in Changing
               /\ requests'[s].group = requests[s].group
               /\ groups'[requests[s].group.id].devices = groups[requests[s].group.id].devices
               /\ groups'[requests[s].group.id].dates = groups[requests[s].group.id].dates
    PROVE  RowIsKept'
BY DEF RowIsKept

LEMMA KeptGoesOn == LockInv /\ AloneInv /\ RowIsKept /\ [Next]_vars => RowIsKept'
<1> SUFFICES ASSUME LockInv, AloneInv, RowIsKept, [Next]_vars PROVE RowIsKept'
  OBVIOUS
<1>1. ASSUME NEW r \in Requests, Ask(r) PROVE RowIsKept'
  <2>1. ASSUME NEW g \in Groups, NEW state \in States, NEW dates \in Schedules,
               CreateGroup(r, g, state, dates)
        PROVE  RowIsKept'
    <3> DEFINE q == [op |-> "create", at |-> "insert", group |-> Row(g, state, dates)]
    <3>1. requests' = [requests EXCEPT ![r] = q] /\ UNCHANGED groups
      BY <2>1 DEF CreateGroup, rows
    <3>2. q.at \notin Changing /\ q \in Served
      BY RowIsTyped DEF Changing, Served, Creations
    <3> HIDE DEF q
    <3>3. requests'[r] = q /\ \A s \in Requests : s # r => requests'[s] = requests[s]
      BY <3>1, <3>2, RequestGoes DEF LockInv
    <3> QED BY <3>1, <3>2, <3>3, RowsStayKept
  <2>2. ASSUME NEW g \in Groups, NEW op \in Operations, NEW q \in Served,
               Lock(r, g, op, q), q.group = groups[g]
        PROVE  RowIsKept'
    <3>1. requests' = [requests EXCEPT ![r] = q] /\ UNCHANGED groups /\ Exists(g)
      BY <2>2 DEF Lock
    <3>2. requests'[r] = q /\ \A s \in Requests : s # r => requests'[s] = requests[s]
      BY <3>1, RequestGoes DEF LockInv
    <3>3. q.group.id = g
      BY <2>2, <3>1 DEF LockInv, Ownership, RowsAreNamed
    <3> QED BY <2>2, <3>1, <3>2, <3>3 DEF RowIsKept
  <2> QED BY <1>1, <2>1, <2>2, AskBegins DEF LockInv, LocksSome
<1>2. ASSUME NEW r \in Requests, Serve(r) PROVE RowIsKept'
  <2>1. ASSUME \A h \in Groups : h # requests[r].group.id => groups'[h] = groups[h],
               \A s \in Requests : s # r => requests'[s] = requests[s],
               requests'[r] # None => requests'[r].at \notin Changing,
               Owning(r) \/ requests[r].at = "insert"
                         \/ groups' = groups,
               requests[r] # None
        PROVE  RowIsKept'
    <3> SUFFICES ASSUME NEW s \in Requests, requests'[s] # None, requests'[s].at \in Changing
                 PROVE  /\ requests[s] # None /\ requests[s].at \in Changing
                        /\ requests'[s].group = requests[s].group
                        /\ groups'[requests[s].group.id] = groups[requests[s].group.id]
      BY RowsStayKept
    <3>1. s # r /\ requests'[s] = requests[s]
      BY <2>1
    <3>2. CASE groups' = groups
      BY <3>1, <3>2
    <3>3. CASE groups' # groups
      <4>1. /\ requests[s].group.id \in Groups /\ Owning(s) /\ Exists(requests[s].group.id)
            /\ \A q \in Requests : Owning(q) /\ requests[q].group.id = requests[s].group.id
                                       => q = s
        BY <3>1, ChangingOwns
      <4>2. requests[r].at = "insert" => requests[s].group.id # requests[r].group.id
        BY <2>1, <3>1 DEF LockInv, Ownership, CreationIsAlone, Serving
      <4> QED BY <2>1, <3>1, <3>3, <4>1, <4>2
    <3> QED BY <3>2, <3>3
  <2>2. CASE Insert(r)
    <3>1. /\ requests' = [requests EXCEPT ![r] = None] /\ requests[r].at = "insert"
          /\ requests[r] # None
          /\ groups' = [groups EXCEPT ![requests[r].group.id] = requests[r].group]
      BY <2>2 DEF Insert, Done, At
    <3>2. requests'[r] = None /\ \A s \in Requests : s # r => requests'[s] = requests[s]
      BY <3>1, RequestGoes DEF LockInv
    <3>3. \A h \in Groups : h # requests[r].group.id => groups'[h] = groups[h]
      BY <3>1 DEF LockInv, TypeOK
    <3> QED BY <2>1, <3>1, <3>2, <3>3
  <2>3. CASE DeleteRow(r)
    <3>1. Owning(r) /\ requests'[r].at \notin Changing
      BY <2>3, DeleteRowLocks DEF Owning, Locked, Changing
    <3> QED BY <2>1, <2>3, <3>1, DeleteRowLocks
  <2>4. CASE Settle(r)
    BY <2>1, <2>4, SettleLocks
  <2>5. CASE Unlock(r)
    <3>1. UNCHANGED groups
      BY <2>5 DEF Unlock
    <3> QED BY <2>1, <2>5, <3>1, UnlockLocks DEF CountsNothing
  <2>6. CASE Write(r)
    <3>1. requests[r] # None /\ requests[r].at = "write" /\ Goto(r, "unlock")
      BY <2>6 DEF Write, At
    <3>2. requests'[r].at \notin Changing /\ Owning(r)
      <4>1. requests[r].op \in {"add", "remove", "update"}
        BY <3>1, OpOf DEF LockInv
      <4>2. requests'[r].at = "unlock"
        BY <3>1, <4>1, AtGoesOn DEF LockInv
      <4> QED BY <3>1, <4>2 DEF Owning, Locked, Changing
    <3>3. \A h \in Groups : h # requests[r].group.id => groups'[h] = groups[h]
      BY <2>6, WriteWrites
    <3> QED BY <2>1, <2>6, <3>1, <3>2, <3>3, WriteLocks DEF RequestStays
  <2>7. CASE LockDevice(r) \/ LockOrigin(r) \/ Check(r) \/ Charge(r)
    <3>1. RequestStays(r) /\ requests[r].at \in Changing /\ UNCHANGED groups
      BY <2>7, LockDeviceLocks, LockOriginLocks, CheckLocks, ChargeLocks
      DEF LockDevice, LockOrigin, Check, Charge, At, rows, Changing
    <3> QED BY <3>1, RowsStayKept DEF RequestStays
  <2> QED BY <1>2, <2>2, <2>3, <2>4, <2>5, <2>6, <2>7 DEF Serve
<1>3. ASSUME NEW t \in Ticks, Schedule(t) PROVE RowIsKept'
  <2>1. ASSUME UNCHANGED requests,
               \A g \in Groups : Exists(g) /\ (Running(t) => g # Due(t).id) =>
                   /\ groups'[g].devices = groups[g].devices
                   /\ groups'[g].dates = groups[g].dates
        PROVE  RowIsKept'
    <3>1. \A s \in Requests : requests[s] # None /\ requests[s].at \in Changing =>
              /\ requests[s].group.id \in Groups /\ Exists(requests[s].group.id)
              /\ Running(t) => Due(t).id # requests[s].group.id
      BY ChangingOwns
    <3> QED BY <2>1, <3>1, RowsStayKept
  <2>2. CASE DeleteOver(t)
    <3>1. Running(t)
      BY <2>2, DeleteOverLocks DEF Running
    <3> QED BY <2>1, <2>2, <3>1, DeleteOverLocks
  <2>3. CASE UpdateDates(t)
    <3>1. Running(t)
      BY <2>3, DatesWrites DEF Running
    <3> QED BY <2>1, <2>3, <3>1, DatesWrites, UpdateDatesLocks DEF TickCountsNothing
  <2>4. CASE AdminLockRefused(t)
    BY <2>1, <2>4, RefusedWrites, AdminLockRefusedLocks DEF TickCountsNothing
  <2>5. CASE Read(t) \/ AdminLock(t) \/ AdminLockSkipped(t) \/ UpdateQuota(t)
             \/ SettleOver(t) \/ AdminUnlock(t)
    <3>1. UNCHANGED <<groups, requests>>
      BY <2>5 DEF Read, AdminLock, AdminLockSkipped, UpdateQuota, SettleOver, AdminUnlock, rows
    <3> QED BY <2>1, <3>1
  <2> QED BY <1>3, <2>2, <2>3, <2>4, <2>5 DEF Schedule
<1>4. CASE UNCHANGED <<groups, requests>>
  BY <1>4, RowsStayKept
<1>5. CASE Time \/ UNCHANGED vars
  BY <1>4, <1>5 DEF Time, vars, rows
<1> QED BY <1>1, <1>2, <1>3, <1>5 DEF Next

\* The device that an addition is about is locked from its second step on.
Holds(r) ==
    requests[r] # None /\ requests[r].op = "add" /\ "device" \in requests[r].held
DeviceIsLocked ==
    /\ \A r \in Requests : Holds(r) => requests[r].device \in deviceLock
    /\ \A q, r \in Requests :
           Holds(q) /\ Holds(r) /\ requests[q].device = requests[r].device => q = r
    /\ \A r \in Requests :
           /\ requests[r] # None /\ requests[r].op = "add"
           /\ requests[r].at \in {"lockOrigin", "check", "charge", "write"}
           => Holds(r)

LEMMA DevicesStayLocked ==
    ASSUME DeviceIsLocked, UNCHANGED deviceLock,
           \A s \in Requests : requests'[s] # None /\ requests'[s].op = "add" =>
               \/ requests'[s] = requests[s]
               \/ /\ requests[s] # None /\ requests[s].op = "add"
                  /\ requests'[s].device = requests[s].device
                  /\ Holds(s)' <=> Holds(s)
                  /\ requests[s].at = "lockDevice" => requests'[s].at = "unlock"
                  /\ requests'[s].at \in {"lockOrigin", "check", "charge", "write"} =>
                         requests[s].at \in {"lockOrigin", "check", "charge", "write"}
               \/ requests'[s].at = "lockDevice" /\ requests'[s].held = {}
    PROVE  DeviceIsLocked'
<1>1. \A s \in Requests : Holds(s)' => Holds(s) /\ requests'[s].device = requests[s].device
  BY DEF Holds
<1>2. \A s \in Requests :
          /\ requests'[s] # None /\ requests'[s].op = "add"
          /\ requests'[s].at \in {"lockOrigin", "check", "charge", "write"}
          => Holds(s)'
  BY DEF Holds, DeviceIsLocked
<1> QED BY <1>1, <1>2 DEF DeviceIsLocked

LEMMA LockDeviceHolds ==
    ASSUME LockInv, DeviceIsLocked, NEW r \in Requests, LockDevice(r)
    PROVE  DeviceIsLocked'
<1>1. requests[r] # None /\ requests[r].at = "lockDevice" /\ requests[r].op = "add"
  BY OpOf DEF LockInv, LockDevice, At
<1>2. RequestStays(r)
  BY LockDeviceLocks
<1>3. CASE requests[r].device \in deviceLock
  <2>1. Goto(r, "unlock") /\ UNCHANGED deviceLock
    BY <1>3 DEF LockDevice
  <2>2. requests'[r].at = "unlock" /\ requests'[r].held = requests[r].held
    BY <1>1, <2>1, AtGoesOn DEF LockInv
  <2>3. Holds(r)' <=> Holds(r)
    BY <1>1, <1>2, <2>2 DEF Holds, RequestStays
  <2> QED BY <1>1, <1>2, <2>1, <2>2, <2>3, DevicesStayLocked DEF RequestStays
<1>4. CASE requests[r].device \notin deviceLock
  <2>1. /\ Hold(r, "device", "lockOrigin")
        /\ deviceLock' = deviceLock \cup {requests[r].device}
    BY <1>4 DEF LockDevice
  <2>2. requests'[r].at = "lockOrigin" /\ "device" \in requests'[r].held
    BY <1>1, <2>1, HoldGoesOn DEF LockInv
  <2>3. Holds(r)' /\ requests'[r].device = requests[r].device
    BY <1>1, <1>2, <2>2 DEF Holds, RequestStays
  <2>4. \A s \in Requests : s # r =>
            /\ Holds(s)' <=> Holds(s)
            /\ requests'[s] = requests[s]
    BY <1>2 DEF Holds, RequestStays
  <2>5. \A s \in Requests : Holds(s)' => requests'[s].device \in deviceLock'
    BY <2>1, <2>3, <2>4 DEF DeviceIsLocked
  <2>6. \A s \in Requests : s # r /\ Holds(s)' => requests'[s].device # requests'[r].device
    BY <1>4, <2>3, <2>4 DEF DeviceIsLocked
  <2>7. \A q, s \in Requests :
            Holds(q)' /\ Holds(s)' /\ requests'[q].device = requests'[s].device => q = s
    BY <2>4, <2>6 DEF DeviceIsLocked
  <2>8. \A s \in Requests :
            /\ requests'[s] # None /\ requests'[s].op = "add"
            /\ requests'[s].at \in {"lockOrigin", "check", "charge", "write"}
            => Holds(s)'
    BY <2>3, <2>4 DEF DeviceIsLocked
  <2> QED BY <2>5, <2>7, <2>8 DEF DeviceIsLocked
<1> QED BY <1>3, <1>4

LEMMA LockOriginHolds ==
    ASSUME LockInv, DeviceIsLocked, NEW r \in Requests, LockOrigin(r)
    PROVE  DeviceIsLocked'
<1>1. /\ requests[r] # None /\ requests[r].at = "lockOrigin" /\ requests[r].op = "add"
      /\ UNCHANGED deviceLock
      /\ Goto(r, "unlock") \/ Hold(r, "origin", "check")
  BY OpOf DEF LockInv, LockOrigin, At
<1>2. RequestStays(r)
  BY LockOriginLocks
<1>3. Holds(r)' <=> Holds(r)
  <2>1. CASE Goto(r, "unlock")
    <3>1. requests'[r].held = requests[r].held
      BY <1>1, <2>1, AtGoesOn DEF LockInv
    <3> QED BY <1>1, <1>2, <3>1 DEF Holds, RequestStays
  <2>2. CASE Hold(r, "origin", "check")
    <3>1. requests'[r].held = requests[r].held \cup {"origin"}
      BY <1>1, <2>2, HoldGoesOn DEF LockInv
    <3> QED BY <1>1, <1>2, <3>1 DEF Holds, RequestStays
  <2> QED BY <1>1, <2>1, <2>2
<1> QED BY <1>1, <1>2, <1>3, DevicesStayLocked DEF RequestStays

LEMMA UnlockHolds ==
    ASSUME LockInv, DeviceIsLocked, NEW r \in Requests, Unlock(r)
    PROVE  DeviceIsLocked'
<1>1. /\ requests[r] # None /\ requests[r].at = "unlock" /\ requests'[r] = None
      /\ \A s \in Requests : s # r => requests'[s] = requests[s]
  BY UnlockLocks DEF CountsNothing
<1>2. deviceLock' = IF "device" \in requests[r].held THEN deviceLock \ {requests[r].device}
                                                     ELSE deviceLock
  BY DEF Unlock
<1>3. \A s \in Requests : Holds(s)' => s # r /\ Holds(s) /\ requests'[s] = requests[s]
  BY <1>1 DEF Holds
<1>4. requests[r].op \in {"add", "remove", "update"}
  BY <1>1, OpOf DEF LockInv
<1>5. requests[r].op \in {"remove", "update"} => requests[r].held = {}
  BY <1>1, <1>4, OpOf DEF LockInv, Additions, Removals, Updates
<1>6. "device" \in requests[r].held => Holds(r)
  BY <1>1, <1>4, <1>5 DEF Holds
<1>7. \A s \in Requests : Holds(s)' => requests'[s].device \in deviceLock'
  BY <1>2, <1>3, <1>6 DEF DeviceIsLocked
<1>8. \A q, s \in Requests :
          Holds(q)' /\ Holds(s)' /\ requests'[q].device = requests'[s].device => q = s
  BY <1>3 DEF DeviceIsLocked
<1>9. \A s \in Requests :
          /\ requests'[s] # None /\ requests'[s].op = "add"
          /\ requests'[s].at \in {"lockOrigin", "check", "charge", "write"}
          => Holds(s)'
  BY <1>1 DEF DeviceIsLocked, Holds
<1> QED BY <1>7, <1>8, <1>9 DEF DeviceIsLocked

LEMMA HoldsGoOn == LockInv /\ DeviceIsLocked /\ [Next]_vars => DeviceIsLocked'
<1> SUFFICES ASSUME LockInv, DeviceIsLocked, [Next]_vars PROVE DeviceIsLocked'
  OBVIOUS
<1>1. ASSUME NEW r \in Requests, Ask(r) PROVE DeviceIsLocked'
  <2>1. ASSUME NEW g \in Groups, NEW state \in States, NEW dates \in Schedules,
               CreateGroup(r, g, state, dates)
        PROVE  DeviceIsLocked'
    <3> DEFINE q == [op |-> "create", at |-> "insert", group |-> Row(g, state, dates)]
    <3>1. requests' = [requests EXCEPT ![r] = q] /\ UNCHANGED deviceLock
      BY <2>1 DEF CreateGroup, devices
    <3>2. q.op # "add" /\ q \in Served
      BY RowIsTyped DEF Served, Creations
    <3> HIDE DEF q
    <3>3. requests'[r] = q /\ \A s \in Requests : s # r => requests'[s] = requests[s]
      BY <3>1, <3>2, RequestGoes DEF LockInv
    <3> QED BY <3>1, <3>2, <3>3, DevicesStayLocked
  <2>2. ASSUME NEW g \in Groups, NEW op \in Operations, NEW q \in Served,
               Lock(r, g, op, q), q.op = op,
               op = "add" => q.at = "lockDevice" /\ q.held = {}
        PROVE  DeviceIsLocked'
    <3>1. requests' = [requests EXCEPT ![r] = q] /\ UNCHANGED deviceLock
      BY <2>2 DEF Lock, devices
    <3>2. requests'[r] = q /\ \A s \in Requests : s # r => requests'[s] = requests[s]
      BY <3>1, RequestGoes DEF LockInv
    <3> QED BY <2>2, <3>1, <3>2, DevicesStayLocked
  <2> QED BY <1>1, <2>1, <2>2, AskBegins DEF LockInv, LocksSome
<1>2. ASSUME NEW r \in Requests, Serve(r) PROVE DeviceIsLocked'
  <2>1. ASSUME requests'[r] = None \/ requests'[r].op # "add", UNCHANGED deviceLock,
               \A s \in Requests : s # r => requests'[s] = requests[s]
        PROVE  DeviceIsLocked'
    BY <2>1, DevicesStayLocked
  <2>2. CASE Insert(r)
    <3>1. requests' = [requests EXCEPT ![r] = None] /\ UNCHANGED deviceLock
      BY <2>2 DEF Insert, Done, devices
    <3>2. requests'[r] = None /\ \A s \in Requests : s # r => requests'[s] = requests[s]
      BY <3>1, RequestGoes DEF LockInv
    <3> QED BY <2>1, <3>1, <3>2
  <2>3. CASE DeleteRow(r)
    <3>1. requests[r].op = "delete"
      BY <2>3, DeleteRowLocks, OpOf DEF LockInv
    <3> QED BY <2>1, <2>3, <3>1, DeleteRowLocks
  <2>4. CASE Settle(r)
    <3>1. UNCHANGED deviceLock
      BY <2>4 DEF Settle, devices
    <3> QED BY <2>1, <2>4, <3>1, SettleLocks
  <2>5. CASE Check(r) \/ Charge(r) \/ Write(r)
    <3>1. /\ requests[r] # None /\ requests[r].at \in {"check", "charge", "write"}
          /\ UNCHANGED deviceLock /\ RequestStays(r)
      BY <2>5, CheckLocks, ChargeLocks, WriteLocks DEF Check, Charge, Write, At, devices
    <3>2. \/ Goto(r, "unlock")
          \/ requests[r].at = "check" /\ Goto(r, "charge")
          \/ requests[r].at = "charge" /\ Goto(r, "write")
      BY <2>5 DEF Check, Charge, Write, At
    <3>3. ASSUME requests[r].op = "add"
          PROVE  requests'[r].held = requests[r].held
      BY <3>1, <3>2, <3>3, AtGoesOn DEF LockInv
    <3>4. requests[r].op = "add" => (Holds(r)' <=> Holds(r))
      BY <3>1, <3>3 DEF Holds, RequestStays
    <3> QED BY <3>1, <3>4, DevicesStayLocked DEF RequestStays
  <2> QED BY <1>2, <2>2, <2>3, <2>4, <2>5, LockDeviceHolds, LockOriginHolds, UnlockHolds
      DEF Serve
<1>3. CASE UNCHANGED <<deviceLock, requests>>
  BY <1>3, DevicesStayLocked
<1>4. ASSUME NEW t \in Ticks, Schedule(t) PROVE UNCHANGED <<deviceLock, requests>>
  BY <1>4 DEF Schedule, Read, AdminLock, AdminLockSkipped, AdminLockRefused, UpdateDates,
     UpdateQuota, DeleteOver, SettleOver, AdminUnlock, devices
<1>5. CASE Time \/ UNCHANGED vars
  BY <1>3, <1>5 DEF Time, vars, devices
<1> QED BY <1>1, <1>2, <1>3, <1>4, <1>5 DEF Next

\* The dates of a tick's rows are those there are, until it writes them.
DatesAreKept ==
    \A t \in Ticks : ticks[t] # None =>
        /\ \A i, j \in DOMAIN ticks[t].todo :
              ticks[t].todo[i].group.id = ticks[t].todo[j].group.id => i = j
        /\ \A i \in DOMAIN ticks[t].todo :
              LET g == ticks[t].todo[i].group
              IN  (i # 1 \/ ticks[t].at \in {"lock", "write"}) /\ Exists(g.id) =>
                  groups[g.id].dates = g.dates

\* What the conflict check of an addition or update found is still true.
Taken(q) == IF q.op = "add" THEN {q.device} ELSE q.group.devices
Clear(q) ==
    \A g \in Groups :
        Exists(g) /\ g # q.group.id /\ Taken(q) \cap groups[g].devices # {} =>
            ~Overlap(Changed(q).dates, groups[g].dates)
Checked(r) ==
    /\ requests[r] # None /\ requests[r].op \in {"add", "update"}
    /\ requests[r].at \in {"charge", "write"}
CheckedIsFree == \A r \in Requests : Checked(r) => Clear(requests[r])

BookedOnce ==
    \A g, h \in Groups :
        /\ Exists(g) /\ Exists(h) /\ g # h
        /\ groups[g].devices \cap groups[h].devices # {}
        => ~Overlap(groups[g].dates, groups[h].dates)

FreeInv == DatesAreKept /\ CheckedIsFree /\ BookedOnce
SafeInv == LockInv /\ AloneInv /\ RowIsKept /\ DeviceIsLocked
BookingInv == SafeInv /\ (Calm => FreeInv)

\* A group shrinks, goes, or comes without devices.
Shrinks(g) ==
    Exists(g)' =>
        \/ groups'[g].devices = {}
        \/ /\ Exists(g)
           /\ groups'[g].devices \subseteq groups[g].devices
           /\ groups'[g].dates = groups[g].dates \/ Within(groups'[g].dates, groups[g].dates)

LEMMA RowsAreDated ==
    ASSUME TypeOK, NEW g \in Groups, Exists(g)
    PROVE  groups[g].dates \in Dates /\ groups[g].devices \in SUBSET Devices
BY DEF TypeOK, Exists, GroupRows

LEMMA RowsAreDatedNext ==
    ASSUME TypeOK', NEW g \in Groups, Exists(g)'
    PROVE  groups'[g].dates \in Dates /\ groups'[g].devices \in SUBSET Devices
BY DEF TypeOK, Exists, GroupRows

\* What overlaps with a group that has shrunk overlapped with it before.
LEMMA ShrunkOverlapsLess ==
    ASSUME TypeOK, TypeOK', NEW g \in Groups, Shrinks(g), Exists(g)',
           groups'[g].devices # {}, NEW u \in Dates
    PROVE  /\ Exists(g) /\ groups'[g].devices \subseteq groups[g].devices
           /\ Overlap(u, groups'[g].dates) => Overlap(u, groups[g].dates)
           /\ Overlap(groups'[g].dates, u) => Overlap(groups[g].dates, u)
<1>1. /\ Exists(g) /\ groups'[g].devices \subseteq groups[g].devices
      /\ groups'[g].dates = groups[g].dates \/ Within(groups'[g].dates, groups[g].dates)
  BY DEF Shrinks
<1>2. groups[g].dates \in Dates /\ groups'[g].dates \in Dates
  BY <1>1, RowsAreDated, RowsAreDatedNext
<1> DEFINE s == groups'[g].dates
           t == groups[g].dates
<1>3. s \in Dates /\ t \in Dates /\ (s = t \/ Within(s, t))
  BY <1>1, <1>2
<1> HIDE DEF s, t
<1>4. /\ Overlap(u, s) => Overlap(u, t)
      /\ Overlap(s, u) => Overlap(t, u)
  BY <1>3, WithinOverlapsLess
<1> QED BY <1>1, <1>4 DEF s, t

LEMMA ShrunkIsBookedOnce ==
    ASSUME TypeOK, TypeOK', BookedOnce, \A g \in Groups : Shrinks(g)
    PROVE  BookedOnce'
<1> SUFFICES ASSUME NEW g \in Groups, NEW h \in Groups, Exists(g)', Exists(h)', g # h,
                    groups'[g].devices \cap groups'[h].devices # {},
                    Overlap(groups'[g].dates, groups'[h].dates)
             PROVE  FALSE
  BY DEF BookedOnce, Overlap, Start, Stop
<1>1. groups'[g].devices # {} /\ groups'[h].devices # {} /\ Shrinks(g) /\ Shrinks(h)
  OBVIOUS
<1>2. groups'[h].dates \in Dates
  BY RowsAreDatedNext
<1>3. /\ Exists(g) /\ groups'[g].devices \subseteq groups[g].devices
      /\ Overlap(groups[g].dates, groups'[h].dates)
  BY <1>1, <1>2, ShrunkOverlapsLess
<1>4. groups[g].dates \in Dates
  BY <1>3, RowsAreDated
<1>5. /\ Exists(h) /\ groups'[h].devices \subseteq groups[h].devices
      /\ Overlap(groups[g].dates, groups[h].dates)
  BY <1>1, <1>3, <1>4, ShrunkOverlapsLess
<1> QED BY <1>3, <1>5 DEF BookedOnce

\* A checked request that stays what it is stays clear of groups that shrink.
LEMMA ShrunkStaysClear ==
    ASSUME TypeOK, TypeOK', NEW q \in Served, q.op \in {"add", "update"}, Clear(q),
           NEW g \in Groups, g # q.group.id, Exists(g)', Shrinks(g),
           Taken(q) \cap groups'[g].devices # {}
    PROVE  ~Overlap(Changed(q).dates, groups'[g].dates)
<1>1. Changed(q).dates \in Dates
  <2>1. q \in Additions \cup Removals \cup Updates
    BY DEF Served, Creations, Additions, Removals, Updates, Deletions
  <2> QED BY <2>1, ChangedIsTyped DEF GroupRows
<1>2. groups'[g].devices # {}
  OBVIOUS
<1>3. /\ Exists(g) /\ groups'[g].devices \subseteq groups[g].devices
      /\ Overlap(Changed(q).dates, groups'[g].dates) => Overlap(Changed(q).dates, groups[g].dates)
  BY <1>1, <1>2, ShrunkOverlapsLess
<1> QED BY <1>3 DEF Clear

LEMMA ShrunkStaysChecked ==
    ASSUME TypeOK, TypeOK', CheckedIsFree, \A g \in Groups : Shrinks(g),
           \A r \in Requests : Checked(r)' =>
               Checked(r) /\ (requests'[r] = requests[r] \/ RequestStays(r))
    PROVE  CheckedIsFree'
<1> SUFFICES ASSUME NEW r \in Requests, Checked(r)', NEW g \in Groups, Exists(g)',
                    g # requests'[r].group.id,
                    Taken(requests'[r]) \cap groups'[g].devices # {}
             PROVE  ~Overlap(Changed(requests'[r]).dates, groups'[g].dates)
  BY DEF CheckedIsFree, Clear
<1> DEFINE q == requests[r]
<1>1. /\ Checked(r) /\ requests'[r].group = q.group
      /\ Taken(requests'[r]) = Taken(q) /\ Changed(requests'[r]) = Changed(q)
  BY DEF RequestStays, Taken
<1>2. q \in Served /\ q.op \in {"add", "update"} /\ Clear(q)
  BY <1>1, Known DEF CheckedIsFree, Checked, Serving
<1>3. g # q.group.id /\ Taken(q) \cap groups'[g].devices # {} /\ Shrinks(g)
  BY <1>1
<1> HIDE DEF q
<1> QED BY <1>1, <1>2, <1>3, ShrunkStaysClear DEF q

\* Ticks keep their rows, whose dates stay.
LEMMA DatesStayKept ==
    ASSUME DatesAreKept,
           \A t \in Ticks : ticks'[t] # None =>
               /\ ticks[t] # None /\ ticks'[t].todo = ticks[t].todo
               /\ ticks'[t].at \in {"lock", "write"} => ticks[t].at \in {"lock", "write"}
               /\ \A i \in DOMAIN ticks[t].todo :
                     LET g == ticks[t].todo[i].group.id
                     IN  (i # 1 \/ ticks'[t].at \in {"lock", "write"}) /\ Exists(g)' =>
                             Exists(g) /\ groups'[g].dates = groups[g].dates
    PROVE  DatesAreKept'
<1> SUFFICES ASSUME NEW t \in Ticks, ticks'[t] # None
             PROVE  /\ \A i, j \in DOMAIN ticks'[t].todo :
                          ticks'[t].todo[i].group.id = ticks'[t].todo[j].group.id => i = j
                    /\ \A i \in DOMAIN ticks'[t].todo :
                          LET g == ticks'[t].todo[i].group
                          IN  (i # 1 \/ ticks'[t].at \in {"lock", "write"}) /\ groups'[g.id] # None =>
                              groups'[g.id].dates = g.dates
  BY DEF DatesAreKept, Exists
<1>1. ticks[t] # None /\ ticks'[t].todo = ticks[t].todo
  OBVIOUS
<1>2. \A i, j \in DOMAIN ticks'[t].todo :
          ticks'[t].todo[i].group.id = ticks'[t].todo[j].group.id => i = j
  BY <1>1 DEF DatesAreKept
<1>3. ASSUME NEW i \in DOMAIN ticks'[t].todo,
             i # 1 \/ ticks'[t].at \in {"lock", "write"},
             groups'[ticks'[t].todo[i].group.id] # None
      PROVE  groups'[ticks'[t].todo[i].group.id].dates = ticks'[t].todo[i].group.dates
  <2> DEFINE g == ticks[t].todo[i].group
  <2>1. i \in DOMAIN ticks[t].todo /\ (i # 1 \/ ticks[t].at \in {"lock", "write"})
    BY <1>1, <1>3
  <2>2. groups[g.id] # None /\ groups'[g.id].dates = groups[g.id].dates
    BY <1>1, <1>3, <2>1 DEF Exists
  <2>3. groups[g.id].dates = g.dates
    BY <1>1, <2>1, <2>2 DEF DatesAreKept, Exists
  <2> QED BY <1>1, <2>2, <2>3
<1> QED BY <1>2, <1>3

\* A tick's list is one of rows.
LEMMA ListedAreRows ==
    ASSUME TypeOK, NEW t \in Ticks, ticks[t] # None, NEW i \in DOMAIN ticks[t].todo
    PROVE  /\ ticks[t].todo[i] \in Due1 /\ ticks[t].todo[i].group \in GroupRows
           /\ ticks[t].todo[i].group.id \in Groups
<1>1. ticks[t] \in Scheduled
  BY Known DEF Scheduling
<1>2. ticks[t].todo \in Seq(Due1)
  BY <1>1 DEF Scheduled, Due1
<1>3. ticks[t].todo[i] \in Due1
  <2> DEFINE s == ticks[t].todo
  <2> HIDE DEF s
  <2>1. s \in Seq(Due1) /\ i \in DOMAIN s
    BY <1>2 DEF s
  <2>2. s[i] \in Due1
    BY <2>1, LenProperties
  <2> QED BY <2>2 DEF s
<1> QED BY <1>3 DEF Due1, GroupRows

\* Requests whose rows do not change, and what the ticks have to do with them.
LEMMA RowsStayFree ==
    ASSUME TypeOK, TypeOK', FreeInv, UNCHANGED <<groups, ticks>>,
           \A r \in Requests : Checked(r)' =>
               Checked(r) /\ (requests'[r] = requests[r] \/ RequestStays(r))
    PROVE  FreeInv'
<1>1. \A g \in Groups : Shrinks(g)
  BY DEF Shrinks, Exists
<1>2. DatesAreKept'
  BY DEF FreeInv, DatesAreKept, Exists
<1>3. CheckedIsFree' /\ BookedOnce'
  BY <1>1, ShrunkStaysChecked, ShrunkIsBookedOnce DEF FreeInv
<1> QED BY <1>2, <1>3 DEF FreeInv

LEMMA OneMoreIsFree ==
    ASSUME FreeInv, UNCHANGED <<groups, ticks>>, NEW r \in Requests, NEW q,
           requests'[r] = q, Clear(q),
           \A s \in Requests : s # r => requests'[s] = requests[s]
    PROVE  FreeInv'
<1>1. DatesAreKept' /\ BookedOnce'
  BY DEF FreeInv, DatesAreKept, BookedOnce, Exists
<1>2. ASSUME NEW s \in Requests, Checked(s)', NEW h \in Groups, Exists(h)',
             h # requests'[s].group.id,
             Taken(requests'[s]) \cap groups'[h].devices # {}
      PROVE  ~Overlap(Changed(requests'[s]).dates, groups'[h].dates)
  <2>1. groups'[h] = groups[h] /\ Exists(h)
    BY <1>2 DEF Exists
  <2>2. Clear(requests'[s])
    BY <1>2 DEF FreeInv, CheckedIsFree, Checked
  <2> QED BY <1>2, <2>1, <2>2 DEF Clear
<1>3. CheckedIsFree'
  BY <1>2 DEF CheckedIsFree, Clear
<1> QED BY <1>1, <1>3 DEF FreeInv

LEMMA CreateGroupFree ==
    ASSUME SafeInv, TypeOK', FreeInv, NEW r \in Requests, NEW g \in Groups,
           NEW state \in States, NEW dates \in Schedules, CreateGroup(r, g, state, dates)
    PROVE  FreeInv'
<1> DEFINE q == [op |-> "create", at |-> "insert", group |-> Row(g, state, dates)]
<1>1. requests' = [requests EXCEPT ![r] = q] /\ UNCHANGED <<groups, ticks>>
  BY DEF CreateGroup, rows
<1>2. q.op = "create" /\ q \in Served
  BY RowIsTyped DEF Served, Creations
<1> HIDE DEF q
<1>3. requests'[r] = q /\ \A s \in Requests : s # r => requests'[s] = requests[s]
  BY <1>1, <1>2, RequestGoes DEF SafeInv, LockInv
<1>4. \A s \in Requests : Checked(s)' => Checked(s) /\ requests'[s] = requests[s]
  BY <1>2, <1>3 DEF Checked
<1> QED BY <1>1, <1>4, RowsStayFree DEF SafeInv, LockInv

\* An update that does not look for conflicts asks for less than the group has.
LEMMA LockFree ==
    ASSUME SafeInv, TypeOK', FreeInv, NEW r \in Requests, NEW g \in Groups,
           NEW op \in Operations, NEW q \in Served, Lock(r, g, op, q),
           q.group = groups[g], q.op = op,
           op = "add" => q.at = "lockDevice" /\ q.held = {},
           op = "update" => q.at = "check" \/ ~Widened(groups[g].dates, q.dates)
    PROVE  FreeInv'
<1> USE DEF SafeInv, LockInv
<1>1. requests' = [requests EXCEPT ![r] = q] /\ UNCHANGED <<groups, ticks>> /\ Exists(g)
  BY DEF Lock
<1>2. requests'[r] = q /\ \A s \in Requests : s # r => requests'[s] = requests[s]
  BY <1>1, RequestGoes
<1>3. CASE ~Checked(r)'
  <2>1. \A s \in Requests : Checked(s)' => Checked(s) /\ requests'[s] = requests[s]
    BY <1>2, <1>3 DEF Checked
  <2> QED BY <1>1, <2>1, RowsStayFree
<1>4. CASE Checked(r)'
  <2>1. op = "update" /\ ~Widened(groups[g].dates, q.dates)
    BY <1>2, <1>4 DEF Checked
  <2>2. q \in Updates
    BY <2>1 DEF Served, Creations, Additions, Removals, Updates, Deletions
  <2>3. /\ Changed(q).dates = q.dates /\ q.dates \in Dates /\ groups[g].dates \in Dates
        /\ q.group.id = g /\ Taken(q) = groups[g].devices
    BY <1>1, <2>1, <2>2, ChangedIsTyped, RowsAreDated
    DEF Updates, Ownership, RowsAreNamed, Taken
  <2>4. Within(q.dates, groups[g].dates)
    BY <2>1, <2>3, NotWidenedIsWithin
  <2>5. Clear(q)
    <3> SUFFICES ASSUME NEW h \in Groups, Exists(h), h # g,
                        groups[g].devices \cap groups[h].devices # {},
                        Overlap(q.dates, groups[h].dates)
                 PROVE  FALSE
      BY <2>3 DEF Clear
    <3>1. groups[h].dates \in Dates
      BY RowsAreDated
    <3> DEFINE s == q.dates
               t == groups[g].dates
               u == groups[h].dates
    <3>2. s \in Dates /\ t \in Dates /\ u \in Dates /\ Within(s, t) /\ Overlap(s, u)
      BY <2>3, <2>4, <3>1
    <3> HIDE DEF s, t, u
    <3>3. Overlap(t, u)
      BY <3>2, WithinOverlapsLess
    <3> QED BY <1>1, <3>3 DEF FreeInv, BookedOnce, t, u
  <2> QED BY <1>1, <1>2, <2>5, OneMoreIsFree
<1> QED BY <1>3, <1>4

\* checkConflicts finds every group that is booked for the same time.
LEMMA CheckFree ==
    ASSUME SafeInv, TypeOK', FreeInv, NEW r \in Requests, Check(r)
    PROVE  FreeInv'
<1> USE DEF SafeInv, LockInv
<1> DEFINE q == requests[r]
           dates == IF q.op = "add" THEN q.group.dates ELSE q.dates
           used  == IF q.op = "add" THEN {q.device} ELSE q.group.devices
           conflicts == {g \in Rows : /\ g.id # q.group.id
                                      /\ used \cap g.devices # {}
                                      /\ Overlap(dates, g.dates)}
<1>1. /\ q # None /\ q.at = "check" /\ q.op \in {"add", "update"}
      /\ UNCHANGED <<groups, ticks>> /\ RequestStays(r)
      /\ Goto(r, IF conflicts = {} THEN "charge" ELSE "unlock")
  BY OpOf, CheckLocks DEF Check, At, rows
<1>2. \A s \in Requests : s # r => requests'[s] = requests[s]
  BY <1>1 DEF RequestStays
<1>3. q \in Additions \cup Updates
  BY <1>1, Known DEF Serving, Served, Creations, Additions, Removals, Updates, Deletions
<1>4. CASE conflicts = {}
  <2>1. Changed(q).dates = dates /\ Taken(q) = used
    <3>1. Changed(q).dates = IF q.op = "update" THEN q.dates ELSE q.group.dates
      BY <1>3, ChangedIsTyped
    <3> QED BY <1>1, <3>1 DEF Taken
  <2>2. \A g \in Groups : Exists(g) => groups[g] \in Rows /\ groups[g].id = g
    BY DEF Rows, Ownership, RowsAreNamed
  <2> HIDE DEF dates, used
  <2>3. Clear(q)
    BY <1>4, <2>1, <2>2 DEF Clear
  <2> DEFINE p == requests'[r]
  <2>4. /\ Taken(p) = Taken(q) /\ Changed(p) = Changed(q) /\ p.group = q.group
    BY <1>1 DEF RequestStays, Taken
  <2>5. Clear(p)
    <3> HIDE DEF p, q
    <3> QED BY <2>3, <2>4 DEF Clear
  <2> QED BY <1>1, <1>2, <2>5, OneMoreIsFree
<1>5. CASE conflicts # {}
  <2>1. Goto(r, "unlock")
    BY <1>1, <1>5
  <2>2. requests'[r].at = "unlock"
    BY <1>1, <2>1, AtGoesOn
  <2>3. \A s \in Requests : Checked(s)' => Checked(s) /\ requests'[s] = requests[s]
    BY <1>2, <2>2 DEF Checked
  <2> QED BY <1>1, <2>3, RowsStayFree
<1> QED BY <1>4, <1>5

\* A group that is new has no devices, and one that is deleted is gone.
LEMMA InsertFree ==
    ASSUME SafeInv, TypeOK', FreeInv, NEW r \in Requests, Insert(r)
    PROVE  FreeInv'
<1> USE DEF SafeInv, LockInv
<1> DEFINE g == requests[r].group.id
<1>1. /\ requests' = [requests EXCEPT ![r] = None] /\ UNCHANGED ticks
      /\ groups' = [groups EXCEPT ![g] = requests[r].group]
      /\ requests[r] # None /\ requests[r].at = "insert"
  BY DEF Insert, Done, At
<1>2. requests[r].group \in GroupRows /\ g \in Groups /\ requests[r].group.devices = {}
  BY <1>1, Known DEF Serving, AloneInv, NewIsEmpty
<1>3. /\ requests'[r] = None /\ \A s \in Requests : s # r => requests'[s] = requests[s]
      /\ groups'[g].devices = {}
      /\ \A h \in Groups : h # g => groups'[h] = groups[h]
  BY <1>1, <1>2, RequestGoes DEF TypeOK
<1>4. \A t \in Ticks : ticks[t] # None => g \notin GroupsOf(t)
  BY <1>1 DEF Ownership, CreationIsAlone, Serving, Scheduling
<1>5. \A t \in Ticks : ticks[t] # None => \A i \in DOMAIN ticks[t].todo :
          ticks[t].todo[i].group.id # g /\ ticks[t].todo[i].group.id \in Groups
  <2> SUFFICES ASSUME NEW t \in Ticks, ticks[t] # None, NEW i \in DOMAIN ticks[t].todo
               PROVE  ticks[t].todo[i].group.id # g /\ ticks[t].todo[i].group.id \in Groups
    OBVIOUS
  <2>1. ticks[t].todo[i].group.id \in GroupsOf(t)
    BY DEF GroupsOf
  <2> QED BY <1>4, <2>1, ListedAreRows
<1> HIDE DEF g
<1>6. \A h \in Groups : Shrinks(h)
  BY <1>3 DEF Shrinks, Exists
<1>7. DatesAreKept'
  BY <1>1, <1>3, <1>5, DatesStayKept DEF FreeInv, Exists
<1>8. \A s \in Requests : Checked(s)' => Checked(s) /\ requests'[s] = requests[s]
  BY <1>3 DEF Checked
<1> QED BY <1>6, <1>7, <1>8, ShrunkStaysChecked, ShrunkIsBookedOnce DEF FreeInv

LEMMA DeleteRowFree ==
    ASSUME SafeInv, TypeOK', FreeInv, NEW r \in Requests, DeleteRow(r)
    PROVE  FreeInv'
<1> USE DEF SafeInv, LockInv
<1> DEFINE g == requests[r].group.id
<1>1. /\ g \in Groups /\ UNCHANGED ticks
      /\ requests'[r] # None /\ requests'[r].at = "settle"
      /\ groups'[g] = None
      /\ \A h \in Groups : h # g => groups'[h] = groups[h]
      /\ \A s \in Requests : s # r => requests'[s] = requests[s]
  BY DeleteRowLocks
<1> HIDE DEF g
<1>2. \A h \in Groups : Shrinks(h) /\ (Exists(h)' => Exists(h) /\ groups'[h].dates = groups[h].dates)
  BY <1>1 DEF Shrinks, Exists
<1>3. \A t \in Ticks : ticks[t] # None => \A i \in DOMAIN ticks[t].todo :
          ticks[t].todo[i].group.id \in Groups
  BY ListedAreRows
<1>4. DatesAreKept'
  BY <1>1, <1>2, <1>3, DatesStayKept DEF FreeInv
<1>5. \A s \in Requests : Checked(s)' => Checked(s) /\ requests'[s] = requests[s]
  BY <1>1 DEF Checked
<1> QED BY <1>2, <1>4, <1>5, ShrunkStaysChecked, ShrunkIsBookedOnce DEF FreeInv

\* A group gets a device or other dates that no other group has got.
LEMMA GrownIsBookedOnce ==
    ASSUME TypeOK', BookedOnce, NEW g \in Groups, groups'[g] # None,
           \A h \in Groups : h # g => groups'[h] = groups[h],
           \A h \in Groups :
               h # g /\ Exists(h) /\ groups'[g].devices \cap groups[h].devices # {} =>
                   ~Overlap(groups'[g].dates, groups[h].dates)
    PROVE  BookedOnce'
<1> SUFFICES ASSUME NEW h \in Groups, NEW k \in Groups, Exists(h)', Exists(k)', h # k,
                    groups'[h].devices \cap groups'[k].devices # {},
                    Overlap(groups'[h].dates, groups'[k].dates)
             PROVE  FALSE
  BY DEF BookedOnce, Overlap, Start, Stop
<1>1. groups'[h].dates \in Dates /\ groups'[k].dates \in Dates
  BY RowsAreDatedNext
<1>2. Overlap(groups'[k].dates, groups'[h].dates)
  <2> DEFINE s == groups'[h].dates
             t == groups'[k].dates
  <2>1. s \in Dates /\ t \in Dates /\ Overlap(s, t)
    BY <1>1
  <2> HIDE DEF s, t
  <2>2. Overlap(t, s)
    BY <2>1, OverlapIsMutual
  <2> QED BY <2>2 DEF s, t
<1>3. CASE h = g
  BY <1>3 DEF Exists
<1>4. CASE k = g
  BY <1>2, <1>4 DEF Exists
<1>5. CASE h # g /\ k # g
  BY <1>5 DEF BookedOnce, Exists
<1> QED BY <1>3, <1>4, <1>5

\* What a request writes was found free, and still is.
LEMMA WriteFree ==
    ASSUME SafeInv, TypeOK', FreeInv, UpdateIsAlone, NEW r \in Requests, Write(r)
    PROVE  FreeInv'
<1> USE DEF SafeInv, LockInv
<1> DEFINE q == requests[r]
           g == q.group.id
<1>1. /\ q # None /\ q.at = "write" /\ q \in Additions \cup Removals \cup Updates
      /\ g \in Groups /\ Exists(g) /\ groups'[g] # None
      /\ \A h \in Groups : h # g => groups'[h] = groups[h]
      /\ q.op = "update" => /\ groups'[g].dates = Changed(q).dates
                            /\ groups'[g].devices = groups[g].devices
      /\ q.op # "update" => /\ groups'[g].devices = Changed(q).devices
                            /\ groups'[g].dates = groups[g].dates
  BY WriteWrites
<1>2. RequestStays(r) /\ UNCHANGED ticks
  BY WriteLocks DEF Write
<1>3. requests'[r].at = "unlock" /\ \A s \in Requests : s # r => requests'[s] = requests[s]
  <2>1. q.op \in {"add", "remove", "update"} /\ Goto(r, "unlock")
    BY <1>1, OpOf DEF Write
  <2> QED BY <1>1, <2>1, AtGoesOn
<1>4. groups[g].devices = q.group.devices /\ groups[g].dates = q.group.dates
  BY <1>1 DEF RowIsKept, Changing
<1>5. \A s \in Requests : Checked(s)' => s # r /\ Checked(s) /\ requests'[s] = requests[s]
  BY <1>3 DEF Checked
<1>6. /\ Changed(q).dates = IF q.op = "update" THEN q.dates ELSE q.group.dates
      /\ q.op = "add" => Changed(q).devices = q.group.devices \cup {q.device}
      /\ q.op = "remove" => Changed(q).devices = q.group.devices \ {q.device}
      /\ q.op \in {"add", "remove", "update"}
  BY <1>1, ChangedIsTyped, OpOf
<1>7. q.op \in {"add", "update"} => Clear(q)
  BY <1>1 DEF FreeInv, CheckedIsFree, Checked
<1>8. ASSUME q.op # "update" PROVE DatesAreKept'
  <2>1. \A h \in Groups : Exists(h)' => Exists(h) /\ groups'[h].dates = groups[h].dates
    BY <1>1, <1>8 DEF Exists
  <2>2. \A t \in Ticks : ticks[t] # None => \A i \in DOMAIN ticks[t].todo :
            ticks[t].todo[i].group.id \in Groups
    BY ListedAreRows
  <2> HIDE DEF q, g
  <2> QED BY <1>2, <2>1, <2>2, DatesStayKept DEF FreeInv
<1>9. CASE q.op = "remove"
  <2>1. \A h \in Groups : Shrinks(h)
    BY <1>1, <1>4, <1>6, <1>9 DEF Shrinks, Exists
  <2> QED BY <1>5, <1>8, <1>9, <2>1, ShrunkStaysChecked, ShrunkIsBookedOnce DEF FreeInv
<1>10. CASE q.op = "update"
  <2>1. /\ \A t \in Ticks : ticks[t] = None
        /\ \A s \in Requests : s # r => requests[s] = None
    BY <1>1, <1>10 DEF UpdateIsAlone
  <2>2. DatesAreKept'
    BY <1>2, <2>1 DEF DatesAreKept
  <2>3. CheckedIsFree'
    BY <1>5, <2>1 DEF CheckedIsFree, Checked
  <2>4. \A h \in Groups :
            h # g /\ Exists(h) /\ groups'[g].devices \cap groups[h].devices # {} =>
                ~Overlap(groups'[g].dates, groups[h].dates)
    BY <1>1, <1>4, <1>7, <1>10 DEF Clear, Taken
  <2>5. BookedOnce'
    BY <1>1, <2>4, GrownIsBookedOnce DEF FreeInv
  <2> QED BY <2>2, <2>3, <2>5 DEF FreeInv
<1>11. CASE q.op = "add"
  <2>1. /\ groups'[g].devices = groups[g].devices \cup {q.device}
        /\ groups'[g].dates = groups[g].dates
        /\ Changed(q).dates = groups[g].dates
    BY <1>1, <1>4, <1>6, <1>11
  <2>2. ASSUME NEW h \in Groups, h # g, Exists(h),
               groups'[g].devices \cap groups[h].devices # {}
        PROVE  ~Overlap(groups'[g].dates, groups[h].dates)
    <3>1. CASE q.device \in groups[h].devices
      BY <1>7, <1>11, <2>1, <2>2, <3>1 DEF Clear, Taken
    <3>2. CASE groups[g].devices \cap groups[h].devices # {}
      BY <1>1, <2>1, <2>2, <3>2 DEF FreeInv, BookedOnce
    <3> QED BY <2>1, <2>2, <3>1, <3>2
  <2>3. BookedOnce'
    BY <1>1, <2>2, GrownIsBookedOnce DEF FreeInv
  <2>4. ASSUME NEW s \in Requests, Checked(s)', NEW h \in Groups, Exists(h)',
               h # requests'[s].group.id,
               Taken(requests'[s]) \cap groups'[h].devices # {}
        PROVE  ~Overlap(Changed(requests'[s]).dates, groups'[h].dates)
    <3>1. s # r /\ Checked(s) /\ requests'[s] = requests[s]
      BY <1>5, <2>4
    <3>2. requests[s].op = "add"
      BY <1>1, <1>11, <3>1 DEF Checked, UpdateIsAlone
    <3>3. requests[s].device # q.device
      BY <1>1, <1>11, <3>1, <3>2 DEF Checked, DeviceIsLocked
    <3>4. /\ Exists(h) /\ groups'[h].dates = groups[h].dates
          /\ Taken(requests[s]) \cap groups[h].devices # {}
      BY <1>1, <2>1, <2>4, <3>1, <3>2, <3>3 DEF Exists, Taken
    <3>5. Clear(requests[s])
      BY <3>1 DEF FreeInv, CheckedIsFree
    <3> QED BY <2>4, <3>1, <3>4, <3>5 DEF Clear
  <2>5. CheckedIsFree'
    BY <2>4 DEF CheckedIsFree, Clear
  <2> QED BY <1>8, <1>11, <2>3, <2>5 DEF FreeInv
<1> QED BY <1>6, <1>9, <1>10, <1>11

\* The other steps of a request leave the rows alone.
LEMMA ServeFree ==
    ASSUME SafeInv, TypeOK', FreeInv, UpdateIsAlone, NEW r \in Requests, Serve(r)
    PROVE  FreeInv'
<1> USE DEF SafeInv, LockInv
<1>1. CASE LockDevice(r) \/ LockOrigin(r)
  <2>1. /\ requests[r] # None /\ requests[r].at \in {"lockDevice", "lockOrigin"}
        /\ requests[r].op = "add" /\ UNCHANGED <<groups, ticks>>
    BY <1>1, OpOf DEF LockDevice, LockOrigin, At, rows
  <2>2. RequestStays(r)
    BY <1>1, LockDeviceLocks, LockOriginLocks
  <2>3. requests'[r].at \in {"lockOrigin", "check", "unlock"}
    <3>1. \/ Goto(r, "unlock")
          \/ Hold(r, "device", "lockOrigin")
          \/ Hold(r, "origin", "check")
      BY <1>1 DEF LockDevice, LockOrigin
    <3>2. CASE Goto(r, "unlock")
      BY <2>1, <3>2, AtGoesOn
    <3>3. CASE Hold(r, "device", "lockOrigin")
      BY <2>1, <3>3, HoldGoesOn
    <3>4. CASE Hold(r, "origin", "check")
      BY <2>1, <3>4, HoldGoesOn
    <3> QED BY <3>1, <3>2, <3>3, <3>4
  <2>4. \A s \in Requests : Checked(s)' => Checked(s) /\ requests'[s] = requests[s]
    BY <2>2, <2>3 DEF Checked, RequestStays
  <2> QED BY <2>1, <2>4, RowsStayFree
<1>2. CASE Charge(r)
  <2>1. RequestStays(r) /\ UNCHANGED <<groups, ticks>> /\ requests[r].at = "charge"
    BY <1>2, ChargeLocks DEF Charge, At, rows
  <2>2. \A s \in Requests : s # r => requests'[s] = requests[s]
    BY <2>1 DEF RequestStays
  <2>3. \A s \in Requests : Checked(s)' =>
            Checked(s) /\ (requests'[s] = requests[s] \/ RequestStays(s))
    BY <2>1, <2>2 DEF Checked, RequestStays
  <2> QED BY <2>1, <2>3, RowsStayFree
<1>3. CASE Unlock(r) \/ Settle(r)
  <2>1. /\ UNCHANGED <<groups, ticks>> /\ requests'[r] = None
        /\ \A s \in Requests : s # r => requests'[s] = requests[s]
    BY <1>3, UnlockLocks, SettleLocks DEF Unlock, Settle, rows, CountsNothing
  <2>2. \A s \in Requests : Checked(s)' => Checked(s) /\ requests'[s] = requests[s]
    BY <2>1 DEF Checked
  <2> QED BY <2>1, <2>2, RowsStayFree
<1> QED BY <1>1, <1>2, <1>3, InsertFree, CheckFree, WriteFree, DeleteRowFree DEF Serve

\* The steps of a tick.
LEMMA TickStaysFree ==
    ASSUME TypeOK, TypeOK', FreeInv, UNCHANGED requests, \A g \in Groups : Shrinks(g),
           DatesAreKept'
    PROVE  FreeInv'
<1>1. \A r \in Requests : Checked(r)' => Checked(r) /\ requests'[r] = requests[r]
  BY DEF Checked
<1> QED BY <1>1, ShrunkStaysChecked, ShrunkIsBookedOnce DEF FreeInv

LEMMA ReadFree ==
    ASSUME SafeInv, TypeOK', FreeInv, NEW t \in Ticks, Read(t)
    PROVE  FreeInv'
<1> USE DEF SafeInv, LockInv
<1>1. UNCHANGED <<groups, requests>>
  BY DEF Read, rows
<1>2. \A g \in Groups : Shrinks(g)
  BY <1>1 DEF Shrinks, Exists
<1>3. /\ \A u \in Ticks : u # t => ticks'[u] = ticks[u]
      /\ \A i \in DOMAIN ticks'[t].todo :
             /\ ticks'[t].todo[i].group = groups[ticks'[t].todo[i].group.id]
      /\ \A i, j \in DOMAIN ticks'[t].todo :
             ticks'[t].todo[i].group.id = ticks'[t].todo[j].group.id => i = j
  BY ReadReads DEF Ownership
<1>4. DatesAreKept'
  <2> SUFFICES ASSUME NEW u \in Ticks, ticks'[u] # None
               PROVE  /\ \A i, j \in DOMAIN ticks'[u].todo :
                            ticks'[u].todo[i].group.id = ticks'[u].todo[j].group.id => i = j
                      /\ \A i \in DOMAIN ticks'[u].todo :
                            LET g == ticks'[u].todo[i].group
                            IN  (i # 1 \/ ticks'[u].at \in {"lock", "write"})
                                    /\ groups'[g.id] # None =>
                                groups'[g.id].dates = g.dates
    BY DEF DatesAreKept, Exists
  <2>1. CASE u = t
    BY <1>1, <1>3, <2>1
  <2>2. CASE u # t
    <3>1. ticks'[u] = ticks[u] /\ groups' = groups
      BY <1>1, <1>3, <2>2
    <3> QED BY <3>1 DEF FreeInv, DatesAreKept, Exists
  <2> QED BY <2>1, <2>2
<1> QED BY <1>1, <1>2, <1>4, TickStaysFree

\* A tick that stays with its row.
LEMMA StayingIsFree ==
    ASSUME SafeInv, TypeOK', FreeInv, NEW t \in Ticks, UNCHANGED <<groups, requests>>,
           TickStays(t), \A u \in Ticks : u # t => ticks'[u] = ticks[u],
           ticks'[t].at \in {"lock", "write"} => ticks[t].at \in {"lock", "write"}
    PROVE  FreeInv'
<1> USE DEF SafeInv, LockInv
<1>1. \A g \in Groups : Shrinks(g)
  BY DEF Shrinks, Exists
<1>2. DatesAreKept'
  BY DatesStayKept DEF FreeInv, TickStays, Exists
<1> QED BY <1>1, <1>2, TickStaysFree

\* A tick that goes on with its next row.
LEMMA TurningIsFree ==
    ASSUME SafeInv, TypeOK', FreeInv, NEW t \in Ticks, UNCHANGED requests,
           TickTurnsOver(t), \A u \in Ticks : u # t => ticks'[u] = ticks[u], SameRows,
           \A g \in Groups : Exists(g) => /\ groups'[g].dates = groups[g].dates
                                          /\ groups'[g].devices = groups[g].devices
    PROVE  FreeInv'
<1> USE DEF SafeInv, LockInv
<1>1. \A g \in Groups : groups'[g] # None =>
          /\ groups[g] # None /\ groups'[g].dates = groups[g].dates
          /\ groups'[g].devices = groups[g].devices
  BY DEF SameRows, Exists
<1>2. \A g \in Groups : Shrinks(g)
  BY <1>1 DEF Shrinks, Exists
<1>3. DatesAreKept'
  <2> SUFFICES ASSUME NEW u \in Ticks, ticks'[u] # None
               PROVE  /\ \A i, j \in DOMAIN ticks'[u].todo :
                            ticks'[u].todo[i].group.id = ticks'[u].todo[j].group.id => i = j
                      /\ \A i \in DOMAIN ticks'[u].todo :
                            LET g == ticks'[u].todo[i].group
                            IN  (i # 1 \/ ticks'[u].at \in {"lock", "write"})
                                    /\ groups'[g.id] # None =>
                                groups'[g.id].dates = g.dates
    BY DEF DatesAreKept, Exists
  <2>1. CASE u # t
    <3>1. ticks'[u] = ticks[u] /\ ticks[u] # None
      BY <2>1
    <3>2. \A i \in DOMAIN ticks[u].todo : ticks[u].todo[i].group.id \in Groups
      BY <3>1, ListedAreRows
    <3> QED BY <1>1, <3>1, <3>2 DEF FreeInv, DatesAreKept, Exists
  <2>2. CASE u = t
    <3> DEFINE s == ticks[t].todo
    <3>1. ticks'[t].todo = Tail(s) /\ ticks[t] # None
      BY <2>2 DEF TickTurnsOver
    <3>2. s \in Seq(Due1) /\ s # <<>>
      BY <3>1, Listed
    <3>3. /\ \A i, j \in DOMAIN s : s[i].group.id = s[j].group.id => i = j
          /\ \A i \in DOMAIN s : i # 1 /\ groups[s[i].group.id] # None =>
                 groups[s[i].group.id].dates = s[i].group.dates
          /\ \A i \in DOMAIN s : s[i].group.id \in Groups
      BY <3>1, ListedAreRows DEF FreeInv, DatesAreKept, Exists
    <3> HIDE DEF s
    <3>4. \A i \in DOMAIN Tail(s) : /\ i + 1 \in DOMAIN s /\ Tail(s)[i] = s[i + 1]
                                    /\ i \in Nat \ {0}
      BY <3>2, HeadDropped
    <3>5. \A i, j \in DOMAIN Tail(s) : Tail(s)[i].group.id = Tail(s)[j].group.id => i = j
      BY <3>3, <3>4
    <3>6. \A i \in DOMAIN Tail(s) : groups'[Tail(s)[i].group.id] # None =>
              groups'[Tail(s)[i].group.id].dates = Tail(s)[i].group.dates
      <4> SUFFICES ASSUME NEW i \in DOMAIN Tail(s), groups'[Tail(s)[i].group.id] # None
                   PROVE  groups'[Tail(s)[i].group.id].dates = Tail(s)[i].group.dates
        OBVIOUS
      <4>1. i + 1 \in DOMAIN s /\ Tail(s)[i] = s[i + 1] /\ i + 1 # 1
        BY <3>4
      <4> QED BY <1>1, <3>3, <4>1
    <3> QED BY <2>2, <3>1, <3>5, <3>6
  <2> QED BY <2>1, <2>2
<1> QED BY <1>2, <1>3, TickStaysFree

\* updateGroupDates drops dates of the row as it is.
LEMMA UpdateDatesFree ==
    ASSUME SafeInv, TypeOK', FreeInv, OneTick, NEW t \in Ticks, UpdateDates(t)
    PROVE  FreeInv'
<1> USE DEF SafeInv, LockInv
<1> DEFINE g == Due(t).id
           d == Due(t)
           drop == What(t).drop
<1>1. /\ ticks[t] # None /\ ticks[t].at = "write" /\ g \in Groups /\ Exists(g)
      /\ drop \in Nat /\ drop < d.dates.times
      /\ groups'[g].dates = Dropped(d, drop)
      /\ groups'[g].devices = groups[g].devices
      /\ \A h \in Groups : h # g => groups'[h] = groups[h]
  BY DatesWrites
<1>2. d \in GroupRows /\ ticks[t].todo[1].group = d /\ 1 \in DOMAIN ticks[t].todo
  BY <1>1, Listed DEF Due
<1>3. UNCHANGED requests /\ TickStays(t) /\ ticks'[t].at = "charge"
      /\ \A u \in Ticks : u # t => ticks'[u] = ticks[u]
  BY UpdateDatesLocks DEF TickCountsNothing
<1>4. groups[g].dates = d.dates
  BY <1>1, <1>2 DEF FreeInv, DatesAreKept
<1>5. Within(Dropped(d, drop), d.dates)
  <2> HIDE DEF d, drop
  <2> QED BY <1>1, <1>2, DroppedIsWithin
<1> HIDE DEF g, drop, d
<1>6. \A h \in Groups : Shrinks(h)
  BY <1>1, <1>4, <1>5 DEF Shrinks, Exists
<1>7. \A i \in DOMAIN ticks[t].todo : i # 1 => ticks[t].todo[i].group.id # g
  BY <1>1, <1>2 DEF FreeInv, DatesAreKept, g, d
<1>8. \A i \in DOMAIN ticks[t].todo : ticks[t].todo[i].group.id \in Groups
  BY <1>1, ListedAreRows
<1>9. \A u \in Ticks : ticks'[u] # None => u = t
  BY <1>1, <1>3 DEF OneTick
<1>10. \A i \in DOMAIN ticks[t].todo : i # 1 =>
           groups'[ticks[t].todo[i].group.id] = groups[ticks[t].todo[i].group.id]
  BY <1>1, <1>7, <1>8
<1>11. DatesAreKept'
  BY <1>3, <1>9, <1>10, DatesStayKept DEF FreeInv, TickStays, Exists
<1> QED BY <1>3, <1>6, <1>11, TickStaysFree

LEMMA DeleteOverFree ==
    ASSUME SafeInv, TypeOK', FreeInv, NEW t \in Ticks, DeleteOver(t)
    PROVE  FreeInv'
<1> USE DEF SafeInv, LockInv
<1> DEFINE g == Due(t).id
<1>1. /\ ticks[t] # None /\ ticks[t].at = "write" /\ g \in Groups
      /\ groups'[g] = None /\ UNCHANGED requests
      /\ ticks'[t] # None /\ ticks'[t].at = "settle"
      /\ \A h \in Groups : h # g => groups'[h] = groups[h]
      /\ \A u \in Ticks : u # t => ticks'[u] = ticks[u]
      /\ DOMAIN ticks'[t].todo = DOMAIN ticks[t].todo
      /\ \A i \in DOMAIN ticks[t].todo :
            /\ ticks'[t].todo[i].group.id = ticks[t].todo[i].group.id
            /\ i # 1 => ticks'[t].todo[i] = ticks[t].todo[i]
  BY DeleteOverLocks
<1> HIDE DEF g
<1>2. \A h \in Groups : groups'[h] # None => groups'[h] = groups[h]
  BY <1>1
<1>3. \A h \in Groups : Shrinks(h)
  BY <1>2 DEF Shrinks, Exists
<1>4. \A u \in Ticks : ticks[u] # None => \A i \in DOMAIN ticks[u].todo :
          ticks[u].todo[i].group.id \in Groups
  BY ListedAreRows
<1>5. DatesAreKept'
  <2> SUFFICES ASSUME NEW u \in Ticks, ticks'[u] # None
               PROVE  /\ \A i, j \in DOMAIN ticks'[u].todo :
                            ticks'[u].todo[i].group.id = ticks'[u].todo[j].group.id => i = j
                      /\ \A i \in DOMAIN ticks'[u].todo :
                            LET h == ticks'[u].todo[i].group
                            IN  (i # 1 \/ ticks'[u].at \in {"lock", "write"})
                                    /\ groups'[h.id] # None =>
                                groups'[h.id].dates = h.dates
    BY DEF DatesAreKept, Exists
  <2>1. CASE u # t
    <3>1. ticks'[u] = ticks[u] /\ ticks[u] # None
      BY <1>1, <2>1
    <3> QED BY <1>2, <1>4, <3>1 DEF FreeInv, DatesAreKept, Exists
  <2>2. CASE u = t
    <3>1. \A i, j \in DOMAIN ticks[t].todo :
              ticks[t].todo[i].group.id = ticks[t].todo[j].group.id => i = j
      BY <1>1 DEF FreeInv, DatesAreKept
    <3>2. \A i \in DOMAIN ticks[t].todo : i # 1 /\ groups[ticks[t].todo[i].group.id] # None =>
              groups[ticks[t].todo[i].group.id].dates = ticks[t].todo[i].group.dates
      BY <1>1 DEF FreeInv, DatesAreKept, Exists
    <3>3. \A i \in DOMAIN ticks[t].todo : ticks[t].todo[i].group.id \in Groups
      BY <1>1, <1>4
    <3>4. \A i, j \in DOMAIN ticks'[t].todo :
              ticks'[t].todo[i].group.id = ticks'[t].todo[j].group.id => i = j
      BY <1>1, <3>1
    <3>5. \A i \in DOMAIN ticks'[t].todo :
              i # 1 /\ groups'[ticks'[t].todo[i].group.id] # None =>
              groups'[ticks'[t].todo[i].group.id].dates = ticks'[t].todo[i].group.dates
      <4> SUFFICES ASSUME NEW i \in DOMAIN ticks'[t].todo, i # 1,
                          groups'[ticks'[t].todo[i].group.id] # None
                   PROVE  groups'[ticks'[t].todo[i].group.id].dates = ticks'[t].todo[i].group.dates
        OBVIOUS
      <4>1. ticks'[t].todo[i] = ticks[t].todo[i] /\ i \in DOMAIN ticks[t].todo
        BY <1>1
      <4> QED BY <1>2, <3>2, <3>3, <4>1
    <3> QED BY <1>1, <2>2, <3>4, <3>5
  <2> QED BY <2>1, <2>2
<1> QED BY <1>1, <1>3, <1>5, TickStaysFree

LEMMA ScheduleFree ==
    ASSUME SafeInv, TypeOK', FreeInv, OneTick, NEW t \in Ticks, Schedule(t)
    PROVE  FreeInv'
<1> USE DEF SafeInv, LockInv
<1>1. CASE AdminLock(t) \/ UpdateQuota(t) \/ SettleOver(t)
  <2>1. /\ TickStays(t) /\ UNCHANGED <<groups, requests>>
        /\ \A u \in Ticks : u # t => ticks'[u] = ticks[u]
        /\ ticks[t].at = "lock" \/ ticks'[t].at = "unlock"
    BY <1>1, AdminLockLocks, UpdateQuotaLocks, SettleOverLocks DEF TickCountsNothing
  <2> QED BY <2>1, StayingIsFree
<1>2. CASE AdminLockSkipped(t) \/ AdminLockRefused(t) \/ AdminUnlock(t)
  <2>1. TickTurnsOver(t) /\ TickCountsNothing(t)
    BY <1>2, AdminLockSkippedLocks, AdminLockRefusedLocks, AdminUnlockLocks
  <2>2. \A g \in Groups : Exists(g) => /\ groups'[g].dates = groups[g].dates
                                       /\ groups'[g].devices = groups[g].devices
    BY <1>2, AdminLockSkippedLocks, RefusedWrites, AdminUnlockLocks
  <2> QED BY <2>1, <2>2, TurningIsFree DEF TickCountsNothing
<1> QED BY <1>1, <1>2, ReadFree, UpdateDatesFree, DeleteOverFree DEF Schedule

LEMMA FreeBegins == Init => FreeInv
BY NoneIsNothing DEF Init, FreeInv, DatesAreKept, CheckedIsFree, Checked, BookedOnce, Exists

LEMMA AskFree ==
    ASSUME SafeInv, TypeOK', FreeInv, NEW r \in Requests, Ask(r)
    PROVE  FreeInv'
BY AskBegins, CreateGroupFree, LockFree DEF LocksSome, SafeInv, LockInv

LEMMA FreeGoesOn ==
    SafeInv /\ TypeOK' /\ FreeInv /\ UpdateIsAlone /\ OneTick /\ [Next]_vars => FreeInv'
<1> SUFFICES ASSUME SafeInv, TypeOK', FreeInv, UpdateIsAlone, OneTick, [Next]_vars
             PROVE  FreeInv'
  OBVIOUS
<1>1. CASE Time \/ UNCHANGED vars
  <2>1. UNCHANGED <<groups, ticks, requests>>
    BY <1>1 DEF Time, vars, rows
  <2>2. \A s \in Requests : Checked(s)' => Checked(s) /\ requests'[s] = requests[s]
    BY <2>1 DEF Checked
  <2> QED BY <2>1, <2>2, RowsStayFree DEF SafeInv, LockInv
<1> QED BY <1>1, AskFree, ServeFree, ScheduleFree DEF Next

LEMMA BookingBegins == Init => BookingInv
<1>1. Init => RowIsKept /\ DeviceIsLocked
  BY DEF Init, RowIsKept, DeviceIsLocked, Holds
<1> QED BY <1>1, LocksBegin, AloneBegins, FreeBegins DEF BookingInv, SafeInv

LEMMA ScenarioStays == [Next]_vars => UNCHANGED scenario
<1>1. ASSUME NEW r \in Requests, Ask(r) PROVE UNCHANGED scenario
  BY <1>1 DEF Ask, CreateGroup, AddDevice, RemoveDevice, UpdateGroup, DeleteGroup, Lock, timing
<1>2. ASSUME NEW r \in Requests, Serve(r) PROVE UNCHANGED scenario
  BY <1>2 DEF Serve, Insert, LockDevice, LockOrigin, Check, Charge, Write, Unlock, DeleteRow,
     Settle, timing
<1>3. ASSUME NEW t \in Ticks, Schedule(t) PROVE UNCHANGED scenario
  BY <1>3 DEF Schedule, Read, AdminLock, AdminLockSkipped, AdminLockRefused, UpdateDates,
     UpdateQuota, DeleteOver, SettleOver, AdminUnlock, timing
<1>4. CASE Time \/ UNCHANGED vars
  BY <1>4 DEF Time, vars
<1> QED BY <1>1, <1>2, <1>3, <1>4 DEF Next

LEMMA BookingGoesOn == BookingInv /\ [Next]_vars => BookingInv'
<1> SUFFICES ASSUME BookingInv, [Next]_vars PROVE BookingInv'
  OBVIOUS
<1>1. SafeInv'
  BY LocksGoOn, AloneGoesOn, KeptGoesOn, HoldsGoOn DEF BookingInv, SafeInv
<1>2. Calm' => Calm
  <2>1. UNCHANGED scenario
    BY ScenarioStays
  <2> QED BY <2>1 DEF Calm, TicksFollowEachOther
<1>3. ASSUME Calm PROVE FreeInv'
  <2>1. SafeInv /\ FreeInv /\ UpdateIsAlone /\ OneTick
    BY <1>3 DEF BookingInv, SafeInv, AloneInv
  <2>2. TypeOK'
    BY <1>1 DEF SafeInv, LockInv
  <2> QED BY <2>1, <2>2, FreeGoesOn
<1> QED BY <1>1, <1>2, <1>3 DEF BookingInv

\* The inductive invariant of the booking: locks, what they protect, and, if
\* schedules are changed one at a time, that devices are free when they are
\* booked.
THEOREM BookingHolds == Spec => []BookingInv
BY BookingBegins, BookingGoesOn, PTL DEF Spec

LEMMA FreeIsBookedOnce == BookingInv => NoDoubleBooking
<1> SUFFICES ASSUME BookingInv, Calm, NEW g \in Rows, NEW h \in Rows, g # h,
                    g.devices \cap h.devices # {}
             PROVE  ~Overlap(g.dates, h.dates)
  BY DEF NoDoubleBooking, DevicesAreBookedOnce, Calm
<1>1. PICK i \in Groups, j \in Groups : Exists(i) /\ Exists(j) /\ g = groups[i] /\ h = groups[j]
  BY DEF Rows
<1>2. BookedOnce
  BY DEF BookingInv, FreeInv
<1> QED BY <1>1, <1>2 DEF BookedOnce

\* No device is booked by two groups for the same time (README.md:69), as long
\* as schedules are changed one at a time (an update, and each tick, on its
\* own): however many additions of devices, removals and deletions overlap with
\* each other and with a tick, an addition that found a device free has it
\* locked until the row is written, and nothing else books it or widens the
\* dates of a group in between.
THEOREM NoDeviceIsBookedTwice == Spec => []NoDoubleBooking
BY BookingHolds, FreeIsBookedOnce, PTL

-----------------------------------------------------------------------------
(***************************************************************************)
(* Sums over finite sets: the total of the durations of any set of rows.   *)
(* The recursive function that defines it exists, and adds up in any order.*)
(***************************************************************************)
Total(S) == MapThenSumSet(LAMBDA g : g.duration, S)

Any(s) == CHOOSE x \in s : TRUE
\* f adds up the durations of every subset of S with at most n elements.
AddsUp(f, s) == f[s] = IF s = {} THEN 0 ELSE Any(s).duration + f[s \ {Any(s)}]

LEMMA Count ==
    ASSUME NEW P \in SUBSET Nat, 0 \in P, \A n \in P : n + 1 \in P
    PROVE  P = Nat
<1> SUFFICES ASSUME Nat \ P # {} PROVE FALSE
  OBVIOUS
<1> DEFINE m == Min(Nat \ P)
<1>1. m \in Nat \ P /\ \A y \in Nat \ P : m <= y
  <2>1. Nat \ P \in SUBSET Nat
    OBVIOUS
  <2> QED BY <2>1, LeastIsOne
<1> HIDE DEF m
<1>2. m - 1 \in Nat /\ m - 1 \notin Nat \ P
  BY <1>1
<1>3. m - 1 + 1 \in P
  BY <1>2
<1> QED BY <1>1, <1>3

LEMMA SumsUpTo ==
    ASSUME NEW S, IsFiniteSet(S), \A g \in S : g.duration \in Int, NEW k \in Nat
    PROVE  \E f \in [SUBSET S -> Int] : \A s \in SUBSET S : Cardinality(s) <= k => AddsUp(f, s)
<1> DEFINE P == {n \in Nat : \E f \in [SUBSET S -> Int] :
                      \A s \in SUBSET S : Cardinality(s) <= n => AddsUp(f, s)}
<1>0. \A s \in SUBSET S : IsFiniteSet(s) /\ Cardinality(s) \in Nat
  BY FS_Subset, FS_CardinalityType
<1>1. 0 \in P
  <2> DEFINE f == [s \in SUBSET S |-> 0]
  <2>1. f \in [SUBSET S -> Int]
    OBVIOUS
  <2>2. \A s \in SUBSET S : Cardinality(s) <= 0 => AddsUp(f, s)
    <3> SUFFICES ASSUME NEW s \in SUBSET S, Cardinality(s) <= 0 PROVE AddsUp(f, s)
      OBVIOUS
    <3>1. s = {}
      BY <1>0, FS_EmptySet
    <3> QED BY <3>1 DEF AddsUp
  <2> HIDE DEF f
  <2> QED BY <2>1, <2>2
<1>2. \A n \in P : n + 1 \in P
  <2> SUFFICES ASSUME NEW n \in P PROVE n + 1 \in P
    OBVIOUS
  <2>1. PICK h \in [SUBSET S -> Int] : \A s \in SUBSET S : Cardinality(s) <= n => AddsUp(h, s)
    OBVIOUS
  <2>2. n \in Nat
    OBVIOUS
  <2> DEFINE f == [s \in SUBSET S |-> IF s = {} THEN 0 ELSE Any(s).duration + h[s \ {Any(s)}]]
  <2>3. \A s \in SUBSET S : s # {} => Any(s) \in s /\ Any(s).duration \in Int /\ s \ {Any(s)} \in SUBSET S
    BY DEF Any
  <2>4. f \in [SUBSET S -> Int]
    BY <2>3
  <2>5. \A s \in SUBSET S : Cardinality(s) <= n => f[s] = h[s]
    BY <2>1 DEF AddsUp
  <2>6. ASSUME NEW s \in SUBSET S, Cardinality(s) <= n + 1
        PROVE  AddsUp(f, s)
    <3>1. CASE s = {}
      BY <3>1 DEF AddsUp
    <3>2. CASE s # {}
      <4> DEFINE x == Any(s)
      <4>1. x \in s /\ s \ {x} \in SUBSET S
        BY <2>3, <3>2
      <4>2. Cardinality(s \ {x}) = Cardinality(s) - 1
        BY <4>1, <1>0, FS_RemoveElement
      <4>3. Cardinality(s \ {x}) <= n
        BY <4>2, <2>2, <2>6, <1>0
      <4>4. f[s \ {x}] = h[s \ {x}]
        BY <4>1, <4>3, <2>5
      <4>5. f[s] = x.duration + h[s \ {x}]
        BY <3>2
      <4> HIDE DEF f
      <4> QED BY <3>2, <4>4, <4>5 DEF AddsUp
    <3> QED BY <3>1, <3>2
  <2> HIDE DEF f
  <2> QED BY <2>2, <2>4, <2>6
<1>3. P \in SUBSET Nat
  OBVIOUS
<1> HIDE DEF P
<1>4. P = Nat
  BY <1>1, <1>2, <1>3, Count
<1>5. k \in P
  BY <1>4
<1> QED BY <1>5 DEF P


\* There is one way to add them up.
LEMMA SumsAreOne ==
    ASSUME NEW S, IsFiniteSet(S), NEW f, NEW h,
           \A s \in SUBSET S : AddsUp(f, s) /\ AddsUp(h, s)
    PROVE  \A s \in SUBSET S : f[s] = h[s]
<1> DEFINE P == {n \in Nat : \A s \in SUBSET S : Cardinality(s) <= n => h[s] = f[s]}
<1>1. \A s \in SUBSET S : IsFiniteSet(s) /\ Cardinality(s) \in Nat
  BY FS_Subset, FS_CardinalityType
<1>2. 0 \in P
  <2>1. \A s \in SUBSET S : Cardinality(s) <= 0 => s = {}
    BY <1>1, FS_EmptySet
  <2> QED BY <2>1 DEF AddsUp
<1>3. ASSUME NEW n \in P PROVE n + 1 \in P
  <2> SUFFICES ASSUME NEW s \in SUBSET S, Cardinality(s) <= n + 1 PROVE h[s] = f[s]
    OBVIOUS
  <2>1. CASE s = {}
    BY <2>1 DEF AddsUp
  <2>2. CASE s # {}
    <3> DEFINE x == Any(s)
    <3>1. x \in s /\ s \ {x} \in SUBSET S
      BY <2>2 DEF Any
    <3>2. Cardinality(s \ {x}) = Cardinality(s) - 1
      BY <3>1, <1>1, FS_RemoveElement
    <3>3. Cardinality(s \ {x}) <= n
      BY <3>2, <1>1
    <3>4. f[s \ {x}] = h[s \ {x}]
      BY <3>1, <3>3
    <3> QED BY <2>2, <3>4 DEF AddsUp
  <2> QED BY <2>1, <2>2
<1>4. P \in SUBSET Nat
  OBVIOUS
<1> HIDE DEF P
<1>5. P = Nat
  BY <1>2, <1>3, <1>4, Count
<1> QED BY <1>1, <1>5 DEF P

\* Total is defined by a recursive function, and there is one.
LEMMA TotalAddsUp ==
    ASSUME NEW S, IsFiniteSet(S), \A g \in S : g.duration \in Int
    PROVE  \E f \in [SUBSET S -> Int] : (\A s \in SUBSET S : AddsUp(f, s)) /\ Total(S) = f[S]
<1> DEFINE Adds(f) ==
        f = [s \in SUBSET S |-> IF s = {} THEN 0 ELSE Any(s).duration + f[s \ {Any(s)}]]
<1>1. PICK f \in [SUBSET S -> Int] :
          \A s \in SUBSET S : Cardinality(s) <= Cardinality(S) => AddsUp(f, s)
  BY SumsUpTo, FS_CardinalityType
<1>2. \A s \in SUBSET S : AddsUp(f, s)
  BY <1>1, FS_Subset
<1>3. Adds(f)
  BY <1>2 DEF AddsUp
<1> DEFINE h == CHOOSE e : Adds(e)
<1>4. Adds(h)
  BY <1>3
<1>5. Total(S) = h[S]
  BY DEF Total, MapThenSumSet, MapThenFoldSet, Any
<1> HIDE DEF h
<1>6. \A s \in SUBSET S : AddsUp(h, s)
  BY <1>4 DEF AddsUp
<1>7. h[S] = f[S]
  BY <1>2, <1>6, SumsAreOne
<1> QED BY <1>2, <1>5, <1>7

LEMMA TotalOfParts ==
    ASSUME NEW S, IsFiniteSet(S), \A g \in S : g.duration \in Int
    PROVE  \E f \in [SUBSET S -> Int] :
               \A s \in SUBSET S : AddsUp(f, s) /\ f[s] = Total(s)
<1>1. PICK f \in [SUBSET S -> Int] : (\A s \in SUBSET S : AddsUp(f, s)) /\ Total(S) = f[S]
  BY TotalAddsUp
<1>2. ASSUME NEW s \in SUBSET S PROVE f[s] = Total(s)
  <2>1. IsFiniteSet(s) /\ \A g \in s : g.duration \in Int
    BY FS_Subset
  <2>2. PICK h \in [SUBSET s -> Int] : (\A e \in SUBSET s : AddsUp(h, e)) /\ Total(s) = h[s]
    BY <2>1, TotalAddsUp
  <2>3. \A e \in SUBSET s : AddsUp(f, e)
    BY <1>1
  <2> QED BY <2>1, <2>2, <2>3, SumsAreOne
<1> QED BY <1>1, <1>2

LEMMA TotalStep ==
    ASSUME NEW S, IsFiniteSet(S), \A g \in S : g.duration \in Int
    PROVE  /\ Total(S) \in Int
           /\ S = {} => Total(S) = 0
           /\ S # {} => Total(S) = Any(S).duration + Total(S \ {Any(S)})
<1>1. PICK f \in [SUBSET S -> Int] : \A s \in SUBSET S : AddsUp(f, s) /\ f[s] = Total(s)
  BY TotalOfParts
<1>2. S \in SUBSET S /\ S \ {Any(S)} \in SUBSET S
  OBVIOUS
<1>3. /\ f[S] \in Int /\ f[S] = Total(S) /\ AddsUp(f, S)
      /\ f[S \ {Any(S)}] = Total(S \ {Any(S)})
  <2> HIDE DEF AddsUp
  <2> QED BY <1>1, <1>2
<1> QED BY <1>3 DEF AddsUp

\* Whichever is taken first.
LEMMA TotalWithout ==
    ASSUME NEW S, IsFiniteSet(S), \A g \in S : g.duration \in Int, NEW y \in S
    PROVE  Total(S) = y.duration + Total(S \ {y})
<1> DEFINE P == {n \in Nat : \A s \in SUBSET S : Cardinality(s) <= n =>
                     \A z \in s : Total(s) = z.duration + Total(s \ {z})}
<1>1. \A s \in SUBSET S : /\ IsFiniteSet(s) /\ Cardinality(s) \in Nat
                          /\ \A g \in s : g.duration \in Int
  BY FS_Subset, FS_CardinalityType
<1>2. 0 \in P
  <2>1. \A s \in SUBSET S : Cardinality(s) <= 0 => s = {}
    BY <1>1, FS_EmptySet
  <2> QED BY <2>1
<1>3. ASSUME NEW n \in P PROVE n + 1 \in P
  <2> SUFFICES ASSUME NEW s \in SUBSET S, Cardinality(s) <= n + 1, NEW z \in s
               PROVE  Total(s) = z.duration + Total(s \ {z})
    OBVIOUS
  <2> DEFINE x == Any(s)
  <2>1. x \in s
    BY DEF Any
  <2>2. Total(s) = x.duration + Total(s \ {x})
    BY <1>1, <2>1, TotalStep
  <2>3. CASE x = z
    BY <2>2, <2>3
  <2>4. CASE x # z
    <3>1. z \in s \ {x} /\ x \in s \ {z} /\ s \ {x} \in SUBSET S /\ s \ {z} \in SUBSET S
      BY <2>1, <2>4
    <3>2. Cardinality(s \ {x}) <= n /\ Cardinality(s \ {z}) <= n
      <4>1. /\ Cardinality(s \ {x}) = Cardinality(s) - 1
            /\ Cardinality(s \ {z}) = Cardinality(s) - 1
        BY <2>1, <1>1, FS_RemoveElement
      <4> QED BY <4>1, <1>1
    <3>3. Total(s \ {x}) = z.duration + Total((s \ {x}) \ {z})
      BY <3>1, <3>2
    <3>4. Total(s \ {z}) = x.duration + Total((s \ {z}) \ {x})
      BY <3>1, <3>2
    <3>5. (s \ {x}) \ {z} = (s \ {z}) \ {x}
      OBVIOUS
    <3>6. Total((s \ {z}) \ {x}) \in Int /\ x.duration \in Int /\ z.duration \in Int
      <4>1. IsFiniteSet((s \ {z}) \ {x}) /\ \A g \in (s \ {z}) \ {x} : g.duration \in Int
        BY <1>1, <3>1, FS_Subset
      <4> QED BY <2>1, <4>1, TotalStep
    <3> DEFINE a == x.duration
               b == z.duration
               c == Total((s \ {z}) \ {x})
               d == Total(s \ {x})
               e == Total(s \ {z})
               k == Total(s)
    <3>7. /\ k = a + d /\ d = b + c /\ e = a + c
          /\ a \in Int /\ b \in Int /\ c \in Int
      BY <2>2, <3>3, <3>4, <3>5, <3>6
    <3>8. k = b + e
      <4> HIDE DEF a, b, c, d, e, k
      <4> QED BY <3>7
    <3> QED BY <3>8
  <2> QED BY <2>3, <2>4
<1>4. P \in SUBSET Nat
  OBVIOUS
<1> HIDE DEF P
<1>5. P = Nat
  BY <1>2, <1>3, <1>4, Count
<1>6. S \in SUBSET S
  OBVIOUS
<1> QED BY <1>1, <1>5, <1>6 DEF P

\* What is charged for every group, one account each.
Account(p, g) == [id |-> g, duration |-> p[g]]
Accounts(p, D) == {Account(p, g) : g \in D}

LEMMA AccountsAreFinite ==
    ASSUME NEW D, IsFiniteSet(D), NEW p \in [D -> Int], NEW E \in SUBSET D
    PROVE  /\ IsFiniteSet(Accounts(p, E))
           /\ \A a \in Accounts(p, E) : a.duration \in Int
           /\ Total(Accounts(p, E)) \in Int
<1>1. IsFiniteSet(E)
  BY FS_Subset
<1>2. IsFiniteSet(Accounts(p, E))
  <2> DEFINE f == [g \in E |-> Account(p, g)]
  <2>1. f \in Surjection(E, Accounts(p, E))
    BY DEF Accounts, Surjection
  <2> HIDE DEF f
  <2> QED BY <1>1, <2>1, FS_Surjection
<1>3. \A a \in Accounts(p, E) : a.duration \in Int
  BY DEF Accounts, Account
<1> QED BY <1>2, <1>3, TotalStep

LEMMA OneAccount ==
    ASSUME NEW D, IsFiniteSet(D), NEW p \in [D -> Int], NEW E \in SUBSET D, NEW g \in E
    PROVE  Total(Accounts(p, E)) = p[g] + Total(Accounts(p, E \ {g}))
<1>1. Account(p, g) \in Accounts(p, E) /\ Account(p, g).duration = p[g]
  BY DEF Accounts, Account
<1>2. Accounts(p, E) \ {Account(p, g)} = Accounts(p, E \ {g})
  <2>1. \A h \in E : Account(p, h) = Account(p, g) => h = g
    BY DEF Account
  <2> QED BY <2>1 DEF Accounts
<1> QED BY <1>1, <1>2, AccountsAreFinite, TotalWithout

\* One account changes.
LEMMA AccountChanges ==
    ASSUME NEW D, IsFiniteSet(D), NEW p \in [D -> Int], NEW g \in D, NEW n \in Int
    PROVE  Total(Accounts([p EXCEPT ![g] = n], D)) = Total(Accounts(p, D)) - p[g] + n
<1> DEFINE q == [p EXCEPT ![g] = n]
<1>1. q \in [D -> Int] /\ q[g] = n /\ \A h \in D \ {g} : q[h] = p[h]
  OBVIOUS
<1> HIDE DEF q
<1>2. Accounts(q, D \ {g}) = Accounts(p, D \ {g})
  BY <1>1 DEF Accounts, Account
<1>3. Total(Accounts(q, D)) = n + Total(Accounts(q, D \ {g}))
  BY <1>1, OneAccount
<1>4. Total(Accounts(p, D)) = p[g] + Total(Accounts(p, D \ {g}))
  BY OneAccount
<1>5. Total(Accounts(p, D \ {g})) \in Int /\ p[g] \in Int
  BY AccountsAreFinite
<1>6. Total(Accounts(q, D)) = Total(Accounts(p, D)) - p[g] + n
  BY <1>2, <1>3, <1>4, <1>5
<1> QED BY <1>6 DEF q

\* The accounts are those of the rows there are.
LEMMA AccountsOfRows ==
    ASSUME NEW D, IsFiniteSet(D), NEW p \in [D -> Int], NEW H \in SUBSET D, NEW row,
           \A h \in H : row[h].id = h /\ row[h].duration = p[h],
           \A h \in D \ H : p[h] = 0
    PROVE  Total(Accounts(p, D)) = Total({row[h] : h \in H})
<1> DEFINE R(E) == {row[h] : h \in E \cap H}
           P == {n \in Nat : \A E \in SUBSET D : Cardinality(E) <= n =>
                     Total(Accounts(p, E)) = Total(R(E))}
<1>1. \A E \in SUBSET D : IsFiniteSet(E) /\ Cardinality(E) \in Nat
  BY FS_Subset, FS_CardinalityType
<1>2. ASSUME NEW E \in SUBSET D
      PROVE  IsFiniteSet(R(E)) /\ \A x \in R(E) : x.duration \in Int
  <2>1. IsFiniteSet(E \cap H)
    BY FS_Subset
  <2>2. IsFiniteSet(R(E))
    <3> DEFINE f == [h \in E \cap H |-> row[h]]
    <3>1. f \in Surjection(E \cap H, R(E))
      BY DEF Surjection
    <3> HIDE DEF f, R
    <3> QED BY <2>1, <3>1, FS_Surjection
  <2>3. \A x \in R(E) : x.duration \in Int
    OBVIOUS
  <2> QED BY <2>2, <2>3
<1>3. 0 \in P
  <2>1. ASSUME NEW E \in SUBSET D, Cardinality(E) <= 0
        PROVE  Total(Accounts(p, E)) = Total(R(E))
    <3>1. E = {}
      BY <1>1, <2>1, FS_EmptySet
    <3>2. Accounts(p, E) = {} /\ R(E) = {}
      BY <3>1 DEF Accounts
    <3> QED BY <3>2
  <2> QED BY <2>1
<1>4. ASSUME NEW n \in P PROVE n + 1 \in P
  <2> SUFFICES ASSUME NEW E \in SUBSET D, Cardinality(E) <= n + 1
               PROVE  Total(Accounts(p, E)) = Total(R(E))
    OBVIOUS
  <2>1. CASE E = {}
    <3>1. Accounts(p, E) = {} /\ R(E) = {}
      BY <2>1 DEF Accounts
    <3> QED BY <3>1
  <2>2. CASE E # {}
    <3>1. PICK g \in E : TRUE
      BY <2>2
    <3>2. E \ {g} \in SUBSET D /\ Cardinality(E \ {g}) <= n
      <4>1. Cardinality(E \ {g}) = Cardinality(E) - 1
        BY <1>1, FS_RemoveElement
      <4> QED BY <4>1, <1>1
    <3>3. Total(Accounts(p, E \ {g})) = Total(R(E \ {g}))
      BY <3>2
    <3>4. Total(Accounts(p, E)) = p[g] + Total(Accounts(p, E \ {g}))
      BY OneAccount
    <3>5. CASE g \in H
      <4>1. row[g] \in R(E) /\ row[g].duration = p[g]
        BY <3>5
      <4>2. R(E) \ {row[g]} = R(E \ {g})
        <5>1. \A h \in E \cap H : row[h] = row[g] => h = g
          BY <3>5
        <5> QED BY <5>1
      <4> HIDE DEF R
      <4>3. Total(R(E)) = row[g].duration + Total(R(E) \ {row[g]})
        BY <1>2, <4>1, TotalWithout
      <4> QED BY <3>3, <3>4, <4>1, <4>2, <4>3
    <3>6. CASE g \notin H
      <4>1. p[g] = 0 /\ R(E) = R(E \ {g})
        BY <3>6
      <4>2. Total(Accounts(p, E \ {g})) \in Int
        BY <3>2, AccountsAreFinite
      <4> HIDE DEF R
      <4>3. Total(Accounts(p, E)) = Total(Accounts(p, E \ {g}))
        BY <3>4, <4>1, <4>2
      <4> QED BY <3>3, <4>1, <4>3
    <3> QED BY <3>5, <3>6
  <2> QED BY <2>1, <2>2
<1>5. P \in SUBSET Nat
  OBVIOUS
<1> HIDE DEF P
<1>6. P = Nat
  BY <1>3, <1>4, <1>5, Count
<1>7. R(D) = {row[h] : h \in H}
  OBVIOUS
<1>8. D \in SUBSET D
  OBVIOUS
<1> QED BY <1>1, <1>6, <1>7, <1>8 DEF P

-----------------------------------------------------------------------------
(***************************************************************************)
(* What the owner is charged for.                                          *)
(***************************************************************************)
\* Requests and ticks that have charged, or not yet charged, what they do to
\* a row.
Writes(r, g)  == requests[r] # None /\ requests[r].at = "write" /\ requests[r].group.id = g
Settles(r, g) == requests[r] # None /\ requests[r].at = "settle" /\ requests[r].group.id = g
Owes(t, g)    == ticks[t] # None /\ ticks[t].at \in {"charge", "settle"} /\ Due(t).id = g
Quiet(g) ==
    /\ \A r \in Requests : ~Writes(r, g) /\ ~Settles(r, g)
    /\ \A t \in Ticks : ~Owes(t, g)

\* A request is charged before it writes, and pays back after it has deleted;
\* a tick pays back after it has written or deleted.
Paid(p, g) ==
    /\ \A r \in Requests : Writes(r, g) => p[g] = Changed(requests[r]).duration
    /\ \A r \in Requests : Settles(r, g) => p[g] = requests[r].group.duration
    /\ \A t \in Ticks : Owes(t, g) => p[g] = Due(t).duration
    /\ Quiet(g) => p[g] = IF Exists(g) THEN groups[g].duration ELSE 0

Exact(g) == g.duration = Duration(g.devices, g.dates)
RowsAreExact == \A g \in Groups : Exists(g) => Exact(groups[g])
RequestsAreExact == \A r \in Requests : requests[r] # None => Exact(requests[r].group)

\* A tick's rows are those there are, until it has written them.
ListIsKept ==
    \A t \in Ticks : ticks[t] # None =>
        /\ \A i, j \in DOMAIN ticks[t].todo :
              ticks[t].todo[i].group.id = ticks[t].todo[j].group.id => i = j
        /\ \A i \in DOMAIN ticks[t].todo :
              LET g == ticks[t].todo[i].group
              IN  /\ Exact(g)
                  /\ (i # 1 \/ ticks[t].at \in {"lock", "write"}) /\ Exists(g.id) =>
                         groups[g.id].dates = g.dates /\ groups[g.id].devices = g.devices
WrittenIsDropped ==
    \A t \in Ticks : ticks[t] # None /\ ticks[t].at = "charge" =>
        /\ groups[Due(t).id].devices = Due(t).devices
        /\ groups[Due(t).id].dates = Dropped(Due(t), What(t).drop)

TickIsAlone ==
    \A t \in Ticks : ticks[t] # None =>
        /\ \A r \in Requests : requests[r] = None
        /\ \A u \in Ticks : ticks[u] # None => u = t

Balanced ==
    /\ consumed.duration <= MaxDuration
    /\ \E p \in [Groups -> Int] :
          /\ \A g \in Groups : Paid(p, g)
          /\ consumed.duration = Total(Accounts(p, Groups))
ExactInv == TickIsAlone /\ RowsAreExact /\ RequestsAreExact /\ ListIsKept /\ WrittenIsDropped
QuotaInv == "tick" \in scenario => ExactInv /\ Balanced

\* A tick that does not overlap waits for requests, and they wait for it.
LEMMA NobodyOverlaps ==
    ASSUME "tick" \in scenario, NEW op, MayStart(op)
    PROVE  /\ \A t \in Ticks : ticks[t] = None
           /\ op = "tick" => \A r \in Requests : requests[r] = None
<1>1. /\ \A r \in Requests : requests[r] # None => requests[r].op \in Busy
      /\ \A t \in Ticks : ticks[t] # None => "tick" \in Busy
  BY DEF Busy, Serving, Scheduling
<1>2. CASE op \in scenario
  BY <1>1, <1>2 DEF MayStart
<1>3. CASE op \notin scenario
  BY <1>1, <1>3 DEF MayStart
<1> QED BY <1>2, <1>3

LEMMA AskedWithoutTicks ==
    ASSUME "tick" \in scenario, NEW r \in Requests, Ask(r)
    PROVE  (\A t \in Ticks : ticks[t] = None) /\ UNCHANGED ticks
<1>1. \E op : MayStart(op)
  BY DEF Ask, CreateGroup, AddDevice, RemoveDevice, UpdateGroup, DeleteGroup, Lock
<1>2. UNCHANGED ticks
  BY DEF Ask, CreateGroup, AddDevice, RemoveDevice, UpdateGroup, DeleteGroup, Lock
<1> QED BY <1>1, <1>2, NobodyOverlaps

LEMMA ServedWithoutTicks ==
    ASSUME TickIsAlone, NEW r \in Requests, Serve(r)
    PROVE  (\A t \in Ticks : ticks[t] = None) /\ UNCHANGED ticks
<1>1. requests[r] # None
  BY DEF Serve, Insert, LockDevice, LockOrigin, Check, Charge, Write, Unlock, DeleteRow,
     Settle, At
<1>2. UNCHANGED ticks
  BY DEF Serve, Insert, LockDevice, LockOrigin, Check, Charge, Write, Unlock, DeleteRow,
     Settle
<1> QED BY <1>1, <1>2 DEF TickIsAlone

LEMMA TickGoesOn ==
    ASSUME NEW t \in Ticks, Schedule(t), ~Read(t)
    PROVE  ticks[t] # None /\ UNCHANGED requests
BY DEF Schedule, AdminLock, AdminLockSkipped, AdminLockRefused, UpdateDates,
   UpdateQuota, DeleteOver, SettleOver, AdminUnlock, Step

LEMMA TickAloneGoesOn ==
    ASSUME "tick" \in scenario, LockInv, TickIsAlone, [Next]_vars
    PROVE  TickIsAlone'
<1>1. ASSUME NEW r \in Requests, Ask(r) \/ Serve(r) PROVE TickIsAlone'
  BY <1>1, AskedWithoutTicks, ServedWithoutTicks DEF TickIsAlone
<1>2. ASSUME NEW t \in Ticks, Schedule(t), ~Read(t) PROVE TickIsAlone'
  <2>1. ticks[t] # None /\ UNCHANGED requests
    BY <1>2, TickGoesOn
  <2>2. \A u \in Ticks : u # t => ticks'[u] = ticks[u]
    BY <1>2, AdminLockLocks, AdminLockSkippedLocks, AdminLockRefusedLocks, UpdateDatesLocks,
       UpdateQuotaLocks, DeleteOverLocks, SettleOverLocks, AdminUnlockLocks
    DEF Schedule, TickCountsNothing
  <2> QED BY <2>1, <2>2 DEF TickIsAlone
<1>3. ASSUME NEW t \in Ticks, Read(t) PROVE TickIsAlone'
  <2>1. /\ \A u \in Ticks : ticks[u] = None
        /\ \A r \in Requests : requests[r] = None
    BY <1>3, NobodyOverlaps DEF Read
  <2>2. UNCHANGED requests /\ \A u \in Ticks : u # t => ticks'[u] = ticks[u]
    BY <1>3, ReadLocks DEF TickCountsNothing
  <2> QED BY <2>1, <2>2 DEF TickIsAlone
<1>4. CASE Time \/ UNCHANGED vars
  BY <1>4 DEF Time, vars, TickIsAlone
<1> QED BY <1>1, <1>2, <1>3, <1>4 DEF Next

\* What a request has charged and written is that of its own group.
LEMMA RequestPaysElsewhere ==
    ASSUME NEW r \in Requests, UNCHANGED ticks,
           \A s \in Requests : s # r => requests'[s] = requests[s],
           NEW p, NEW q, NEW g \in Groups, groups'[g] = groups[g], q[g] = p[g], Paid(p, g),
           ~Writes(r, g), ~Settles(r, g), ~Writes(r, g)', ~Settles(r, g)'
    PROVE  Paid(q, g)'
<1>1. \A s \in Requests : Writes(s, g)' => s # r /\ Writes(s, g)
  BY DEF Writes
<1>2. \A s \in Requests : Settles(s, g)' => s # r /\ Settles(s, g)
  BY DEF Settles
<1>3. \A t \in Ticks : (Owes(t, g)' <=> Owes(t, g)) /\ Due(t)' = Due(t)
  BY DEF Owes, Due
<1>4. Quiet(g)' => Quiet(g)
  <2>1. \A s \in Requests : Writes(s, g) => Writes(s, g)'
    BY DEF Writes
  <2>2. \A s \in Requests : Settles(s, g) => Settles(s, g)'
    BY DEF Settles
  <2> QED BY <1>3, <2>1, <2>2 DEF Quiet
<1>5. \A s \in Requests : Writes(s, g)' => q[g] = Changed(requests'[s]).duration
  <2> SUFFICES ASSUME NEW s \in Requests, Writes(s, g)'
               PROVE  q[g] = Changed(requests'[s]).duration
    OBVIOUS
  <2>1. requests'[s] = requests[s] /\ Writes(s, g)
    BY <1>1
  <2>2. p[g] = Changed(requests[s]).duration
    BY <2>1 DEF Paid
  <2> QED BY <2>1, <2>2
<1>6. \A s \in Requests : Settles(s, g)' => q[g] = requests'[s].group.duration
  BY <1>2 DEF Paid
<1>7. \A t \in Ticks : Owes(t, g)' => q[g] = Due(t)'.duration
  BY <1>3 DEF Paid
<1>8. Quiet(g)' => q[g] = IF Exists(g)' THEN groups'[g].duration ELSE 0
  BY <1>4 DEF Paid, Exists
<1> QED BY <1>5, <1>6, <1>7, <1>8 DEF Paid

LEMMA TickPaysElsewhere ==
    ASSUME NEW t \in Ticks, UNCHANGED requests,
           \A u \in Ticks : u # t => ticks'[u] = ticks[u],
           NEW p, NEW q, NEW g \in Groups, q[g] = p[g], Paid(p, g),
           Exists(g)' <=> Exists(g), Exists(g) => groups'[g].duration = groups[g].duration,
           ~Owes(t, g), ~Owes(t, g)'
    PROVE  Paid(q, g)'
<1>1. \A s \in Requests : /\ Writes(s, g)' <=> Writes(s, g)
                          /\ Settles(s, g)' <=> Settles(s, g)
                          /\ requests'[s] = requests[s]
  BY DEF Writes, Settles
<1>2. \A u \in Ticks : /\ Owes(u, g)' <=> Owes(u, g)
                       /\ Owes(u, g) => Due(u)' = Due(u)
  BY DEF Owes, Due
<1>3. Quiet(g)' => Quiet(g)
  BY <1>1, <1>2 DEF Quiet
<1>4. \A s \in Requests : Writes(s, g)' => q[g] = Changed(requests'[s]).duration
  <2> SUFFICES ASSUME NEW s \in Requests, Writes(s, g)'
               PROVE  q[g] = Changed(requests'[s]).duration
    OBVIOUS
  <2>1. requests'[s] = requests[s] /\ Writes(s, g)
    BY <1>1
  <2>2. p[g] = Changed(requests[s]).duration
    BY <2>1 DEF Paid
  <2> QED BY <2>1, <2>2
<1>5. \A s \in Requests : Settles(s, g)' => q[g] = requests'[s].group.duration
  BY <1>1 DEF Paid
<1>6. \A u \in Ticks : Owes(u, g)' => q[g] = Due(u)'.duration
  BY <1>2 DEF Paid
<1>7. Quiet(g)' => q[g] = IF Exists(g)' THEN groups'[g].duration ELSE 0
  BY <1>3 DEF Paid, Exists
<1> QED BY <1>4, <1>5, <1>6, <1>7 DEF Paid

\* Nothing is charged, and one account is charged.
LEMMA NothingIsPaid ==
    ASSUME Balanced, consumed'.duration = consumed.duration,
           \A p \in [Groups -> Int], g \in Groups : Paid(p, g) => Paid(p, g)'
    PROVE  Balanced'
BY DEF Balanced

LEMMA OneIsPaid ==
    ASSUME NEW p \in [Groups -> Int], consumed.duration = Total(Accounts(p, Groups)),
           NEW h \in Groups, NEW n \in Int,
           consumed'.duration = consumed.duration - p[h] + n,
           consumed'.duration <= MaxDuration,
           \A g \in Groups : Paid([p EXCEPT ![h] = n], g)'
    PROVE  Balanced'
<1> DEFINE q == [p EXCEPT ![h] = n]
<1>1. q \in [Groups -> Int]
  OBVIOUS
<1>2. Total(Accounts(q, Groups)) = Total(Accounts(p, Groups)) - p[h] + n
  BY DatabaseIsFinite, AccountChanges
<1>3. consumed'.duration = Total(Accounts(q, Groups))
  BY <1>2
<1> HIDE DEF q
<1> QED BY <1>1, <1>3 DEF Balanced, q

\* Who has the lock of a group is the only one who is charged for it.
LEMMA NobodyElseIsCharged ==
    ASSUME LockInv, NEW r \in Requests, Owning(r)
    PROVE  LET g == requests[r].group.id
           IN  /\ \A s \in Requests : ~Settles(s, g) /\ (s # r => ~Writes(s, g))
               /\ \A t \in Ticks : ~Owes(t, g)
               /\ Exists(g) /\ g \in Groups
               /\ requests[r].at # "write" => Quiet(g)
<1> DEFINE g == requests[r].group.id
<1>1. Exists(g) /\ g \in Groups
  BY Known DEF LockInv, Ownership, OwnedIsLocked, Owning, Serving
<1>2. \A s \in Requests : ~Settles(s, g)
  BY <1>1 DEF LockInv, Ownership, SettlingIsGone, Settles, Serving
<1>3. ASSUME NEW s \in Requests, s # r PROVE ~Writes(s, g)
  BY <1>3 DEF LockInv, Ownership, OneOwner, Writes, Owning, Locked
<1>4. ASSUME NEW t \in Ticks PROVE ~Owes(t, g)
  <2>1. ticks[t] # None /\ ticks[t].at = "settle" => Due(t).id # g
    BY <1>1 DEF LockInv, Ownership, SettlingIsGone, Scheduling
  <2>2. ticks[t] # None /\ ticks[t].at = "charge" => Due(t).id # g
    BY DEF LockInv, Ownership, OneOwner, Running
  <2> QED BY <2>1, <2>2 DEF Owes
<1>5. requests[r].at # "write" => Quiet(g)
  BY <1>2, <1>3, <1>4 DEF Quiet, Writes
<1> QED BY <1>1, <1>2, <1>3, <1>4, <1>5

\* What is booked, of fewer devices and dates, is less.
LEMMA DurationGrows ==
    ASSUME NEW A \in SUBSET Devices, NEW B \in SUBSET A, NEW s \in Dates, NEW u \in Dates,
           u.length = s.length, u.times <= s.times
    PROVE  Duration(B, u) <= Duration(A, s)
<1>1. IsFiniteSet(A)
  BY FS_Subset, DatabaseIsFinite
<1> DEFINE a == Cardinality(A)
           b == Cardinality(B)
<1>2. a \in Nat /\ b \in Nat /\ b <= a
  BY <1>1, FS_Subset, FS_CardinalityType
<1>3. s.length \in Nat /\ s.times \in Nat /\ u.times \in Nat
  BY PeriodIsPositive DEF Dates
<1> HIDE DEF a, b
<1>4. \A x, y \in Nat : x * y \in Nat
  OBVIOUS
<1>5. ASSUME NEW x \in Nat, NEW y \in Nat, NEW z \in Nat, x <= y
      PROVE  x * z <= y * z /\ z * x <= z * y
  <2>1. PICK k \in Nat : y = x + k
    <3>1. y - x \in Nat /\ y = x + (y - x)
      BY <1>5
    <3> QED BY <3>1
  <2>2. y * z = x * z + k * z /\ z * y = z * x + z * k
    BY <2>1
  <2>3. k * z \in Nat /\ x * z \in Nat /\ z * k \in Nat /\ z * x \in Nat
    BY <1>4
  <2> QED BY <2>2, <2>3
<1>6. b * s.length <= a * s.length /\ b * s.length \in Nat /\ a * s.length \in Nat
  BY <1>2, <1>3, <1>4, <1>5
<1>7. (b * s.length) * u.times <= (b * s.length) * s.times
  BY <1>3, <1>5, <1>6
<1>8. (b * s.length) * s.times <= (a * s.length) * s.times
  BY <1>3, <1>5, <1>6
<1>9. /\ (b * s.length) * u.times \in Nat /\ (b * s.length) * s.times \in Nat
      /\ (a * s.length) * s.times \in Nat
  BY <1>3, <1>4, <1>6
<1>10. (b * s.length) * u.times <= (a * s.length) * s.times
  <2> DEFINE i == (b * s.length) * u.times
             j == (b * s.length) * s.times
             k == (a * s.length) * s.times
  <2>1. i <= j /\ j <= k /\ i \in Nat /\ j \in Nat /\ k \in Nat
    BY <1>7, <1>8, <1>9
  <2> HIDE DEF i, j, k
  <2>2. i <= k
    BY <2>1
  <2> QED BY <2>2 DEF i, k
<1> QED BY <1>10 DEF Duration, a, b

LEMMA ChangedIsExact ==
    ASSUME NEW q \in Additions \cup Removals \cup Updates
    PROVE  Exact(Changed(q)) /\ Changed(q).duration \in Nat
<1>1. Changed(q) \in GroupRows
  BY ChangedIsTyped
<1> DEFINE used == CASE q.op = "add"    -> q.group.devices \cup {q.device}
                     [] q.op = "remove" -> q.group.devices \ {q.device}
                     [] q.op = "update" -> q.group.devices
           dates == IF q.op = "update" THEN q.dates ELSE q.group.dates
<1>2. q.group \in GroupRows
  BY DEF Additions, Removals, Updates
<1>3. Changed(q) = [q.group EXCEPT !.devices = used, !.dates = dates,
                                   !.duration = Duration(used, dates)]
  BY DEF Changed
<1> HIDE DEF used, dates
<1>4. /\ Changed(q).duration = Duration(used, dates)
      /\ Changed(q).devices = used /\ Changed(q).dates = dates
  BY <1>2, <1>3 DEF GroupRows
<1> QED BY <1>1, <1>4 DEF Exact, GroupRows

LEMMA NothingBooksNothing ==
    ASSUME NEW none, none = {}, NEW s \in Dates
    PROVE  Duration(none, s) = 0
<1>1. s.length \in Nat /\ s.times \in Nat
  BY PeriodIsPositive DEF Dates
<1>2. Cardinality(none) = 0
  BY FS_EmptySet
<1>3. 0 * s.length = 0 /\ 0 * s.times = 0
  BY <1>1
<1> QED BY <1>2, <1>3 DEF Duration

LEMMA NewIsExact ==
    ASSUME NEW g \in Groups, NEW state \in States, NEW s \in Schedules
    PROVE  Exact(Row(g, state, s))
<1>1. PICK none : none = {}
  OBVIOUS
<1>2. Duration(none, s) = 0
  BY <1>1, SchedulesAreDates, NothingBooksNothing
<1> QED BY <1>1, <1>2 DEF Exact, Row

LEMMA RequestsStayExact ==
    ASSUME RequestsAreExact, NEW r \in Requests,
           \A s \in Requests : s # r => requests'[s] = requests[s],
           requests'[r] # None => Exact(requests'[r].group)
    PROVE  RequestsAreExact'
BY DEF RequestsAreExact, Exact

\* The row that a request writes.
LEMMA WriteWritesDuration ==
    ASSUME LockInv, NEW r \in Requests, Write(r)
    PROVE  groups'[requests[r].group.id].duration = Changed(requests[r]).duration
<1> DEFINE q == requests[r]
<1>1. /\ q # None /\ q.at = "write" /\ q \in Additions \cup Removals \cup Updates
      /\ q.group.id \in Groups /\ Exists(q.group.id)
  BY WriteWrites
<1>2. Changed(q).id = q.group.id /\ groups[q.group.id] \in GroupRows
  BY <1>1, ChangedIsTyped, Known DEF LockInv
<1>3. groups' = [groups EXCEPT ![Changed(q).id] =
               IF q.op = "update"
               THEN [@ EXCEPT !.dates = Changed(q).dates, !.duration = Changed(q).duration,
                              !.state = q.state, !.isActive = FALSE]
               ELSE [@ EXCEPT !.devices = Changed(q).devices,
                              !.duration = Changed(q).duration]]
  BY DEF Write
<1>4. groups \in [Groups -> GroupRows \cup {None}]
  BY DEF LockInv, TypeOK
<1> HIDE DEF q
<1> DEFINE g == q.group.id
<1>5. groups'[g] = IF q.op = "update"
               THEN [groups[g] EXCEPT !.dates = Changed(q).dates,
                              !.duration = Changed(q).duration,
                              !.state = q.state, !.isActive = FALSE]
               ELSE [groups[g] EXCEPT !.devices = Changed(q).devices,
                              !.duration = Changed(q).duration]
  BY <1>1, <1>2, <1>3, <1>4
<1>6. groups'[g].duration = Changed(q).duration
  BY <1>2, <1>5 DEF GroupRows
<1> QED BY <1>6 DEF q

LEMMA WriteIsExact ==
    ASSUME LockInv, RowIsKept, RowsAreExact, NEW r \in Requests, Write(r)
    PROVE  RowsAreExact'
<1> DEFINE q == requests[r]
           g == q.group.id
<1>1. /\ q # None /\ q.at = "write" /\ q \in Additions \cup Removals \cup Updates
      /\ g \in Groups /\ Exists(g)
      /\ \A h \in Groups : h # g => groups'[h] = groups[h]
      /\ q.op = "update" => /\ groups'[g].dates = Changed(q).dates
                            /\ groups'[g].devices = groups[g].devices
      /\ q.op # "update" => /\ groups'[g].devices = Changed(q).devices
                            /\ groups'[g].dates = groups[g].dates
  BY WriteWrites
<1>2. groups[g].devices = q.group.devices /\ groups[g].dates = q.group.dates
  BY <1>1 DEF RowIsKept, Changing
<1>3. /\ q.op # "update" => Changed(q).dates = q.group.dates
      /\ q.op = "update" => Changed(q).devices = q.group.devices /\ Changed(q).dates = q.dates
  <2>1. /\ Changed(q).dates = IF q.op = "update" THEN q.dates ELSE q.group.dates
        /\ Changed(q).devices =
                CASE q.op = "add"    -> q.group.devices \cup {q.device}
                  [] q.op = "remove" -> q.group.devices \ {q.device}
                  [] q.op = "update" -> q.group.devices
    BY <1>1, ChangedIsTyped
  <2> HIDE DEF q
  <2> QED BY <2>1
<1>4. groups'[g].devices = Changed(q).devices /\ groups'[g].dates = Changed(q).dates
  BY <1>1, <1>2, <1>3
<1>5. groups'[g].duration = Changed(q).duration /\ Exact(Changed(q))
  BY <1>1, WriteWritesDuration, ChangedIsExact
<1>6. groups'[g].duration = Duration(groups'[g].devices, groups'[g].dates)
  BY <1>4, <1>5 DEF Exact
<1> HIDE DEF g, q
<1>7. \A h \in Groups : Exists(h)' =>
          groups'[h].duration = Duration(groups'[h].devices, groups'[h].dates)
  BY <1>1, <1>6 DEF RowsAreExact, Exact, Exists
<1> QED BY <1>7 DEF RowsAreExact, Exact

LEMMA AskIsExact ==
    ASSUME LockInv, RowsAreExact, RequestsAreExact, NEW r \in Requests, Ask(r)
    PROVE  RowsAreExact' /\ RequestsAreExact'
<1>1. ASSUME NEW g \in Groups, NEW state \in States, NEW dates \in Schedules,
             CreateGroup(r, g, state, dates)
      PROVE  RowsAreExact' /\ RequestsAreExact'
  <2> DEFINE q == [op |-> "create", at |-> "insert", group |-> Row(g, state, dates)]
  <2>1. requests' = [requests EXCEPT ![r] = q] /\ UNCHANGED groups
    BY <1>1 DEF CreateGroup, rows
  <2>2. q \in Served /\ Exact(q.group)
    BY RowIsTyped, NewIsExact DEF Served, Creations
  <2> HIDE DEF q
  <2>3. requests'[r] = q /\ \A s \in Requests : s # r => requests'[s] = requests[s]
    BY <2>1, <2>2, RequestGoes DEF LockInv
  <2> QED BY <2>1, <2>2, <2>3, RequestsStayExact DEF RowsAreExact, Exact, Exists
<1>2. ASSUME NEW g \in Groups, NEW op \in Operations, NEW q \in Served,
             Lock(r, g, op, q), q.group = groups[g]
      PROVE  RowsAreExact' /\ RequestsAreExact'
  <2>1. requests' = [requests EXCEPT ![r] = q] /\ UNCHANGED groups /\ Exists(g)
    BY <1>2 DEF Lock
  <2>2. requests'[r] = q /\ \A s \in Requests : s # r => requests'[s] = requests[s]
    BY <2>1, RequestGoes DEF LockInv
  <2>3. Exact(q.group)
    BY <1>2, <2>1 DEF RowsAreExact
  <2> QED BY <2>1, <2>2, <2>3, RequestsStayExact DEF RowsAreExact, Exact, Exists
<1> QED BY <1>1, <1>2, AskBegins DEF LockInv, LocksSome

\* What deleteUserGroup settles is the row that it has read again.
LEMMA DeleteRowKnows ==
    ASSUME LockInv, NEW r \in Requests, DeleteRow(r)
    PROVE  requests'[r].group = groups[requests[r].group.id]
<1>1. requests[r] # None /\ requests[r].at = "delete" /\ requests[r] \in Deletions
  BY OpOf DEF DeleteRow, At, LockInv
<1>2. requests' = [requests EXCEPT ![r].group = groups[requests[r].group.id],
                                   ![r].at = "settle"]
  BY DEF DeleteRow
<1>3. requests \in [Requests -> Served \cup {None}]
  BY DEF LockInv, TypeOK
<1> DEFINE q == requests[r]
           g == groups[requests[r].group.id]
<1>4. requests'[r] = [q EXCEPT !.group = g, !.at = "settle"]
  BY <1>2, <1>3
<1> HIDE DEF q, g
<1>5. q \in Deletions
  BY <1>1 DEF q
<1>6. requests'[r].group = g
  BY <1>4, <1>5 DEF Deletions
<1> QED BY <1>6 DEF g

LEMMA ServeIsExact ==
    ASSUME LockInv, RowIsKept, RowsAreExact, RequestsAreExact, NEW r \in Requests, Serve(r)
    PROVE  RowsAreExact' /\ RequestsAreExact'
<1>1. CASE Insert(r)
  <2>1. /\ requests' = [requests EXCEPT ![r] = None] /\ requests[r] # None
        /\ groups' = [groups EXCEPT ![requests[r].group.id] = requests[r].group]
    BY <1>1 DEF Insert, Done, At
  <2>2. requests'[r] = None /\ \A s \in Requests : s # r => requests'[s] = requests[s]
    BY <2>1, RequestGoes DEF LockInv
  <2>3. /\ requests[r].group.id \in Groups
        /\ groups'[requests[r].group.id] = requests[r].group
        /\ \A h \in Groups : h # requests[r].group.id => groups'[h] = groups[h]
    BY <2>1, Known DEF LockInv, TypeOK, Serving
  <2>4. RowsAreExact'
    BY <2>1, <2>3 DEF RowsAreExact, RequestsAreExact, Exact, Exists
  <2> QED BY <2>2, <2>4, RequestsStayExact
<1>2. CASE DeleteRow(r)
  <2>1. /\ Exists(requests[r].group.id) /\ requests[r].group.id \in Groups
        /\ groups'[requests[r].group.id] = None
        /\ \A h \in Groups : h # requests[r].group.id => groups'[h] = groups[h]
        /\ \A s \in Requests : s # r => requests'[s] = requests[s]
    BY <1>2, DeleteRowLocks
  <2>2. Exact(requests'[r].group)
    BY <1>2, <2>1, DeleteRowKnows DEF RowsAreExact
  <2>3. RowsAreExact'
    BY <2>1 DEF RowsAreExact, Exact, Exists
  <2> QED BY <2>1, <2>2, <2>3, RequestsStayExact
<1>3. CASE Settle(r)
  <2>1. RowsAreExact'
    BY <1>3, SettleLocks DEF RowsAreExact, Exact, Exists
  <2> QED BY <1>3, <2>1, SettleLocks, RequestsStayExact
<1>4. CASE Unlock(r)
  <2>1. UNCHANGED groups
    BY <1>4 DEF Unlock
  <2>2. RowsAreExact'
    BY <2>1 DEF RowsAreExact, Exact, Exists
  <2> QED BY <1>4, <2>2, UnlockLocks, RequestsStayExact DEF CountsNothing
<1>5. CASE LockDevice(r) \/ LockOrigin(r) \/ Check(r) \/ Charge(r) \/ Write(r)
  <2>1. RequestStays(r)
    BY <1>5, LockDeviceLocks, LockOriginLocks, CheckLocks, ChargeLocks, WriteLocks
  <2>2. RequestsAreExact'
    BY <2>1, RequestsStayExact DEF RequestStays, RequestsAreExact
  <2>3. Write(r) \/ UNCHANGED groups
    BY <1>5 DEF LockDevice, LockOrigin, Check, Charge, rows
  <2>4. RowsAreExact'
    BY <2>3, WriteIsExact DEF RowsAreExact, Exact, Exists
  <2> QED BY <2>2, <2>4
<1> QED BY <1>1, <1>2, <1>3, <1>4, <1>5 DEF Serve

\* One tick's list, and the rows that it has written.
ListOf(t) ==
    ticks[t] # None =>
        /\ \A i, j \in DOMAIN ticks[t].todo :
              ticks[t].todo[i].group.id = ticks[t].todo[j].group.id => i = j
        /\ \A i \in DOMAIN ticks[t].todo :
              LET g == ticks[t].todo[i].group
              IN  /\ Exact(g)
                  /\ (i # 1 \/ ticks[t].at \in {"lock", "write"}) /\ Exists(g.id) =>
                         groups[g.id].dates = g.dates /\ groups[g.id].devices = g.devices
WrittenOf(t) ==
    ticks[t] # None /\ ticks[t].at = "charge" =>
        /\ groups[Due(t).id].devices = Due(t).devices
        /\ groups[Due(t).id].dates = Dropped(Due(t), What(t).drop)

LEMMA OneTickIsExact ==
    ASSUME ExactInv, NEW t \in Ticks, UNCHANGED requests, RowsAreExact', TickIsAlone',
           ticks'[t] # None, ListOf(t)', WrittenOf(t)'
    PROVE  ExactInv'
<1>1. \A u \in Ticks : ticks'[u] # None => u = t
  BY DEF TickIsAlone
<1>2. RequestsAreExact'
  BY DEF ExactInv, RequestsAreExact, Exact
<1>3. ListIsKept'
  BY <1>1 DEF ListIsKept, ListOf
<1>4. WrittenIsDropped'
  BY <1>1 DEF WrittenIsDropped, WrittenOf
<1> QED BY <1>2, <1>3, <1>4 DEF ExactInv

LEMMA NoTickIsExact ==
    ASSUME RowsAreExact', RequestsAreExact', \A t \in Ticks : ticks'[t] = None
    PROVE  ExactInv'
BY DEF ExactInv, TickIsAlone, ListIsKept, WrittenIsDropped

LEMMA ReadIsExact ==
    ASSUME LockInv, ExactInv, TickIsAlone', NEW t \in Ticks, Read(t)
    PROVE  ExactInv'
<1>1. UNCHANGED <<groups, requests>>
  BY DEF Read, rows
<1>2. /\ ticks'[t] # None /\ ticks'[t].at = "lock"
      /\ \A i \in DOMAIN ticks'[t].todo :
             /\ ticks'[t].todo[i].group.id \in Groups
             /\ Exists(ticks'[t].todo[i].group.id)
             /\ ticks'[t].todo[i].group = groups[ticks'[t].todo[i].group.id]
      /\ \A i, j \in DOMAIN ticks'[t].todo :
             ticks'[t].todo[i].group.id = ticks'[t].todo[j].group.id => i = j
  BY ReadReads DEF LockInv, Ownership
<1>3. RowsAreExact'
  BY <1>1 DEF ExactInv, RowsAreExact, Exact, Exists
<1>4. \A i \in DOMAIN ticks'[t].todo : Exact(ticks'[t].todo[i].group)
  BY <1>2 DEF ExactInv, RowsAreExact
<1>5. ListOf(t)'
  BY <1>1, <1>2, <1>4 DEF ListOf, Exact, Exists
<1>6. WrittenOf(t)'
  BY <1>2 DEF WrittenOf
<1> QED BY <1>1, <1>2, <1>3, <1>5, <1>6, OneTickIsExact

LEMMA StayingIsExact ==
    ASSUME LockInv, ExactInv, TickIsAlone', NEW t \in Ticks, UNCHANGED <<groups, requests>>,
           TickStays(t), ticks[t].at = "lock" \/ ticks'[t].at = "unlock",
           ticks'[t].at # "charge"
    PROVE  ExactInv'
<1>1. RowsAreExact'
  BY DEF ExactInv, RowsAreExact, Exact, Exists
<1>2. ListOf(t)
  BY DEF ExactInv, ListIsKept, ListOf
<1>3. ticks'[t] # None /\ ticks[t] # None /\ ticks'[t].todo = ticks[t].todo
  BY DEF TickStays
<1>4. ListOf(t)'
  BY <1>2, <1>3 DEF ListOf, Exact, Exists
<1>5. WrittenOf(t)'
  BY DEF WrittenOf
<1> QED BY <1>1, <1>3, <1>4, <1>5, OneTickIsExact

LEMMA TurningIsExact ==
    ASSUME LockInv, ExactInv, TickIsAlone', NEW t \in Ticks, UNCHANGED requests,
           TickTurnsOver(t), \A u \in Ticks : u # t => ticks'[u] = ticks[u], SameRows,
           \A g \in Groups : Exists(g) => /\ groups'[g].dates = groups[g].dates
                                          /\ groups'[g].devices = groups[g].devices
                                          /\ groups'[g].duration = groups[g].duration
    PROVE  ExactInv'
<1>1. \A g \in Groups : groups'[g] # None =>
          /\ groups[g] # None /\ groups'[g].dates = groups[g].dates
          /\ groups'[g].devices = groups[g].devices
          /\ groups'[g].duration = groups[g].duration
  BY DEF SameRows, Exists
<1>2. RowsAreExact'
  BY <1>1 DEF ExactInv, RowsAreExact, Exact, Exists
<1>3. ticks[t] # None
  BY DEF TickTurnsOver
<1>4. CASE ticks'[t] = None
  <2>1. \A u \in Ticks : ticks'[u] = None
    BY <1>3, <1>4 DEF ExactInv, TickIsAlone
  <2>2. RequestsAreExact'
    BY DEF ExactInv, RequestsAreExact, Exact
  <2> QED BY <1>2, <2>1, <2>2, NoTickIsExact
<1>5. CASE ticks'[t] # None
  <2> DEFINE s == ticks[t].todo
  <2>1. ticks'[t].todo = Tail(s) /\ ticks'[t].at = "lock"
    BY <1>5 DEF TickTurnsOver
  <2>2. s \in Seq(Due1) /\ s # <<>>
    BY <1>3, Listed DEF LockInv
  <2>3. /\ \A i, j \in DOMAIN s : s[i].group.id = s[j].group.id => i = j
        /\ \A i \in DOMAIN s : i # 1 /\ groups[s[i].group.id] # None =>
               /\ groups[s[i].group.id].dates = s[i].group.dates
               /\ groups[s[i].group.id].devices = s[i].group.devices
        /\ \A i \in DOMAIN s : s[i].group.id \in Groups /\ Exact(s[i].group)
    BY <1>3, ListedAreRows DEF LockInv, ExactInv, ListIsKept, Exists
  <2> HIDE DEF s
  <2>4. \A i \in DOMAIN Tail(s) : /\ i + 1 \in DOMAIN s /\ Tail(s)[i] = s[i + 1]
                                  /\ i \in Nat \ {0}
    BY <2>2, HeadDropped
  <2>5. \A i, j \in DOMAIN Tail(s) : Tail(s)[i].group.id = Tail(s)[j].group.id => i = j
    BY <2>3, <2>4
  <2>6. \A i \in DOMAIN Tail(s) :
            /\ Exact(Tail(s)[i].group)
            /\ groups'[Tail(s)[i].group.id] # None =>
                  /\ groups'[Tail(s)[i].group.id].dates = Tail(s)[i].group.dates
                  /\ groups'[Tail(s)[i].group.id].devices = Tail(s)[i].group.devices
    <3> SUFFICES ASSUME NEW i \in DOMAIN Tail(s)
                 PROVE  /\ Exact(Tail(s)[i].group)
                        /\ groups'[Tail(s)[i].group.id] # None =>
                              /\ groups'[Tail(s)[i].group.id].dates = Tail(s)[i].group.dates
                              /\ groups'[Tail(s)[i].group.id].devices = Tail(s)[i].group.devices
      OBVIOUS
    <3>1. i + 1 \in DOMAIN s /\ Tail(s)[i] = s[i + 1] /\ i + 1 # 1
      BY <2>4
    <3> QED BY <1>1, <2>3, <3>1
  <2>7. ListOf(t)'
    BY <2>1, <2>5, <2>6 DEF ListOf, Exact, Exists
  <2>8. WrittenOf(t)'
    BY <2>1 DEF WrittenOf
  <2> QED BY <1>2, <1>5, <2>7, <2>8, OneTickIsExact
<1> QED BY <1>4, <1>5

\* The row that updateGroupDates writes is that of which a date is dropped.
LEMMA UpdateDatesIsExact ==
    ASSUME LockInv, ExactInv, TickIsAlone', NEW t \in Ticks, UpdateDates(t)
    PROVE  ExactInv'
<1> DEFINE d == Due(t)
           g == Due(t).id
           drop == What(t).drop
<1>1. /\ ticks[t] # None /\ ticks[t].at = "write" /\ g \in Groups /\ Exists(g)
      /\ groups'[g].dates = Dropped(d, drop) /\ groups'[g].devices = groups[g].devices
      /\ groups'[g].duration = Duration(d.devices, Dropped(d, drop))
      /\ \A h \in Groups : h # g => groups'[h] = groups[h]
  BY DatesWrites
<1>2. UNCHANGED requests /\ TickStays(t) /\ ticks'[t].at = "charge"
  BY UpdateDatesLocks DEF TickCountsNothing
<1>3. ticks[t].todo[1].group = d /\ 1 \in DOMAIN ticks[t].todo
  <2>1. ticks[t] # None
    BY <1>1
  <2>2. Head(ticks[t].todo) = ticks[t].todo[1] /\ 1 \in DOMAIN ticks[t].todo
    BY <2>1, Listed DEF LockInv
  <2> QED BY <2>2 DEF Due
<1>4. ticks'[t] # None /\ ticks'[t].todo = ticks[t].todo /\ Due(t)' = d /\ What(t)' = What(t)
  BY <1>2 DEF TickStays, Due, What
<1>5. groups[g].devices = d.devices
  BY <1>1, <1>3 DEF ExactInv, ListIsKept
<1>6. /\ \A i, j \in DOMAIN ticks[t].todo :
            ticks[t].todo[i].group.id = ticks[t].todo[j].group.id => i = j
      /\ \A i \in DOMAIN ticks[t].todo :
            /\ ticks[t].todo[i].group.id \in Groups
            /\ Exact(ticks[t].todo[i].group)
            /\ groups[ticks[t].todo[i].group.id] # None =>
                  /\ groups[ticks[t].todo[i].group.id].dates = ticks[t].todo[i].group.dates
                  /\ groups[ticks[t].todo[i].group.id].devices
                        = ticks[t].todo[i].group.devices
  BY <1>1, ListedAreRows DEF LockInv, ExactInv, ListIsKept, Exists
<1>7. \A i \in DOMAIN ticks[t].todo : i # 1 =>
          groups'[ticks[t].todo[i].group.id] = groups[ticks[t].todo[i].group.id]
  BY <1>1, <1>3, <1>6
<1>8. RowsAreExact'
  <2> HIDE DEF d, g, drop
  <2>1. groups'[g].duration = Duration(groups'[g].devices, groups'[g].dates)
    BY <1>1, <1>5
  <2>2. \A h \in Groups : Exists(h)' =>
            groups'[h].duration = Duration(groups'[h].devices, groups'[h].dates)
    BY <1>1, <2>1 DEF ExactInv, RowsAreExact, Exact, Exists
  <2> QED BY <2>2 DEF RowsAreExact, Exact
<1>9. ListOf(t)'
  <2> HIDE DEF d, g, drop
  <2> QED BY <1>2, <1>4, <1>6, <1>7 DEF ListOf, Exact, Exists
<1>10. WrittenOf(t)'
  BY <1>1, <1>4, <1>5 DEF WrittenOf
<1> QED BY <1>2, <1>4, <1>8, <1>9, <1>10, OneTickIsExact

LEMMA DeleteOverIsExact ==
    ASSUME LockInv, ExactInv, TickIsAlone', NEW t \in Ticks, DeleteOver(t)
    PROVE  ExactInv'
<1> DEFINE g == Due(t).id
<1>1. /\ ticks[t] # None /\ ticks[t].at = "write" /\ g \in Groups
      /\ groups'[g] = None /\ UNCHANGED requests /\ Exists(g)
      /\ ticks'[t] # None /\ ticks'[t].at = "settle"
      /\ \A h \in Groups : h # g => groups'[h] = groups[h]
      /\ DOMAIN ticks'[t].todo = DOMAIN ticks[t].todo
      /\ \A i \in DOMAIN ticks[t].todo :
            /\ ticks'[t].todo[i].group.id = ticks[t].todo[i].group.id
            /\ i # 1 => ticks'[t].todo[i] = ticks[t].todo[i]
      /\ ticks'[t].todo[1].group = groups[g]
  BY DeleteOverLocks
<1> HIDE DEF g
<1>2. RowsAreExact'
  BY <1>1 DEF ExactInv, RowsAreExact, Exact, Exists
<1>3. Exact(groups[g])
  BY <1>1 DEF ExactInv, RowsAreExact
<1>4. /\ \A i, j \in DOMAIN ticks[t].todo :
            ticks[t].todo[i].group.id = ticks[t].todo[j].group.id => i = j
      /\ \A i \in DOMAIN ticks[t].todo :
            /\ ticks[t].todo[i].group.id \in Groups
            /\ Exact(ticks[t].todo[i].group)
            /\ groups[ticks[t].todo[i].group.id] # None =>
                  /\ groups[ticks[t].todo[i].group.id].dates = ticks[t].todo[i].group.dates
                  /\ groups[ticks[t].todo[i].group.id].devices
                        = ticks[t].todo[i].group.devices
  BY <1>1, ListedAreRows DEF LockInv, ExactInv, ListIsKept, Exists
<1>5. \A i, j \in DOMAIN ticks'[t].todo :
          ticks'[t].todo[i].group.id = ticks'[t].todo[j].group.id => i = j
  BY <1>1, <1>4
<1>6. \A i \in DOMAIN ticks'[t].todo :
          /\ Exact(ticks'[t].todo[i].group)
          /\ i # 1 /\ groups'[ticks'[t].todo[i].group.id] # None =>
                /\ groups'[ticks'[t].todo[i].group.id].dates = ticks'[t].todo[i].group.dates
                /\ groups'[ticks'[t].todo[i].group.id].devices
                      = ticks'[t].todo[i].group.devices
  <2> SUFFICES ASSUME NEW i \in DOMAIN ticks'[t].todo
               PROVE  /\ Exact(ticks'[t].todo[i].group)
                      /\ i # 1 /\ groups'[ticks'[t].todo[i].group.id] # None =>
                            /\ groups'[ticks'[t].todo[i].group.id].dates
                                  = ticks'[t].todo[i].group.dates
                            /\ groups'[ticks'[t].todo[i].group.id].devices
                                  = ticks'[t].todo[i].group.devices
    OBVIOUS
  <2>1. CASE i = 1
    BY <1>1, <1>3, <2>1
  <2>2. CASE i # 1
    <3>1. ticks'[t].todo[i] = ticks[t].todo[i] /\ i \in DOMAIN ticks[t].todo
      BY <1>1, <2>2
    <3> QED BY <1>1, <1>4, <3>1
  <2> QED BY <2>1, <2>2
<1>7. ListOf(t)'
  BY <1>1, <1>5, <1>6 DEF ListOf, Exact, Exists
<1>8. WrittenOf(t)'
  BY <1>1 DEF WrittenOf
<1> QED BY <1>1, <1>2, <1>7, <1>8, OneTickIsExact

\* adminLockGroup has the group, or tries again.
LEMMA AdminLockGoesOn ==
    ASSUME TypeOK, NEW t \in Ticks, AdminLock(t)
    PROVE  ticks'[t].at \in {"lock", "write"}
<1>1. ticks' = [ticks EXCEPT ![t].tried = TRUE,
                             ![t].at = IF lock[Due(t).id].user THEN @ ELSE "write"]
      /\ ticks[t] # None /\ ticks[t].at = "lock"
  BY DEF AdminLock, Step
<1>2. ticks \in [Ticks -> Scheduled \cup {None}] /\ ticks[t] \in Scheduled
  BY <1>1 DEF TypeOK
<1>3. ticks'[t] = [ticks[t] EXCEPT !.tried = TRUE,
                         !.at = IF lock[Due(t).id].user THEN @ ELSE "write"]
  BY <1>1, <1>2
<1> QED BY <1>1, <1>2, <1>3 DEF Scheduled

LEMMA ScheduleIsExact ==
    ASSUME LockInv, ExactInv, TickIsAlone', NEW t \in Ticks, Schedule(t)
    PROVE  ExactInv'
<1>1. CASE AdminLock(t)
  <2>1. ticks'[t].at # "charge"
    BY <1>1, AdminLockGoesOn DEF LockInv
  <2> QED BY <1>1, <2>1, AdminLockLocks, StayingIsExact DEF TickCountsNothing
<1>2. CASE UpdateQuota(t)
  BY <1>2, UpdateQuotaLocks, StayingIsExact DEF TickCountsNothing
<1>3. CASE SettleOver(t)
  BY <1>3, SettleOverLocks, StayingIsExact
<1>4. CASE AdminLockSkipped(t) \/ AdminLockRefused(t) \/ AdminUnlock(t)
  <2>1. TickTurnsOver(t) /\ TickCountsNothing(t)
    BY <1>4, AdminLockSkippedLocks, AdminLockRefusedLocks, AdminUnlockLocks
  <2>2. \A g \in Groups : Exists(g) => /\ groups'[g].dates = groups[g].dates
                                       /\ groups'[g].devices = groups[g].devices
                                       /\ groups'[g].duration = groups[g].duration
    BY <1>4, AdminLockSkippedLocks, RefusedWrites, AdminUnlockLocks
  <2> QED BY <2>1, <2>2, TurningIsExact DEF TickCountsNothing
<1> QED BY <1>1, <1>2, <1>3, <1>4, ReadIsExact, UpdateDatesIsExact, DeleteOverIsExact
    DEF Schedule

LEMMA ExactGoesOn ==
    ASSUME LockInv, RowIsKept, ExactInv, "tick" \in scenario, [Next]_vars
    PROVE  ExactInv'
<1>1. TickIsAlone'
  BY TickAloneGoesOn DEF ExactInv
<1>2. ASSUME NEW r \in Requests, Ask(r) \/ Serve(r) PROVE ExactInv'
  <2>1. (\A t \in Ticks : ticks[t] = None) /\ UNCHANGED ticks
    BY <1>2, AskedWithoutTicks, ServedWithoutTicks DEF ExactInv
  <2>2. RowsAreExact' /\ RequestsAreExact'
    BY <1>2, AskIsExact, ServeIsExact DEF ExactInv
  <2> QED BY <2>1, <2>2, NoTickIsExact
<1>3. ASSUME NEW t \in Ticks, Schedule(t) PROVE ExactInv'
  BY <1>1, <1>3, ScheduleIsExact
<1>4. CASE Time \/ UNCHANGED vars
  <2>1. UNCHANGED <<groups, requests, ticks>>
    BY <1>4 DEF Time, vars, rows
  <2> QED BY <2>1 DEF ExactInv, TickIsAlone, RowsAreExact, RequestsAreExact, ListIsKept,
          WrittenIsDropped, Exact, Exists, Due, What
<1> QED BY <1>2, <1>3, <1>4 DEF Next

\* A request that neither writes nor settles changes no account.
LEMMA RequestPaysNothing ==
    ASSUME Balanced, NEW r \in Requests, UNCHANGED <<groups, ticks>>,
           consumed'.duration = consumed.duration,
           \A s \in Requests : s # r => requests'[s] = requests[s],
           requests[r] # None => requests[r].at \notin {"write", "settle"},
           requests'[r] # None => requests'[r].at \notin {"write", "settle"}
    PROVE  Balanced'
<1>1. \A g \in Groups : ~Writes(r, g) /\ ~Settles(r, g) /\ ~Writes(r, g)' /\ ~Settles(r, g)'
  BY DEF Writes, Settles
<1>2. \A p \in [Groups -> Int], g \in Groups : Paid(p, g) => Paid(p, g)'
  BY <1>1, RequestPaysElsewhere
<1> QED BY <1>2, NothingIsPaid

LEMMA AskPays ==
    ASSUME LockInv, Balanced, NEW r \in Requests, Ask(r)
    PROVE  Balanced'
<1>1. ASSUME NEW g \in Groups, NEW state \in States, NEW dates \in Schedules,
             CreateGroup(r, g, state, dates)
      PROVE  Balanced'
  <2> DEFINE q == [op |-> "create", at |-> "insert", group |-> Row(g, state, dates)]
  <2>1. /\ requests' = [requests EXCEPT ![r] = q] /\ UNCHANGED <<groups, ticks>>
        /\ requests[r] = None /\ consumed' = [consumed EXCEPT !.number = @ + 1]
    BY <1>1 DEF CreateGroup, rows
  <2>2. q \in Served /\ q.at = "insert"
    BY RowIsTyped DEF Served, Creations
  <2> HIDE DEF q
  <2>3. requests'[r] = q /\ \A s \in Requests : s # r => requests'[s] = requests[s]
    BY <2>1, <2>2, RequestGoes DEF LockInv
  <2>4. consumed'.duration = consumed.duration
    BY <2>1 DEF LockInv, TypeOK
  <2> QED BY <2>1, <2>2, <2>3, <2>4, RequestPaysNothing
<1>2. ASSUME NEW g \in Groups, NEW op \in Operations, NEW q \in Served,
             Lock(r, g, op, q), q.at \in Locked \ {"write"}
      PROVE  Balanced'
  <2>1. /\ requests' = [requests EXCEPT ![r] = q] /\ UNCHANGED <<groups, ticks, consumed>>
        /\ requests[r] = None
    BY <1>2 DEF Lock
  <2>2. requests'[r] = q /\ \A s \in Requests : s # r => requests'[s] = requests[s]
    BY <2>1, RequestGoes DEF LockInv
  <2>3. q.at \notin {"write", "settle"}
    BY <1>2 DEF Locked
  <2> QED BY <2>1, <2>2, <2>3, RequestPaysNothing
<1> QED BY <1>1, <1>2, AskBegins DEF LockInv, LocksSome

\* A request changes the account of its own group, and nobody else has to do
\* with that.
LEMMA RequestPays ==
    ASSUME NEW r \in Requests, \A s \in Requests : s # r => requests'[s] = requests[s],
           \A t \in Ticks : ticks[t] = None, UNCHANGED ticks,
           NEW g \in Groups, requests[r].group.id = g,
           requests'[r] # None => requests'[r].group.id = g,
           \A s \in Requests : s # r => ~Writes(s, g) /\ ~Settles(s, g),
           \A h \in Groups : h # g => groups'[h] = groups[h],
           NEW p, NEW q, \A h \in Groups : Paid(p, h), \A h \in Groups : h # g => q[h] = p[h],
           Writes(r, g)' => q[g] = Changed(requests'[r]).duration,
           Settles(r, g)' => q[g] = requests'[r].group.duration,
           ~Writes(r, g)' /\ ~Settles(r, g)'
               => q[g] = IF Exists(g)' THEN groups'[g].duration ELSE 0
    PROVE  \A h \in Groups : Paid(q, h)'
<1> SUFFICES ASSUME NEW h \in Groups PROVE Paid(q, h)'
  OBVIOUS
<1>1. CASE h # g
  <2>1. ~Writes(r, h) /\ ~Settles(r, h) /\ ~Writes(r, h)' /\ ~Settles(r, h)'
    BY <1>1 DEF Writes, Settles
  <2> QED BY <1>1, <2>1, RequestPaysElsewhere
<1>2. CASE h = g
  <2>1. \A s \in Requests : s # r => ~Writes(s, g)' /\ ~Settles(s, g)'
    BY DEF Writes, Settles
  <2>2. \A t \in Ticks : ~Owes(t, g)'
    BY DEF Owes
  <2>3. \A s \in Requests : Writes(s, g)' => q[g] = Changed(requests'[s]).duration
    BY <2>1
  <2>4. \A s \in Requests : Settles(s, g)' => q[g] = requests'[s].group.duration
    BY <2>1
  <2>5. Quiet(g)' => q[g] = IF Exists(g)' THEN groups'[g].duration ELSE 0
    BY DEF Quiet
  <2>6. Paid(q, g)'
    BY <2>2, <2>3, <2>4, <2>5 DEF Paid
  <2> QED BY <1>2, <2>6
<1> QED BY <1>1, <1>2

\* So does a tick, which is alone.
LEMMA TickPays ==
    ASSUME TickIsAlone, NEW t \in Ticks, ticks[t] # None, UNCHANGED requests,
           \A u \in Ticks : u # t => ticks'[u] = ticks[u],
           NEW g \in Groups, Due(t).id = g,
           \A h \in Groups : h # g => ~Owes(t, h)',
           \A h \in Groups : h # g => groups'[h] = groups[h],
           NEW p, NEW q, \A h \in Groups : Paid(p, h), \A h \in Groups : h # g => q[h] = p[h],
           Owes(t, g)' => q[g] = Due(t)'.duration,
           ~Owes(t, g)' => q[g] = IF Exists(g)' THEN groups'[g].duration ELSE 0
    PROVE  \A h \in Groups : Paid(q, h)'
<1> SUFFICES ASSUME NEW h \in Groups PROVE Paid(q, h)'
  OBVIOUS
<1>1. CASE h # g
  <2>1. ~Owes(t, h) /\ ~Owes(t, h)'
    BY <1>1 DEF Owes
  <2>2. (Exists(h)' <=> Exists(h)) /\ groups'[h].duration = groups[h].duration
    BY <1>1 DEF Exists
  <2> QED BY <1>1, <2>1, <2>2, TickPaysElsewhere
<1>2. CASE h = g
  <2>1. \A s \in Requests : ~Writes(s, g)' /\ ~Settles(s, g)'
    BY DEF TickIsAlone, Writes, Settles
  <2>2. \A u \in Ticks : u # t => ~Owes(u, g)'
    BY DEF TickIsAlone, Owes
  <2>3. \A u \in Ticks : Owes(u, g)' => q[g] = Due(u)'.duration
    BY <2>2
  <2>4. Quiet(g)' => q[g] = IF Exists(g)' THEN groups'[g].duration ELSE 0
    BY DEF Quiet
  <2>5. Paid(q, g)'
    BY <2>1, <2>3, <2>4 DEF Paid
  <2> QED BY <1>2, <2>5
<1> QED BY <1>1, <1>2

\* What updateUserGroupDuration charges, and when it refuses.
LEMMA ChargedAddsUp ==
    ASSUME TypeOK, NEW old \in Int, NEW new \in Int
    PROVE  /\ consumed.duration \in Int /\ consumed.duration - old + new \in Int
           /\ Charged(old, new).duration =
                 IF consumed.duration - old + new <= MaxDuration
                 THEN consumed.duration - old + new ELSE consumed.duration
           /\ ~(consumed.duration - old + new <= MaxDuration) => Charged(old, new) = consumed
BY DEF TypeOK, Charged

LEMMA SettledAddsUp ==
    ASSUME TypeOK, consumed.duration <= MaxDuration, NEW g \in GroupRows
    PROVE  /\ Settled(g).duration = consumed.duration - g.duration + 0
           /\ Settled(g).duration <= MaxDuration
<1>1. g.duration \in Nat /\ MaxDuration \in Int
  BY QuotasAreNumbers DEF GroupRows
<1>2. consumed.duration \in Int
  BY DEF TypeOK
<1>3. consumed.duration - g.duration + 0 <= MaxDuration
  BY <1>1, <1>2
<1>4. Charged(g.duration, 0).duration = consumed.duration - g.duration + 0
  <2>1. PICK zero \in Int : zero = 0
    OBVIOUS
  <2>2. PICK d \in Int : d = g.duration
    BY <1>1
  <2>3. Charged(d, zero).duration = consumed.duration - d + zero
    <3>1. consumed.duration - d + zero <= MaxDuration
      BY <1>3, <2>1, <2>2
    <3> QED BY <3>1, ChargedAddsUp
  <2> QED BY <2>1, <2>2, <2>3
<1>5. Charged(g.duration, 0) \in [number : 0..MaxNumber, duration : Int]
  BY <1>1 DEF TypeOK, Charged
<1>6. Settled(g).duration = Charged(g.duration, 0).duration
  BY <1>5 DEF Settled
<1> QED BY <1>3, <1>4, <1>6

\* A group that is created has nothing to pay for.
LEMMA InsertPays ==
    ASSUME LockInv, NewIsEmpty, ExactInv, Balanced, NEW r \in Requests, Insert(r),
           \A t \in Ticks : ticks[t] = None
    PROVE  Balanced'
<1> PICK g : g = requests[r].group.id
  OBVIOUS
<1>1. /\ requests' = [requests EXCEPT ![r] = None] /\ UNCHANGED <<ticks, consumed>>
      /\ groups' = [groups EXCEPT ![g] = requests[r].group]
      /\ requests[r] # None /\ requests[r].at = "insert"
  BY DEF Insert, Done, At
<1>2. requests[r].group \in GroupRows /\ g \in Groups /\ requests[r].group # None
  BY <1>1, Known, NoneIsNothing DEF LockInv, Serving
<1>3. /\ requests'[r] = None /\ \A s \in Requests : s # r => requests'[s] = requests[s]
      /\ groups'[g] = requests[r].group /\ \A h \in Groups : h # g => groups'[h] = groups[h]
  BY <1>1, <1>2 DEF LockInv, TypeOK
<1>4. ~Exists(g) /\ \A s \in Requests : requests[s] # None /\ requests[s].group.id = g => s = r
  BY <1>1 DEF LockInv, Ownership, CreationIsAlone, Serving
<1>5. /\ \A s \in Requests : ~Writes(s, g) /\ ~Settles(s, g)
      /\ ~Writes(r, g)' /\ ~Settles(r, g)'
  BY <1>1, <1>3, <1>4 DEF Writes, Settles
<1>6. Quiet(g)
  BY <1>5 DEF Quiet, Owes
<1>7. requests[r].group.duration = 0
  <2>1. requests[r].group.devices = {} /\ Exact(requests[r].group)
    BY <1>1 DEF ExactInv, RequestsAreExact, NewIsEmpty
  <2>2. requests[r].group.dates \in Dates
    BY <1>2 DEF GroupRows
  <2> QED BY <2>1, <2>2, NothingBooksNothing DEF Exact
<1>8. PICK p \in [Groups -> Int] : /\ \A h \in Groups : Paid(p, h)
                                   /\ consumed.duration = Total(Accounts(p, Groups))
  BY DEF Balanced
<1>9. p[g] = 0
  BY <1>2, <1>4, <1>6, <1>8 DEF Paid
<1>10. p[g] = IF Exists(g)' THEN groups'[g].duration ELSE 0
  BY <1>2, <1>3, <1>7, <1>9 DEF Exists
<1>11. \A h \in Groups : Paid(p, h)'
  BY <1>1, <1>2, <1>3, <1>5, <1>8, <1>10, RequestPays
<1> QED BY <1>1, <1>8, <1>11 DEF Balanced

\* It pays for what it is about to write.
LEMMA ChargePays ==
    ASSUME LockInv, RowIsKept, ExactInv, Balanced, NEW r \in Requests, Charge(r),
           \A t \in Ticks : ticks[t] = None
    PROVE  Balanced'
<1> PICK g : g = requests[r].group.id
  OBVIOUS
<1> PICK old : old = requests[r].group.duration
  OBVIOUS
<1> PICK new : new = Changed(requests[r]).duration
  OBVIOUS
<1>1. /\ requests[r] # None /\ requests[r].at = "charge" /\ UNCHANGED <<groups, ticks>>
      /\ consumed' = Charged(old, new)
      /\ Goto(r, IF \/ consumed' # consumed
                    \/ requests[r].op = "remove"
                    \/ requests[r].op = "update" /\ new = old
                 THEN "write" ELSE "unlock")
  BY DEF Charge, At, rows
<1>2. RequestStays(r)
  BY ChargeLocks
<1>3. requests[r] \in Additions \cup Removals \cup Updates /\ requests[r].group \in GroupRows
  BY <1>1, OpOf, Known DEF LockInv, Serving
<1>4. requests'[r].at = IF \/ consumed' # consumed
                           \/ requests[r].op = "remove"
                           \/ requests[r].op = "update" /\ new = old
                        THEN "write" ELSE "unlock"
  <2>1. requests[r].op \in {"add", "remove", "update"}
    BY <1>3 DEF Additions, Removals, Updates
  <2>2. PICK at : at = IF \/ consumed' # consumed
                          \/ requests[r].op = "remove"
                          \/ requests[r].op = "update" /\ new = old
                       THEN "write" ELSE "unlock"
    OBVIOUS
  <2>3. Goto(r, at)
    BY <1>1, <2>2 DEF Goto
  <2>4. at \in {"write", "unlock"}
    BY <2>2
  <2>5. requests'[r].at = at
    BY <1>1, <2>1, <2>3, <2>4, AtGoesOn DEF LockInv
  <2> QED BY <2>2, <2>5
<1>5. Owning(r) /\ requests[r].at \in Changing
  BY <1>1 DEF Owning, Locked, Changing
<1>6. /\ \A s \in Requests : ~Settles(s, g) /\ (s # r => ~Writes(s, g))
      /\ Exists(g) /\ g \in Groups /\ Quiet(g)
  BY <1>1, <1>5, NobodyElseIsCharged
<1>7. PICK p \in [Groups -> Int] : /\ \A h \in Groups : Paid(p, h)
                                   /\ consumed.duration = Total(Accounts(p, Groups))
  BY DEF Balanced
<1>8. p[g] = old /\ groups[g].duration = old
  <2>1. p[g] = groups[g].duration
    BY <1>6, <1>7 DEF Paid
  <2>2. groups[g].devices = requests[r].group.devices /\ groups[g].dates = requests[r].group.dates
    BY <1>1, <1>5 DEF RowIsKept
  <2>3. groups[g].duration = requests[r].group.duration
    BY <1>1, <1>6, <2>2 DEF ExactInv, RowsAreExact, RequestsAreExact, Exact
  <2> QED BY <2>1, <2>3
<1>9. old \in Int /\ new \in Int /\ MaxDuration \in Int /\ consumed.duration <= MaxDuration
  BY <1>3, ChangedIsExact, QuotasAreNumbers DEF Balanced, GroupRows
<1>10. /\ consumed.duration \in Int /\ consumed.duration - old + new \in Int
       /\ consumed'.duration = IF consumed.duration - old + new <= MaxDuration
                               THEN consumed.duration - old + new ELSE consumed.duration
       /\ ~(consumed.duration - old + new <= MaxDuration) => consumed' = consumed
  BY <1>1, <1>9, ChargedAddsUp DEF LockInv
<1>11. consumed'.duration <= MaxDuration
  BY <1>9, <1>10
<1>12. \A s \in Requests : s # r => requests'[s] = requests[s]
  BY <1>2 DEF RequestStays
<1>13. /\ requests'[r] # None /\ requests'[r].group.id = g
       /\ Changed(requests'[r]).duration = new
  BY <1>2 DEF RequestStays
<1>14. CASE requests'[r].at = "write"
  <2>1. consumed'.duration = consumed.duration - p[g] + new
    <3>1. CASE consumed' # consumed
      BY <1>8, <1>10, <3>1
    <3>2. CASE requests[r].op = "remove"
      <4>1. new <= old
        <5> DEFINE d == requests[r].group
        <5>1. /\ Changed(requests[r]).devices = d.devices \ {requests[r].device}
              /\ Changed(requests[r]).dates = d.dates
          BY <1>3, <3>2, ChangedIsTyped
        <5>2. d.devices \in SUBSET Devices /\ d.dates \in Dates
          BY <1>3 DEF GroupRows
        <5>3. PICK B \in SUBSET d.devices : B = Changed(requests[r]).devices
          BY <5>1
        <5>4. Exact(d) /\ Exact(Changed(requests[r]))
          BY <1>1, <1>3, ChangedIsExact DEF ExactInv, RequestsAreExact
        <5>5. Duration(B, d.dates) <= Duration(d.devices, d.dates)
          <6>1. d.dates.times \in Nat
            BY <5>2, DatesAreNumbers DEF Dates
          <6>2. d.dates.times <= d.dates.times
            BY <6>1
          <6> HIDE DEF d
          <6> QED BY <5>2, <6>2, DurationGrows
        <5> QED BY <5>1, <5>3, <5>4, <5>5 DEF Exact
      <4>2. consumed.duration - old + new <= MaxDuration
        BY <1>9, <1>10, <4>1
      <4> QED BY <1>8, <1>10, <4>2
    <3>3. CASE new = old
      BY <1>8, <1>9, <1>10, <3>3
    <3> QED BY <1>4, <1>14, <3>1, <3>2, <3>3
  <2>2. PICK q : q = [p EXCEPT ![g] = new]
    OBVIOUS
  <2>3. q[g] = new /\ \A h \in Groups : h # g => q[h] = p[h]
    BY <1>6, <2>2
  <2>4. Writes(r, g)'
    BY <1>13, <1>14 DEF Writes
  <2>5. ~Settles(r, g)'
    BY <1>14 DEF Settles
  <2>6. \A h \in Groups : Paid(q, h)'
    BY <1>1, <1>6, <1>7, <1>12, <1>13, <2>3, <2>4, <2>5, RequestPays
  <2> QED BY <1>6, <1>7, <1>9, <1>11, <2>1, <2>2, <2>6, OneIsPaid
<1>15. CASE requests'[r].at = "unlock"
  <2>1. consumed' = consumed
    BY <1>4, <1>15
  <2>2. ~Writes(r, g)' /\ ~Settles(r, g)'
    BY <1>15 DEF Writes, Settles
  <2>3. p[g] = IF Exists(g)' THEN groups'[g].duration ELSE 0
    BY <1>1, <1>6, <1>8 DEF Exists
  <2>4. \A h \in Groups : Paid(p, h)'
    BY <1>1, <1>6, <1>7, <1>12, <1>13, <2>2, <2>3, RequestPays
  <2> QED BY <1>7, <1>11, <2>1, <2>4 DEF Balanced
<1> QED BY <1>4, <1>14, <1>15

LEMMA WritePays ==
    ASSUME LockInv, ExactInv, Balanced, NEW r \in Requests, Write(r),
           \A t \in Ticks : ticks[t] = None
    PROVE  Balanced'
<1> PICK g : g = requests[r].group.id
  OBVIOUS
<1>1. /\ requests[r] # None /\ requests[r].at = "write"
      /\ UNCHANGED <<ticks, consumed>> /\ Goto(r, "unlock")
      /\ requests[r] \in Additions \cup Removals \cup Updates
  BY OpOf DEF Write, At, LockInv
<1>2. /\ g \in Groups /\ Exists(g)
      /\ \A h \in Groups : h # g => groups'[h] = groups[h]
      /\ groups'[g] # None
  BY WriteWrites, WriteLocks DEF CountsNothing, SameRows, Exists
<1>3. groups'[g].duration = Changed(requests[r]).duration
  BY WriteWritesDuration
<1>4. requests'[r].at = "unlock"
  <2>1. requests[r].op \in {"add", "remove", "update"}
    BY <1>1 DEF Additions, Removals, Updates
  <2>2. PICK at : at = "unlock"
    OBVIOUS
  <2> QED BY <1>1, <2>1, <2>2, AtGoesOn DEF LockInv
<1>5. RequestStays(r)
  BY WriteLocks
<1>6. /\ requests'[r] # None /\ requests'[r].group.id = g
      /\ \A s \in Requests : s # r => requests'[s] = requests[s]
  BY <1>5 DEF RequestStays
<1>7. \A s \in Requests : ~Settles(s, g) /\ (s # r => ~Writes(s, g))
  <2>1. Owning(r)
    BY <1>1 DEF Owning, Locked
  <2> QED BY <2>1, NobodyElseIsCharged
<1>8. PICK p \in [Groups -> Int] : /\ \A h \in Groups : Paid(p, h)
                                   /\ consumed.duration = Total(Accounts(p, Groups))
  BY DEF Balanced
<1>9. p[g] = IF Exists(g)' THEN groups'[g].duration ELSE 0
  <2>1. Writes(r, g)
    BY <1>1 DEF Writes
  <2>2. p[g] = Changed(requests[r]).duration
    BY <1>2, <1>8, <2>1 DEF Paid
  <2> QED BY <1>2, <1>3, <2>2 DEF Exists
<1>10. ~Writes(r, g)' /\ ~Settles(r, g)'
  BY <1>4 DEF Writes, Settles
<1>11. \A h \in Groups : Paid(p, h)'
  BY <1>1, <1>2, <1>6, <1>7, <1>8, <1>9, <1>10, RequestPays
<1> QED BY <1>1, <1>8, <1>11 DEF Balanced

\* What is deleted is paid back later.
LEMMA DeleteRowPays ==
    ASSUME LockInv, Balanced, NEW r \in Requests, DeleteRow(r),
           \A t \in Ticks : ticks[t] = None
    PROVE  Balanced'
<1> PICK g : g = requests[r].group.id
  OBVIOUS
<1>1. /\ requests[r] # None /\ requests[r].at = "delete" /\ g \in Groups /\ Exists(g)
      /\ requests'[r] # None /\ requests'[r].at = "settle" /\ requests'[r].group.id = g
      /\ \A h \in Groups : h # g => groups'[h] = groups[h]
      /\ \A s \in Requests : s # r => requests'[s] = requests[s]
      /\ UNCHANGED <<ticks, consumed>>
  BY DeleteRowLocks
<1>2. requests'[r].group = groups[g]
  BY DeleteRowKnows
<1>3. Quiet(g) /\ \A s \in Requests : ~Settles(s, g) /\ (s # r => ~Writes(s, g))
  <2>1. Owning(r) /\ requests[r].at # "write"
    BY <1>1 DEF Owning, Locked
  <2> QED BY <2>1, NobodyElseIsCharged
<1>4. PICK p \in [Groups -> Int] : /\ \A h \in Groups : Paid(p, h)
                                   /\ consumed.duration = Total(Accounts(p, Groups))
  BY DEF Balanced
<1>5. p[g] = groups[g].duration
  BY <1>1, <1>3, <1>4 DEF Paid
<1>6. ~Writes(r, g)' /\ Settles(r, g)'
  BY <1>1 DEF Writes, Settles
<1>7. \A h \in Groups : Paid(p, h)'
  BY <1>1, <1>2, <1>3, <1>4, <1>5, <1>6, RequestPays
<1> QED BY <1>1, <1>4, <1>7 DEF Balanced

LEMMA SettlePays ==
    ASSUME LockInv, CountInv, Balanced, NEW r \in Requests, Settle(r),
           \A t \in Ticks : ticks[t] = None
    PROVE  Balanced'
<1> PICK g : g = requests[r].group.id
  OBVIOUS
<1>1. /\ requests[r] # None /\ requests[r].at = "settle" /\ requests'[r] = None
      /\ \A s \in Requests : s # r => requests'[s] = requests[s]
      /\ UNCHANGED <<groups, ticks>> /\ consumed' = Settled(requests[r].group)
  BY SettleLocks DEF Settle
<1>2. g \in Groups /\ requests[r].group \in GroupRows /\ ~Exists(g)
  BY <1>1, Known DEF LockInv, Ownership, SettlingIsGone, Serving
<1>3. \A s \in Requests : s # r => ~Settles(s, g)
  BY <1>1, <1>2 DEF CountInv, CountedOnce, RequestCounts, Settles
<1>4. \A s \in Requests : ~Writes(s, g)
  BY <1>2 DEF LockInv, Ownership, OwnedIsLocked, Owning, Locked, Writes
<1>5. PICK p \in [Groups -> Int] : /\ \A h \in Groups : Paid(p, h)
                                   /\ consumed.duration = Total(Accounts(p, Groups))
  BY DEF Balanced
<1>6. p[g] = requests[r].group.duration
  <2>1. Settles(r, g)
    BY <1>1 DEF Settles
  <2> QED BY <1>2, <1>5, <2>1 DEF Paid
<1>7. PICK n \in Int : n = 0
  OBVIOUS
<1>8. consumed'.duration = consumed.duration - p[g] + n /\ consumed'.duration <= MaxDuration
  BY <1>1, <1>2, <1>6, <1>7, SettledAddsUp DEF Balanced, LockInv
<1>9. PICK q : q = [p EXCEPT ![g] = n]
  OBVIOUS
<1>10. q[g] = n /\ \A h \in Groups : h # g => q[h] = p[h]
  BY <1>2, <1>9
<1>11. q[g] = IF Exists(g)' THEN groups'[g].duration ELSE 0
  BY <1>1, <1>2, <1>7, <1>10 DEF Exists
<1>12. ~Writes(r, g)' /\ ~Settles(r, g)'
  BY <1>1 DEF Writes, Settles
<1>13. \A h \in Groups : Paid(q, h)'
  BY <1>1, <1>2, <1>3, <1>4, <1>5, <1>10, <1>11, <1>12, RequestPays
<1> QED BY <1>2, <1>5, <1>8, <1>9, <1>13, OneIsPaid

\* Who takes a lock or looks for conflicts does not write next.
LEMMA LooksFirst ==
    ASSUME LockInv, NEW r \in Requests, LockDevice(r) \/ LockOrigin(r) \/ Check(r)
    PROVE  requests'[r].at # "write"
<1>1. TypeOK
  BY DEF LockInv
<1>2. CASE LockDevice(r)
  <2>1. requests[r] # None /\ requests[r].op = "add"
    BY <1>1, <1>2, OpOf DEF LockDevice, At
  <2>2. PICK go \in {"unlock"}, at \in {"lockOrigin"}, what \in {"device"} :
            Goto(r, go) \/ Hold(r, what, at)
    BY <1>2 DEF LockDevice
  <2> QED BY <1>1, <2>1, <2>2, AtGoesOn, HoldGoesOn
<1>3. CASE LockOrigin(r)
  <2>1. requests[r] # None /\ requests[r].op = "add"
    BY <1>1, <1>3, OpOf DEF LockOrigin, At
  <2>2. PICK go \in {"unlock"}, at \in {"check"}, what \in {"origin"} :
            Goto(r, go) \/ Hold(r, what, at)
    BY <1>3 DEF LockOrigin
  <2> QED BY <1>1, <2>1, <2>2, AtGoesOn, HoldGoesOn
<1>4. CASE Check(r)
  <2>1. requests[r] # None /\ requests[r].op \in {"add", "update"}
    BY <1>1, <1>4, OpOf DEF Check, At
  <2>2. PICK go \in {"charge", "unlock"} : Goto(r, go)
    BY <1>4 DEF Check
  <2>3. requests'[r].at = go
    BY <1>1, <2>1, <2>2, AtGoesOn
  <2> QED BY <2>3
<1> QED BY <1>2, <1>3, <1>4

LEMMA ServePays ==
    ASSUME LockInv, CountInv, NewIsEmpty, RowIsKept, ExactInv, Balanced,
           NEW r \in Requests, Serve(r)
    PROVE  Balanced'
<1>1. (\A t \in Ticks : ticks[t] = None) /\ UNCHANGED ticks
  BY ServedWithoutTicks DEF ExactInv
<1>2. CASE LockDevice(r) \/ LockOrigin(r) \/ Check(r)
  <2>1. UNCHANGED <<groups, consumed>>
    BY <1>2 DEF LockDevice, LockOrigin, Check, rows
  <2>2. requests[r].at \notin {"write", "settle"} /\ RequestStays(r)
    BY <1>2, LockDeviceLocks, LockOriginLocks, CheckLocks
    DEF LockDevice, LockOrigin, Check, At
  <2>3. requests'[r].at \notin {"write", "settle"}
    BY <1>2, <2>2, LooksFirst, LockDeviceLocks, LockOriginLocks, CheckLocks
    DEF CountsNothing, RequestStays
  <2> QED BY <1>1, <2>1, <2>2, <2>3, RequestPaysNothing DEF RequestStays
<1>3. CASE Unlock(r)
  <2>1. UNCHANGED <<groups, consumed>>
    BY <1>3 DEF Unlock
  <2> QED BY <1>1, <1>3, <2>1, UnlockLocks, RequestPaysNothing DEF CountsNothing
<1> QED BY <1>1, <1>2, <1>3, InsertPays, ChargePays, WritePays, DeleteRowPays, SettlePays
    DEF Serve

\* A tick that neither charges nor settles changes no account.
LEMMA TickPaysNothing ==
    ASSUME Balanced, NEW t \in Ticks, UNCHANGED requests,
           \A u \in Ticks : u # t => ticks'[u] = ticks[u],
           consumed'.duration = consumed.duration, SameRows,
           \A g \in Groups : Exists(g) => groups'[g].duration = groups[g].duration,
           ticks[t] # None => ticks[t].at \notin {"charge", "settle"},
           ticks'[t] # None => ticks'[t].at \notin {"charge", "settle"}
    PROVE  Balanced'
<1>1. \A g \in Groups : ~Owes(t, g) /\ ~Owes(t, g)'
  BY DEF Owes
<1>2. \A g \in Groups : Exists(g)' <=> Exists(g)
  BY DEF SameRows
<1>3. \A p \in [Groups -> Int], g \in Groups : Paid(p, g) => Paid(p, g)'
  BY <1>1, <1>2, TickPaysElsewhere
<1> QED BY <1>3, NothingIsPaid

\* What a tick is at, and that nobody else charges for it.
LEMMA DueIsAlone ==
    ASSUME LockInv, ExactInv, NEW t \in Ticks, ticks[t] # None
    PROVE  /\ Due(t) \in GroupRows /\ Due(t).id \in Groups /\ Exact(Due(t))
           /\ 1 \in DOMAIN ticks[t].todo /\ ticks[t].todo[1].group = Due(t)
           /\ \A p : Paid(p, Due(t).id) =>
                 p[Due(t).id] = IF ticks[t].at \in {"charge", "settle"} THEN Due(t).duration
                                ELSE IF Exists(Due(t).id) THEN groups[Due(t).id].duration ELSE 0
<1>1. /\ Due(t) \in GroupRows /\ Due(t).id \in Groups
      /\ 1 \in DOMAIN ticks[t].todo /\ ticks[t].todo[1].group = Due(t)
  BY Listed DEF LockInv, Due
<1>2. Exact(Due(t))
  BY <1>1 DEF ExactInv, ListIsKept
<1> PICK g : g = Due(t).id
  OBVIOUS
<1>3. ticks[t].at \notin {"charge", "settle"} => Quiet(g)
  BY DEF ExactInv, TickIsAlone, Quiet, Writes, Settles, Owes
<1>4. ticks[t].at \in {"charge", "settle"} => Owes(t, g)
  BY DEF Owes
<1> QED BY <1>1, <1>2, <1>3, <1>4 DEF Paid

LEMMA UpdateDatesPays ==
    ASSUME LockInv, ExactInv, Balanced, NEW t \in Ticks, UpdateDates(t)
    PROVE  Balanced'
<1> PICK g : g = Due(t).id
  OBVIOUS
<1>1. /\ ticks[t] # None /\ ticks[t].at = "write" /\ g \in Groups /\ Exists(g)
      /\ \A h \in Groups : h # g => groups'[h] = groups[h]
  BY DatesWrites
<1>2. UNCHANGED requests /\ TickStays(t) /\ ticks'[t].at = "charge"
      /\ \A u \in Ticks : u # t => ticks'[u] = ticks[u]
  BY UpdateDatesLocks DEF TickCountsNothing
<1>3. Due(t)' = Due(t) /\ ticks'[t] # None
  BY <1>2 DEF TickStays, Due
<1>4. UNCHANGED consumed
  BY DEF UpdateDates
<1>5. PICK p \in [Groups -> Int] : /\ \A h \in Groups : Paid(p, h)
                                   /\ consumed.duration = Total(Accounts(p, Groups))
  BY DEF Balanced
<1>6. p[g] = groups[g].duration
  BY <1>1, <1>5, DueIsAlone
<1>7. groups[g].duration = Due(t).duration
  <2>1. Exact(Due(t)) /\ 1 \in DOMAIN ticks[t].todo /\ ticks[t].todo[1].group = Due(t)
    BY <1>1, DueIsAlone
  <2>2. groups[g].devices = Due(t).devices /\ groups[g].dates = Due(t).dates
    BY <1>1, <2>1 DEF ExactInv, ListIsKept
  <2>3. Exact(groups[g])
    BY <1>1 DEF ExactInv, RowsAreExact
  <2> QED BY <2>1, <2>2, <2>3 DEF Exact
<1>8. p[g] = Due(t)'.duration
  BY <1>3, <1>6, <1>7
<1>9. Owes(t, g)' /\ \A h \in Groups : h # g => ~Owes(t, h)'
  BY <1>2, <1>3 DEF Owes
<1>10. \A h \in Groups : Paid(p, h)'
  BY <1>1, <1>2, <1>5, <1>8, <1>9, TickPays DEF ExactInv
<1> QED BY <1>4, <1>5, <1>10 DEF Balanced

\* The dates that are dropped are paid back, and that is never refused.
LEMMA UpdateQuotaPays ==
    ASSUME LockInv, ExactInv, Balanced, NEW t \in Ticks, UpdateQuota(t)
    PROVE  Balanced'
<1> PICK g : g = Due(t).id
  OBVIOUS
<1> PICK old : old = Due(t).duration
  OBVIOUS
<1> PICK dates : dates = Dropped(Due(t), What(t).drop)
  OBVIOUS
<1> PICK new : new = Duration(Due(t).devices, dates)
  OBVIOUS
<1>1. ticks[t] # None /\ ticks[t].at = "charge" /\ consumed' = Charged(old, new)
  BY DEF UpdateQuota, Step
<1>2. /\ UNCHANGED <<requests, groups>> /\ TickStays(t) /\ ticks'[t].at = "unlock"
      /\ \A u \in Ticks : u # t => ticks'[u] = ticks[u]
  BY UpdateQuotaLocks DEF TickCountsNothing
<1>3. /\ Due(t) \in GroupRows /\ g \in Groups /\ Exact(Due(t))
      /\ What(t) \in Decisions /\ What(t).drop < Due(t).dates.times
  <2>1. What(t).do # "delete"
    BY <1>1 DEF LockInv, DecisionsFit, Scheduling
  <2> QED BY <1>1, <2>1, DueIsAlone, Listed DEF LockInv
<1>4. Exists(g)
  BY <1>1 DEF LockInv, Ownership, OwnedIsLocked, Running
<1>5. groups[g].duration = new
  BY <1>1, <1>3, <1>4 DEF ExactInv, WrittenIsDropped, RowsAreExact, Exact
<1>6. old \in Nat /\ new \in Nat /\ groups[g] \in GroupRows
  <2>1. groups[g] \in GroupRows
    BY <1>4, Known, <1>3 DEF LockInv
  <2> QED BY <1>3, <1>5, <2>1 DEF GroupRows
<1>7. new <= old
  <2>1. Due(t).devices \in SUBSET Devices /\ Due(t).dates \in Dates
    BY <1>3 DEF GroupRows
  <2>2. dates \in Dates /\ What(t).drop \in Nat
    BY <1>3, DroppedIsTyped DEF Decisions
  <2>3. dates.length = Due(t).dates.length /\ dates.times = Due(t).dates.times - What(t).drop
    BY <2>1 DEF Dropped, Dates
  <2>4. dates.times <= Due(t).dates.times
    <3>1. Due(t).dates.times \in Nat
      BY <2>1, DatesAreNumbers DEF Dates
    <3> QED BY <2>2, <2>3, <3>1
  <2>5. PICK A \in SUBSET Devices, s \in Dates : A = Due(t).devices /\ s = Due(t).dates
    BY <2>1
  <2>6. A \in SUBSET A
    OBVIOUS
  <2>7. Duration(A, dates) <= Duration(A, s)
    BY <2>2, <2>3, <2>4, <2>5, <2>6, DurationGrows
  <2> QED BY <1>3, <2>5, <2>7 DEF Exact
<1>8. PICK p \in [Groups -> Int] : /\ \A h \in Groups : Paid(p, h)
                                   /\ consumed.duration = Total(Accounts(p, Groups))
  BY DEF Balanced
<1>9. p[g] = old
  BY <1>1, <1>3, <1>8, DueIsAlone
<1>10. consumed'.duration = consumed.duration - p[g] + new /\ consumed'.duration <= MaxDuration
  <2>1. consumed.duration <= MaxDuration /\ MaxDuration \in Int
    BY QuotasAreNumbers DEF Balanced
  <2>2. PICK a \in Int, b \in Int : a = old /\ b = new
    BY <1>6
  <2>3. /\ consumed.duration \in Int
        /\ Charged(a, b).duration = IF consumed.duration - a + b <= MaxDuration
                                    THEN consumed.duration - a + b ELSE consumed.duration
    BY ChargedAddsUp DEF LockInv
  <2>4. consumed.duration - a + b <= MaxDuration
    BY <1>7, <2>1, <2>2, <2>3
  <2> QED BY <1>1, <1>9, <2>2, <2>3, <2>4
<1>11. PICK q : q = [p EXCEPT ![g] = new]
  OBVIOUS
<1>12. q[g] = new /\ \A h \in Groups : h # g => q[h] = p[h]
  BY <1>3, <1>11
<1>13. q[g] = IF Exists(g)' THEN groups'[g].duration ELSE 0
  BY <1>2, <1>4, <1>5, <1>12 DEF Exists
<1>14. \A h \in Groups : ~Owes(t, h)'
  BY <1>2 DEF Owes
<1>15. \A h \in Groups : Paid(q, h)'
  BY <1>1, <1>2, <1>3, <1>8, <1>12, <1>13, <1>14, TickPays DEF ExactInv
<1>16. new \in Int
  BY <1>6
<1> QED BY <1>3, <1>8, <1>10, <1>11, <1>15, <1>16, OneIsPaid

LEMMA DeleteOverPays ==
    ASSUME LockInv, ExactInv, Balanced, NEW t \in Ticks, DeleteOver(t)
    PROVE  Balanced'
<1> PICK g : g = Due(t).id
  OBVIOUS
<1>1. /\ ticks[t] # None /\ ticks[t].at = "write" /\ g \in Groups /\ Exists(g)
      /\ \A h \in Groups : h # g => groups'[h] = groups[h]
      /\ ticks'[t] # None /\ ticks'[t].at = "settle" /\ Due(t)'.id = g
      /\ Due(t)' = groups[g]
      /\ \A u \in Ticks : u # t => ticks'[u] = ticks[u]
      /\ UNCHANGED <<requests, consumed>>
  BY DeleteOverLocks
<1>2. PICK p \in [Groups -> Int] : /\ \A h \in Groups : Paid(p, h)
                                   /\ consumed.duration = Total(Accounts(p, Groups))
  BY DEF Balanced
<1>3. p[g] = groups[g].duration
  BY <1>1, <1>2, DueIsAlone
<1>4. p[g] = Due(t)'.duration
  BY <1>1, <1>3
<1>5. Owes(t, g)' /\ \A h \in Groups : h # g => ~Owes(t, h)'
  BY <1>1 DEF Owes
<1>6. \A h \in Groups : Paid(p, h)'
  BY <1>1, <1>2, <1>4, <1>5, TickPays DEF ExactInv
<1> QED BY <1>1, <1>2, <1>6 DEF Balanced

LEMMA SettleOverPays ==
    ASSUME LockInv, ExactInv, Balanced, NEW t \in Ticks, SettleOver(t)
    PROVE  Balanced'
<1> PICK g : g = Due(t).id
  OBVIOUS
<1>1. /\ ticks[t].at = "settle" /\ ticks'[t].at = "unlock" /\ TickStays(t)
      /\ UNCHANGED <<groups, requests>>
      /\ \A u \in Ticks : u # t => ticks'[u] = ticks[u]
  BY SettleOverLocks
<1>2. ticks[t] # None /\ consumed' = Settled(Due(t))
  BY DEF SettleOver, Step
<1>3. Due(t) \in GroupRows /\ g \in Groups
  BY <1>2, DueIsAlone
<1>4. ~Exists(g)
  BY <1>1, <1>2 DEF LockInv, Ownership, SettlingIsGone, Scheduling
<1>5. PICK p \in [Groups -> Int] : /\ \A h \in Groups : Paid(p, h)
                                   /\ consumed.duration = Total(Accounts(p, Groups))
  BY DEF Balanced
<1>6. p[g] = Due(t).duration
  BY <1>1, <1>2, <1>3, <1>5, DueIsAlone
<1>7. PICK n \in Int : n = 0
  OBVIOUS
<1>8. consumed'.duration = consumed.duration - p[g] + n /\ consumed'.duration <= MaxDuration
  BY <1>2, <1>3, <1>6, <1>7, SettledAddsUp DEF Balanced, LockInv
<1>9. PICK q : q = [p EXCEPT ![g] = n]
  OBVIOUS
<1>10. q[g] = n /\ \A h \in Groups : h # g => q[h] = p[h]
  BY <1>3, <1>9
<1>11. q[g] = IF Exists(g)' THEN groups'[g].duration ELSE 0
  BY <1>1, <1>4, <1>7, <1>10 DEF Exists
<1>12. \A h \in Groups : ~Owes(t, h)'
  BY <1>1 DEF Owes
<1>13. \A h \in Groups : Paid(q, h)'
  BY <1>1, <1>2, <1>3, <1>5, <1>10, <1>11, <1>12, TickPays DEF ExactInv
<1> QED BY <1>3, <1>5, <1>8, <1>9, <1>13, OneIsPaid

LEMMA SchedulePays ==
    ASSUME LockInv, ExactInv, Balanced, NEW t \in Ticks, Schedule(t)
    PROVE  Balanced'
<1>1. CASE Read(t)
  <2>1. TickCountsNothing(t) /\ UNCHANGED <<groups, consumed>>
    BY <1>1, ReadLocks DEF Read, rows
  <2>2. ticks[t] = None /\ ticks'[t].at = "lock"
    BY <1>1, ReadReads DEF LockInv, Ownership
  <2> QED BY <2>1, <2>2, TickPaysNothing DEF TickCountsNothing
<1>2. CASE AdminLock(t)
  <2>1. TickCountsNothing(t) /\ UNCHANGED <<groups, consumed>> /\ ticks[t].at = "lock"
    BY <1>2, AdminLockLocks DEF AdminLock
  <2>2. ticks'[t].at \notin {"charge", "settle"}
    BY <1>2, AdminLockGoesOn DEF LockInv
  <2> QED BY <2>1, <2>2, TickPaysNothing DEF TickCountsNothing
<1>3. CASE AdminLockSkipped(t) \/ AdminLockRefused(t) \/ AdminUnlock(t)
  <2>1. TickTurnsOver(t) /\ TickCountsNothing(t)
    BY <1>3, AdminLockSkippedLocks, AdminLockRefusedLocks, AdminUnlockLocks
  <2>2. \A g \in Groups : Exists(g) => groups'[g].duration = groups[g].duration
    BY <1>3, AdminLockSkippedLocks, RefusedWrites, AdminUnlockLocks
  <2>3. UNCHANGED consumed /\ ticks[t].at \notin {"charge", "settle"}
    BY <1>3 DEF AdminLockSkipped, AdminLockRefused, AdminUnlock, Step
  <2>4. ticks'[t] # None => ticks'[t].at \notin {"charge", "settle"}
    BY <2>1 DEF TickTurnsOver
  <2> QED BY <2>1, <2>2, <2>3, <2>4, TickPaysNothing DEF TickCountsNothing
<1> QED BY <1>1, <1>2, <1>3, UpdateDatesPays, UpdateQuotaPays, DeleteOverPays, SettleOverPays
    DEF Schedule

\* The inductive invariant of the quotas.
LEMMA QuotaBegins == Init => QuotaInv
<1> SUFFICES ASSUME Init PROVE ExactInv /\ Balanced
  BY DEF QuotaInv
<1>1. /\ \A g \in Groups : groups[g] = None
      /\ \A r \in Requests : requests[r] = None
      /\ \A t \in Ticks : ticks[t] = None
      /\ consumed.duration = 0
  BY DEF Init
<1>2. ExactInv
  BY <1>1 DEF ExactInv, TickIsAlone, RowsAreExact, RequestsAreExact, ListIsKept,
     WrittenIsDropped, Exists
<1>3. PICK p : p = [g \in Groups |-> 0]
  OBVIOUS
<1>4. p \in [Groups -> Int] /\ \A g \in Groups : p[g] = 0
  BY <1>3
<1>5. \A g \in Groups : Paid(p, g)
  BY <1>1, <1>4 DEF Paid, Writes, Settles, Owes, Exists
<1>6. Total(Accounts(p, Groups)) = 0
  <2>0. PICK H \in SUBSET Groups : H = {g \in Groups : Exists(g)}
    OBVIOUS
  <2>1. \A h \in H : FALSE
    BY <1>1, <2>0 DEF Exists
  <2>2. PICK row : row = groups
    OBVIOUS
  <2>3. PICK none : none = {row[h] : h \in H}
    OBVIOUS
  <2>4. Total(Accounts(p, Groups)) = Total(none)
    BY <1>4, <2>1, <2>3, DatabaseIsFinite, AccountsOfRows
  <2>5. none = {} /\ IsFiniteSet(none)
    BY <2>1, <2>3, FS_EmptySet
  <2> QED BY <2>4, <2>5, TotalStep
<1> QED BY <1>1, <1>2, <1>4, <1>5, <1>6, QuotasAreNumbers DEF Balanced

LEMMA QuotaGoesOn == SafeInv /\ CountInv /\ QuotaInv /\ [Next]_vars => QuotaInv'
<1> SUFFICES ASSUME SafeInv, CountInv, ExactInv, Balanced, "tick" \in scenario, [Next]_vars
             PROVE  ExactInv' /\ Balanced'
  BY ScenarioStays DEF QuotaInv
<1>1. LockInv /\ RowIsKept /\ NewIsEmpty
  BY DEF SafeInv, AloneInv
<1>2. ExactInv'
  BY <1>1, ExactGoesOn
<1>3. ASSUME NEW r \in Requests, Ask(r) \/ Serve(r) PROVE Balanced'
  BY <1>1, <1>3, AskPays, ServePays
<1>4. ASSUME NEW t \in Ticks, Schedule(t) PROVE Balanced'
  BY <1>1, <1>4, SchedulePays
<1>5. ASSUME Time \/ UNCHANGED vars PROVE Balanced'
  <2>1. UNCHANGED <<groups, requests, ticks, consumed>>
    BY <1>5 DEF Time, vars, rows
  <2>2. \A p \in [Groups -> Int], g \in Groups : Paid(p, g) => Paid(p, g)'
    BY <2>1 DEF Paid, Quiet, Writes, Settles, Owes, Due, Exists
  <2> QED BY <2>1, <2>2, NothingIsPaid
<1> QED BY <1>2, <1>3, <1>4, <1>5 DEF Next

\* When nothing is under way, the accounts are those of the rows.
LEMMA QuotaAddsUp ==
    ASSUME TypeOK, RowsAreNamed, QuotaInv, "tick" \in scenario, Busy = {}
    PROVE  /\ consumed.duration = Total(Rows)
           /\ \A g \in Rows : g.duration = Duration(g.devices, g.dates)
<1>1. /\ \A r \in Requests : requests[r] = None
      /\ \A t \in Ticks : ticks[t] = None
  BY DEF Busy, Serving, Scheduling
<1>2. ExactInv /\ Balanced
  BY DEF QuotaInv
<1>3. \A g \in Groups : Quiet(g)
  BY <1>1 DEF Quiet, Writes, Settles, Owes
<1>4. PICK p \in [Groups -> Int] : /\ \A h \in Groups : Paid(p, h)
                                   /\ consumed.duration = Total(Accounts(p, Groups))
  BY <1>2 DEF Balanced
<1>5. \A g \in Groups : p[g] = IF Exists(g) THEN groups[g].duration ELSE 0
  BY <1>3, <1>4 DEF Paid
<1>6. PICK H \in SUBSET Groups : H = {g \in Groups : Exists(g)}
  OBVIOUS
<1>7. PICK row : row = groups
  OBVIOUS
<1>8. Rows = {row[h] : h \in H}
  BY <1>6, <1>7 DEF Rows
<1>9. /\ \A h \in H : row[h].id = h /\ row[h].duration = p[h]
      /\ \A h \in Groups \ H : p[h] = 0
  BY <1>5, <1>6, <1>7 DEF RowsAreNamed
<1>10. Total(Accounts(p, Groups)) = Total({row[h] : h \in H})
  BY <1>9, DatabaseIsFinite, AccountsOfRows
<1>11. consumed.duration = Total(Rows)
  BY <1>4, <1>8, <1>10
<1>12. \A g \in Rows : g.duration = Duration(g.devices, g.dates)
  BY <1>2 DEF Rows, ExactInv, RowsAreExact, Exact
<1> QED BY <1>11, <1>12

THEOREM QuotasHold == Spec => []QuotaInv
<1>1. Init => QuotaInv
  BY QuotaBegins
<1>2. BookingInv /\ (LockInv /\ CountInv) /\ QuotaInv /\ [Next]_vars => QuotaInv'
  BY QuotaGoesOn DEF BookingInv
<1> QED BY <1>1, <1>2, BookingHolds, CountsHold, PTL DEF Spec

\* What the owner of the groups is charged for (the quotas of db/api.ts): once
\* nothing is under way, the number of the groups, however requests and ticks
\* overlapped; and the sum of what they book, which is what their rows say, if
\* ticks do not overlap with requests.
THEOREM QuotasAreExact == Spec => []QuotaIsExact
<1>1. LockInv /\ QuotaInv /\ NumberIsExact => QuotaIsExact
  <2> SUFFICES ASSUME LockInv, QuotaInv, NumberIsExact PROVE QuotaIsExact
    OBVIOUS
  <2>1. Busy = {} /\ "tick" \in scenario =>
            /\ consumed.duration = Total(Rows)
            /\ \A g \in Rows : g.duration = Duration(g.devices, g.dates)
    BY QuotaAddsUp DEF LockInv, Ownership
  <2> QED BY <2>1 DEF QuotaIsExact, Total
<1> QED BY <1>1, LocksHold, QuotasHold, NumberOfGroupsIsExact, PTL
=============================================================================
