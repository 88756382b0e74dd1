---------------------------- MODULE OriginProofs ----------------------------
(***************************************************************************)
(* The groups that a device belongs to, for every set of groups, devices,  *)
(* users and requests: however many changes are on their way through the   *)
(* feeds and the watchers.                                                 *)
(***************************************************************************)
EXTENDS Origin, FiniteSetTheorems, FunctionTheorems, SequenceTheorems, TLAPS

-----------------------------------------------------------------------------
(***************************************************************************)
(* What is to do.  A job is made by a change in a feed, or is one that the *)
(* watchers are at; what matters is which jobs are to be done, and which   *)
(* of them once only.                                                      *)
(***************************************************************************)
Copies(j) == IF j \in DOMAIN jobs THEN jobs[j] ELSE 0

\* How many elements of a sequence are in a set.
Count(s, T) == Cardinality({i \in DOMAIN s : s[i] \in T})

MadeBy(j) == {c \in GroupChanges : j \in GroupJobs(c)}
SentBy(j) == {c \in DeviceChanges : j = DeviceJob(c)}

Times(j) == Copies(j) + Count(groupFeed, MadeBy(j)) + Count(deviceFeed, SentBy(j))

\* The jobs that are to be done once.
Singles == {j \in ToDo : Times(j) = 1}

\* A step does one job and makes others.
Turn(gone, made) ==
    /\ ToDo' \subseteq ToDo \cup made
    /\ (ToDo \ gone) \cup made \subseteq ToDo'
    /\ gone \cap Singles \cap ToDo' \subseteq made
    /\ (Singles \ gone) \ made \subseteq Singles'
    /\ made \ ToDo \subseteq Singles'

\* A count is a number, and zero if there is none.
LEMMA CountType ==
    ASSUME NEW S, NEW s \in Seq(S), NEW T
    PROVE  /\ Count(s, T) \in Nat
           /\ Count(s, T) = 0 <=> \A i \in DOMAIN s : s[i] \notin T
<1> DEFINE I == {i \in DOMAIN s : s[i] \in T}
<1>1. DOMAIN s = 1..Len(s) /\ Len(s) \in Nat
  BY LenProperties
<1>2. IsFiniteSet(DOMAIN s)
  BY <1>1, FS_Interval
<1>3. IsFiniteSet(I)
  BY <1>2, FS_Subset
<1>4. Cardinality(I) \in Nat /\ (Cardinality(I) = 0 <=> I = {})
  BY <1>3, FS_CardinalityType, FS_EmptySet
<1> QED
  BY <1>4 DEF Count

\* A sequence that is longer by one.
LEMMA CountAppend ==
    ASSUME NEW S, NEW s \in Seq(S), NEW T, NEW c \in S
    PROVE  Count(Append(s, c), T) = Count(s, T) + (IF c \in T THEN 1 ELSE 0)
<1> DEFINE I == {i \in DOMAIN s : s[i] \in T}
           J == {i \in DOMAIN Append(s, c) : Append(s, c)[i] \in T}
           n == Len(s) + 1
<1>1. DOMAIN s = 1..Len(s) /\ Len(s) \in Nat
  BY LenProperties
<1>2. /\ DOMAIN Append(s, c) = 1..n
      /\ \A i \in 1..Len(s) : Append(s, c)[i] = s[i]
      /\ Append(s, c)[n] = c
  BY <1>1, AppendProperties, LenProperties
<1>3. IsFiniteSet(DOMAIN s)
  BY <1>1, FS_Interval
<1>4. IsFiniteSet(I)
  BY <1>3, FS_Subset
<1>5. n \notin I
  BY <1>1
<1>6. J = IF c \in T THEN I \cup {n} ELSE I
  BY <1>1, <1>2
<1>7. Cardinality(I \cup {n}) = Cardinality(I) + 1
  BY <1>4, <1>5, FS_AddElement
<1>8. Cardinality(I) \in Nat
  BY <1>4, FS_CardinalityType
<1>9. Cardinality(J) = Cardinality(I) + (IF c \in T THEN 1 ELSE 0)
  <2> HIDE DEF I, J
  <2> QED
    BY <1>6, <1>7, <1>8
<1> QED
  BY <1>9 DEF Count

\* A sequence without its head.
LEMMA CountTail ==
    ASSUME NEW S, NEW s \in Seq(S), s # <<>>, NEW T
    PROVE  Count(s, T) = Count(Tail(s), T) + (IF Head(s) \in T THEN 1 ELSE 0)
<1> DEFINE t == Tail(s)
           I == {i \in DOMAIN t : t[i] \in T}
           J == {i \in DOMAIN s : s[i] \in T}
           K == J \ {1}
           f == [i \in I |-> i + 1]
<1>1. /\ DOMAIN s = 1..Len(s) /\ Len(s) \in Nat /\ Len(s) > 0
      /\ t \in Seq(S) /\ Len(t) = Len(s) - 1 /\ DOMAIN t = 1..Len(t)
      /\ \A i \in DOMAIN t : t[i] = s[i + 1]
      /\ Head(s) = s[1]
  BY HeadTailProperties, LenProperties, EmptySeq
<1>2. IsFiniteSet(DOMAIN s) /\ IsFiniteSet(DOMAIN t)
  BY <1>1, FS_Interval
<1>3. IsFiniteSet(I) /\ IsFiniteSet(J)
  BY <1>2, FS_Subset
<1>4. f \in Bijection(I, K)
  <2>1. f \in [I -> K]
    BY <1>1
  <2>2. \A a, b \in I : f[a] = f[b] => a = b
    BY <1>1
  <2>3. \A k \in K : \E i \in I : f[i] = k
    <3> SUFFICES ASSUME NEW k \in K PROVE k - 1 \in I /\ f[k - 1] = k
      OBVIOUS
    <3> QED
      BY <1>1
  <2> QED
    BY <2>1, <2>2, <2>3, Fun_IsBij
<1>5. Cardinality(K) = Cardinality(I)
  BY <1>3, <1>4, FS_Bijection DEF ExistsBijection
<1>6. Cardinality(K) = IF 1 \in J THEN Cardinality(J) - 1 ELSE Cardinality(J)
  BY <1>3, FS_RemoveElement
<1>7. 1 \in J <=> Head(s) \in T
  BY <1>1
<1>8. Cardinality(I) \in Nat /\ Cardinality(J) \in Nat
  BY <1>3, FS_CardinalityType
<1>9. Cardinality(J) = Cardinality(I) + (IF Head(s) \in T THEN 1 ELSE 0)
  <2> HIDE DEF I, J, K
  <2> QED
    BY <1>5, <1>6, <1>7, <1>8
<1> QED
  BY <1>9 DEF Count

\* The feeds and the jobs are what they should be.
FeedsOK ==
    /\ groupFeed \in Seq(GroupChanges)
    /\ deviceFeed \in Seq(DeviceChanges)
    /\ IsABag(jobs)

\* What is to do is to be done at least once.
LEMMA ToDoTimes ==
    ASSUME FeedsOK, NEW j
    PROVE  Times(j) \in Nat /\ (j \in ToDo <=> Times(j) # 0)
<1>1. /\ Count(groupFeed, MadeBy(j)) \in Nat
      /\ Count(groupFeed, MadeBy(j)) = 0 <=> \A i \in DOMAIN groupFeed : groupFeed[i] \notin MadeBy(j)
  BY CountType DEF FeedsOK
<1>2. /\ Count(deviceFeed, SentBy(j)) \in Nat
      /\ Count(deviceFeed, SentBy(j)) = 0 <=> \A i \in DOMAIN deviceFeed : deviceFeed[i] \notin SentBy(j)
  BY CountType DEF FeedsOK
<1>3. \A i \in DOMAIN groupFeed : groupFeed[i] \in MadeBy(j) <=> j \in GroupJobs(groupFeed[i])
  BY ElementOfSeq, LenProperties DEF FeedsOK, MadeBy
<1>4. \A i \in DOMAIN deviceFeed : deviceFeed[i] \in SentBy(j) <=> j = DeviceJob(deviceFeed[i])
  BY ElementOfSeq, LenProperties DEF FeedsOK, SentBy
<1>5. Copies(j) \in Nat /\ (j \in BagToSet(jobs) <=> Copies(j) # 0)
  BY DEF FeedsOK, Copies, BagToSet, IsABag
<1>6. j \in ToDo <=> \/ j \in BagToSet(jobs)
                     \/ \E i \in DOMAIN groupFeed : j \in GroupJobs(groupFeed[i])
                     \/ \E i \in DOMAIN deviceFeed : j = DeviceJob(deviceFeed[i])
  BY DEF ToDo
<1>7. j \in ToDo <=> \/ Copies(j) # 0
                     \/ Count(groupFeed, MadeBy(j)) # 0
                     \/ Count(deviceFeed, SentBy(j)) # 0
  BY <1>1, <1>2, <1>3, <1>4, <1>5, <1>6
<1> QED
  BY <1>1, <1>2, <1>5, <1>7 DEF Times

\* Jobs are taken up.
LEMMA TakenUp ==
    ASSUME IsABag(jobs), NEW S, jobs' = jobs (+) SetToBag(S)
    PROVE  /\ IsABag(jobs)'
           /\ BagToSet(jobs)' = BagToSet(jobs) \cup S
           /\ \A j : Copies(j)' = Copies(j) + (IF j \in S THEN 1 ELSE 0)
<1>1. jobs' = [e \in (DOMAIN jobs) \cup S |->
                  (IF e \in DOMAIN jobs THEN jobs[e] ELSE 0)
                + (IF e \in S THEN 1 ELSE 0)]
  BY DEF (+), SetToBag
<1>2. \A e \in DOMAIN jobs : jobs[e] \in Nat /\ jobs[e] > 0
  BY DEF IsABag
<1>3. DOMAIN jobs' = (DOMAIN jobs) \cup S
  BY <1>1
<1>4. \A e \in DOMAIN jobs' : jobs'[e] \in Nat /\ jobs'[e] > 0
  BY <1>1, <1>2
<1>5. IsABag(jobs)'
  <2>1. jobs' = [e \in DOMAIN jobs' |-> jobs'[e]]
    BY <1>1
  <2> QED
    BY <2>1, <1>4 DEF IsABag
<1>6. \A j : Copies(j)' = Copies(j) + (IF j \in S THEN 1 ELSE 0)
  BY <1>1, <1>2 DEF Copies
<1> QED
  BY <1>3, <1>5, <1>6 DEF BagToSet

\* A job is done, and makes others.
LEMMA DoneOnce ==
    ASSUME IsABag(jobs), NEW job \in BagToSet(jobs), NEW next, Then(job, next)
    PROVE  /\ IsABag(jobs)'
           /\ BagToSet(jobs)' \subseteq BagToSet(jobs) \cup next
           /\ \A j : Copies(j)' = Copies(j) - (IF j = job THEN 1 ELSE 0)
                                            + (IF j \in next THEN 1 ELSE 0)
<1> DEFINE B == [e \in DOMAIN jobs |-> IF e \in {job} THEN jobs[e] - SetToBag({job})[e]
                                                      ELSE jobs[e]]
           C == [e \in {d \in DOMAIN B : B[d] > 0} |-> B[e]]
<1>1. jobs' = C (+) SetToBag(next)
  BY DEF Then, (-), SetToBag
<1>2. \A e \in DOMAIN jobs : jobs[e] \in Nat /\ jobs[e] > 0
  BY DEF IsABag
<1>3. \A e \in DOMAIN jobs : B[e] = (IF e = job THEN jobs[e] - 1 ELSE jobs[e])
  BY DEF SetToBag
<1>4. DOMAIN B = DOMAIN jobs
  OBVIOUS
<1>5. \A e : e \in DOMAIN C <=> e \in DOMAIN jobs /\ (e = job => jobs[e] - 1 > 0)
  BY <1>2, <1>3, <1>4
<1>6. \A e \in DOMAIN C : C[e] = (IF e = job THEN jobs[e] - 1 ELSE jobs[e])
  BY <1>3, <1>4
<1> HIDE DEF B, C
<1>7. jobs' = [e \in (DOMAIN C) \cup next |->
                  (IF e \in DOMAIN C THEN C[e] ELSE 0)
                + (IF e \in next THEN 1 ELSE 0)]
  BY <1>1 DEF (+), SetToBag
<1>8. DOMAIN jobs' = (DOMAIN C) \cup next
  BY <1>7
<1>9. \A e \in DOMAIN jobs' : jobs'[e] \in Nat /\ jobs'[e] > 0
  BY <1>7, <1>2, <1>5, <1>6
<1>10. IsABag(jobs)'
  <2>1. jobs' = [e \in DOMAIN jobs' |-> jobs'[e]]
    BY <1>7
  <2> QED
    BY <2>1, <1>9 DEF IsABag
<1>11. ASSUME NEW j
       PROVE  Copies(j)' = Copies(j) - (IF j = job THEN 1 ELSE 0) + (IF j \in next THEN 1 ELSE 0)
  <2>1. Copies(j)' = (IF j \in DOMAIN C THEN C[j] ELSE 0) + (IF j \in next THEN 1 ELSE 0)
    BY <1>7, <1>8, <1>2, <1>5, <1>6 DEF Copies
  <2>2. (IF j \in DOMAIN C THEN C[j] ELSE 0) = Copies(j) - (IF j = job THEN 1 ELSE 0)
    BY <1>2, <1>5, <1>6 DEF Copies, BagToSet
  <2> QED
    BY <2>1, <2>2
<1> QED
  BY <1>5, <1>8, <1>10, <1>11 DEF BagToSet

\* What has to be done once more or less often is what a step made or did.
LEMMA Turns ==
    ASSUME FeedsOK, FeedsOK', NEW gone, NEW made, gone \subseteq ToDo,
           \A j : Times(j)' = Times(j) - (IF j \in gone THEN 1 ELSE 0)
                                       + (IF j \in made THEN 1 ELSE 0)
    PROVE  Turn(gone, made)
<1>1. ASSUME NEW j
      PROVE  /\ Times(j) \in Nat /\ (j \in ToDo <=> Times(j) # 0)
             /\ Times(j)' \in Nat /\ (j \in ToDo' <=> Times(j)' # 0)
             /\ j \in Singles <=> Times(j) = 1
             /\ j \in Singles' <=> Times(j)' = 1
  <2>1. Times(j) \in Nat /\ (j \in ToDo <=> Times(j) # 0)
    BY ToDoTimes
  <2>2. (Times(j) \in Nat /\ (j \in ToDo <=> Times(j) # 0))'
    BY ToDoTimes, PTL
  <2> QED
    BY <2>1, <2>2 DEF Singles
<1>2. ASSUME NEW j
      PROVE  /\ j \in ToDo' => j \in ToDo \/ j \in made
             /\ (j \in ToDo /\ j \notin gone) \/ j \in made => j \in ToDo'
             /\ j \in gone /\ j \in Singles /\ j \in ToDo' => j \in made
             /\ j \in Singles /\ j \notin gone /\ j \notin made => j \in Singles'
             /\ j \in made /\ j \notin ToDo => j \in Singles'
  <2>1. Times(j)' = Times(j) - (IF j \in gone THEN 1 ELSE 0) + (IF j \in made THEN 1 ELSE 0)
    OBVIOUS
  <2>2. j \in gone => j \in ToDo
    OBVIOUS
  <2> DEFINE m == Times(j)
             n == Times(j)'
  <2>3. /\ m \in Nat /\ (j \in ToDo <=> m # 0)
        /\ n \in Nat /\ (j \in ToDo' <=> n # 0)
        /\ j \in Singles <=> m = 1
        /\ j \in Singles' <=> n = 1
        /\ n = m - (IF j \in gone THEN 1 ELSE 0) + (IF j \in made THEN 1 ELSE 0)
    BY <1>1, <2>1
  <2> HIDE DEF m, n
  <2> QED
    BY <2>2, <2>3
<1> QED
  BY <1>2 DEF Turn

-----------------------------------------------------------------------------
(***************************************************************************)
(* What a write makes to do, and which jobs the steps do and make.         *)
(***************************************************************************)
Made(g, row) ==
    IF row = groups[g] THEN {} ELSE GroupJobs([id |-> g, old |-> groups[g], new |-> row])

Sent(d, row) ==
    IF row.id = devices[d].id /\ row.origin = devices[d].origin THEN {}
    ELSE {DeviceJob([serial |-> d, old |-> devices[d], new |-> row])}

\* How the counts change.
JobsMove(gone, next) ==
    \A j : Copies(j)' = Copies(j) - (IF j \in gone THEN 1 ELSE 0)
                                  + (IF j \in next THEN 1 ELSE 0)
GroupsMake(made) ==
    \A j : Count(groupFeed, MadeBy(j))' =
               Count(groupFeed, MadeBy(j)) + (IF j \in made THEN 1 ELSE 0)
DevicesSend(sent) ==
    \A j : Count(deviceFeed, SentBy(j))' =
               Count(deviceFeed, SentBy(j)) + (IF j \in sent THEN 1 ELSE 0)

\* A row of a group is written.
LEMMA GroupCounted ==
    ASSUME groupFeed \in Seq(GroupChanges), groups \in [Groups -> GroupRows \cup {None}],
           NEW g \in Groups, NEW row \in GroupRows \cup {None},
           groups[g] = None => row = None, GroupWritten(g, row)
    PROVE  /\ groupFeed' \in Seq(GroupChanges)
           /\ GroupsMake(Made(g, row))
<1>1. CASE row = groups[g]
  BY <1>1, CountType DEF GroupWritten, Made, MadeBy, GroupsMake
<1>2. CASE row # groups[g]
  <2> DEFINE c == [id |-> g, old |-> groups[g], new |-> row]
  <2>1. c \in GroupChanges
    BY <1>2 DEF GroupChanges
  <2>2. groupFeed' = Append(groupFeed, c)
    BY <1>2 DEF GroupWritten
  <2>3. groupFeed' \in Seq(GroupChanges)
    BY <2>1, <2>2, AppendProperties
  <2>4. ASSUME NEW j
        PROVE  Count(groupFeed, MadeBy(j))' =
                   Count(groupFeed, MadeBy(j)) + (IF j \in Made(g, row) THEN 1 ELSE 0)
    <3>1. c \in MadeBy(j) <=> j \in Made(g, row)
      BY <1>2, <2>1 DEF MadeBy, Made
    <3>2. Count(groupFeed, MadeBy(j))' = Count(Append(groupFeed, c), MadeBy(j))
      BY <2>2 DEF Count, MadeBy
    <3> HIDE DEF c
    <3>3. Count(Append(groupFeed, c), MadeBy(j))
            = Count(groupFeed, MadeBy(j)) + (IF c \in MadeBy(j) THEN 1 ELSE 0)
      BY <2>1, CountAppend
    <3> QED
      BY <3>1, <3>2, <3>3
  <2> QED
    BY <2>3, <2>4 DEF GroupsMake
<1> QED
  BY <1>1, <1>2

\* The row of a device is written.
LEMMA DeviceCounted ==
    ASSUME deviceFeed \in Seq(DeviceChanges), devices \in [Devices -> DeviceRows],
           NEW d \in Devices, NEW row \in DeviceRows, DeviceWritten(d, row)
    PROVE  /\ deviceFeed' \in Seq(DeviceChanges)
           /\ DevicesSend(Sent(d, row))
<1>1. CASE row.id = devices[d].id /\ row.origin = devices[d].origin
  BY <1>1, CountType DEF DeviceWritten, Sent, SentBy, DevicesSend
<1>2. CASE ~(row.id = devices[d].id /\ row.origin = devices[d].origin)
  <2> DEFINE c == [serial |-> d, old |-> devices[d], new |-> row]
  <2>1. c \in DeviceChanges
    BY <1>2 DEF DeviceChanges
  <2>2. deviceFeed' = Append(deviceFeed, c)
    BY <1>2 DEF DeviceWritten
  <2>3. deviceFeed' \in Seq(DeviceChanges)
    BY <2>1, <2>2, AppendProperties
  <2>4. ASSUME NEW j
        PROVE  Count(deviceFeed, SentBy(j))' =
                   Count(deviceFeed, SentBy(j)) + (IF j \in Sent(d, row) THEN 1 ELSE 0)
    <3>1. c \in SentBy(j) <=> j \in Sent(d, row)
      BY <1>2, <2>1 DEF SentBy, Sent
    <3>2. Count(deviceFeed, SentBy(j))' = Count(Append(deviceFeed, c), SentBy(j))
      BY <2>2 DEF Count, SentBy
    <3> HIDE DEF c
    <3>3. Count(Append(deviceFeed, c), SentBy(j))
            = Count(deviceFeed, SentBy(j)) + (IF c \in SentBy(j) THEN 1 ELSE 0)
      BY <2>1, CountAppend
    <3> QED
      BY <3>1, <3>2, <3>3
  <2> QED
    BY <2>3, <2>4 DEF DevicesSend
<1> QED
  BY <1>1, <1>2

\* The three together.
LEMMA Deltas ==
    ASSUME FeedsOK, FeedsOK', NEW gone, NEW next, NEW made, NEW sent,
           gone \subseteq BagToSet(jobs),
           next \cap made = {}, next \cap sent = {}, made \cap sent = {},
           JobsMove(gone, next), GroupsMake(made), DevicesSend(sent)
    PROVE  Turn(gone, next \cup made \cup sent)
<1>1. ASSUME NEW j
      PROVE  Times(j)' = Times(j) - (IF j \in gone THEN 1 ELSE 0)
                                  + (IF j \in next \cup made \cup sent THEN 1 ELSE 0)
  <2> DEFINE a == Copies(j)
             b == Count(groupFeed, MadeBy(j))
             c == Count(deviceFeed, SentBy(j))
  <2>1. a \in Nat /\ b \in Nat /\ c \in Nat
    BY CountType DEF FeedsOK, Copies, IsABag
  <2>2. /\ a' = a - (IF j \in gone THEN 1 ELSE 0) + (IF j \in next THEN 1 ELSE 0)
        /\ b' = b + (IF j \in made THEN 1 ELSE 0)
        /\ c' = c + (IF j \in sent THEN 1 ELSE 0)
    BY DEF JobsMove, GroupsMake, DevicesSend
  <2>3. Times(j) = a + b + c /\ Times(j)' = a' + b' + c'
    BY DEF Times
  <2> HIDE DEF a, b, c
  <2> QED
    BY <2>1, <2>2, <2>3
<1>2. gone \subseteq ToDo
  BY DEF ToDo
<1> DEFINE all == next \cup made \cup sent
<1>3. \A j : Times(j)' = Times(j) - (IF j \in gone THEN 1 ELSE 0)
                                  + (IF j \in all THEN 1 ELSE 0)
  BY <1>1
<1> HIDE DEF all
<1>4. Turn(gone, all)
  BY <1>2, <1>3, Turns
<1> QED
  BY <1>4 DEF all

\* What is left alone counts the same.
LEMMA SameCounts ==
    ASSUME FeedsOK, NEW none, none = {}
    PROVE  /\ UNCHANGED groupFeed => GroupsMake(none)
           /\ UNCHANGED deviceFeed => DevicesSend(none)
           /\ UNCHANGED jobs => JobsMove(none, none)
<1>1. \A j : Count(groupFeed, MadeBy(j)) \in Nat /\ Count(deviceFeed, SentBy(j)) \in Nat
             /\ Copies(j) \in Nat
  BY CountType DEF FeedsOK, Copies, IsABag
<1>2. UNCHANGED groupFeed => \A j : Count(groupFeed, MadeBy(j))' = Count(groupFeed, MadeBy(j))
  BY DEF Count, MadeBy
<1>3. UNCHANGED deviceFeed => \A j : Count(deviceFeed, SentBy(j))' = Count(deviceFeed, SentBy(j))
  BY DEF Count, SentBy
<1>4. UNCHANGED jobs => \A j : Copies(j)' = Copies(j)
  BY DEF Copies
<1>5. \A j : j \notin none
  OBVIOUS
<1>6. \A n \in Nat : n + 0 = n /\ n - 0 + 0 = n
  OBVIOUS
<1> QED
  BY <1>1, <1>2, <1>3, <1>4, <1>5, <1>6 DEF GroupsMake, DevicesSend, JobsMove

\* The types that these lemmas need.
Stored ==
    /\ FeedsOK
    /\ groups \in [Groups -> GroupRows \cup {None}]
    /\ devices \in [Devices -> DeviceRows]

\* Nothing is made.
LEMMA IdleTurn ==
    ASSUME FeedsOK, UNCHANGED <<groupFeed, deviceFeed, jobs>>
    PROVE  FeedsOK' /\ Turn({}, {})
<1>1. FeedsOK'
  BY DEF FeedsOK
<1>2. PICK none : none = {}
  OBVIOUS
<1>3. Turn(none, none \cup none \cup none)
  <2>1. /\ none \subseteq BagToSet(jobs)
        /\ none \cap none = {} /\ none \cap none = {} /\ none \cap none = {}
    BY <1>1, <1>2
  <2>2. JobsMove(none, none) /\ GroupsMake(none) /\ DevicesSend(none)
    BY <1>1, <1>2, SameCounts DEF Stored
  <2> QED
    BY <2>1, <2>2, <1>1, <1>2, Deltas DEF Stored
<1>4. none \cup none \cup none = {}
  BY <1>2
<1> QED
  BY <1>1, <1>2, <1>3, <1>4

\* A group is written, by the API or the scheduler.
LEMMA GroupTurn ==
    ASSUME Stored, NEW g \in Groups, NEW row \in GroupRows \cup {None},
           groups[g] = None => row = None, GroupWritten(g, row),
           UNCHANGED <<deviceFeed, jobs>>
    PROVE  FeedsOK' /\ Turn({}, Made(g, row))
<1>1. /\ groupFeed' \in Seq(GroupChanges)
      /\ GroupsMake(Made(g, row))
  BY GroupCounted DEF Stored, FeedsOK
<1>2. FeedsOK'
  BY <1>1 DEF FeedsOK, Stored
<1>3. PICK none : none = {}
  OBVIOUS
<1>4. PICK made : made = Made(g, row)
  OBVIOUS
<1>5. Turn(none, none \cup made \cup none)
  <2>1. /\ none \subseteq BagToSet(jobs)
        /\ none \cap made = {} /\ none \cap none = {} /\ made \cap none = {}
    BY <1>1, <1>2, <1>3, <1>4
  <2>2. JobsMove(none, none) /\ GroupsMake(made) /\ DevicesSend(none)
    BY <1>1, <1>2, <1>3, <1>4, SameCounts DEF Stored
  <2> QED
    BY <2>1, <2>2, <1>1, <1>2, <1>3, <1>4, Deltas DEF Stored
<1>6. none \cup made \cup none = Made(g, row)
  BY <1>3, <1>4
<1> QED
  BY <1>2, <1>3, <1>5, <1>6

\* A device is written.
LEMMA DeviceTurn ==
    ASSUME Stored, NEW d \in Devices, NEW row \in DeviceRows, DeviceWritten(d, row),
           UNCHANGED <<groupFeed, jobs>>
    PROVE  FeedsOK' /\ Turn({}, Sent(d, row))
<1>1. /\ deviceFeed' \in Seq(DeviceChanges)
      /\ DevicesSend(Sent(d, row))
  BY DeviceCounted DEF Stored, FeedsOK
<1>2. FeedsOK'
  BY <1>1 DEF FeedsOK, Stored
<1>3. PICK none : none = {}
  OBVIOUS
<1>4. PICK sent : sent = Sent(d, row)
  OBVIOUS
<1>5. Turn(none, none \cup none \cup sent)
  <2>1. /\ none \subseteq BagToSet(jobs)
        /\ none \cap none = {} /\ none \cap sent = {} /\ none \cap sent = {}
    BY <1>1, <1>2, <1>3, <1>4
  <2>2. JobsMove(none, none) /\ GroupsMake(none) /\ DevicesSend(sent)
    BY <1>1, <1>2, <1>3, <1>4, SameCounts DEF Stored
  <2> QED
    BY <2>1, <2>2, <1>1, <1>2, <1>3, <1>4, Deltas DEF Stored
<1>6. none \cup none \cup sent = Sent(d, row)
  BY <1>3, <1>4
<1> QED
  BY <1>2, <1>3, <1>5, <1>6

\* A job makes others.
LEMMA JobTurn ==
    ASSUME Stored, NEW job \in BagToSet(jobs), NEW next, Then(job, next),
           UNCHANGED <<groupFeed, deviceFeed>>
    PROVE  FeedsOK' /\ Turn({job}, next)
<1>1. /\ IsABag(jobs)'
      /\ \A j : Copies(j)' = Copies(j) - (IF j = job THEN 1 ELSE 0)
                                       + (IF j \in next THEN 1 ELSE 0)
  BY DoneOnce DEF Stored, FeedsOK
<1>2. FeedsOK'
  BY <1>1 DEF FeedsOK, Stored
<1>3. PICK none : none = {}
  OBVIOUS
<1>4. PICK gone : gone = {job}
  OBVIOUS
<1>5. JobsMove(gone, next)
  BY <1>1, <1>4 DEF JobsMove
<1>6. Turn(gone, next \cup none \cup none)
  <2>1. /\ gone \subseteq BagToSet(jobs)
        /\ next \cap none = {} /\ next \cap none = {} /\ none \cap none = {}
    BY <1>2, <1>3, <1>4, <1>5
  <2>2. JobsMove(gone, next) /\ GroupsMake(none) /\ DevicesSend(none)
    BY <1>2, <1>3, <1>4, <1>5, SameCounts DEF Stored
  <2> QED
    BY <2>1, <2>2, <1>2, <1>3, <1>4, <1>5, Deltas DEF Stored
<1>7. next \cup none \cup none = next
  BY <1>3
<1> QED
  BY <1>2, <1>4, <1>6, <1>7

\* A job that is over.
LEMMA JobOver ==
    ASSUME Stored, NEW job \in BagToSet(jobs), Done(job), NEW gone, gone = {job},
           NEW none, none = {}
    PROVE  /\ IsABag(jobs)'
           /\ JobsMove(gone, none)
<1>1. PICK next : next = {}
  OBVIOUS
<1>2. Then(job, next)
  BY <1>1 DEF Done
<1>3. /\ IsABag(jobs)'
      /\ \A j : Copies(j)' = Copies(j) - (IF j = job THEN 1 ELSE 0)
                                       + (IF j \in next THEN 1 ELSE 0)
  BY <1>2, DoneOnce DEF Stored, FeedsOK
<1> QED
  BY <1>1, <1>3 DEF JobsMove

\* A job writes a device.
LEMMA JobDeviceTurn ==
    ASSUME Stored, NEW job \in BagToSet(jobs), Done(job),
           NEW d \in Devices, NEW row \in DeviceRows, DeviceWritten(d, row),
           UNCHANGED groupFeed
    PROVE  FeedsOK' /\ Turn({job}, Sent(d, row))
<1>1. /\ deviceFeed' \in Seq(DeviceChanges)
      /\ DevicesSend(Sent(d, row))
  BY DeviceCounted DEF Stored, FeedsOK
<1>2. PICK none : none = {}
  OBVIOUS
<1>3. PICK gone : gone = {job}
  OBVIOUS
<1>4. PICK sent : sent = Sent(d, row)
  OBVIOUS
<1>5. /\ IsABag(jobs)'
      /\ JobsMove(gone, none)
  BY <1>2, <1>3, JobOver
<1>6. FeedsOK'
  BY <1>1, <1>5 DEF FeedsOK, Stored
<1>7. Turn(gone, none \cup none \cup sent)
  <2>1. /\ gone \subseteq BagToSet(jobs)
        /\ none \cap none = {} /\ none \cap sent = {} /\ none \cap sent = {}
    BY <1>1, <1>2, <1>3, <1>4, <1>5, <1>6
  <2>2. JobsMove(gone, none) /\ GroupsMake(none) /\ DevicesSend(sent)
    BY <1>1, <1>2, <1>3, <1>4, <1>5, <1>6, SameCounts DEF Stored
  <2> QED
    BY <2>1, <2>2, <1>1, <1>2, <1>3, <1>4, <1>5, <1>6, Deltas DEF Stored
<1>8. none \cup none \cup sent = Sent(d, row)
  BY <1>2, <1>4
<1> QED
  BY <1>3, <1>6, <1>7, <1>8

\* A job writes a group.
LEMMA JobGroupTurn ==
    ASSUME Stored, NEW job \in BagToSet(jobs), Done(job),
           NEW g \in Groups, NEW row \in GroupRows \cup {None},
           groups[g] = None => row = None, GroupWritten(g, row),
           UNCHANGED deviceFeed
    PROVE  FeedsOK' /\ Turn({job}, Made(g, row))
<1>1. /\ groupFeed' \in Seq(GroupChanges)
      /\ GroupsMake(Made(g, row))
  BY GroupCounted DEF Stored, FeedsOK
<1>2. PICK none : none = {}
  OBVIOUS
<1>3. PICK gone : gone = {job}
  OBVIOUS
<1>4. PICK made : made = Made(g, row)
  OBVIOUS
<1>5. /\ IsABag(jobs)'
      /\ JobsMove(gone, none)
  BY <1>2, <1>3, JobOver
<1>6. FeedsOK'
  BY <1>1, <1>5 DEF FeedsOK, Stored
<1>7. Turn(gone, none \cup made \cup none)
  <2>1. /\ gone \subseteq BagToSet(jobs)
        /\ none \cap made = {} /\ none \cap none = {} /\ made \cap none = {}
    BY <1>1, <1>2, <1>3, <1>4, <1>5, <1>6
  <2>2. JobsMove(gone, none) /\ GroupsMake(made) /\ DevicesSend(none)
    BY <1>1, <1>2, <1>3, <1>4, <1>5, <1>6, SameCounts DEF Stored
  <2> QED
    BY <2>1, <2>2, <1>1, <1>2, <1>3, <1>4, <1>5, <1>6, Deltas DEF Stored
<1>8. none \cup made \cup none = Made(g, row)
  BY <1>2, <1>4
<1> QED
  BY <1>3, <1>6, <1>7, <1>8

\* What a watcher takes from its feed is still to do, as often as before.
LEMMA TimesSame ==
    ASSUME FeedsOK, FeedsOK', \A j : Times(j)' = Times(j)
    PROVE  Turn({}, {})
<1>1. PICK none : none = {}
  OBVIOUS
<1>2. \A j : Times(j) \in Nat
  BY ToDoTimes
<1>3. \A n \in Nat : n = n - 0 + 0
  OBVIOUS
<1>4. \A j : j \notin none
  BY <1>1
<1>5. \A j : Times(j)' = Times(j) - (IF j \in none THEN 1 ELSE 0)
                                  + (IF j \in none THEN 1 ELSE 0)
  BY <1>2, <1>3, <1>4
<1>6. Turn(none, none)
  BY <1>1, <1>5, Turns
<1> QED
  BY <1>1, <1>6

LEMMA WatchTurn ==
    ASSUME FeedsOK, WatchGroups \/ WatchDevices
    PROVE  FeedsOK' /\ Turn({}, {})
<1>1. CASE WatchGroups
  <2> DEFINE c == Head(groupFeed)
  <2>1. /\ groupFeed # <<>> /\ groupFeed' = Tail(groupFeed)
        /\ jobs' = jobs (+) SetToBag(GroupJobs(c))
        /\ UNCHANGED deviceFeed
    BY <1>1 DEF WatchGroups
  <2>2. /\ IsABag(jobs)'
        /\ \A j : Copies(j)' = Copies(j) + (IF j \in GroupJobs(c) THEN 1 ELSE 0)
    BY <2>1, TakenUp DEF FeedsOK
  <2>3. c \in GroupChanges /\ Tail(groupFeed) \in Seq(GroupChanges)
    BY <2>1, HeadTailProperties DEF FeedsOK
  <2>4. FeedsOK'
    BY <2>1, <2>2, <2>3 DEF FeedsOK
  <2>5. ASSUME NEW j PROVE Times(j)' = Times(j)
    <3>1. Count(groupFeed, MadeBy(j)) =
              Count(Tail(groupFeed), MadeBy(j)) + (IF c \in MadeBy(j) THEN 1 ELSE 0)
      BY <2>1, CountTail DEF FeedsOK
    <3>2. Count(groupFeed, MadeBy(j))' = Count(Tail(groupFeed), MadeBy(j))
      BY <2>1 DEF Count, MadeBy
    <3>3. Count(deviceFeed, SentBy(j))' = Count(deviceFeed, SentBy(j))
      BY <2>1 DEF Count, SentBy
    <3>4. c \in MadeBy(j) <=> j \in GroupJobs(c)
      BY <2>3 DEF MadeBy
    <3>5. /\ Count(groupFeed, MadeBy(j))' \in Nat /\ Copies(j) \in Nat
          /\ Count(deviceFeed, SentBy(j)) \in Nat
      BY <2>3, <3>2, CountType DEF FeedsOK, Copies, IsABag
    <3>6. Copies(j)' = Copies(j) + (IF j \in GroupJobs(c) THEN 1 ELSE 0)
      BY <2>2
    <3> DEFINE a == Copies(j)
               b == Count(groupFeed, MadeBy(j))
               e == Count(deviceFeed, SentBy(j))
               n == IF j \in GroupJobs(c) THEN 1 ELSE 0
    <3>7. /\ a' = a + n /\ b = b' + n /\ e' = e
          /\ a \in Nat /\ b' \in Nat /\ e \in Nat /\ n \in Nat
      BY <3>1, <3>2, <3>3, <3>4, <3>5, <3>6
    <3>8. Times(j) = a + b + e /\ Times(j)' = a' + b' + e'
      BY DEF Times
    <3> HIDE DEF a, b, e, n
    <3> QED
      BY <3>7, <3>8
  <2> QED
    BY <2>4, <2>5, TimesSame
<1>2. CASE WatchDevices
  <2> DEFINE c == Head(deviceFeed)
  <2>1. /\ deviceFeed # <<>> /\ deviceFeed' = Tail(deviceFeed)
        /\ jobs' = jobs (+) SetToBag({DeviceJob(c)})
        /\ UNCHANGED groupFeed
    BY <1>2 DEF WatchDevices
  <2>2. PICK S : S = {DeviceJob(c)}
    OBVIOUS
  <2>3. /\ IsABag(jobs)'
        /\ \A j : Copies(j)' = Copies(j) + (IF j \in S THEN 1 ELSE 0)
    BY <2>1, <2>2, TakenUp DEF FeedsOK
  <2>4. c \in DeviceChanges /\ Tail(deviceFeed) \in Seq(DeviceChanges)
    BY <2>1, HeadTailProperties DEF FeedsOK
  <2>5. FeedsOK'
    BY <2>1, <2>3, <2>4 DEF FeedsOK
  <2>6. ASSUME NEW j PROVE Times(j)' = Times(j)
    <3>1. Count(deviceFeed, SentBy(j)) =
              Count(Tail(deviceFeed), SentBy(j)) + (IF c \in SentBy(j) THEN 1 ELSE 0)
      BY <2>1, CountTail DEF FeedsOK
    <3>2. Count(deviceFeed, SentBy(j))' = Count(Tail(deviceFeed), SentBy(j))
      BY <2>1 DEF Count, SentBy
    <3>3. Count(groupFeed, MadeBy(j))' = Count(groupFeed, MadeBy(j))
      BY <2>1 DEF Count, MadeBy
    <3>4. c \in SentBy(j) <=> j \in S
      BY <2>2, <2>4 DEF SentBy
    <3>5. /\ Count(deviceFeed, SentBy(j))' \in Nat /\ Copies(j) \in Nat
          /\ Count(groupFeed, MadeBy(j)) \in Nat
      BY <2>4, <3>2, CountType DEF FeedsOK, Copies, IsABag
    <3>6. Copies(j)' = Copies(j) + (IF j \in S THEN 1 ELSE 0)
      BY <2>3
    <3> DEFINE a == Copies(j)
               b == Count(groupFeed, MadeBy(j))
               e == Count(deviceFeed, SentBy(j))
               n == IF j \in S THEN 1 ELSE 0
    <3>7. /\ a' = a + n /\ e = e' + n /\ b' = b
          /\ a \in Nat /\ b \in Nat /\ e' \in Nat /\ n \in Nat
      BY <3>1, <3>2, <3>3, <3>4, <3>5, <3>6
    <3>8. Times(j) = a + b + e /\ Times(j)' = a' + b' + e'
      BY DEF Times
    <3> HIDE DEF a, b, e, n
    <3> QED
      BY <3>7, <3>8
  <2> QED
    BY <2>5, <2>6, TimesSame
<1> QED
  BY <1>1, <1>2

-----------------------------------------------------------------------------
(***************************************************************************)
(* The jobs that a change makes, change by change.                         *)
(***************************************************************************)
\* A row that is not None, for the fields that a write changes.
LEMMA RowIs ==
    ASSUME NEW row \in GroupRows
    PROVE  /\ row # None
           /\ row = [users |-> row.users, devices |-> row.devices,
                     active |-> row.active, ticket |-> row.ticket]
           /\ row.users \subseteq Users /\ row.devices \subseteq Devices
           /\ row.active \in BOOLEAN
BY NoneIsNothing DEF GroupRows

\* A ticket.
LEMMA TicketMakes ==
    ASSUME NEW g \in Groups, NEW old \in GroupRows, NEW row \in GroupRows,
           row.ticket # old.ticket
    PROVE  GroupJobs([id |-> g, old |-> old, new |-> row])
             = {[Job("ticket", row.ticket.serial, g) EXCEPT !.signature = row.ticket.signature]}
BY RowIs DEF GroupJobs

\* A group begins or ends.
LEMMA SwitchMakes ==
    ASSUME NEW g \in Groups, NEW old \in GroupRows, NEW row \in GroupRows,
           row.ticket = old.ticket, row.active # old.active,
           row.devices = old.devices, row.users = old.users
    PROVE  GroupJobs([id |-> g, old |-> old, new |-> row])
             = IF row.active THEN {Job("current", d, g) : d \in row.devices}
               ELSE {Job("fromOrigin", d, None) : d \in row.devices}
<1>1. CASE row.devices = {}
  <2>1. row # None
    BY RowIs
  <2>2. GroupJobs([id |-> g, old |-> old, new |-> row]) = {}
    BY <1>1, <2>1 DEF GroupJobs
  <2> QED
    BY <1>1, <2>2
<1>2. CASE row.devices # {}
  <2>1. row # None /\ row.active \in BOOLEAN /\ old.active \in BOOLEAN
    BY RowIs
  <2>2. CASE row.active
    BY <1>2, <2>1, <2>2 DEF GroupJobs
  <2>3. CASE ~row.active
    BY <1>2, <2>1, <2>3 DEF GroupJobs
  <2> QED
    BY <2>2, <2>3
<1> QED
  BY <1>1, <1>2

\* A booking is deleted, or an origin group.
LEMMA EndMakes ==
    ASSUME NEW g \in Groups, NEW old \in GroupRows
    PROVE  GroupJobs([id |-> g, old |-> old, new |-> None])
             = IF g \in Origins THEN {Job("toRoot", d, Root) : d \in old.devices}
               ELSE IF old.active THEN {Job("fromOrigin", d, None) : d \in old.devices}
               ELSE {}
<1>1. g \in Bookings <=> g \notin Origins
  BY BookingsAreNoOrigins DEF Groups
<1>2. CASE old.devices = {}
  <2>1. GroupJobs([id |-> g, old |-> old, new |-> None]) = {}
    BY <1>1, <1>2 DEF GroupJobs
  <2> QED
    BY <1>2, <2>1
<1>3. CASE old.devices # {}
  <2>1. old.active \in BOOLEAN
    BY RowIs
  <2>2. CASE g \in Origins
    BY <1>1, <1>3, <2>1, <2>2 DEF GroupJobs
  <2>3. CASE g \notin Origins
    BY <1>1, <1>3, <2>1, <2>3 DEF GroupJobs
  <2> QED
    BY <2>2, <2>3
<1> QED
  BY <1>2, <1>3

\* A device comes into a booking.
LEMMA BookMakes ==
    ASSUME NEW g \in Bookings, NEW old \in GroupRows, NEW row \in GroupRows,
           row.ticket = old.ticket, row.active = old.active, row.users = old.users,
           NEW d \in Devices, d \notin old.devices, row.devices = old.devices \cup {d}
    PROVE  GroupJobs([id |-> g, old |-> old, new |-> row])
             = IF row.active THEN {Job("current", d, g)} ELSE {}
<1>1. row # None /\ g \in Bookings
  BY RowIs
<1>2. Cardinality(row.devices) > Cardinality(old.devices)
  <2>1. IsFiniteSet(old.devices)
    BY FinitelyManyDevices, FS_Subset, RowIs
  <2> QED
    BY <2>1, FS_AddElement, FS_CardinalityType
<1>3. (old.devices \cup row.devices) \ (old.devices \cap row.devices) = {d}
  OBVIOUS
<1>4. old.users \ row.users = {}
  OBVIOUS
<1>5. PICK one : one = {d}
  OBVIOUS
<1>6. one # {} /\ {Job("current", e, g) : e \in one} = {Job("current", d, g)}
  BY <1>5
<1>7. CASE row.active
  <2>1. GroupJobs([id |-> g, old |-> old, new |-> row]) = {Job("current", e, g) : e \in one}
    BY <1>1, <1>2, <1>3, <1>5, <1>6, <1>7 DEF GroupJobs
  <2> QED
    BY <1>6, <1>7, <2>1
<1>8. CASE ~row.active
  <2>1. GroupJobs([id |-> g, old |-> old, new |-> row]) = {}
    BY <1>1, <1>8 DEF GroupJobs
  <2> QED
    BY <1>8, <2>1
<1> QED
  BY <1>7, <1>8

\* A device is taken out of a booking.
LEMMA UnbookMakes ==
    ASSUME NEW g \in Bookings, NEW old \in GroupRows, NEW row \in GroupRows,
           row.ticket = old.ticket, row.active = old.active, row.users = old.users,
           NEW d \in old.devices, row.devices = old.devices \ {d}
    PROVE  GroupJobs([id |-> g, old |-> old, new |-> row])
             = IF row.active THEN {Job("fromOrigin", d, None)} ELSE {}
<1>1. row # None /\ g \in Bookings
  BY RowIs
<1>2. ~(Cardinality(row.devices) > Cardinality(old.devices))
  <2>1. IsFiniteSet(old.devices)
    BY FinitelyManyDevices, FS_Subset, RowIs
  <2>2. /\ Cardinality(row.devices) = Cardinality(old.devices) - 1
        /\ Cardinality(old.devices) \in Nat
    BY <2>1, FS_RemoveElement, FS_CardinalityType
  <2> QED
    BY <2>2
<1>3. (old.devices \cup row.devices) \ (old.devices \cap row.devices) = {d}
  OBVIOUS
<1>5. PICK one : one = {d}
  OBVIOUS
<1>6. one # {} /\ {Job("fromOrigin", e, None) : e \in one} = {Job("fromOrigin", d, None)}
  BY <1>5
<1>7. CASE row.active
  <2>1. GroupJobs([id |-> g, old |-> old, new |-> row]) = {Job("fromOrigin", e, None) : e \in one}
    <3>1. one = (old.devices \cup row.devices) \ (old.devices \cap row.devices)
      BY <1>3, <1>5
    <3>2. one # {}
      BY <1>6
    <3> QED
      BY <1>1, <1>2, <3>1, <3>2, <1>7, Zenon DEF GroupJobs
  <2> QED
    BY <1>6, <1>7, <2>1
<1>8. CASE ~row.active
  <2>1. GroupJobs([id |-> g, old |-> old, new |-> row]) = {}
    BY <1>1, <1>8 DEF GroupJobs
  <2> QED
    BY <1>8, <2>1
<1> QED
  BY <1>7, <1>8

\* Devices are listed, or no longer, by an origin group.
LEMMA ListMakes ==
    ASSUME NEW g \in Origins, NEW old \in GroupRows, NEW row \in GroupRows,
           row.ticket = old.ticket, row.active = old.active, row.users = old.users
    PROVE  GroupJobs([id |-> g, old |-> old, new |-> row]) = {}
<1>1. row # None /\ g \notin Bookings
  BY RowIs, BookingsAreNoOrigins
<1>2. PICK removed : removed = old.users \ row.users
  OBVIOUS
<1>3. removed = {}
  BY <1>2
<1>4. {[Job("evict", x[1], g) EXCEPT !.user = x[2]] : x \in old.devices \X removed} = {}
  BY <1>3
<1> QED
  BY <1>1, <1>2, <1>4 DEF GroupJobs

\* Users come into a group, or are taken out of it.
LEMMA UsersMake ==
    ASSUME NEW g \in Groups, NEW old \in GroupRows, NEW row \in GroupRows,
           row.ticket = old.ticket, row.active = old.active, row.devices = old.devices
    PROVE  GroupJobs([id |-> g, old |-> old, new |-> row])
             = IF row.active
               THEN {[Job("evict", x[1], g) EXCEPT !.user = x[2]] :
                       x \in old.devices \X (old.users \ row.users)}
               ELSE {}
<1>1. row # None
  BY RowIs
<1>2. (old.devices \cup row.devices) \ (old.devices \cap row.devices) = {}
  OBVIOUS
<1>3. CASE row.active
  BY <1>1, <1>2, <1>3 DEF GroupJobs
<1>4. CASE ~row.active
  BY <1>1, <1>2, <1>4 DEF GroupJobs
<1> QED
  BY <1>3, <1>4

\* The fields of a job.
LEMMA JobIs ==
    ASSUME NEW kind, NEW d, NEW g
    PROVE  /\ Job(kind, d, g).kind = kind /\ Job(kind, d, g).serial = d
           /\ Job(kind, d, g).group = g /\ Job(kind, d, g).user = None
           /\ Job(kind, d, g).signature = 0 /\ Job(kind, d, g).change = None
BY DEF Job

LEMMA JobIsLegal ==
    ASSUME NEW d \in Devices
    PROVE  /\ \A g \in Origins : /\ Job("drop", d, g) \in Jobs /\ Job("add", d, g) \in Jobs
                                 /\ Job("readGroup", d, g) \in Jobs
           /\ Job("toRoot", d, Root) \in Jobs
           /\ Job("fromOrigin", d, None) \in Jobs
           /\ \A g \in Bookings : Job("current", d, g) \in Jobs
           /\ \A g \in Origins, n \in Nat :
                  [Job("ticket", d, g) EXCEPT !.signature = n] \in Jobs
           /\ \A g \in Groups, u \in Users : [Job("evict", d, g) EXCEPT !.user = u] \in Jobs
BY DEF Job, Jobs, Groups, Origins

LEMMA DeviceJobIsLegal ==
    ASSUME NEW c \in DeviceChanges
    PROVE  /\ DeviceJob(c) \in Jobs
           /\ DeviceJob(c).kind = "device" /\ DeviceJob(c).serial = c.serial
           /\ DeviceJob(c).group = c.new.id /\ DeviceJob(c).change = c
<1>1. /\ DeviceJob(c).kind = "device" /\ DeviceJob(c).serial = c.serial
      /\ DeviceJob(c).group = c.new.id /\ DeviceJob(c).user = None
      /\ DeviceJob(c).signature = 0 /\ DeviceJob(c).change = c
  BY DEF DeviceJob, Job
<1>2. c.serial \in Devices /\ c.new.id \in Groups
  BY DEF DeviceChanges, DeviceRows
<1>3. DeviceJob(c) \in [kind : {"ticket", "toRoot", "current", "fromOrigin", "readGroup",
                               "back", "evict", "device", "drop", "add"},
                       serial : Devices, group : Groups \cup {None},
                       user : Users \cup {None}, signature : Nat,
                       change : DeviceChanges \cup {None}]
  BY <1>2 DEF DeviceJob, Job
<1> HIDE DEF DeviceJob
<1> QED
  BY <1>1, <1>3 DEF Jobs

\* The changes of groups make legal jobs.
LEMMA GroupJobsAreLegal ==
    ASSUME NEW c \in GroupChanges, Possible(c)
    PROVE  GroupJobs(c) \subseteq Jobs
<1> DEFINE row == IF c.new = None THEN c.old ELSE c.new
           changed == (c.old.devices \cup row.devices) \ (c.old.devices \cap row.devices)
           lost == IF c.new = None THEN c.old.devices ELSE changed
           added == c.new # None /\ Cardinality(row.devices) > Cardinality(c.old.devices)
           removed == c.old.users \ row.users
<1>1. c.id \in Groups /\ c.old \in GroupRows /\ (c.new # None => c.new \in GroupRows)
  BY DEF GroupChanges
<1>2. row \in GroupRows /\ row.devices \subseteq Devices /\ c.old.devices \subseteq Devices
      /\ removed \subseteq Users
  BY <1>1 DEF GroupRows
<1>3. changed \subseteq Devices /\ lost \subseteq Devices
  BY <1>2
<1>4. CASE row.ticket # c.old.ticket
  <2>1. c.id \in Origins /\ row.ticket.serial \in Devices /\ row.ticket.signature \in Nat
    BY <1>1, <1>2, <1>4 DEF Possible, GroupRows
  <2>2. GroupJobs(c) = {[Job("ticket", row.ticket.serial, c.id)
                            EXCEPT !.signature = row.ticket.signature]}
    BY <1>4 DEF GroupJobs
  <2> HIDE DEF row
  <2> QED
    BY <2>1, <2>2, JobIsLegal
<1>5. CASE row.ticket = c.old.ticket /\ c.old.active # row.active /\ row.devices # {}
  <2>1. GroupJobs(c) = {IF row.active THEN Job("current", d, c.id)
                                      ELSE Job("fromOrigin", d, None) : d \in row.devices}
    BY <1>5 DEF GroupJobs
  <2>2. c.id \in Bookings
    BY <1>1, <1>2, <1>5 DEF Possible, Groups
  <2> HIDE DEF row
  <2> QED
    BY <2>1, <2>2, <1>2, JobIsLegal
<1>6. CASE /\ row.ticket = c.old.ticket
           /\ ~(c.old.active # row.active /\ row.devices # {})
           /\ lost # {} /\ row.active /\ c.id \in Bookings
  <2>1. GroupJobs(c) = {IF added THEN Job("current", d, c.id)
                                 ELSE Job("fromOrigin", d, None) : d \in lost}
    BY <1>6 DEF GroupJobs
  <2> HIDE DEF row, lost, added, changed
  <2> QED
    BY <2>1, <1>6, <1>3, JobIsLegal
<1>7. CASE /\ row.ticket = c.old.ticket
           /\ ~(c.old.active # row.active /\ row.devices # {})
           /\ ~(lost # {} /\ row.active /\ c.id \in Bookings)
  <2>1. CASE c.new = None
    <3>1. GroupJobs(c) = IF c.id \in Origins THEN {Job("toRoot", d, Root) : d \in lost} ELSE {}
      BY <1>7, <2>1 DEF GroupJobs
    <3> HIDE DEF row, lost, changed
    <3> QED
      BY <3>1, <1>3, JobIsLegal
  <2>2. CASE c.new # None /\ row.active
    <3>1. GroupJobs(c) = {[Job("evict", x[1], c.id) EXCEPT !.user = x[2]] :
                            x \in c.old.devices \X removed}
      BY <1>7, <2>2 DEF GroupJobs
    <3> HIDE DEF row, lost, changed, removed
    <3> QED
      BY <3>1, <1>1, <1>2, JobIsLegal
  <2>3. CASE c.new # None /\ ~row.active
    <3>1. GroupJobs(c) = {}
      BY <1>7, <2>3 DEF GroupJobs
    <3> QED
      BY <3>1
  <2> QED
    BY <2>1, <2>2, <2>3
<1> QED
  BY <1>4, <1>5, <1>6, <1>7

\* Whatever is to do is a legal job.
LEMMA ToDoIsLegal ==
    ASSUME TypeOK
    PROVE  ToDo \subseteq Jobs
<1>1. \A i \in DOMAIN groupFeed : groupFeed[i] \in GroupChanges /\ Possible(groupFeed[i])
  BY ElementOfSeq, LenProperties DEF TypeOK, GroupsOK, DevicesOK
<1>2. \A i \in DOMAIN groupFeed : GroupJobs(groupFeed[i]) \subseteq Jobs
  BY <1>1, GroupJobsAreLegal
<1>3. \A i \in DOMAIN deviceFeed : deviceFeed[i] \in DeviceChanges
  BY ElementOfSeq, LenProperties DEF TypeOK, GroupsOK, DevicesOK
<1>4. \A i \in DOMAIN deviceFeed : DeviceJob(deviceFeed[i]) \in Jobs
  BY <1>3, DeviceJobIsLegal
<1> QED
  BY <1>2, <1>4 DEF TypeOK, JobsOK, ToDo

-----------------------------------------------------------------------------
(***************************************************************************)
(* Types.                                                                  *)
(***************************************************************************)
LEMMA TypesAreStored ==
    ASSUME TypeOK
    PROVE  Stored /\ FeedsOK
BY DEF TypeOK, GroupsOK, DevicesOK, JobsOK, Stored, FeedsOK

\* Each part is about variables of its own.
LEMMA SameTypes ==
    /\ GroupsOK /\ UNCHANGED <<groups, groupFeed>> => GroupsOK'
    /\ DevicesOK /\ UNCHANGED <<devices, deviceFeed>> => DevicesOK'
    /\ JobsOK /\ UNCHANGED jobs => JobsOK'
    /\ ControlOK /\ UNCHANGED control => ControlOK'
    /\ RequestsOK /\ UNCHANGED api => RequestsOK'
    /\ SequenceOK /\ UNCHANGED sequence => SequenceOK'
<1>1. GroupsOK /\ UNCHANGED <<groups, groupFeed>> => GroupsOK'
  BY DEF GroupsOK, Exists
<1>2. DevicesOK /\ UNCHANGED <<devices, deviceFeed>> => DevicesOK'
  BY DEF DevicesOK
<1>3. JobsOK /\ UNCHANGED jobs => JobsOK'
  BY DEF JobsOK
<1>4. ControlOK /\ UNCHANGED control => ControlOK'
  BY DEF ControlOK, control
<1>5. RequestsOK /\ UNCHANGED api => RequestsOK'
  BY DEF RequestsOK, api, Serving
<1>6. SequenceOK /\ UNCHANGED sequence => SequenceOK'
  BY DEF SequenceOK, sequence
<1> QED
  BY <1>1, <1>2, <1>3, <1>4, <1>5, <1>6

\* A group is written.
Writable(g, row) ==
    /\ g \in Groups /\ row \in GroupRows \cup {None}
    /\ groups[g] = None => row = None
    /\ g = Root => row # None
    /\ row # None => (g \in Origins => row.active)
    /\ row # None /\ row.ticket # groups[g].ticket => g \in Origins /\ row.ticket.serial \in Devices

LEMMA GroupTypes ==
    ASSUME GroupsOK, NEW g, NEW row, Writable(g, row), GroupWritten(g, row)
    PROVE  GroupsOK'
<1>1. groups' = [groups EXCEPT ![g] = row]
  BY DEF GroupWritten
<1>2. groups' \in [Groups -> GroupRows \cup {None}]
  BY <1>1 DEF GroupsOK, Writable
<1>3. Exists(Root)'
  BY <1>1 DEF GroupsOK, Writable, Exists, Groups, Origins
<1>4. (\A h \in Origins : Exists(h) => groups[h].active)'
  BY <1>1 DEF GroupsOK, Writable, Exists, Groups
<1>5. groupFeed' \in Seq(GroupChanges)
  BY GroupCounted DEF GroupsOK, Writable
<1>6. (\A i \in DOMAIN groupFeed : Possible(groupFeed[i]))'
  <2>1. CASE row = groups[g]
    BY <2>1 DEF GroupWritten, GroupsOK
  <2>2. CASE row # groups[g]
    <3> DEFINE c == [id |-> g, old |-> groups[g], new |-> row]
    <3>1. groupFeed' = Append(groupFeed, c)
      BY <2>2 DEF GroupWritten
    <3>2. groups[g] # None
      BY <2>2 DEF Writable
    <3>3. c.id = g /\ c.old = groups[g] /\ c.new = row
      OBVIOUS
    <3>4. Possible(c)
      BY <3>2, <3>3 DEF Possible, Writable, GroupsOK, Exists
    <3>5. c \in GroupChanges
      BY <3>2, <3>3 DEF GroupChanges, Writable, GroupsOK
    <3> HIDE DEF c
    <3>6. /\ groupFeed \in Seq(GroupChanges)
          /\ Len(groupFeed) \in Nat /\ DOMAIN groupFeed = 1..Len(groupFeed)
      BY LenProperties DEF GroupsOK
    <3>7. /\ \A i \in 1..Len(groupFeed) : Append(groupFeed, c)[i] = groupFeed[i]
          /\ Append(groupFeed, c)[Len(groupFeed) + 1] = c
          /\ DOMAIN Append(groupFeed, c) = 1..(Len(groupFeed) + 1)
      BY <3>5, <3>6, AppendProperties, LenProperties
    <3>8. \A i \in DOMAIN Append(groupFeed, c) : Possible(Append(groupFeed, c)[i])
      <4> SUFFICES ASSUME NEW i \in DOMAIN Append(groupFeed, c)
                   PROVE  Possible(Append(groupFeed, c)[i])
        OBVIOUS
      <4>1. i \in 1..Len(groupFeed) \/ i = Len(groupFeed) + 1
        BY <3>6, <3>7
      <4>2. CASE i \in 1..Len(groupFeed)
        BY <4>2, <3>6, <3>7 DEF GroupsOK
      <4>3. CASE i = Len(groupFeed) + 1
        BY <4>3, <3>4, <3>7
      <4> QED
        BY <4>1, <4>2, <4>3
    <3> QED
      BY <3>1, <3>8
  <2> QED
    BY <2>1, <2>2
<1> QED
  BY <1>2, <1>3, <1>4, <1>5, <1>6 DEF GroupsOK

\* A device is written.
LEMMA DeviceTypes ==
    ASSUME DevicesOK, NEW d \in Devices, NEW row \in DeviceRows, DeviceWritten(d, row)
    PROVE  DevicesOK'
<1>1. deviceFeed' \in Seq(DeviceChanges)
  BY DeviceCounted DEF DevicesOK
<1> QED
  BY <1>1 DEF DevicesOK, DeviceWritten

\* A job is done.
LEMMA JobTypes ==
    ASSUME JobsOK, NEW job \in BagToSet(jobs), NEW next \in SUBSET Jobs, Then(job, next)
    PROVE  JobsOK'
<1>1. IsABag(jobs)' /\ BagToSet(jobs)' \subseteq BagToSet(jobs) \cup next
  BY DoneOnce DEF JobsOK
<1> QED
  BY <1>1 DEF JobsOK

LEMMA JobOverTypes ==
    ASSUME JobsOK, NEW job \in BagToSet(jobs), Done(job)
    PROVE  JobsOK'
<1>1. PICK next \in SUBSET Jobs : next = {}
  OBVIOUS
<1>2. Then(job, next)
  BY <1>1 DEF Done
<1> QED
  BY <1>2, JobTypes

\* A device that is moved is a device still.
LEMMA ClassType ==
    ASSUME NEW g
    PROVE  Class(g) \in {"standard", "once", "bookable"}
BY DEF Class

LEMMA MovedType ==
    ASSUME NEW row \in DeviceRows, NEW g \in Origins
    PROVE  /\ Moved(row, g) \in DeviceRows
           /\ Moved(row, g).origin = g /\ Moved(row, g).owner = row.owner
           /\ row.id = row.origin => Moved(row, g).id = g /\ Moved(row, g).class = Class(g)
           /\ row.id # row.origin => Moved(row, g).id = row.id /\ Moved(row, g).class = row.class
<1>1. g \in Groups
  BY DEF Groups
<1>2. CASE row.id = row.origin
  <2>1. Moved(row, g) = [row EXCEPT !.origin = g, !.id = g, !.class = Class(g)]
    BY <1>2 DEF Moved
  <2> QED
    BY <1>1, <1>2, <2>1, ClassType DEF DeviceRows
<1>3. CASE row.id # row.origin
  <2>1. Moved(row, g) = [row EXCEPT !.origin = g]
    BY <1>3 DEF Moved
  <2> QED
    BY <1>1, <1>3, <2>1 DEF DeviceRows
<1> QED
  BY <1>2, <1>3

\* A request goes on: it is the same request, and the others stay where they are.
Onwards(r) ==
    /\ r \in Serving /\ Serving' = Serving
    /\ \A s \in Requests \ {r} : requests'[s] = requests[s]
    /\ requests'[r].op = requests[r].op
    /\ requests'[r].serial = requests[r].serial
    /\ requests'[r].to = requests[r].to
    /\ requests'[r].signature = requests[r].signature

LEMMA RequestIs ==
    ASSUME RequestsOK, NEW r \in Serving
    PROVE  r \in Requests /\ requests[r] \in RequestRows /\ Proper(requests[r])
BY DEF RequestsOK, Serving

LEMMA RequestWritten ==
    ASSUME RequestsOK, NEW r \in Requests, NEW q \in RequestRows,
           requests' = [requests EXCEPT ![r] = q]
    PROVE  /\ requests' \in [Requests -> RequestRows \cup {None}]
           /\ requests'[r] = q /\ \A s \in Requests \ {r} : requests'[s] = requests[s]
           /\ Serving' = Serving \cup {r}
           /\ Proper(q) => (\A s \in Serving : Proper(requests[s]))'
<1>1. /\ requests' \in [Requests -> RequestRows \cup {None}]
      /\ requests'[r] = q /\ \A s \in Requests \ {r} : requests'[s] = requests[s]
  BY DEF RequestsOK
<1>2. Serving' = Serving \cup {r}
  BY <1>1, NoneIsNothing DEF Serving
<1>3. ASSUME Proper(q), NEW s \in Serving' PROVE Proper(requests'[s])
  BY <1>1, <1>2, <1>3 DEF RequestsOK, Serving
<1> QED
  BY <1>1, <1>2, <1>3

\* A request goes to its next step.
LEMMA GoesTo ==
    ASSUME RequestsOK, NEW r \in Serving,
           NEW at \in {"lockFrom", "lockGroup", "lockDevice", "lockOrigin", "write",
                       "delete", "deleteRow", "check", "ask", "wait", "unlock"},
           Goto(r, at), Proper([requests[r] EXCEPT !.at = at])
    PROVE  /\ Onwards(r)
           /\ requests' \in [Requests -> RequestRows \cup {None}]
           /\ (\A s \in Serving : Proper(requests[s]))'
           /\ requests'[r] = [requests[r] EXCEPT !.at = at]
           /\ requests'[r].at = at /\ requests'[r].held = requests[r].held
           /\ requests'[r].row = requests[r].row
<1> DEFINE q == [requests[r] EXCEPT !.at = at]
<1>1. r \in Requests /\ requests[r] \in RequestRows
  BY RequestIs
<1>2. q \in RequestRows
  BY <1>1 DEF RequestRows
<1>3. requests' = [requests EXCEPT ![r] = q]
  BY DEF Goto
<1>4. /\ q.op = requests[r].op /\ q.serial = requests[r].serial
      /\ q.to = requests[r].to /\ q.signature = requests[r].signature
      /\ q.at = at /\ q.held = requests[r].held /\ q.row = requests[r].row
  BY <1>1 DEF RequestRows
<1>5. Serving \cup {r} = Serving
  OBVIOUS
<1> HIDE DEF q
<1>6. /\ requests' \in [Requests -> RequestRows \cup {None}]
      /\ requests'[r] = q /\ \A s \in Requests \ {r} : requests'[s] = requests[s]
      /\ Serving' = Serving \cup {r}
      /\ Proper(q) => (\A s \in Serving : Proper(requests[s]))'
  BY <1>1, <1>2, <1>3, RequestWritten
<1>7. Proper(q)
  BY DEF q
<1>8. q = [requests[r] EXCEPT !.at = at]
  BY DEF q
<1> QED
  BY <1>4, <1>5, <1>6, <1>7, <1>8 DEF Onwards

\* A request may always go to its end.
LEMMA MayUnlock ==
    ASSUME NEW q \in RequestRows, Proper(q)
    PROVE  Proper([q EXCEPT !.at = "unlock"])
BY DEF Proper, RequestRows

\* A lock is taken, or not.
LEMMA LocksOne ==
    ASSUME RequestsOK, NEW r \in Serving, NEW what \in Groups \cup Devices,
           NEW available \in BOOLEAN, NEW then \in RequestRows,
           then.held = requests[r].held,
           then.op = requests[r].op, then.serial = requests[r].serial,
           then.to = requests[r].to, then.signature = requests[r].signature,
           available => Proper([then EXCEPT !.held = @ \cup {what}]),
           Lock(r, what, available, then)
    PROVE  /\ Onwards(r) /\ RequestsOK'
           /\ \/ /\ available /\ what \notin locks /\ locks' = locks \cup {what}
                 /\ requests'[r] = [then EXCEPT !.held = @ \cup {what}]
                 /\ requests'[r].held = requests[r].held \cup {what}
                 /\ requests'[r].at = then.at /\ requests'[r].row = then.row
              \/ /\ locks' = locks
                 /\ requests'[r] = [requests[r] EXCEPT !.at = "unlock"]
                 /\ requests'[r].held = requests[r].held
                 /\ requests'[r].at = "unlock" /\ requests'[r].row = requests[r].row
<1>1. r \in Requests /\ requests[r] \in RequestRows /\ Proper(requests[r])
  BY RequestIs
<1>2. answers' = answers /\ late' = late
  BY DEF Lock
<1>3. CASE available /\ what \notin locks
  <2> DEFINE q == [then EXCEPT !.held = @ \cup {what}]
  <2>1. q \in RequestRows
    BY DEF RequestRows
  <2>2. locks' = locks \cup {what} /\ requests' = [requests EXCEPT ![r] = q]
    BY <1>3 DEF Lock
  <2>3. /\ q.op = requests[r].op /\ q.serial = requests[r].serial
        /\ q.to = requests[r].to /\ q.signature = requests[r].signature
        /\ q.at = then.at /\ q.held = requests[r].held \cup {what} /\ q.row = then.row
    BY DEF RequestRows
  <2>4. Proper(q)
    BY <1>3
  <2>5. Serving \cup {r} = Serving
    OBVIOUS
  <2>6. q = [then EXCEPT !.held = @ \cup {what}]
    OBVIOUS
  <2> HIDE DEF q
  <2>7. /\ requests' \in [Requests -> RequestRows \cup {None}]
        /\ requests'[r] = q /\ \A s \in Requests \ {r} : requests'[s] = requests[s]
        /\ Serving' = Serving \cup {r}
        /\ (\A s \in Serving : Proper(requests[s]))'
    BY <1>1, <2>1, <2>2, <2>4, RequestWritten
  <2>8. RequestsOK'
    BY <1>2, <2>2, <2>7 DEF RequestsOK
  <2> QED
    BY <1>3, <2>2, <2>3, <2>5, <2>6, <2>7, <2>8 DEF Onwards
<1>4. CASE ~(available /\ what \notin locks)
  <2>1. Goto(r, "unlock") /\ locks' = locks
    BY <1>4 DEF Lock
  <2>2. Proper([requests[r] EXCEPT !.at = "unlock"])
    BY <1>1, MayUnlock
  <2>3. PICK at \in {"lockFrom", "lockGroup", "lockDevice", "lockOrigin", "write",
                     "delete", "deleteRow", "check", "ask", "wait", "unlock"} : at = "unlock"
    OBVIOUS
  <2>4. /\ Onwards(r)
        /\ requests' \in [Requests -> RequestRows \cup {None}]
        /\ (\A s \in Serving : Proper(requests[s]))'
        /\ requests'[r] = [requests[r] EXCEPT !.at = at]
        /\ requests'[r].at = at /\ requests'[r].held = requests[r].held
        /\ requests'[r].row = requests[r].row
    BY <2>1, <2>2, <2>3, GoesTo
  <2>5. RequestsOK'
    BY <1>2, <2>1, <2>4 DEF RequestsOK
  <2> QED
    BY <2>1, <2>3, <2>4, <2>5
<1> QED
  BY <1>3, <1>4

\* What a locking step comes to.
Took(r, what) ==
    /\ what \notin locks /\ locks' = locks \cup {what}
    /\ requests'[r].held = requests[r].held \cup {what}
Refused(r) ==
    /\ locks' = locks
    /\ requests'[r].held = requests[r].held /\ requests'[r].at = "unlock"

\* The fields of a request.
LEMMA FieldsOf ==
    ASSUME NEW q \in RequestRows
    PROVE  /\ \A at : /\ [q EXCEPT !.at = at].op = q.op
                      /\ [q EXCEPT !.at = at].serial = q.serial
                      /\ [q EXCEPT !.at = at].from = q.from
                      /\ [q EXCEPT !.at = at].to = q.to
                      /\ [q EXCEPT !.at = at].held = q.held
                      /\ [q EXCEPT !.at = at].at = at
                      /\ [q EXCEPT !.at = at].row = q.row
                      /\ [q EXCEPT !.at = at].signature = q.signature
           /\ \A held : /\ [q EXCEPT !.held = held].op = q.op
                        /\ [q EXCEPT !.held = held].serial = q.serial
                        /\ [q EXCEPT !.held = held].from = q.from
                        /\ [q EXCEPT !.held = held].to = q.to
                        /\ [q EXCEPT !.held = held].held = held
                        /\ [q EXCEPT !.held = held].at = q.at
                        /\ [q EXCEPT !.held = held].row = q.row
                        /\ [q EXCEPT !.held = held].signature = q.signature
           /\ q.held \subseteq Groups \cup Devices /\ q.to \in Groups
           /\ q.from \in Origins \cup {None} /\ q.serial \in Devices \cup {None}
           /\ q.op \in {"move", "book", "delete"} /\ q.signature \in Nat
           /\ q.row \in GroupRows \cup {None}
BY DEF RequestRows

LEMMA LockFromIs ==
    ASSUME TypeOK, NEW r \in Requests, LockFrom(r)
    PROVE  /\ Onwards(r) /\ RequestsOK' /\ requests[r].op = "move"
           /\ \/ Refused(r)
              \/ /\ Took(r, requests[r].from)
                 /\ requests'[r].at = "lockGroup" /\ requests'[r].row = requests[r].row
<1> DEFINE p == requests[r]
           q == [p EXCEPT !.at = "lockGroup"]
           what == p.from
           h == [q EXCEPT !.held = @ \cup {what}]
<1>1. /\ RequestsOK /\ r \in Serving /\ p.at = "lockFrom"
      /\ p \in RequestRows /\ Proper(p)
  BY RequestIs DEF LockFrom, At, Serving, TypeOK
<1>2. /\ what \in Groups \cup Devices /\ what \in Origins /\ p.op = "move"
  BY <1>1, FieldsOf DEF Proper, Groups
<1>3. q \in RequestRows /\ q.held = p.held /\ q.op = p.op /\ q.serial = p.serial
      /\ q.to = p.to /\ q.signature = p.signature /\ q.at = "lockGroup" /\ q.row = p.row
  BY <1>1 DEF RequestRows
<1>4. Proper(h)
  <2>1. /\ h.op = p.op /\ h.serial = p.serial /\ h.to = p.to /\ h.at = "lockGroup"
    BY <1>3, FieldsOf
  <2> QED
    BY <1>1, <1>2, <2>1 DEF Proper
<1>5. Lock(r, what, Exists(what), q)
  BY DEF LockFrom
<1>6. Exists(what) \in BOOLEAN
  BY DEF Exists
<1> HIDE DEF p, q, what
<1>7. /\ Onwards(r) /\ RequestsOK'
      /\ \/ /\ Exists(what) /\ what \notin locks /\ locks' = locks \cup {what}
            /\ requests'[r] = [q EXCEPT !.held = @ \cup {what}]
            /\ requests'[r].held = requests[r].held \cup {what}
            /\ requests'[r].at = q.at /\ requests'[r].row = q.row
         \/ /\ locks' = locks
            /\ requests'[r] = [requests[r] EXCEPT !.at = "unlock"]
            /\ requests'[r].held = requests[r].held
            /\ requests'[r].at = "unlock" /\ requests'[r].row = requests[r].row
  BY <1>1, <1>2, <1>3, <1>4, <1>5, <1>6, LocksOne DEF p
<1> QED
  BY <1>2, <1>3, <1>7 DEF p, what, Took, Refused

LEMMA LockOriginIs ==
    ASSUME TypeOK, NEW r \in Requests, LockOrigin(r)
    PROVE  /\ Onwards(r) /\ RequestsOK' /\ requests[r].op = "book"
           /\ requests[r].at = "lockOrigin"
           /\ \/ Refused(r)
              \/ /\ Took(r, requests[r].from)
                 /\ requests'[r].at = "write" /\ requests'[r].row = requests[r].row
<1> DEFINE p == requests[r]
           q == [p EXCEPT !.at = "write"]
           what == p.from
           h == [q EXCEPT !.held = @ \cup {what}]
<1>1. /\ RequestsOK /\ r \in Serving /\ p.at = "lockOrigin"
      /\ p \in RequestRows /\ Proper(p)
  BY RequestIs DEF LockOrigin, At, Serving, TypeOK
<1>2. /\ what \in Groups \cup Devices /\ what \in Origins /\ p.op = "book" /\ p.row # None
  BY <1>1, FieldsOf DEF Proper, Groups
<1>3. q \in RequestRows /\ q.held = p.held /\ q.op = p.op /\ q.serial = p.serial
      /\ q.to = p.to /\ q.signature = p.signature /\ q.at = "write" /\ q.row = p.row
  BY <1>1 DEF RequestRows
<1>4. Proper(h)
  <2>1. /\ h.op = p.op /\ h.serial = p.serial /\ h.to = p.to /\ h.at = "write"
        /\ h.row = p.row
    BY <1>3, FieldsOf
  <2> QED
    BY <1>1, <1>2, <2>1 DEF Proper
<1>5. Lock(r, what, Exists(what), q)
  BY DEF LockOrigin
<1>6. Exists(what) \in BOOLEAN
  BY DEF Exists
<1> HIDE DEF p, q, what
<1>7. /\ Onwards(r) /\ RequestsOK'
      /\ \/ /\ Exists(what) /\ what \notin locks /\ locks' = locks \cup {what}
            /\ requests'[r] = [q EXCEPT !.held = @ \cup {what}]
            /\ requests'[r].held = requests[r].held \cup {what}
            /\ requests'[r].at = q.at /\ requests'[r].row = q.row
         \/ /\ locks' = locks
            /\ requests'[r] = [requests[r] EXCEPT !.at = "unlock"]
            /\ requests'[r].held = requests[r].held
            /\ requests'[r].at = "unlock" /\ requests'[r].row = requests[r].row
  BY <1>1, <1>2, <1>3, <1>4, <1>5, <1>6, LocksOne DEF p
<1> QED
  BY <1>1, <1>2, <1>3, <1>7 DEF p, what, Took, Refused

LEMMA LockGroupIs ==
    ASSUME TypeOK, NEW r \in Requests, LockGroup(r)
    PROVE  LET q == requests[r] IN
           /\ Onwards(r) /\ RequestsOK' /\ q.to \in Groups
           /\ \/ Refused(r)
              \/ /\ Took(r, q.to) /\ Exists(q.to) /\ requests'[r].row = groups[q.to]
                 /\ requests'[r].at = IF q.op = "delete" THEN "delete"
                                      ELSE IF q.serial \in groups[q.to].devices THEN "unlock"
                                      ELSE "lockDevice"
<1> DEFINE p == requests[r]
           at == IF p.op = "delete" THEN "delete"
                 ELSE IF p.serial \in groups[p.to].devices THEN "unlock"
                 ELSE "lockDevice"
           q == [p EXCEPT !.row = groups[p.to], !.at = at]
           what == p.to
           h == [q EXCEPT !.held = @ \cup {what}]
<1>1. /\ RequestsOK /\ r \in Serving /\ p.at = "lockGroup"
      /\ p \in RequestRows /\ Proper(p)
  BY RequestIs DEF LockGroup, At, Serving, TypeOK
<1>2. what \in Groups
  BY <1>1, FieldsOf
<1>3. groups[what] \in GroupRows \cup {None} /\ at \in {"delete", "unlock", "lockDevice"}
  BY <1>2 DEF TypeOK, GroupsOK
<1>4. q \in RequestRows /\ q.held = p.held /\ q.op = p.op /\ q.serial = p.serial
      /\ q.to = p.to /\ q.signature = p.signature /\ q.at = at /\ q.row = groups[what]
  BY <1>1, <1>3 DEF RequestRows
<1>5. Exists(what) => Proper(h)
  <2>1. /\ h.op = p.op /\ h.serial = p.serial /\ h.to = p.to /\ h.at = at
        /\ h.row = groups[what]
    BY <1>4, FieldsOf
  <2>2. at = "delete" <=> p.op = "delete"
    OBVIOUS
  <2> HIDE DEF at
  <2> QED
    BY <1>1, <1>2, <1>3, <2>1, <2>2, FieldsOf DEF Proper, Exists
<1>6. Lock(r, what, Exists(what), q)
  BY DEF LockGroup
<1>7. Exists(what) \in BOOLEAN
  BY DEF Exists
<1> HIDE DEF p, q, what, at
<1>8. /\ Onwards(r) /\ RequestsOK'
      /\ \/ /\ Exists(what) /\ what \notin locks /\ locks' = locks \cup {what}
            /\ requests'[r] = [q EXCEPT !.held = @ \cup {what}]
            /\ requests'[r].held = requests[r].held \cup {what}
            /\ requests'[r].at = q.at /\ requests'[r].row = q.row
         \/ /\ locks' = locks
            /\ requests'[r] = [requests[r] EXCEPT !.at = "unlock"]
            /\ requests'[r].held = requests[r].held
            /\ requests'[r].at = "unlock" /\ requests'[r].row = requests[r].row
  BY <1>1, <1>2, <1>4, <1>5, <1>6, <1>7, LocksOne DEF p
<1> QED
  BY <1>2, <1>4, <1>8 DEF p, what, at, Took, Refused

LEMMA LockDeviceIs ==
    ASSUME TypeOK, NEW r \in Requests, LockDevice(r)
    PROVE  /\ Onwards(r) /\ RequestsOK'
           /\ requests[r].at = "lockDevice" /\ requests[r].serial \in Devices
           /\ \/ Refused(r)
              \/ /\ Took(r, requests[r].serial) /\ requests'[r].row = requests[r].row
                 /\ requests'[r].at = IF requests[r].op = "book" THEN "lockOrigin" ELSE "check"
<1> DEFINE p == requests[r]
           device == devices[p.serial]
           q == IF p.op = "book" THEN [p EXCEPT !.from = device.origin, !.at = "lockOrigin"]
                ELSE [p EXCEPT !.at = "check"]
           what == p.serial
           h == [q EXCEPT !.held = @ \cup {what}]
           free == p.op = "book" => device.class # "standard"
<1>1. /\ RequestsOK /\ r \in Serving /\ p.at = "lockDevice"
      /\ p \in RequestRows /\ Proper(p)
  BY RequestIs DEF LockDevice, At, Serving, TypeOK
<1>2. what \in Devices /\ p.op \in {"move", "book"} /\ p.row # None
  BY <1>1, FieldsOf DEF Proper
<1>3. device.origin \in Origins
  BY <1>2 DEF TypeOK, DevicesOK, DeviceRows
<1>4. q \in RequestRows /\ q.held = p.held /\ q.op = p.op /\ q.serial = p.serial
      /\ q.to = p.to /\ q.signature = p.signature /\ q.row = p.row
      /\ q.at = (IF p.op = "book" THEN "lockOrigin" ELSE "check")
      /\ (p.op = "book" => q.from = device.origin)
  <2>1. CASE p.op = "book"
    BY <1>1, <1>3, <2>1 DEF RequestRows
  <2>2. CASE p.op # "book"
    BY <1>1, <1>3, <2>2 DEF RequestRows
  <2> QED
    BY <2>1, <2>2
<1>5. Proper(h)
  <2>1. /\ h.op = p.op /\ h.serial = p.serial /\ h.to = p.to /\ h.at = q.at
        /\ h.row = p.row /\ h.from = q.from
    BY <1>4, FieldsOf
  <2>2. q.from # None \/ p.op # "book"
    BY <1>3, <1>4, NoneIsNothing DEF Groups
  <2> HIDE DEF q, h, device
  <2> QED
    BY <1>1, <1>2, <1>4, <2>1, <2>2 DEF Proper
<1>6. Lock(r, what, free, q)
  BY DEF LockDevice
<1>7. free \in BOOLEAN
  OBVIOUS
<1> HIDE DEF p, q, what, free
<1>8. /\ Onwards(r) /\ RequestsOK'
      /\ \/ /\ free /\ what \notin locks /\ locks' = locks \cup {what}
            /\ requests'[r] = [q EXCEPT !.held = @ \cup {what}]
            /\ requests'[r].held = requests[r].held \cup {what}
            /\ requests'[r].at = q.at /\ requests'[r].row = q.row
         \/ /\ locks' = locks
            /\ requests'[r] = [requests[r] EXCEPT !.at = "unlock"]
            /\ requests'[r].held = requests[r].held
            /\ requests'[r].at = "unlock" /\ requests'[r].row = requests[r].row
  BY <1>1, <1>2, <1>4, <1>5, <1>6, <1>7, LocksOne DEF p
<1> QED
  BY <1>1, <1>2, <1>4, <1>8 DEF p, what, Took, Refused

\* A row of a group with one field changed.
LEMMA RowWith ==
    ASSUME NEW row \in GroupRows
    PROVE  /\ \A ds \in SUBSET Devices :
                  LET new == [row EXCEPT !.devices = ds]
                  IN  /\ new \in GroupRows /\ new.devices = ds /\ new.users = row.users
                      /\ new.active = row.active /\ new.ticket = row.ticket
           /\ \A us \in SUBSET Users :
                  LET new == [row EXCEPT !.users = us]
                  IN  /\ new \in GroupRows /\ new.devices = row.devices /\ new.users = us
                      /\ new.active = row.active /\ new.ticket = row.ticket
           /\ \A on \in BOOLEAN :
                  LET new == [row EXCEPT !.active = on]
                  IN  /\ new \in GroupRows /\ new.devices = row.devices
                      /\ new.users = row.users /\ new.active = on /\ new.ticket = row.ticket
           /\ \A d \in Devices, n \in Nat :
                  LET new == [row EXCEPT !.ticket = [serial |-> d, signature |-> n]]
                  IN  /\ new \in GroupRows /\ new.devices = row.devices
                      /\ new.users = row.users /\ new.active = row.active
                      /\ new.ticket.serial = d /\ new.ticket.signature = n
BY DEF GroupRows

\* A request goes on without a lock.
LEMMA StepIs ==
    ASSUME RequestsOK, NEW r \in Requests, requests[r] # None, NEW at,
           \/ requests[r].at = "write" /\ at = "unlock"
           \/ requests[r].at = "delete" /\ at \in {"unlock", "deleteRow"}
           \/ requests[r].at = "deleteRow" /\ at = "unlock"
           \/ requests[r].at = "check" /\ at \in {"unlock", "ask"}
           \/ requests[r].at = "ask" /\ at = "wait"
           \/ requests[r].at = "wait" /\ at = "unlock",
           Goto(r, at)
    PROVE  /\ Onwards(r)
           /\ requests' \in [Requests -> RequestRows \cup {None}]
           /\ (\A s \in Serving : Proper(requests[s]))'
           /\ requests'[r].at = at /\ requests'[r].held = requests[r].held
           /\ requests'[r].row = requests[r].row
<1> DEFINE q == [requests[r] EXCEPT !.at = at]
<1>1. r \in Serving /\ requests[r] \in RequestRows /\ Proper(requests[r])
  BY RequestIs DEF Serving
<1>2. /\ q.op = requests[r].op /\ q.serial = requests[r].serial /\ q.to = requests[r].to
      /\ q.at = at /\ q.row = requests[r].row /\ q.from = requests[r].from
  BY <1>1, FieldsOf
<1>3. at \in {"unlock", "deleteRow", "ask", "wait"}
  OBVIOUS
<1> HIDE DEF q
<1>4. Proper(q)
  BY <1>1, <1>2, <1>3, FieldsOf DEF Proper
<1>5. Proper([requests[r] EXCEPT !.at = at])
  BY <1>4 DEF q
<1> QED
  BY <1>1, <1>3, <1>5, GoesTo

LEMMA BookIs ==
    ASSUME TypeOK, NEW r \in Requests, Book(r)
    PROVE  LET q == requests[r]
               row == [groups[q.to] EXCEPT !.devices = q.row.devices \cup {q.serial}]
           IN  /\ Onwards(r) /\ RequestsOK' /\ q.at = "write" /\ q.op = "book"
               /\ q.to \in Bookings /\ q.serial \in Devices /\ q.row \in GroupRows
               /\ requests'[r].at = "unlock" /\ requests'[r].held = q.held
               /\ \/ UNCHANGED <<groups, groupFeed>>
                  \/ /\ \A b \in Rivals(q.to, q.serial) : ~(groups[b].active /\ q.row.active)
                     /\ Exists(q.to) /\ GroupWritten(q.to, row) /\ Writable(q.to, row)
                     /\ groups[q.to] \in GroupRows
                     /\ row \in GroupRows /\ row.devices = q.row.devices \cup {q.serial}
                     /\ row.users = groups[q.to].users /\ row.active = groups[q.to].active
                     /\ row.ticket = groups[q.to].ticket
<1> DEFINE q == requests[r]
           ds == q.row.devices \cup {q.serial}
           row == [groups[q.to] EXCEPT !.devices = ds]
<1>1. /\ RequestsOK /\ requests[r] # None /\ q.at = "write" /\ r \in Serving
      /\ q \in RequestRows /\ Proper(q)
  BY RequestIs DEF Book, At, Serving, TypeOK
<1>2. /\ q.op = "book" /\ q.to \in Bookings /\ q.serial \in Devices /\ q.row \in GroupRows
  BY <1>1, FieldsOf DEF Proper
<1>3. /\ Onwards(r) /\ requests' \in [Requests -> RequestRows \cup {None}]
      /\ (\A s \in Serving : Proper(requests[s]))'
      /\ requests'[r].at = "unlock" /\ requests'[r].held = q.held
  BY <1>1, StepIs DEF Book
<1>4. RequestsOK'
  BY <1>1, <1>3 DEF Book, RequestsOK
<1>5. \/ UNCHANGED <<groups, groupFeed>>
      \/ /\ \A b \in Rivals(q.to, q.serial) : ~(groups[b].active /\ q.row.active)
         /\ Exists(q.to) /\ GroupWritten(q.to, row)
  BY DEF Book
<1>6. ASSUME Exists(q.to)
      PROVE  /\ Writable(q.to, row) /\ row \in GroupRows /\ row.devices = ds
             /\ groups[q.to] \in GroupRows
             /\ row.users = groups[q.to].users /\ row.active = groups[q.to].active
             /\ row.ticket = groups[q.to].ticket
  <2>1. groups[q.to] \in GroupRows
    BY <1>2, <1>6 DEF TypeOK, GroupsOK, Exists, Groups
  <2>2. ds \in SUBSET Devices
    BY <1>2, RowIs
  <2>3. /\ row \in GroupRows /\ row.devices = ds
        /\ row.users = groups[q.to].users /\ row.active = groups[q.to].active
        /\ row.ticket = groups[q.to].ticket
    BY <2>1, <2>2, RowWith
  <2>4. q.to # Root /\ q.to \notin Origins /\ q.to \in Groups
    BY <1>2, BookingsAreNoOrigins DEF Groups, Origins
  <2> HIDE DEF row
  <2> QED
    BY <1>6, <2>1, <2>3, <2>4 DEF Writable, Exists
<1> QED
  BY <1>1, <1>2, <1>3, <1>4, <1>5, <1>6

LEMMA AskTicketIs ==
    ASSUME TypeOK, NEW r \in Requests, AskTicket(r)
    PROVE  LET q == requests[r]
               row == [groups[q.to] EXCEPT
                          !.ticket = [serial |-> q.serial, signature |-> q.signature]]
           IN  /\ Onwards(r) /\ RequestsOK' /\ q.at = "ask" /\ q.op = "move"
               /\ q.to \in Origins /\ q.serial \in Devices /\ q.signature \in Nat
               /\ requests'[r].at = "wait" /\ requests'[r].held = q.held
               /\ \/ ~Exists(q.to) /\ UNCHANGED <<groups, groupFeed>>
                  \/ /\ Exists(q.to) /\ GroupWritten(q.to, row) /\ Writable(q.to, row)
                     /\ groups[q.to] \in GroupRows
                     /\ row \in GroupRows /\ row.devices = groups[q.to].devices
                     /\ row.users = groups[q.to].users /\ row.active = groups[q.to].active
                     /\ row.ticket.serial = q.serial /\ row.ticket.signature = q.signature
<1> DEFINE q == requests[r]
           row == [groups[q.to] EXCEPT
                      !.ticket = [serial |-> q.serial, signature |-> q.signature]]
<1>1. /\ RequestsOK /\ requests[r] # None /\ q.at = "ask" /\ r \in Serving
      /\ q \in RequestRows /\ Proper(q)
  BY RequestIs DEF AskTicket, At, Serving, TypeOK
<1>2. /\ q.op = "move" /\ q.to \in Origins /\ q.serial \in Devices /\ q.signature \in Nat
  BY <1>1, FieldsOf DEF Proper
<1>3. /\ Onwards(r) /\ requests' \in [Requests -> RequestRows \cup {None}]
      /\ (\A s \in Serving : Proper(requests[s]))'
      /\ requests'[r].at = "wait" /\ requests'[r].held = q.held
  BY <1>1, StepIs DEF AskTicket
<1>4. RequestsOK'
  BY <1>1, <1>3 DEF AskTicket, RequestsOK
<1>5. \/ ~Exists(q.to) /\ UNCHANGED <<groups, groupFeed>>
      \/ Exists(q.to) /\ GroupWritten(q.to, row)
  BY DEF AskTicket
<1>6. ASSUME Exists(q.to)
      PROVE  /\ Writable(q.to, row) /\ row \in GroupRows /\ row.devices = groups[q.to].devices
             /\ groups[q.to] \in GroupRows
             /\ row.users = groups[q.to].users /\ row.active = groups[q.to].active
             /\ row.ticket.serial = q.serial /\ row.ticket.signature = q.signature
  <2>1. groups[q.to] \in GroupRows /\ groups[q.to].active /\ q.to \in Groups
    BY <1>2, <1>6 DEF TypeOK, GroupsOK, Exists, Groups
  <2>2. /\ row \in GroupRows /\ row.devices = groups[q.to].devices
        /\ row.users = groups[q.to].users /\ row.active = groups[q.to].active
        /\ row.ticket.serial = q.serial /\ row.ticket.signature = q.signature
    <3>1. PICK d \in Devices, n \in Nat : d = q.serial /\ n = q.signature
      BY <1>2
    <3>2. PICK old \in GroupRows : old = groups[q.to]
      BY <2>1
    <3> DEFINE new == [old EXCEPT !.ticket = [serial |-> d, signature |-> n]]
    <3>3. /\ new \in GroupRows /\ new.devices = old.devices /\ new.users = old.users
          /\ new.active = old.active
          /\ new.ticket.serial = d /\ new.ticket.signature = n
      BY RowWith
    <3>4. row = new
      BY <3>1, <3>2
    <3> HIDE DEF row, new
    <3> QED
      BY <3>1, <3>2, <3>3, <3>4
  <2>3. row # None
    BY <2>2, RowIs
  <2> HIDE DEF row
  <2> QED
    BY <1>2, <1>6, <2>1, <2>2, <2>3 DEF Writable, Exists
<1> QED
  BY <1>1, <1>2, <1>3, <1>4, <1>5, <1>6

LEMMA DeleteRowIs ==
    ASSUME TypeOK, NEW r \in Requests, DeleteRow(r)
    PROVE  LET q == requests[r]
           IN  /\ Onwards(r) /\ RequestsOK' /\ q.at = "deleteRow" /\ q.op = "delete"
               /\ q.to \in Origins \ {Root}
               /\ requests'[r].at = "unlock" /\ requests'[r].held = q.held
               /\ GroupWritten(q.to, None) /\ Writable(q.to, None)
<1> DEFINE q == requests[r]
<1>1. /\ RequestsOK /\ requests[r] # None /\ q.at = "deleteRow" /\ r \in Serving
      /\ q \in RequestRows /\ Proper(q)
  BY RequestIs DEF DeleteRow, At, Serving, TypeOK
<1>2. q.op = "delete" /\ q.to \in Origins \ {Root}
  BY <1>1, FieldsOf DEF Proper
<1>3. /\ Onwards(r) /\ requests' \in [Requests -> RequestRows \cup {None}]
      /\ (\A s \in Serving : Proper(requests[s]))'
      /\ requests'[r].at = "unlock" /\ requests'[r].held = q.held
  BY <1>1, StepIs DEF DeleteRow
<1>4. RequestsOK'
  BY <1>1, <1>3 DEF DeleteRow, RequestsOK
<1>5. Writable(q.to, None)
  BY <1>2 DEF Writable, Groups
<1>6. GroupWritten(q.to, None)
  BY DEF DeleteRow
<1> QED
  BY <1>1, <1>2, <1>3, <1>4, <1>5, <1>6

LEMMA CheckIs ==
    ASSUME TypeOK, NEW r \in Requests, Check(r) \/ CheckDelete(r)
    PROVE  LET q == requests[r]
           IN  /\ Onwards(r) /\ RequestsOK'
               /\ \/ q.at = "check" /\ requests'[r].at \in {"unlock", "ask"}
                  \/ q.at = "delete" /\ requests'[r].at \in {"unlock", "deleteRow"}
               /\ requests'[r].held = q.held /\ requests'[r].row = q.row
<1> DEFINE q == requests[r]
           at == IF Check(r) THEN IF Booked({q.serial}) /\ q.to \in standard
                                  THEN "unlock" ELSE "ask"
                 ELSE IF q.to \notin standard /\ Booked(q.row.devices)
                      THEN "unlock" ELSE "deleteRow"
<1>1. /\ RequestsOK /\ requests[r] # None
      /\ UNCHANGED <<locks, answers, late>>
  BY DEF Check, CheckDelete, At, TypeOK
<1>2. Goto(r, at)
  BY DEF Check, CheckDelete
<1>3. \/ q.at = "check" /\ at \in {"unlock", "ask"}
      \/ q.at = "delete" /\ at \in {"unlock", "deleteRow"}
  BY DEF Check, CheckDelete, At
<1> HIDE DEF at
<1>4. /\ Onwards(r) /\ requests' \in [Requests -> RequestRows \cup {None}]
      /\ (\A s \in Serving : Proper(requests[s]))'
      /\ requests'[r].at = at /\ requests'[r].held = q.held /\ requests'[r].row = q.row
  BY <1>1, <1>2, <1>3, StepIs
<1>5. RequestsOK'
  BY <1>1, <1>4 DEF RequestsOK
<1> QED
  BY <1>3, <1>4, <1>5

LEMMA WaitIs ==
    ASSUME TypeOK, NEW r \in Requests, Answered(r) \/ TimeOut(r)
    PROVE  LET q == requests[r]
           IN  /\ Onwards(r) /\ RequestsOK' /\ q.at = "wait" /\ q.op = "move"
               /\ requests'[r].at = "unlock" /\ requests'[r].held = q.held
               /\ locks' = locks /\ answers' = answers \ {q.signature}
               /\ Answered(r) => q.signature \in answers /\ late' = late
               /\ TimeOut(r) => late' = late \cup {q.serial}
<1> DEFINE q == requests[r]
<1>1. /\ RequestsOK /\ requests[r] # None /\ q.at = "wait" /\ Goto(r, "unlock")
      /\ locks' = locks /\ answers' = answers \ {q.signature}
      /\ late' \in {late, late \cup {q.serial}}
  BY DEF Answered, TimeOut, At, TypeOK
<1>2. r \in Serving /\ q \in RequestRows /\ Proper(q)
  BY <1>1, RequestIs DEF Serving
<1>3. q.op = "move" /\ q.serial \in Devices
  BY <1>1, <1>2, FieldsOf DEF Proper
<1>4. /\ Onwards(r) /\ requests' \in [Requests -> RequestRows \cup {None}]
      /\ (\A s \in Serving : Proper(requests[s]))'
      /\ requests'[r].at = "unlock" /\ requests'[r].held = q.held
  BY <1>1, StepIs
<1>5. RequestsOK'
  BY <1>1, <1>3, <1>4 DEF RequestsOK
<1> QED
  BY <1>1, <1>3, <1>4, <1>5 DEF Answered, TimeOut

\* The request ends.
LEMMA UnlockIs ==
    ASSUME TypeOK, NEW r \in Requests, Unlock(r)
    PROVE  /\ RequestsOK' /\ r \in Serving /\ Serving' = Serving \ {r}
           /\ locks' = locks \ requests[r].held
           /\ \A s \in Serving' : requests'[s] = requests[s]
           /\ answers' = answers /\ late' = late
<1>1. /\ requests \in [Requests -> RequestRows \cup {None}] /\ requests[r] # None
      /\ requests' = [requests EXCEPT ![r] = None]
      /\ locks' = locks \ requests[r].held
      /\ answers' = answers /\ late' = late
  BY DEF Unlock, At, TypeOK, RequestsOK
<1>2. Serving' = Serving \ {r} /\ \A s \in Serving' : requests'[s] = requests[s]
  BY <1>1 DEF Serving
<1>3. requests' \in [Requests -> RequestRows \cup {None}]
  BY <1>1
<1>4. (\A s \in Serving : Proper(requests[s]))'
  BY <1>2 DEF TypeOK, RequestsOK, Serving
<1>5. RequestsOK'
  BY <1>1, <1>3, <1>4 DEF TypeOK, RequestsOK
<1> QED
  BY <1>1, <1>2, <1>5 DEF Serving

-----------------------------------------------------------------------------
(***************************************************************************)
(* What each step does to the tables, and to what is to do.                *)
(***************************************************************************)
\* The row of a group is another, and the rest is as it was.
Rewritten(g, row) ==
    /\ groups'[g] = row
    /\ \A h \in Groups \ {g} : groups'[h] = groups[h]

\* The row of a device.
Reassigned(d, row) ==
    /\ devices'[d] = row
    /\ \A e \in Devices \ {d} : devices'[e] = devices[e]

LEMMA GroupIsRewritten ==
    ASSUME GroupsOK, NEW g, NEW row, Writable(g, row), GroupWritten(g, row)
    PROVE  Rewritten(g, row)
BY DEF GroupsOK, Writable, GroupWritten, Rewritten

LEMMA DeviceIsReassigned ==
    ASSUME DevicesOK, NEW d \in Devices, NEW row, DeviceWritten(d, row)
    PROVE  Reassigned(d, row)
BY DEF DevicesOK, DeviceWritten, Reassigned

\* An operation begins.
LEMMA BeginIs ==
    ASSUME SequenceOK, NEW op, Begin(op)
    PROVE  /\ SequenceOK' /\ (op \in scenario \/ alone => Quiet)
           /\ asked' = asked + 1 /\ alone' = (op \in scenario)
           /\ scenario' = scenario /\ standard' = standard
BY DEF SequenceOK, Begin

\* When all is quiet there is nothing to do.
LEMMA QuietIs ==
    ASSUME Quiet
    PROVE  /\ ToDo = {} /\ Serving = {} /\ orders = {}
           /\ \A d \in Devices : devices[d].owner = holder[d]
<1>1. BagToSet(jobs) = {}
  BY DEF Quiet, BagToSet, EmptyBag, SetToBag
<1>2. DOMAIN groupFeed = {} /\ DOMAIN deviceFeed = {}
  BY DEF Quiet
<1> QED
  BY <1>1, <1>2 DEF ToDo, Quiet

\* What a change of a group by the API or the scheduler leaves alone.
ChangeFrame == UNCHANGED <<devices, deviceFeed, holder, orders, jobs, locks, requests,
                           answers, late>>

LEMMA ChangeIs ==
    ASSUME TypeOK, NEW op, NEW g \in Groups, NEW row, Writable(g, row), Change(op, g, row)
    PROVE  /\ TypeOK' /\ Begin(op) /\ Exists(g) /\ g \notin locks /\ ChangeFrame
           /\ Rewritten(g, row) /\ Turn({}, Made(g, row))
<1>1. /\ Begin(op) /\ Exists(g) /\ g \notin locks /\ ChangeFrame /\ GroupWritten(g, row)
  BY DEF Change, ChangeFrame, control, api
<1>2. Stored /\ FeedsOK
  BY TypesAreStored
<1>3. row \in GroupRows \cup {None} /\ (groups[g] = None => row = None)
  BY DEF Writable
<1>4. Turn({}, Made(g, row))
  BY <1>1, <1>2, <1>3, GroupTurn DEF ChangeFrame
<1>5. GroupsOK' /\ Rewritten(g, row)
  BY <1>1, GroupTypes, GroupIsRewritten DEF TypeOK
<1>6. SequenceOK'
  BY <1>1, BeginIs DEF TypeOK
<1>7. DevicesOK' /\ JobsOK' /\ ControlOK' /\ RequestsOK'
  BY <1>1, SameTypes DEF TypeOK, ChangeFrame, control, api
<1> QED
  BY <1>1, <1>4, <1>5, <1>6, <1>7 DEF TypeOK

LEMMA ActivateIs ==
    ASSUME TypeOK, NEW b \in Bookings, Activate(b)
    PROVE  /\ TypeOK' /\ Begin("schedule") /\ ChangeFrame
           /\ groups[b] \in GroupRows /\ ~groups[b].active
           /\ "schedule" \in scenario =>
                  \A d \in groups[b].devices : \A x \in Rivals(b, d) : ~groups[x].active
           /\ \E row \in GroupRows :
                  /\ row.devices = groups[b].devices /\ row.users = groups[b].users
                  /\ row.active /\ Rewritten(b, row)
           /\ Turn({}, {Job("current", d, b) : d \in groups[b].devices})
<1> DEFINE old == groups[b]
           row == [old EXCEPT !.active = TRUE]
<1>1. /\ Exists(b) /\ ~old.active /\ Change("schedule", b, row) /\ b \in Groups
      /\ "schedule" \in scenario =>
             \A d \in groups[b].devices : \A x \in Rivals(b, d) : ~groups[x].active
  BY DEF Activate, Groups
<1>2. old \in GroupRows
  BY <1>1 DEF TypeOK, GroupsOK, Exists
<1>3. /\ row \in GroupRows /\ row.devices = old.devices /\ row.users = old.users
      /\ row.active /\ row.ticket = old.ticket /\ row.active \in BOOLEAN
  BY <1>2, RowWith
<1>4. b \notin Origins /\ b # Root
  BY BookingsAreNoOrigins DEF Origins
<1>5. Writable(b, row)
  <2> HIDE DEF row
  <2> QED
    BY <1>1, <1>3, <1>4 DEF Writable, Exists
<1>6. row # old
  BY <1>1, <1>3
<1>7. Made(b, row) = {Job("current", d, b) : d \in old.devices}
  <2> HIDE DEF row
  <2>1. row.active # old.active
    BY <1>1, <1>3
  <2>2. GroupJobs([id |-> b, old |-> old, new |-> row])
          = IF row.active THEN {Job("current", d, b) : d \in row.devices}
            ELSE {Job("fromOrigin", d, None) : d \in row.devices}
    BY <1>1, <1>2, <1>3, <2>1, SwitchMakes
  <2> QED
    BY <1>3, <1>6, <2>2 DEF Made
<1> HIDE DEF row
<1>8. /\ TypeOK' /\ Begin("schedule") /\ ChangeFrame /\ Rewritten(b, row)
      /\ Turn({}, Made(b, row))
  BY <1>1, <1>5, ChangeIs
<1> QED
  BY <1>1, <1>2, <1>3, <1>7, <1>8

LEMMA DeactivateIs ==
    ASSUME TypeOK, NEW b \in Bookings, Deactivate(b)
    PROVE  /\ TypeOK' /\ Begin("schedule") /\ ChangeFrame
           /\ groups[b] \in GroupRows /\ groups[b].active
           /\ \E row \in GroupRows :
                  /\ row.devices = groups[b].devices /\ row.users = groups[b].users
                  /\ ~row.active /\ Rewritten(b, row)
           /\ Turn({}, {Job("fromOrigin", d, None) : d \in groups[b].devices})
<1> DEFINE old == groups[b]
           row == [old EXCEPT !.active = FALSE]
<1>1. /\ Exists(b) /\ old.active /\ Change("schedule", b, row) /\ b \in Groups
  BY DEF Deactivate, Groups
<1>2. old \in GroupRows
  BY <1>1 DEF TypeOK, GroupsOK, Exists
<1>3. /\ row \in GroupRows /\ row.devices = old.devices /\ row.users = old.users
      /\ ~row.active /\ row.ticket = old.ticket /\ row.active \in BOOLEAN
  BY <1>2, RowWith
<1>4. b \notin Origins /\ b # Root
  BY BookingsAreNoOrigins DEF Origins
<1>5. Writable(b, row)
  <2> HIDE DEF row
  <2> QED
    BY <1>1, <1>3, <1>4 DEF Writable, Exists
<1>6. row # old
  BY <1>1, <1>3
<1>7. Made(b, row) = {Job("fromOrigin", d, None) : d \in old.devices}
  <2> HIDE DEF row
  <2>1. row.active # old.active
    BY <1>1, <1>3
  <2>2. GroupJobs([id |-> b, old |-> old, new |-> row])
          = IF row.active THEN {Job("current", d, b) : d \in row.devices}
            ELSE {Job("fromOrigin", d, None) : d \in row.devices}
    BY <1>1, <1>2, <1>3, <2>1, SwitchMakes
  <2> QED
    BY <1>3, <1>6, <2>2 DEF Made
<1> HIDE DEF row
<1>8. /\ TypeOK' /\ Begin("schedule") /\ ChangeFrame /\ Rewritten(b, row)
      /\ Turn({}, Made(b, row))
  BY <1>1, <1>5, ChangeIs
<1> QED
  BY <1>1, <1>2, <1>3, <1>7, <1>8

LEMMA EndBookingIs ==
    ASSUME TypeOK, NEW b \in Bookings, EndBooking(b)
    PROVE  /\ TypeOK' /\ Begin("schedule") /\ ChangeFrame
           /\ groups[b] \in GroupRows /\ Rewritten(b, None)
           /\ Turn({}, IF groups[b].active THEN {Job("fromOrigin", d, None) : d \in groups[b].devices}
                       ELSE {})
<1> DEFINE old == groups[b]
<1>1. /\ Exists(b) /\ Change("schedule", b, None) /\ b \in Groups
  BY DEF EndBooking, Groups
<1>2. old \in GroupRows /\ old # None
  BY <1>1 DEF TypeOK, GroupsOK, Exists
<1>3. b \notin Origins /\ b # Root
  BY BookingsAreNoOrigins DEF Origins
<1>4. Writable(b, None)
  BY <1>1, <1>3 DEF Writable
<1>5. Made(b, None) = IF old.active THEN {Job("fromOrigin", d, None) : d \in old.devices} ELSE {}
  <2>1. Made(b, None) = GroupJobs([id |-> b, old |-> old, new |-> None])
    BY <1>2 DEF Made
  <2> QED
    BY <1>1, <1>2, <1>3, <2>1, EndMakes
<1>6. PICK none : none = None
  OBVIOUS
<1>7. Writable(b, none) /\ Change("schedule", b, none)
  BY <1>1, <1>4, <1>6
<1>8. /\ TypeOK' /\ Begin("schedule") /\ ChangeFrame /\ Rewritten(b, none)
      /\ Turn({}, Made(b, none))
  BY <1>1, <1>7, ChangeIs
<1> QED
  BY <1>2, <1>5, <1>6, <1>8

LEMMA UnbookIs ==
    ASSUME TypeOK, NEW b \in Bookings, NEW d \in Devices, Unbook(b, d)
    PROVE  /\ TypeOK' /\ Begin("unbook") /\ ChangeFrame
           /\ groups[b] \in GroupRows /\ d \in groups[b].devices
           /\ \E row \in GroupRows :
                  /\ row.devices = groups[b].devices \ {d} /\ row.users = groups[b].users
                  /\ row.active = groups[b].active /\ Rewritten(b, row)
           /\ Turn({}, IF groups[b].active THEN {Job("fromOrigin", d, None)} ELSE {})
<1> DEFINE old == groups[b]
           row == [old EXCEPT !.devices = @ \ {d}]
<1>1. /\ Exists(b) /\ d \in old.devices /\ Change("unbook", b, row) /\ b \in Groups
  BY DEF Unbook, Groups
<1>2. old \in GroupRows /\ old.devices \subseteq Devices
  BY <1>1, RowIs DEF TypeOK, GroupsOK, Exists
<1>3. /\ row \in GroupRows /\ row.devices = old.devices \ {d} /\ row.users = old.users
      /\ row.active = old.active /\ row.ticket = old.ticket
  <2>1. PICK ds \in SUBSET Devices : ds = old.devices \ {d}
    BY <1>2
  <2>2. row = [old EXCEPT !.devices = ds]
    BY <2>1
  <2> QED
    BY <1>2, <2>1, <2>2, RowWith
<1>4. b \notin Origins /\ b # Root
  BY BookingsAreNoOrigins DEF Origins
<1>5. Writable(b, row)
  <2> HIDE DEF row
  <2> QED
    BY <1>1, <1>3, <1>4 DEF Writable, Exists
<1>6. row # old
  BY <1>1, <1>3
<1>7. Made(b, row) = IF old.active THEN {Job("fromOrigin", d, None)} ELSE {}
  <2> HIDE DEF row
  <2>1. GroupJobs([id |-> b, old |-> old, new |-> row])
          = IF row.active THEN {Job("fromOrigin", d, None)} ELSE {}
    BY <1>1, <1>2, <1>3, UnbookMakes
  <2> QED
    BY <1>3, <1>6, <2>1 DEF Made
<1> HIDE DEF row
<1>8. /\ TypeOK' /\ Begin("unbook") /\ ChangeFrame /\ Rewritten(b, row)
      /\ Turn({}, Made(b, row))
  BY <1>1, <1>5, ChangeIs
<1> QED
  BY <1>1, <1>2, <1>3, <1>7, <1>8

\* A user is taken out of a group.
LEMMA RemoveUserIs ==
    ASSUME TypeOK, NEW g \in Groups, NEW u \in Users, RemoveUser(g, u)
    PROVE  /\ TypeOK' /\ Begin("users") /\ ChangeFrame /\ groups[g] \in GroupRows
           /\ \E row \in GroupRows :
                  /\ row.devices = groups[g].devices /\ row.active = groups[g].active
                  /\ row.users = groups[g].users \ {u} /\ Rewritten(g, row)
           /\ Turn({}, IF groups[g].active
                       THEN {[Job("evict", d, g) EXCEPT !.user = u] : d \in groups[g].devices}
                       ELSE {})
<1> DEFINE old == groups[g]
           us == old.users \ {u}
           row == [old EXCEPT !.users = @ \ {u}]
           Evicted(d) == [Job("evict", d, g) EXCEPT !.user = u]
<1>1. /\ Exists(g) /\ u \in old.users /\ Change("users", g, row)
  BY DEF RemoveUser
<1>2. old \in GroupRows /\ old.users \subseteq Users /\ us \in SUBSET Users
  BY <1>1, RowIs DEF TypeOK, GroupsOK, Exists
<1>3. /\ row \in GroupRows /\ row.devices = old.devices /\ row.users = us
      /\ row.active = old.active /\ row.ticket = old.ticket /\ old.active \in BOOLEAN
  <2>1. row = [old EXCEPT !.users = us]
    OBVIOUS
  <2> QED
    BY <1>2, <2>1, RowWith, RowIs
<1>4. Writable(g, row)
  <2>1. g \in Origins => old.active
    BY <1>1 DEF TypeOK, GroupsOK
  <2>2. row # None
    BY <1>3, RowIs
  <2> HIDE DEF row
  <2> QED
    BY <1>1, <1>3, <2>1, <2>2 DEF Writable, Exists
<1>5. row # old
  <2> HIDE DEF row
  <2> QED
    BY <1>1, <1>3
<1>6. {[Job("evict", x[1], g) EXCEPT !.user = x[2]] : x \in old.devices \X (old.users \ us)}
        = {Evicted(d) : d \in old.devices}
  <2>1. old.users \ us = {u}
    BY <1>1
  <2>2. ASSUME NEW x \in old.devices \X {u}
        PROVE  x[1] \in old.devices /\ [Job("evict", x[1], g) EXCEPT !.user = x[2]] = Evicted(x[1])
    OBVIOUS
  <2>3. ASSUME NEW d \in old.devices
        PROVE  \E x \in old.devices \X {u} :
                   Evicted(d) = [Job("evict", x[1], g) EXCEPT !.user = x[2]]
    <3>1. <<d, u>> \in old.devices \X {u}
      OBVIOUS
    <3>2. Evicted(d) = [Job("evict", <<d, u>>[1], g) EXCEPT !.user = <<d, u>>[2]]
      OBVIOUS
    <3> QED
      BY <3>1, <3>2
  <2> HIDE DEF Evicted
  <2> QED
    BY <2>1, <2>2, <2>3
<1>7. Made(g, row) = IF old.active THEN {Evicted(d) : d \in old.devices} ELSE {}
  <2> HIDE DEF row, Evicted
  <2>1. GroupJobs([id |-> g, old |-> old, new |-> row])
          = IF row.active
            THEN {[Job("evict", x[1], g) EXCEPT !.user = x[2]] :
                    x \in old.devices \X (old.users \ row.users)}
            ELSE {}
    BY <1>2, <1>3, UsersMake
  <2> QED
    BY <1>3, <1>5, <1>6, <2>1 DEF Made
<1> HIDE DEF row
<1>8. /\ TypeOK' /\ Begin("users") /\ ChangeFrame /\ Rewritten(g, row)
      /\ Turn({}, Made(g, row))
  BY <1>1, <1>4, ChangeIs
<1> QED
  BY <1>2, <1>3, <1>7, <1>8

\* A user comes into a group.
LEMMA AddUserIs ==
    ASSUME TypeOK, NEW g \in Groups, NEW u \in Users, AddUser(g, u)
    PROVE  /\ TypeOK' /\ Begin("users") /\ ChangeFrame /\ groups[g] \in GroupRows
           /\ \E row \in GroupRows :
                  /\ row.devices = groups[g].devices /\ row.active = groups[g].active
                  /\ row.users = groups[g].users \cup {u} /\ Rewritten(g, row)
           /\ Turn({}, {})
<1> DEFINE old == groups[g]
           us == old.users \cup {u}
           row == [old EXCEPT !.users = @ \cup {u}]
<1>1. /\ Exists(g) /\ u \notin old.users /\ Change("users", g, row)
  BY DEF AddUser
<1>2. old \in GroupRows /\ old.users \subseteq Users /\ us \in SUBSET Users
  BY <1>1, RowIs DEF TypeOK, GroupsOK, Exists
<1>3. /\ row \in GroupRows /\ row.devices = old.devices /\ row.users = us
      /\ row.active = old.active /\ row.ticket = old.ticket /\ old.active \in BOOLEAN
  <2>1. row = [old EXCEPT !.users = us]
    OBVIOUS
  <2> QED
    BY <1>2, <2>1, RowWith, RowIs
<1>4. Writable(g, row)
  <2>1. g \in Origins => old.active
    BY <1>1 DEF TypeOK, GroupsOK
  <2>2. row # None
    BY <1>3, RowIs
  <2> HIDE DEF row
  <2> QED
    BY <1>1, <1>3, <2>1, <2>2 DEF Writable, Exists
<1>5. {[Job("evict", x[1], g) EXCEPT !.user = x[2]] : x \in old.devices \X (old.users \ us)} = {}
  <2>1. old.users \ us = {}
    OBVIOUS
  <2> QED
    BY <2>1
<1>6. Made(g, row) = {}
  <2> HIDE DEF row
  <2>1. GroupJobs([id |-> g, old |-> old, new |-> row])
          = IF row.active
            THEN {[Job("evict", x[1], g) EXCEPT !.user = x[2]] :
                    x \in old.devices \X (old.users \ row.users)}
            ELSE {}
    BY <1>2, <1>3, UsersMake
  <2> QED
    BY <1>3, <1>5, <2>1 DEF Made
<1> HIDE DEF row
<1>7. /\ TypeOK' /\ Begin("users") /\ ChangeFrame /\ Rewritten(g, row)
      /\ Turn({}, Made(g, row))
  BY <1>1, <1>4, ChangeIs
<1> QED
  BY <1>2, <1>3, <1>6, <1>7

\* A request begins.
LEMMA AskForIs ==
    ASSUME TypeOK, NEW r \in Requests, NEW op, NEW d, NEW from, NEW to,
           \/ op = "move" /\ d \in Devices /\ from \in Origins \cup {None} /\ to \in Origins
           \/ op = "book" /\ d \in Devices /\ from = None /\ to \in Bookings
           \/ op = "delete" /\ d = None /\ from = None /\ to \in Origins \ {Root},
           AskFor(r, op, d, from, to)
    PROVE  /\ TypeOK' /\ Begin(op) /\ Turn({}, {})
           /\ UNCHANGED <<groups, devices, holder, orders, locks, answers, late>>
           /\ r \notin Serving /\ Serving' = Serving \cup {r}
           /\ \A s \in Serving : requests'[s] = requests[s]
           /\ requests'[r].op = op /\ requests'[r].held = {}
           /\ requests'[r].signature = asked + 1
           /\ requests'[r].at \in {"lockFrom", "lockGroup"}
<1> DEFINE q == [op |-> op, serial |-> d, from |-> from, to |-> to, held |-> {},
                 at |-> IF from = None THEN "lockGroup" ELSE "lockFrom",
                 row |-> None, signature |-> asked + 1]
<1>1. /\ requests[r] = None /\ Begin(op) /\ requests' = [requests EXCEPT ![r] = q]
      /\ UNCHANGED <<groups, devices, groupFeed, deviceFeed, holder, orders, jobs, locks,
                     answers, late>>
  BY DEF AskFor, tables, control
<1>2. q \in RequestRows
  <2>1. /\ op \in {"move", "book", "delete"} /\ d \in Devices \cup {None}
        /\ from \in Origins \cup {None} /\ to \in Groups /\ asked + 1 \in Nat
    BY DEF Groups, TypeOK, SequenceOK
  <2> QED
    BY <2>1 DEF RequestRows
<1>3. /\ q.op = op /\ q.serial = d /\ q.from = from /\ q.to = to /\ q.held = {}
      /\ q.signature = asked + 1 /\ q.at \in {"lockFrom", "lockGroup"}
      /\ (q.at = "lockFrom" => q.from # None /\ op = "move")
  OBVIOUS
<1> HIDE DEF q
<1>4. Proper(q)
  BY <1>3 DEF Proper
<1>5. /\ requests' \in [Requests -> RequestRows \cup {None}]
      /\ requests'[r] = q /\ \A s \in Requests \ {r} : requests'[s] = requests[s]
      /\ Serving' = Serving \cup {r}
      /\ (\A s \in Serving : Proper(requests[s]))'
  BY <1>1, <1>2, <1>4, RequestWritten DEF TypeOK
<1>6. RequestsOK'
  BY <1>1, <1>5 DEF TypeOK, RequestsOK
<1>7. SequenceOK'
  BY <1>1, BeginIs DEF TypeOK
<1>8. GroupsOK' /\ DevicesOK' /\ JobsOK' /\ ControlOK'
  BY <1>1, SameTypes DEF TypeOK, control
<1>9. Turn({}, {})
  BY <1>1, TypesAreStored, IdleTurn
<1>10. r \notin Serving /\ \A s \in Serving : s \in Requests \ {r}
  BY <1>1 DEF Serving
<1> QED
  BY <1>1, <1>3, <1>5, <1>6, <1>7, <1>8, <1>9, <1>10 DEF TypeOK

LEMMA AskIs ==
    ASSUME TypeOK, NEW r \in Requests, Ask(r)
    PROVE  /\ TypeOK' /\ Turn({}, {})
           /\ UNCHANGED <<groups, devices, holder, orders, locks, answers, late>>
           /\ r \notin Serving /\ Serving' = Serving \cup {r}
           /\ \A s \in Serving : requests'[s] = requests[s]
           /\ Begin(requests'[r].op) /\ requests'[r].op \in {"move", "book", "delete"}
           /\ requests'[r].held = {} /\ requests'[r].signature = asked + 1
           /\ requests'[r].at \in {"lockFrom", "lockGroup"}
<1>1. PICK op \in {"move", "book", "delete"}, d \in Devices \cup {None},
           from \in Origins \cup {None}, to \in Groups :
              /\ \/ op = "move" /\ d \in Devices /\ from \in Origins \cup {None} /\ to \in Origins
                 \/ op = "book" /\ d \in Devices /\ from = None /\ to \in Bookings
                 \/ op = "delete" /\ d = None /\ from = None /\ to \in Origins \ {Root}
              /\ AskFor(r, op, d, from, to)
  <2>1. Root \in Origins /\ Origins \subseteq Groups /\ Bookings \subseteq Groups
    BY DEF Origins, Groups
  <2>2. CASE \E d \in Devices \cap scenario, g \in Origins : AskFor(r, "move", d, None, g)
    BY <2>1, <2>2
  <2>3. CASE \E d \in Devices \cap scenario, g \in Origins \ {Root} : AskFor(r, "move", d, g, Root)
    BY <2>1, <2>3
  <2>4. CASE \E d \in Devices \cap scenario, b \in Bookings : AskFor(r, "book", d, None, b)
    BY <2>1, <2>4
  <2>5. CASE \E g \in Origins \ {Root} : AskFor(r, "delete", None, None, g)
    BY <2>1, <2>5
  <2> QED
    BY <2>2, <2>3, <2>4, <2>5 DEF Ask
<1> QED
  BY <1>1, AskForIs

\* What a request's steps leave alone.
ServeFrame == UNCHANGED <<devices, deviceFeed, holder, orders, jobs, asked, standard,
                          scenario, alone>>

LEMMA ServeTypes ==
    ASSUME TypeOK, GroupsOK', RequestsOK', ServeFrame
    PROVE  TypeOK'
BY SameTypes DEF TypeOK, ServeFrame, control, sequence

LEMMA LocksAre ==
    ASSUME TypeOK, NEW r \in Requests,
           LockFrom(r) \/ LockGroup(r) \/ LockDevice(r) \/ LockOrigin(r)
    PROVE  /\ TypeOK' /\ ServeFrame /\ Turn({}, {}) /\ Onwards(r)
           /\ UNCHANGED <<groups, answers, late>>
<1>1. /\ UNCHANGED <<groups, groupFeed, answers, late>> /\ ServeFrame
  BY DEF LockFrom, LockGroup, LockDevice, LockOrigin, Lock, ServeFrame, tables, control,
         sequence
<1>2. RequestsOK' /\ Onwards(r)
  BY LockFromIs, LockGroupIs, LockDeviceIs, LockOriginIs
<1>3. GroupsOK'
  BY <1>1, SameTypes DEF TypeOK
<1>4. Turn({}, {})
  BY <1>1, TypesAreStored, IdleTurn DEF ServeFrame
<1> QED
  BY <1>1, <1>2, <1>3, <1>4, ServeTypes

\* The steps of a request that neither lock nor write.
LEMMA StepsAre ==
    ASSUME TypeOK, NEW r \in Requests,
           Check(r) \/ CheckDelete(r) \/ Answered(r) \/ TimeOut(r) \/ Unlock(r)
    PROVE  /\ TypeOK' /\ ServeFrame /\ Turn({}, {})
           /\ UNCHANGED groups
<1>1. /\ UNCHANGED <<groups, groupFeed>> /\ ServeFrame
  BY DEF Check, CheckDelete, Answered, TimeOut, Unlock, ServeFrame, tables, control,
         sequence
<1>2. RequestsOK'
  BY CheckIs, WaitIs, UnlockIs
<1>3. GroupsOK'
  BY <1>1, SameTypes DEF TypeOK
<1>4. Turn({}, {})
  BY <1>1, TypesAreStored, IdleTurn DEF ServeFrame
<1> QED
  BY <1>1, <1>2, <1>3, <1>4, ServeTypes

\* The steps of a request that write a group.
LEMMA BookWrites ==
    ASSUME TypeOK, NEW r \in Requests, Book(r)
    PROVE  LET q == requests[r] IN
           /\ TypeOK' /\ ServeFrame /\ Onwards(r) /\ UNCHANGED <<locks, answers, late>>
           /\ q.at = "write" /\ q.op = "book"
           /\ q.to \in Bookings /\ q.serial \in Devices /\ q.row \in GroupRows
           /\ requests'[r].at = "unlock" /\ requests'[r].held = q.held
           /\ \/ UNCHANGED groups /\ Turn({}, {})
              \/ /\ \A b \in Rivals(q.to, q.serial) : ~(groups[b].active /\ q.row.active)
                 /\ Exists(q.to) /\ groups[q.to] \in GroupRows
                 /\ \E row \in GroupRows :
                        /\ row.devices = q.row.devices \cup {q.serial}
                        /\ row.users = groups[q.to].users /\ row.active = groups[q.to].active
                        /\ Rewritten(q.to, row)
                 /\ q.row.devices = groups[q.to].devices /\ q.serial \notin q.row.devices =>
                        Turn({}, IF groups[q.to].active THEN {Job("current", q.serial, q.to)}
                                 ELSE {})
<1> DEFINE q == requests[r]
           row == [groups[q.to] EXCEPT !.devices = q.row.devices \cup {q.serial}]
           Writes == /\ \A b \in Rivals(q.to, q.serial) : ~(groups[b].active /\ q.row.active)
                     /\ Exists(q.to) /\ GroupWritten(q.to, row) /\ Writable(q.to, row)
                     /\ groups[q.to] \in GroupRows
                     /\ row \in GroupRows /\ row.devices = q.row.devices \cup {q.serial}
                     /\ row.users = groups[q.to].users /\ row.active = groups[q.to].active
                     /\ row.ticket = groups[q.to].ticket
<1>1. /\ Onwards(r) /\ RequestsOK' /\ q.at = "write" /\ q.op = "book"
      /\ q.to \in Bookings /\ q.serial \in Devices /\ q.row \in GroupRows
      /\ requests'[r].at = "unlock" /\ requests'[r].held = q.held
      /\ UNCHANGED <<groups, groupFeed>> \/ Writes
  BY BookIs
<1>2. ServeFrame /\ UNCHANGED <<locks, answers, late>>
  BY DEF Book, ServeFrame, control, sequence
<1>3. Stored /\ FeedsOK /\ q.to \in Groups
  BY <1>1, TypesAreStored DEF Groups
<1>4. CASE UNCHANGED <<groups, groupFeed>>
  <2>1. GroupsOK'
    BY <1>4, SameTypes DEF TypeOK
  <2>2. Turn({}, {})
    BY <1>2, <1>3, <1>4, IdleTurn DEF ServeFrame
  <2> QED
    BY <1>1, <1>2, <1>4, <2>1, <2>2, ServeTypes
<1>5. CASE Writes
  <2>1. GroupsOK' /\ Rewritten(q.to, row)
    BY <1>5, GroupTypes, GroupIsRewritten DEF TypeOK
  <2>2. groups[q.to] = None => row = None
    BY <1>5 DEF Exists
  <2>3. PICK new \in GroupRows : new = row
    BY <1>5
  <2>4. Turn({}, Made(q.to, new))
    <3> HIDE DEF row
    <3> QED
      BY <1>2, <1>3, <1>5, <2>2, <2>3, GroupTurn DEF ServeFrame
  <2>5. q.row.devices = groups[q.to].devices /\ q.serial \notin q.row.devices =>
            Made(q.to, new) = IF groups[q.to].active THEN {Job("current", q.serial, q.to)}
                              ELSE {}
    <3> SUFFICES ASSUME q.row.devices = groups[q.to].devices, q.serial \notin q.row.devices
                 PROVE  Made(q.to, new) = IF groups[q.to].active
                                          THEN {Job("current", q.serial, q.to)} ELSE {}
      OBVIOUS
    <3>1. PICK old \in GroupRows : old = groups[q.to]
      BY <1>5
    <3>2. /\ new.ticket = old.ticket /\ new.active = old.active /\ new.users = old.users
          /\ q.serial \notin old.devices /\ new.devices = old.devices \cup {q.serial}
      BY <1>5, <2>3, <3>1
    <3>3. new # old
      BY <3>2
    <3>4. GroupJobs([id |-> q.to, old |-> old, new |-> new])
            = IF new.active THEN {Job("current", q.serial, q.to)} ELSE {}
      BY <1>1, <3>2, BookMakes
    <3> QED
      BY <3>1, <3>2, <3>3, <3>4 DEF Made
  <2>6. TypeOK'
    BY <1>1, <1>2, <2>1, ServeTypes
  <2> HIDE DEF row
  <2> QED
    BY <1>1, <1>2, <1>5, <2>1, <2>3, <2>4, <2>5, <2>6
<1> HIDE DEF Writes
<1> QED
  BY <1>1, <1>4, <1>5

LEMMA TicketIsWritten ==
    ASSUME TypeOK, NEW r \in Requests, AskTicket(r)
    PROVE  LET q == requests[r] IN
           /\ TypeOK' /\ ServeFrame /\ Onwards(r) /\ UNCHANGED <<locks, answers, late>>
           /\ q.at = "ask" /\ q.op = "move"
           /\ q.to \in Origins /\ q.serial \in Devices /\ q.signature \in Nat
           /\ requests'[r].at = "wait" /\ requests'[r].held = q.held
           /\ \/ ~Exists(q.to) /\ UNCHANGED groups /\ Turn({}, {})
              \/ /\ Exists(q.to) /\ groups[q.to] \in GroupRows
                 /\ \E row \in GroupRows :
                        /\ row.devices = groups[q.to].devices
                        /\ row.users = groups[q.to].users /\ row.active = groups[q.to].active
                        /\ Rewritten(q.to, row)
                 /\ \/ Turn({}, {[Job("ticket", q.serial, q.to) EXCEPT !.signature = q.signature]})
                    \/ /\ groups[q.to].ticket = [serial |-> q.serial, signature |-> q.signature]
                       /\ Turn({}, {})
<1> DEFINE q == requests[r]
           ticket == [serial |-> q.serial, signature |-> q.signature]
           row == [groups[q.to] EXCEPT !.ticket = ticket]
           Writes == /\ Exists(q.to) /\ GroupWritten(q.to, row) /\ Writable(q.to, row)
                     /\ groups[q.to] \in GroupRows
                     /\ row \in GroupRows /\ row.devices = groups[q.to].devices
                     /\ row.users = groups[q.to].users /\ row.active = groups[q.to].active
                     /\ row.ticket.serial = q.serial /\ row.ticket.signature = q.signature
<1>1. /\ Onwards(r) /\ RequestsOK' /\ q.at = "ask" /\ q.op = "move"
      /\ q.to \in Origins /\ q.serial \in Devices /\ q.signature \in Nat
      /\ requests'[r].at = "wait" /\ requests'[r].held = q.held
      /\ (~Exists(q.to) /\ UNCHANGED <<groups, groupFeed>>) \/ Writes
  BY AskTicketIs
<1>2. ServeFrame /\ UNCHANGED <<locks, answers, late>>
  BY DEF AskTicket, ServeFrame, control, sequence
<1>3. Stored /\ FeedsOK /\ q.to \in Groups
  BY <1>1, TypesAreStored DEF Groups
<1>4. CASE ~Exists(q.to) /\ UNCHANGED <<groups, groupFeed>>
  <2>1. GroupsOK'
    BY <1>4, SameTypes DEF TypeOK
  <2>2. Turn({}, {})
    BY <1>2, <1>3, <1>4, IdleTurn DEF ServeFrame
  <2> QED
    BY <1>1, <1>2, <1>4, <2>1, <2>2, ServeTypes
<1>5. CASE Writes
  <2>1. GroupsOK' /\ Rewritten(q.to, row)
    BY <1>5, GroupTypes, GroupIsRewritten DEF TypeOK
  <2>2. groups[q.to] = None => row = None
    BY <1>5 DEF Exists
  <2>3. PICK new \in GroupRows : new = row
    BY <1>5
  <2>4. Turn({}, Made(q.to, new))
    <3> HIDE DEF row
    <3> QED
      BY <1>2, <1>3, <1>5, <2>2, <2>3, GroupTurn DEF ServeFrame
  <2>5. new.ticket = ticket
    BY <1>5, <2>3 DEF GroupRows
  <2>6. PICK old \in GroupRows : old = groups[q.to]
    BY <1>5
  <2>7. CASE old.ticket = ticket
    <3>1. new = old
      BY <2>3, <2>6, <2>7 DEF GroupRows
    <3>2. Made(q.to, new) = {}
      BY <3>1, <2>6 DEF Made
    <3>3. Turn({}, {})
      BY <2>4, <3>2
    <3>4. TypeOK'
      BY <1>1, <1>2, <2>1, ServeTypes
    <3> HIDE DEF row
    <3> QED
      BY <1>1, <1>2, <1>5, <2>1, <2>3, <2>6, <2>7, <3>3, <3>4
  <2>8. CASE old.ticket # ticket
    <3>1. new.ticket # old.ticket
      BY <2>5, <2>8
    <3>2. GroupJobs([id |-> q.to, old |-> old, new |-> new])
            = {[Job("ticket", new.ticket.serial, q.to) EXCEPT !.signature = new.ticket.signature]}
      BY <1>3, <3>1, TicketMakes
    <3>3. new # old
      BY <3>1
    <3>4. Made(q.to, new)
            = {[Job("ticket", q.serial, q.to) EXCEPT !.signature = q.signature]}
      BY <2>5, <2>6, <3>2, <3>3 DEF Made
    <3>5. TypeOK'
      BY <1>1, <1>2, <2>1, ServeTypes
    <3> HIDE DEF row
    <3> QED
      BY <1>1, <1>2, <1>5, <2>1, <2>3, <2>4, <3>4, <3>5
  <2> QED
    BY <2>7, <2>8
<1> HIDE DEF Writes
<1> QED
  BY <1>1, <1>4, <1>5

LEMMA RowIsDeleted ==
    ASSUME TypeOK, NEW r \in Requests, DeleteRow(r)
    PROVE  LET q == requests[r] IN
           /\ TypeOK' /\ ServeFrame /\ Onwards(r) /\ UNCHANGED <<locks, answers, late>>
           /\ q.at = "deleteRow" /\ q.op = "delete" /\ q.to \in Origins \ {Root}
           /\ requests'[r].at = "unlock" /\ requests'[r].held = q.held
           /\ Rewritten(q.to, None)
           /\ \/ ~Exists(q.to) /\ Turn({}, {})
              \/ /\ Exists(q.to) /\ groups[q.to] \in GroupRows
                 /\ Turn({}, {Job("toRoot", d, Root) : d \in groups[q.to].devices})
<1> DEFINE q == requests[r]
<1>1. /\ Onwards(r) /\ RequestsOK' /\ q.at = "deleteRow" /\ q.op = "delete"
      /\ q.to \in Origins \ {Root}
      /\ requests'[r].at = "unlock" /\ requests'[r].held = q.held
      /\ GroupWritten(q.to, None) /\ Writable(q.to, None)
  BY DeleteRowIs
<1>2. ServeFrame /\ UNCHANGED <<locks, answers, late>>
  BY DEF DeleteRow, ServeFrame, control, sequence
<1>3. Stored /\ FeedsOK /\ q.to \in Groups
  BY <1>1, TypesAreStored DEF Groups
<1>4. PICK none : none = None
  OBVIOUS
<1>5. GroupWritten(q.to, none) /\ Writable(q.to, none)
  BY <1>1, <1>4
<1>6. GroupsOK' /\ Rewritten(q.to, none)
  BY <1>5, GroupTypes, GroupIsRewritten DEF TypeOK
<1>7. Turn({}, Made(q.to, none))
  BY <1>2, <1>3, <1>4, <1>5, GroupTurn DEF ServeFrame
<1>8. TypeOK'
  BY <1>1, <1>2, <1>6, ServeTypes
<1>9. CASE groups[q.to] = None
  <2>1. Made(q.to, none) = {}
    BY <1>4, <1>9 DEF Made
  <2> QED
    BY <1>1, <1>2, <1>4, <1>6, <1>7, <1>8, <1>9, <2>1 DEF Exists
<1>10. CASE groups[q.to] # None
  <2>1. PICK old \in GroupRows : old = groups[q.to]
    BY <1>3, <1>10 DEF TypeOK, GroupsOK
  <2>2. Made(q.to, none) = GroupJobs([id |-> q.to, old |-> old, new |-> None])
    BY <1>4, <1>10, <2>1 DEF Made
  <2>3. Made(q.to, none) = {Job("toRoot", d, Root) : d \in old.devices}
    BY <1>1, <1>3, <2>2, EndMakes
  <2> QED
    BY <1>1, <1>2, <1>4, <1>6, <1>7, <1>8, <1>10, <2>1, <2>3 DEF Exists
<1> QED
  BY <1>9, <1>10

\* Those who hold devices, and the orders to the worker.
LEMMA InviteIs ==
    ASSUME TypeOK, NEW u \in Users, NEW d \in Devices, Invite(u, d)
    PROVE  /\ TypeOK' /\ Turn({}, {}) /\ Begin("invite")
           /\ UNCHANGED <<groups, devices, holder, locks, requests, answers, late>>
           /\ devices[d].owner = None /\ Exists(devices[d].id)
           /\ u \in groups[devices[d].id].users
           /\ orders' = orders \cup {[serial |-> d, user |-> u]}
<1>1. /\ UNCHANGED <<groups, groupFeed, devices, deviceFeed, jobs, holder, locks, requests,
                     answers, late>>
      /\ devices[d].owner = None /\ Exists(devices[d].id)
      /\ u \in groups[devices[d].id].users /\ Begin("invite")
      /\ orders' = orders \cup {[serial |-> d, user |-> u]}
  BY DEF Invite, tables, api
<1>2. ControlOK'
  BY <1>1 DEF TypeOK, ControlOK
<1>3. SequenceOK'
  BY <1>1, BeginIs DEF TypeOK
<1>4. GroupsOK' /\ DevicesOK' /\ JobsOK' /\ RequestsOK'
  BY <1>1, SameTypes DEF TypeOK, api
<1>5. Turn({}, {})
  BY <1>1, TypesAreStored, IdleTurn
<1> QED
  BY <1>1, <1>2, <1>3, <1>4, <1>5 DEF TypeOK

LEMMA ObeyIs ==
    ASSUME TypeOK, NEW order \in orders, Obey(order)
    PROVE  /\ TypeOK' /\ Turn({}, {})
           /\ UNCHANGED <<groups, devices, locks, requests, answers, late, asked, standard,
                          scenario, alone>>
           /\ order.serial \in Devices /\ order.user \in Users \cup {None}
           /\ order = [serial |-> order.serial, user |-> order.user]
           /\ orders' = orders \ {order}
           /\ \A d \in Devices \ {order.serial} : holder'[d] = holder[d]
           /\ holder'[order.serial] =
                  IF order.user = None \/ holder[order.serial] = None THEN order.user
                  ELSE holder[order.serial]
<1> DEFINE d == order.serial
           who == IF order.user = None \/ holder[d] = None THEN order.user ELSE holder[d]
<1>1. /\ UNCHANGED <<groups, groupFeed, devices, deviceFeed, jobs, locks, requests,
                     answers, late, asked, standard, scenario, alone>>
      /\ orders' = orders \ {order} /\ holder' = [holder EXCEPT ![d] = who]
  BY DEF Obey, tables, api, sequence
<1>2. /\ order.serial \in Devices /\ order.user \in Users \cup {None}
      /\ order = [serial |-> order.serial, user |-> order.user]
  BY DEF TypeOK, ControlOK
<1>3. who \in Users \cup {None}
  BY <1>2 DEF TypeOK, ControlOK
<1>4. ControlOK'
  BY <1>1, <1>2, <1>3 DEF TypeOK, ControlOK
<1>5. GroupsOK' /\ DevicesOK' /\ JobsOK' /\ RequestsOK' /\ SequenceOK'
  BY <1>1, SameTypes DEF TypeOK, api, sequence
<1>6. Turn({}, {})
  BY <1>1, TypesAreStored, IdleTurn
<1>7. /\ holder'[d] = who /\ \A e \in Devices \ {d} : holder'[e] = holder[e]
  BY <1>1, <1>2 DEF TypeOK, ControlOK
<1> QED
  BY <1>1, <1>2, <1>4, <1>5, <1>6, <1>7 DEF TypeOK

LEMMA WriteOwnerIs ==
    ASSUME TypeOK, NEW d \in Devices, WriteOwner(d)
    PROVE  /\ TypeOK' /\ Turn({}, {})
           /\ UNCHANGED <<groups, holder, orders, locks, requests, answers, late, asked,
                          standard, scenario, alone>>
           /\ devices[d].owner # holder[d]
           /\ \E row \in DeviceRows :
                  /\ row.id = devices[d].id /\ row.origin = devices[d].origin
                  /\ row.class = devices[d].class /\ row.owner = holder[d]
                  /\ Reassigned(d, row)
<1> DEFINE old == devices[d]
           new == [old EXCEPT !.owner = holder[d]]
<1>1. /\ UNCHANGED <<groups, groupFeed, holder, orders, jobs, locks, requests, answers, late,
                     asked, standard, scenario, alone>>
      /\ DeviceWritten(d, new) /\ old.owner # holder[d]
  BY DEF WriteOwner, control, api, sequence
<1>2. old \in DeviceRows /\ holder[d] \in Users \cup {None}
  BY DEF TypeOK, DevicesOK, ControlOK
<1>3. PICK row \in DeviceRows : row = new
  BY <1>2 DEF DeviceRows
<1>4. /\ row.id = old.id /\ row.origin = old.origin
      /\ row.class = old.class /\ row.owner = holder[d]
  BY <1>2, <1>3 DEF DeviceRows
<1>5. DevicesOK' /\ Reassigned(d, row)
  BY <1>1, <1>3, DeviceTypes, DeviceIsReassigned DEF TypeOK
<1>6. Turn({}, Sent(d, row))
  BY <1>1, <1>3, TypesAreStored, DeviceTurn
<1>7. Sent(d, row) = {}
  BY <1>4 DEF Sent
<1>8. GroupsOK' /\ JobsOK' /\ ControlOK' /\ RequestsOK' /\ SequenceOK'
  BY <1>1, SameTypes DEF TypeOK, control, api, sequence
<1> QED
  BY <1>1, <1>4, <1>5, <1>6, <1>7, <1>8 DEF TypeOK

\* A watcher takes up a change.
LEMMA WatchIs ==
    ASSUME TypeOK, WatchGroups \/ WatchDevices
    PROVE  /\ TypeOK' /\ Turn({}, {})
           /\ UNCHANGED <<groups, devices, holder, orders, locks, requests, answers, late,
                          asked, standard, scenario, alone>>
<1>1. /\ UNCHANGED <<groups, devices, holder, orders, locks, requests, answers, late,
                     asked, standard, scenario, alone>>
  BY DEF WatchGroups, WatchDevices, control, api, sequence
<1>2. FeedsOK /\ FeedsOK' /\ Turn({}, {})
  BY TypesAreStored, WatchTurn
<1>3. ControlOK' /\ RequestsOK' /\ SequenceOK'
  BY <1>1, SameTypes DEF TypeOK, control, api, sequence
<1>4. CASE WatchGroups
  <2> DEFINE c == Head(groupFeed)
  <2>1. /\ groupFeed # <<>> /\ groupFeed' = Tail(groupFeed)
        /\ jobs' = jobs (+) SetToBag(GroupJobs(c)) /\ UNCHANGED deviceFeed
    BY <1>4 DEF WatchGroups
  <2>2. DevicesOK'
    BY <1>1, <2>1, SameTypes DEF TypeOK
  <2>3. /\ groupFeed \in Seq(GroupChanges) /\ DOMAIN groupFeed = 1..Len(groupFeed)
        /\ Len(groupFeed) \in Nat
    BY LenProperties DEF TypeOK, GroupsOK
  <2>4. /\ Head(groupFeed) = groupFeed[1] /\ Len(groupFeed) > 0
        /\ Tail(groupFeed) \in Seq(GroupChanges)
        /\ DOMAIN Tail(groupFeed) = 1..(Len(groupFeed) - 1)
        /\ \A i \in 1..(Len(groupFeed) - 1) : Tail(groupFeed)[i] = groupFeed[i + 1]
    BY <2>1, <2>3, HeadTailProperties, LenProperties, EmptySeq
  <2>5. c \in GroupChanges /\ Possible(c)
    <3>1. groupFeed[1] \in GroupChanges
      BY <2>3, <2>4, ElementOfSeq
    <3> QED
      BY <2>3, <2>4, <3>1 DEF TypeOK, GroupsOK
  <2>6. \A i \in DOMAIN Tail(groupFeed) : Possible(Tail(groupFeed)[i])
    BY <2>3, <2>4 DEF TypeOK, GroupsOK
  <2>7. GroupsOK'
    BY <1>1, <2>1, <2>4, <2>6 DEF TypeOK, GroupsOK, Exists
  <2>8. JobsOK'
    <3>1. GroupJobs(c) \subseteq Jobs
      BY <2>5, GroupJobsAreLegal
    <3>2. IsABag(jobs)' /\ BagToSet(jobs)' = BagToSet(jobs) \cup GroupJobs(c)
      BY <1>2, <2>1, TakenUp DEF FeedsOK
    <3> QED
      BY <3>1, <3>2 DEF TypeOK, JobsOK
  <2> QED
    BY <1>1, <1>2, <1>3, <2>2, <2>7, <2>8 DEF TypeOK
<1>5. CASE WatchDevices
  <2> DEFINE c == Head(deviceFeed)
  <2>1. /\ deviceFeed # <<>> /\ deviceFeed' = Tail(deviceFeed)
        /\ jobs' = jobs (+) SetToBag({DeviceJob(c)}) /\ UNCHANGED groupFeed
    BY <1>5 DEF WatchDevices
  <2>2. GroupsOK'
    BY <1>1, <2>1, SameTypes DEF TypeOK
  <2>3. c \in DeviceChanges /\ Tail(deviceFeed) \in Seq(DeviceChanges)
    BY <2>1, HeadTailProperties DEF TypeOK, DevicesOK
  <2>4. DevicesOK'
    BY <1>1, <2>1, <2>3 DEF TypeOK, DevicesOK
  <2>5. JobsOK'
    <3>1. PICK S : S = {DeviceJob(c)}
      OBVIOUS
    <3>2. S \subseteq Jobs
      BY <2>3, <3>1, DeviceJobIsLegal
    <3>3. IsABag(jobs)' /\ BagToSet(jobs)' = BagToSet(jobs) \cup S
      BY <1>2, <2>1, <3>1, TakenUp DEF FeedsOK
    <3> QED
      BY <3>2, <3>3 DEF TypeOK, JobsOK
  <2> QED
    BY <1>1, <1>2, <1>3, <2>2, <2>4, <2>5 DEF TypeOK
<1> QED
  BY <1>4, <1>5

\* What no job changes.
WorkFrame == UNCHANGED <<holder, locks, requests, late, asked, standard, scenario, alone>>

\* A job that the watchers are at.
LEMMA AtWork ==
    ASSUME TypeOK, NEW job \in BagToSet(jobs)
    PROVE  /\ job \in ToDo /\ job \in Jobs /\ job.serial \in Devices
           /\ devices[job.serial] \in DeviceRows
           /\ job.kind \in {"ticket", "readGroup", "back", "drop", "add"} => job.group \in Origins
           /\ job.kind = "toRoot" => job.group = Root
           /\ job.kind = "current" => job.group \in Bookings
           /\ job.kind = "device" => job.change \in DeviceChanges /\ job = DeviceJob(job.change)
<1>1. job \in ToDo /\ job \in Jobs
  BY DEF ToDo, TypeOK, JobsOK
<1>2. job.serial \in Devices
  BY <1>1 DEF Jobs
<1> QED
  BY <1>1, <1>2 DEF Jobs, TypeOK, DevicesOK

LEMMA WorkTypes ==
    ASSUME TypeOK, WorkFrame, GroupsOK', DevicesOK', JobsOK', answers' = answers,
           orders' = orders \/ \E d \in Devices : Release(d)
    PROVE  TypeOK'
<1>1. SequenceOK' /\ RequestsOK'
  BY SameTypes DEF TypeOK, WorkFrame, sequence, api
<1>2. ControlOK'
  BY DEF TypeOK, ControlOK, WorkFrame, Release
<1> QED
  BY <1>1, <1>2 DEF TypeOK

\* A job that writes a device.
LEMMA DeviceWork ==
    ASSUME TypeOK, WorkFrame, NEW job \in BagToSet(jobs), Done(job),
           NEW d \in Devices, NEW row \in DeviceRows, DeviceWritten(d, row),
           UNCHANGED <<groups, groupFeed, orders>>
    PROVE  /\ GroupsOK' /\ DevicesOK' /\ JobsOK' /\ ControlOK' /\ SequenceOK'
           /\ answers' = answers => TypeOK'
           /\ Reassigned(d, row) /\ Turn({job}, Sent(d, row))
<1>1. GroupsOK' /\ ControlOK' /\ SequenceOK'
  BY SameTypes DEF TypeOK, WorkFrame, control, sequence
<1>2. DevicesOK' /\ Reassigned(d, row)
  BY DeviceTypes, DeviceIsReassigned DEF TypeOK
<1>3. JobsOK'
  BY JobOverTypes DEF TypeOK
<1>4. Turn({job}, Sent(d, row))
  BY TypesAreStored, JobDeviceTurn
<1> QED
  BY <1>1, <1>2, <1>3, <1>4, WorkTypes

LEMMA TicketIs ==
    ASSUME TypeOK, NEW job \in BagToSet(jobs), TreatTicket(job)
    PROVE  LET row == Moved(devices[job.serial], job.group) IN
           /\ TypeOK' /\ WorkFrame /\ UNCHANGED <<groups, orders>>
           /\ job.kind = "ticket" /\ job.serial \in Devices /\ job.group \in Origins
           /\ row \in DeviceRows /\ Reassigned(job.serial, row)
           /\ Turn({job}, Sent(job.serial, row))
           /\ answers' = answers \cup
                  {job.signature : r \in {q \in Serving : requests[q].signature = job.signature}}
<1> DEFINE row == Moved(devices[job.serial], job.group)
<1>1. /\ job.kind = "ticket" /\ DeviceWritten(job.serial, row) /\ Done(job)
      /\ answers' = answers \cup
             {job.signature : r \in {q \in Serving : requests[q].signature = job.signature}}
      /\ WorkFrame /\ UNCHANGED <<groups, groupFeed, orders>>
  BY DEF TreatTicket, WorkFrame, control, sequence
<1>2. job.serial \in Devices /\ job.group \in Origins /\ row \in DeviceRows
  BY <1>1, AtWork, MovedType
<1> HIDE DEF row
<1>3. /\ GroupsOK' /\ DevicesOK' /\ JobsOK' /\ ControlOK' /\ SequenceOK'
      /\ Reassigned(job.serial, row) /\ Turn({job}, Sent(job.serial, row))
  BY <1>1, <1>2, DeviceWork
<1>4. job.signature \in Nat
  BY AtWork DEF Jobs
<1>5. RequestsOK'
  <2>1. answers' \subseteq Nat
    BY <1>1, <1>4 DEF TypeOK, RequestsOK
  <2> QED
    BY <1>1, <2>1 DEF TypeOK, RequestsOK, WorkFrame, Serving
<1>6. TypeOK'
  BY <1>3, <1>5 DEF TypeOK
<1> QED
  BY <1>1, <1>2, <1>3, <1>6 DEF row

LEMMA ToRootIs ==
    ASSUME TypeOK, NEW job \in BagToSet(jobs), MoveToRoot(job)
    PROVE  LET row == Moved(devices[job.serial], Root) IN
           /\ TypeOK' /\ WorkFrame /\ UNCHANGED <<groups, orders, answers>>
           /\ job.kind = "toRoot" /\ job.serial \in Devices /\ job.group = Root
           /\ row \in DeviceRows /\ Reassigned(job.serial, row)
           /\ Turn({job}, Sent(job.serial, row))
<1> DEFINE row == Moved(devices[job.serial], Root)
<1>1. /\ job.kind = "toRoot" /\ DeviceWritten(job.serial, row) /\ Done(job)
      /\ WorkFrame /\ UNCHANGED <<groups, groupFeed, orders, answers>>
  BY DEF MoveToRoot, WorkFrame, control, api, sequence
<1>2. job.serial \in Devices /\ job.group = Root /\ row \in DeviceRows
  BY <1>1, AtWork, MovedType DEF Origins
<1> HIDE DEF row
<1>3. /\ TypeOK' /\ Reassigned(job.serial, row) /\ Turn({job}, Sent(job.serial, row))
  BY <1>1, <1>2, DeviceWork
<1> QED
  BY <1>1, <1>2, <1>3 DEF row

LEMMA CurrentIs ==
    ASSUME TypeOK, NEW job \in BagToSet(jobs), MakeCurrent(job)
    PROVE  LET old == devices[job.serial] IN
           /\ TypeOK' /\ WorkFrame /\ UNCHANGED <<groups, orders, answers>>
           /\ job.kind = "current" /\ job.serial \in Devices /\ job.group \in Bookings
           /\ old \in DeviceRows
           /\ \E row \in DeviceRows :
                  /\ row.id = job.group /\ row.origin = old.origin
                  /\ row.class = Class(job.group) /\ row.owner = old.owner
                  /\ Reassigned(job.serial, row)
                  /\ Turn({job}, Sent(job.serial, row))
<1> DEFINE old == devices[job.serial]
           new == [old EXCEPT !.id = job.group, !.class = Class(job.group)]
<1>1. /\ job.kind = "current" /\ DeviceWritten(job.serial, new) /\ Done(job)
      /\ WorkFrame /\ UNCHANGED <<groups, groupFeed, orders, answers>>
  BY DEF MakeCurrent, WorkFrame, control, api, sequence
<1>2. job.serial \in Devices /\ job.group \in Bookings /\ old \in DeviceRows
  BY <1>1, AtWork
<1>3. /\ new \in DeviceRows /\ new.id = job.group /\ new.origin = old.origin
      /\ new.class = Class(job.group) /\ new.owner = old.owner
  BY <1>2, ClassType DEF DeviceRows, Groups
<1>4. PICK row \in DeviceRows : row = new
  BY <1>3
<1> HIDE DEF new
<1>5. /\ TypeOK' /\ Reassigned(job.serial, row) /\ Turn({job}, Sent(job.serial, row))
  BY <1>1, <1>2, <1>4, DeviceWork
<1> QED
  BY <1>1, <1>2, <1>3, <1>4, <1>5

LEMMA BackIs ==
    ASSUME TypeOK, NEW job \in BagToSet(jobs), GoBack(job)
    PROVE  LET old == devices[job.serial] IN
           /\ TypeOK' /\ WorkFrame /\ UNCHANGED <<groups, orders, answers>>
           /\ job.kind = "back" /\ job.serial \in Devices /\ job.group \in Origins
           /\ old \in DeviceRows
           /\ \E row \in DeviceRows :
                  /\ row.id = old.origin /\ row.origin = old.origin
                  /\ row.class = Class(job.group) /\ row.owner = old.owner
                  /\ Reassigned(job.serial, row)
                  /\ Turn({job}, Sent(job.serial, row))
<1> DEFINE old == devices[job.serial]
           new == [old EXCEPT !.id = old.origin, !.class = Class(job.group)]
<1>1. /\ job.kind = "back" /\ DeviceWritten(job.serial, new) /\ Done(job)
      /\ WorkFrame /\ UNCHANGED <<groups, groupFeed, orders, answers>>
  BY DEF GoBack, WorkFrame, control, api, sequence
<1>2. job.serial \in Devices /\ job.group \in Origins /\ old \in DeviceRows
  BY <1>1, AtWork
<1>3. /\ new \in DeviceRows /\ new.id = old.origin /\ new.origin = old.origin
      /\ new.class = Class(job.group) /\ new.owner = old.owner
  BY <1>2, ClassType DEF DeviceRows, Groups
<1>4. PICK row \in DeviceRows : row = new
  BY <1>3
<1> HIDE DEF new
<1>5. /\ TypeOK' /\ Reassigned(job.serial, row) /\ Turn({job}, Sent(job.serial, row))
  BY <1>1, <1>2, <1>4, DeviceWork
<1> QED
  BY <1>1, <1>2, <1>3, <1>4, <1>5

\* A job that goes on as others.
LEMMA JobWork ==
    ASSUME TypeOK, WorkFrame, NEW job \in BagToSet(jobs), NEW next \in SUBSET Jobs,
           Then(job, next),
           UNCHANGED <<groups, devices, groupFeed, deviceFeed, answers>>,
           orders' = orders \/ \E d \in Devices : Release(d)
    PROVE  TypeOK' /\ Turn({job}, next)
<1>1. GroupsOK' /\ DevicesOK'
  BY SameTypes DEF TypeOK
<1>2. JobsOK'
  BY JobTypes DEF TypeOK
<1>3. Turn({job}, next)
  BY TypesAreStored, JobTurn
<1> QED
  BY <1>1, <1>2, <1>3, WorkTypes

LEMMA ReadOriginIs ==
    ASSUME TypeOK, NEW job \in BagToSet(jobs), ReadOrigin(job)
    PROVE  /\ TypeOK' /\ WorkFrame /\ UNCHANGED <<groups, devices, orders, answers>>
           /\ job.kind = "fromOrigin" /\ job.serial \in Devices
           /\ Turn({job}, {Job("readGroup", job.serial, devices[job.serial].origin)})
<1>1. /\ job.kind = "fromOrigin" /\ WorkFrame
      /\ Then(job, {Job("readGroup", job.serial, devices[job.serial].origin)})
      /\ UNCHANGED <<groups, devices, groupFeed, deviceFeed, orders, answers>>
  BY DEF ReadOrigin, WorkFrame, tables, control, api, sequence
<1>2. job.serial \in Devices /\ devices[job.serial].origin \in Origins
  BY AtWork DEF DeviceRows
<1>3. PICK next : next = {Job("readGroup", job.serial, devices[job.serial].origin)}
  OBVIOUS
<1>4. next \in SUBSET Jobs
  BY <1>2, <1>3, JobIsLegal
<1>5. Then(job, next)
  BY <1>1, <1>3
<1>6. TypeOK' /\ Turn({job}, next)
  BY <1>1, <1>4, <1>5, JobWork
<1> QED
  BY <1>1, <1>2, <1>3, <1>6

LEMMA ReadGroupIs ==
    ASSUME TypeOK, NEW job \in BagToSet(jobs), ReadGroup(job)
    PROVE  /\ TypeOK' /\ WorkFrame /\ UNCHANGED <<groups, devices, orders, answers>>
           /\ job.kind = "readGroup" /\ job.serial \in Devices /\ job.group \in Origins
           /\ \E next : /\ Turn({job}, next)
                        /\ \A j \in next : j.kind = "back" /\ j.serial = job.serial
                                           /\ j.group = job.group
                        /\ Exists(job.group) => next # {}
<1> DEFINE back == [job EXCEPT !.kind = "back"]
<1>1. /\ job.kind = "readGroup" /\ WorkFrame
      /\ Then(job, IF Exists(job.group) THEN {back} ELSE {})
      /\ UNCHANGED <<groups, devices, groupFeed, deviceFeed, orders, answers>>
  BY DEF ReadGroup, WorkFrame, tables, control, api, sequence
<1>2. job.serial \in Devices /\ job.group \in Origins /\ job \in Jobs
  BY <1>1, AtWork
<1>3. PICK next : next = IF Exists(job.group) THEN {back} ELSE {}
  OBVIOUS
<1>4. back \in Jobs /\ back.kind = "back" /\ back.serial = job.serial /\ back.group = job.group
  BY <1>1, <1>2 DEF Jobs
<1>5. next \in SUBSET Jobs
  BY <1>3, <1>4
<1>6. Then(job, next)
  BY <1>1, <1>3
<1>7. TypeOK' /\ Turn({job}, next)
  BY <1>1, <1>5, <1>6, JobWork
<1> HIDE DEF back
<1>8. /\ \A j \in next : j.kind = "back" /\ j.serial = job.serial /\ j.group = job.group
      /\ Exists(job.group) => next # {}
  BY <1>3, <1>4
<1> QED
  BY <1>1, <1>2, <1>7, <1>8

LEMMA EvictIs ==
    ASSUME TypeOK, NEW job \in BagToSet(jobs), Evict(job)
    PROVE  /\ TypeOK' /\ WorkFrame /\ UNCHANGED <<groups, devices, answers>>
           /\ job.kind = "evict" /\ job.serial \in Devices /\ Turn({job}, {})
           /\ IF /\ devices[job.serial].id = job.group
                 /\ devices[job.serial].owner = job.user
              THEN Release(job.serial) ELSE UNCHANGED orders
<1>1. /\ job.kind = "evict" /\ WorkFrame /\ Done(job)
      /\ UNCHANGED <<groups, devices, groupFeed, deviceFeed, answers>>
      /\ IF devices[job.serial].id = job.group /\ devices[job.serial].owner = job.user
         THEN Release(job.serial) ELSE UNCHANGED orders
  BY DEF Evict, WorkFrame, tables, api, sequence
<1>2. job.serial \in Devices
  BY AtWork
<1>3. PICK next \in SUBSET Jobs : next = {}
  OBVIOUS
<1>4. Then(job, next)
  BY <1>1, <1>3 DEF Done
<1>5. orders' = orders \/ \E d \in Devices : Release(d)
  BY <1>1, <1>2
<1>6. TypeOK' /\ Turn({job}, next)
  BY <1>1, <1>4, <1>5, JobWork
<1> QED
  BY <1>1, <1>2, <1>3, <1>6

LEMMA TreatDeviceIs ==
    ASSUME TypeOK, NEW job \in BagToSet(jobs), TreatDevice(job)
    PROVE  LET old == job.change.old
               new == job.change.new
           IN  /\ TypeOK' /\ WorkFrame /\ UNCHANGED <<groups, devices, answers>>
               /\ job.kind = "device" /\ job.serial \in Devices /\ job \in Jobs
               /\ job.change \in DeviceChanges /\ job = DeviceJob(job.change)
               /\ IF /\ Exists(job.group) /\ new.id # old.id
                     /\ new.owner # None /\ new.owner \notin groups[job.group].users
                  THEN Release(job.serial) ELSE UNCHANGED orders
               /\ Turn({job}, IF Exists(job.group) /\ new.origin # old.origin
                              THEN {Job("drop", job.serial, old.origin),
                                    Job("add", job.serial, new.origin)}
                              ELSE {})
<1> DEFINE old == job.change.old
           new == job.change.new
           after == IF Exists(job.group) /\ new.origin # old.origin
                    THEN {Job("drop", job.serial, old.origin),
                          Job("add", job.serial, new.origin)}
                    ELSE {}
<1>1. /\ job.kind = "device" /\ WorkFrame /\ Then(job, after)
      /\ UNCHANGED <<groups, devices, groupFeed, deviceFeed, answers>>
      /\ IF /\ Exists(job.group) /\ new.id # old.id
            /\ new.owner # None /\ new.owner \notin groups[job.group].users
         THEN Release(job.serial) ELSE UNCHANGED orders
  BY DEF TreatDevice, WorkFrame, tables, api, sequence
<1>2. /\ job.serial \in Devices /\ job \in Jobs /\ job.change \in DeviceChanges
      /\ job = DeviceJob(job.change)
  BY <1>1, AtWork
<1>3. old.origin \in Origins /\ new.origin \in Origins
  BY <1>2 DEF DeviceChanges, DeviceRows
<1>4. PICK next : next = after
  OBVIOUS
<1>5. next \in SUBSET Jobs
  BY <1>2, <1>3, <1>4, JobIsLegal
<1>6. Then(job, next)
  BY <1>1, <1>4
<1>7. orders' = orders \/ \E d \in Devices : Release(d)
  BY <1>1, <1>2
<1>8. TypeOK' /\ Turn({job}, next)
  BY <1>1, <1>5, <1>6, <1>7, JobWork
<1> QED
  BY <1>1, <1>2, <1>4, <1>8

\* A device is listed by an origin group, or no longer.
LEMMA RelistIs ==
    ASSUME TypeOK, NEW job \in BagToSet(jobs), Relist(job)
    PROVE  /\ TypeOK' /\ WorkFrame /\ UNCHANGED <<devices, orders, answers>>
           /\ job.kind \in {"drop", "add"} /\ job.serial \in Devices /\ job.group \in Origins
           /\ Turn({job}, {})
           /\ \/ ~Exists(job.group) /\ UNCHANGED groups
              \/ /\ Exists(job.group)
                 /\ \E row \in GroupRows :
                        /\ row.devices = IF job.kind = "add"
                                         THEN groups[job.group].devices \cup {job.serial}
                                         ELSE groups[job.group].devices \ {job.serial}
                        /\ row.users = groups[job.group].users
                        /\ row.active = groups[job.group].active
                        /\ Rewritten(job.group, row)
<1> DEFINE g == job.group
           ds == IF job.kind = "add" THEN groups[g].devices \cup {job.serial}
                 ELSE groups[g].devices \ {job.serial}
           new == [groups[g] EXCEPT !.devices = IF job.kind = "add" THEN @ \cup {job.serial}
                                                ELSE @ \ {job.serial}]
<1>1. /\ job.kind \in {"drop", "add"} /\ WorkFrame /\ Done(job)
      /\ UNCHANGED <<devices, deviceFeed, orders, answers>>
      /\ IF Exists(g) THEN GroupWritten(g, new) ELSE UNCHANGED <<groups, groupFeed>>
  BY DEF Relist, WorkFrame, control, api, sequence
<1>2. /\ job.serial \in Devices /\ g \in Origins /\ g \in Groups
  BY <1>1, AtWork DEF Groups
<1>3. JobsOK' /\ DevicesOK'
  BY <1>1, JobOverTypes, SameTypes DEF TypeOK
<1>4. CASE ~Exists(g)
  <2>1. GroupsOK'
    BY <1>1, <1>4, SameTypes DEF TypeOK
  <2>2. TypeOK'
    BY <1>1, <1>3, <2>1, WorkTypes
  <2>3. PICK next : next = {}
    OBVIOUS
  <2>4. Then(job, next)
    BY <1>1, <2>3 DEF Done
  <2>5. Turn({job}, next)
    BY <1>1, <1>4, <2>4, TypesAreStored, JobTurn
  <2> QED
    BY <1>1, <1>2, <1>4, <2>2, <2>3, <2>5
<1>5. CASE Exists(g)
  <2>1. PICK old \in GroupRows : old = groups[g]
    BY <1>2, <1>5 DEF TypeOK, GroupsOK, Exists
  <2>2. ds \in SUBSET Devices
    BY <1>2, <2>1, RowIs
  <2>3. new = [old EXCEPT !.devices = ds]
    BY <2>1
  <2>4. PICK row \in GroupRows : /\ row = new /\ row.devices = ds /\ row.users = old.users
                                 /\ row.active = old.active /\ row.ticket = old.ticket
    <3>1. PICK list \in SUBSET Devices : list = ds
      BY <2>2
    <3>2. new = [old EXCEPT !.devices = list]
      BY <2>3, <3>1
    <3> HIDE DEF new, ds
    <3>3. /\ new \in GroupRows /\ new.devices = list /\ new.users = old.users
          /\ new.active = old.active /\ new.ticket = old.ticket
      BY <3>2, RowWith
    <3> QED
      BY <3>1, <3>3
  <2>5. old.active
    BY <1>2, <1>5, <2>1 DEF TypeOK, GroupsOK
  <2>6. Writable(g, row)
    <3> HIDE DEF new, ds
    <3> QED
      BY <1>2, <1>5, <2>1, <2>4, <2>5, RowIs DEF Writable, Exists
  <2>7. GroupWritten(g, row)
    BY <1>1, <1>5, <2>4
  <2>8. GroupsOK' /\ Rewritten(g, row)
    BY <2>6, <2>7, GroupTypes, GroupIsRewritten DEF TypeOK
  <2>9. TypeOK'
    BY <1>1, <1>3, <2>8, WorkTypes
  <2>10. Turn({job}, Made(g, row))
    <3>1. groups[g] = None => row = None
      BY <1>5 DEF Exists
    <3> QED
      BY <1>1, <1>2, <2>7, <3>1, TypesAreStored, JobGroupTurn
  <2>11. Made(g, row) = {}
    <3>1. GroupJobs([id |-> g, old |-> old, new |-> row]) = {}
      BY <1>2, <2>4, ListMakes
    <3> QED
      BY <2>1, <3>1 DEF Made
  <2>12. Turn({job}, {})
    BY <2>10, <2>11
  <2> HIDE DEF new
  <2> QED
    BY <1>1, <1>2, <1>5, <2>1, <2>4, <2>8, <2>9, <2>12
<1> QED
  BY <1>4, <1>5

-----------------------------------------------------------------------------
(***************************************************************************)
(* Types: whatever is asked and however the queries overlap, rows, changes,*)
(* jobs and requests are what the code takes them for: an origin group is  *)
(* active, a ticket is about a device, a job about the groups of its kind. *)
(***************************************************************************)
LEMMA ServeKeepsTypes ==
    ASSUME TypeOK, NEW r \in Requests, Serve(r) \/ TimeOut(r)
    PROVE  TypeOK'
BY LocksAre, StepsAre, BookWrites, TicketIsWritten, RowIsDeleted DEF Serve

LEMMA ChangesKeepTypes ==
    ASSUME TypeOK,
           \/ \E b \in Bookings : Activate(b) \/ Deactivate(b) \/ EndBooking(b)
           \/ \E b \in Bookings, d \in Devices : Unbook(b, d)
           \/ \E g \in Groups, u \in Users : RemoveUser(g, u) \/ AddUser(g, u)
    PROVE  TypeOK'
BY ActivateIs, DeactivateIs, EndBookingIs, UnbookIs, RemoveUserIs, AddUserIs

LEMMA WorkKeepsTypes ==
    ASSUME TypeOK, NEW job \in BagToSet(jobs), Work(job)
    PROVE  TypeOK'
BY TicketIs, ToRootIs, CurrentIs, ReadOriginIs, ReadGroupIs, BackIs, EvictIs,
   TreatDeviceIs, RelistIs DEF Work

LEMMA StepKeepsTypes ==
    ASSUME TypeOK, [Next]_vars
    PROVE  TypeOK'
<1>1. CASE UNCHANGED vars
  <2>1. /\ UNCHANGED <<groups, devices, groupFeed, deviceFeed, jobs>>
        /\ UNCHANGED control /\ UNCHANGED api /\ UNCHANGED sequence
    BY <1>1 DEF vars, control, api, sequence
  <2> QED
    BY <2>1, SameTypes DEF TypeOK
<1>2. CASE \E r \in Requests : Ask(r)
  BY <1>2, AskIs
<1>3. CASE \E r \in Requests : Serve(r) \/ TimeOut(r)
  BY <1>3, ServeKeepsTypes
<1>4. CASE \/ \E b \in Bookings : Activate(b) \/ Deactivate(b) \/ EndBooking(b)
           \/ \E b \in Bookings, d \in Devices : Unbook(b, d)
           \/ \E g \in Groups, u \in Users : RemoveUser(g, u) \/ AddUser(g, u)
  BY <1>4, ChangesKeepTypes
<1>5. CASE \E u \in Users, d \in Devices : Invite(u, d)
  BY <1>5, InviteIs
<1>6. CASE \E order \in orders : Obey(order)
  BY <1>6, ObeyIs
<1>7. CASE \E d \in Devices : WriteOwner(d)
  BY <1>7, WriteOwnerIs
<1>8. CASE WatchGroups \/ WatchDevices
  BY <1>8, WatchIs
<1>9. CASE \E job \in BagToSet(jobs) : Work(job)
  BY <1>9, WorkKeepsTypes
<1> QED
  BY <1>1, <1>2, <1>3, <1>4, <1>5, <1>6, <1>7, <1>8, <1>9 DEF Next

LEMMA TypesToBeginWith ==
    ASSUME Init
    PROVE  TypeOK
<1>1. Root \in Origins /\ Origins \subseteq Groups /\ Bookings \subseteq Groups
  BY DEF Origins, Groups
<1>2. \A g, us : Group(g, us).active = (g \in Origins)
  BY DEF Group
<1>3. ASSUME NEW g \in Groups, NEW us \in SUBSET Users
      PROVE  Group(g, us) \in GroupRows
  BY DEF Group, GroupRows, NoTicket
<1>4. PICK us \in SUBSET Users : groups = [g \in Groups |-> Group(g, IF g \in Origins THEN Users ELSE us)]
  BY DEF Init
<1>5. \A g \in Groups : groups[g] = Group(g, IF g \in Origins THEN Users ELSE us)
  BY <1>4
<1>6. \A g \in Groups : groups[g] \in GroupRows /\ groups[g].active = (g \in Origins)
  BY <1>2, <1>3, <1>5
<1>7. GroupsOK
  <2>1. groups \in [Groups -> GroupRows \cup {None}]
    BY <1>4, <1>6
  <2>2. groupFeed = <<>> /\ <<>> \in Seq(GroupChanges) /\ DOMAIN groupFeed = {}
    BY DEF Init
  <2> QED
    BY <1>1, <1>6, <2>1, <2>2, RowIs DEF GroupsOK, Exists
<1>8. DevicesOK
  <2>1. Class(Root) \in {"standard", "once", "bookable"}
    BY ClassType
  <2> QED
    BY <1>1, <2>1 DEF Init, DevicesOK, DeviceRows
<1>9. JobsOK
  BY DEF Init, JobsOK, EmptyBag, SetToBag, IsABag, BagToSet
<1>10. ControlOK
  BY DEF Init, ControlOK
<1>11. RequestsOK
  BY DEF Init, RequestsOK, Serving
<1>12. SequenceOK
  BY DEF Init, SequenceOK
<1> QED
  BY <1>7, <1>8, <1>9, <1>10, <1>11, <1>12 DEF TypeOK

THEOREM TypeCorrect == Spec => []TypeOK
<1>1. Init => TypeOK
  BY TypesToBeginWith
<1>2. TypeOK /\ [Next]_vars => TypeOK'
  BY StepKeepsTypes
<1> QED
  BY <1>1, <1>2, PTL DEF Spec

-----------------------------------------------------------------------------
(***************************************************************************)
(* Locks: a request that has locked its group and its device is the only   *)
(* one at them, and the row of the group that it was given is the group's. *)
(***************************************************************************)
ClaimAts == {"lockOrigin", "write", "check", "ask", "wait"}
WorkAts  == ClaimAts \cup {"lockDevice", "delete", "deleteRow"}

HeldInv ==
    /\ \A r \in Serving : requests[r].held \subseteq locks
    /\ \A r, s \in Serving : r # s => requests[r].held \cap requests[s].held = {}
    /\ \A r \in Serving : requests[r].at \in ClaimAts => requests[r].serial \in requests[r].held
    /\ \A r \in Serving : requests[r].at \in WorkAts => requests[r].to \in requests[r].held

\* The group of a request exists, and is as it was when it was locked.
Locked(r) ==
    /\ Exists(requests[r].to)
    /\ requests[r].op = "book" =>
           /\ requests[r].row.devices = groups[requests[r].to].devices
           /\ requests[r].row.active = groups[requests[r].to].active
           /\ requests[r].serial \notin requests[r].row.devices

RowInv == \A r \in Serving : requests[r].at \in WorkAts => Locked(r)

\* What a step of a request does to its locks, and to the group that it is at.
LEMMA ServeIs ==
    ASSUME TypeOK, NEW r \in Requests, Serve(r) \/ TimeOut(r), ~Unlock(r)
    PROVE  /\ Onwards(r)
           /\ \/ \E what \in Groups \cup Devices : Took(r, what)
              \/ locks' = locks /\ requests'[r].held = requests[r].held
           /\ requests'[r].at \in ClaimAts =>
                  requests[r].at \in ClaimAts \/ Took(r, requests[r].serial)
           /\ requests'[r].at \in WorkAts =>
                  \/ /\ requests[r].at \in WorkAts
                     /\ requests[r].op = "book" => requests'[r].row = requests[r].row
                  \/ /\ Took(r, requests[r].to) /\ Exists(requests[r].to)
                     /\ requests'[r].row = groups[requests[r].to]
                     /\ requests[r].op = "book" =>
                            requests[r].serial \notin groups[requests[r].to].devices
           /\ \A g \in Groups :
                  \/ groups'[g] = groups[g]
                  \/ /\ g = requests[r].to /\ requests[r].at \in WorkAts
                     /\ \/ requests'[r].at = "unlock"
                        \/ requests[r].op = "move" /\ Exists(g)'
           /\ requests'[r].at = "wait" => AskTicket(r)
           /\ requests[r].at = "wait" => Answered(r) \/ TimeOut(r)
<1> USE DEF ClaimAts, WorkAts
<1>1. r \in Serving => requests[r] \in RequestRows /\ Proper(requests[r])
  BY RequestIs DEF TypeOK
<1>2. CASE LockFrom(r)
  <2>1. At(r, "lockFrom") /\ r \in Serving
    BY <1>2 DEF LockFrom, At, Serving
  <2>2. requests[r].from \in Groups \cup Devices \/ Refused(r)
    BY <1>1, <1>2, <2>1, FieldsOf DEF Proper, At, Groups
  <2>3. UNCHANGED groups /\ ~AskTicket(r)
    BY <1>2, <2>1, LocksAre DEF AskTicket, At
  <2> QED
    BY <1>2, <2>1, <2>2, <2>3, LockFromIs DEF At, Refused
<1>3. CASE LockGroup(r)
  <2>1. At(r, "lockGroup") /\ r \in Serving
    BY <1>3 DEF LockGroup, At, Serving
  <2>2. UNCHANGED groups
    BY <1>3, LocksAre
  <2> DEFINE q == requests[r]
             next == IF q.op = "delete" THEN "delete"
                     ELSE IF q.serial \in groups[q.to].devices THEN "unlock"
                     ELSE "lockDevice"
  <2>3. /\ Onwards(r) /\ q.to \in Groups
        /\ \/ Refused(r)
           \/ /\ Took(r, q.to) /\ Exists(q.to) /\ requests'[r].row = groups[q.to]
              /\ requests'[r].at = next
    BY <1>3, LockGroupIs
  <2>4. next \in {"delete", "unlock", "lockDevice"}
        /\ (next = "delete" => q.op = "delete")
        /\ (next = "lockDevice" => q.serial \notin groups[q.to].devices)
    OBVIOUS
  <2> HIDE DEF next
  <2> QED
    BY <2>1, <2>2, <2>3, <2>4 DEF At, Refused
<1>4. CASE LockDevice(r)
  <2>1. UNCHANGED groups
    BY <1>4, LocksAre
  <2> DEFINE next == IF requests[r].op = "book" THEN "lockOrigin" ELSE "check"
  <2>2. /\ Onwards(r) /\ requests[r].at = "lockDevice" /\ requests[r].serial \in Devices
        /\ \/ Refused(r)
           \/ /\ Took(r, requests[r].serial) /\ requests'[r].row = requests[r].row
              /\ requests'[r].at = next
    BY <1>4, LockDeviceIs
  <2>3. next \in {"lockOrigin", "check"}
    OBVIOUS
  <2> HIDE DEF next
  <2> QED
    BY <2>1, <2>2, <2>3 DEF Refused
<1>5. CASE LockOrigin(r)
  <2>1. At(r, "lockOrigin") /\ r \in Serving
    BY <1>5 DEF LockOrigin, At, Serving
  <2>2. requests[r].from \in Groups \cup Devices
    BY <1>1, <2>1, FieldsOf DEF Proper, At, Groups
  <2>3. UNCHANGED groups
    BY <1>5, LocksAre
  <2> QED
    BY <1>5, <2>1, <2>2, <2>3, LockOriginIs DEF At, Refused
<1>6. CASE Book(r)
  <2> DEFINE q == requests[r]
  <2>1. /\ Onwards(r) /\ locks' = locks /\ q.at = "write" /\ requests'[r].at = "unlock"
        /\ requests'[r].held = q.held
        /\ \/ UNCHANGED groups
           \/ \E row : Rewritten(q.to, row)
    BY <1>6, BookWrites
  <2>2. \A g \in Groups : groups'[g] = groups[g] \/ g = q.to
    BY <2>1 DEF Rewritten
  <2> QED
    BY <2>1, <2>2
<1>7. CASE AskTicket(r)
  <2> DEFINE q == requests[r]
  <2>1. /\ Onwards(r) /\ locks' = locks /\ q.at = "ask" /\ requests'[r].at = "wait"
        /\ requests'[r].held = q.held /\ q.op = "move"
        /\ \/ UNCHANGED groups
           \/ \E row \in GroupRows : Rewritten(q.to, row)
    BY <1>7, TicketIsWritten
  <2>2. \A g \in Groups : groups'[g] = groups[g] \/ (g = q.to /\ Exists(g)')
    BY <2>1, RowIs DEF Rewritten, Exists
  <2> QED
    BY <1>7, <2>1, <2>2
<1>8. CASE DeleteRow(r)
  <2> DEFINE q == requests[r]
  <2>1. /\ Onwards(r) /\ locks' = locks /\ q.at = "deleteRow" /\ requests'[r].at = "unlock"
        /\ requests'[r].held = q.held /\ Rewritten(q.to, None)
    BY <1>8, RowIsDeleted
  <2>2. \A g \in Groups : groups'[g] = groups[g] \/ g = q.to
    BY <2>1 DEF Rewritten
  <2> QED
    BY <2>1, <2>2
<1>9. CASE Check(r) \/ CheckDelete(r)
  <2>1. UNCHANGED groups /\ locks' = locks
    BY <1>9 DEF Check, CheckDelete, tables
  <2>2. /\ Onwards(r) /\ requests'[r].held = requests[r].held
        /\ requests'[r].row = requests[r].row
        /\ \/ requests[r].at = "check" /\ requests'[r].at \in {"unlock", "ask"}
           \/ requests[r].at = "delete" /\ requests'[r].at \in {"unlock", "deleteRow"}
    BY <1>9, CheckIs
  <2> QED
    BY <2>1, <2>2
<1>10. CASE Answered(r) \/ TimeOut(r)
  <2>1. UNCHANGED groups
    BY <1>10, StepsAre
  <2>2. /\ Onwards(r) /\ locks' = locks /\ requests'[r].held = requests[r].held
        /\ requests[r].at = "wait" /\ requests'[r].at = "unlock"
    BY <1>10, WaitIs
  <2> QED
    BY <1>10, <2>1, <2>2
<1> QED
  BY <1>2, <1>3, <1>4, <1>5, <1>6, <1>7, <1>8, <1>9, <1>10 DEF Serve

LEMMA ServeKeepsHeld ==
    ASSUME TypeOK, HeldInv, NEW r \in Requests, Serve(r) \/ TimeOut(r)
    PROVE  HeldInv'
<1>1. CASE Unlock(r)
  <2>1. /\ r \in Serving /\ Serving' = Serving \ {r} /\ locks' = locks \ requests[r].held
        /\ \A s \in Serving' : requests'[s] = requests[s]
    BY <1>1, UnlockIs
  <2>2. \A s \in Serving' : s \in Serving /\ s # r
    BY <2>1
  <2>3. \A s \in Serving' : requests'[s].held \subseteq locks'
    BY <2>1, <2>2 DEF HeldInv
  <2> QED
    BY <2>1, <2>2, <2>3 DEF HeldInv
<1>2. CASE ~Unlock(r)
  <2>1. /\ r \in Serving /\ Serving' = Serving
        /\ \A s \in Serving \ {r} : requests'[s] = requests[s]
        /\ requests'[r].serial = requests[r].serial /\ requests'[r].to = requests[r].to
        /\ \/ \E what \in Groups \cup Devices : Took(r, what)
           \/ locks' = locks /\ requests'[r].held = requests[r].held
        /\ requests'[r].at \in ClaimAts =>
               requests[r].at \in ClaimAts \/ Took(r, requests[r].serial)
        /\ requests'[r].at \in WorkAts =>
               requests[r].at \in WorkAts \/ Took(r, requests[r].to)
    BY <1>2, ServeIs DEF Onwards, Serving
  <2>2. \A s \in Serving : requests'[s].held \subseteq locks'
    <3>1. locks \subseteq locks' /\ requests'[r].held \subseteq locks'
      BY <2>1 DEF Took, HeldInv
    <3> QED
      BY <2>1, <3>1 DEF HeldInv
  <2>3. \A s \in Serving \ {r} : requests'[r].held \cap requests[s].held = {}
    BY <2>1 DEF Took, HeldInv
  <2>4. \A s, t \in Serving : s # t => requests'[s].held \cap requests'[t].held = {}
    <3>1. ASSUME NEW s \in Serving, NEW t \in Serving, s # t
          PROVE  requests'[s].held \cap requests'[t].held = {}
      <4>1. CASE s = r
        BY <2>1, <2>3, <3>1, <4>1
      <4>2. CASE t = r
        BY <2>1, <2>3, <3>1, <4>2
      <4>3. CASE s # r /\ t # r
        BY <2>1, <3>1, <4>3 DEF HeldInv
      <4> QED
        BY <4>1, <4>2, <4>3
    <3> QED
      BY <3>1
  <2>5. requests[r].held \subseteq requests'[r].held
    BY <2>1 DEF Took
  <2>6. \A s \in Serving : requests'[s].at \in ClaimAts => requests'[s].serial \in requests'[s].held
    BY <2>1, <2>5 DEF Took, HeldInv
  <2>7. \A s \in Serving : requests'[s].at \in WorkAts => requests'[s].to \in requests'[s].held
    BY <2>1, <2>5 DEF Took, HeldInv
  <2> QED
    BY <2>1, <2>2, <2>4, <2>6, <2>7 DEF HeldInv
<1> QED
  BY <1>1, <1>2

LEMMA ServeKeepsRows ==
    ASSUME TypeOK, HeldInv, RowInv, NEW r \in Requests, Serve(r) \/ TimeOut(r)
    PROVE  RowInv'
<1>1. CASE Unlock(r)
  <2>1. /\ Serving' = Serving \ {r} /\ UNCHANGED groups
        /\ \A s \in Serving' : requests'[s] = requests[s]
    BY <1>1, UnlockIs, StepsAre
  <2> QED
    BY <2>1 DEF RowInv, Locked, Exists
<1>2. CASE ~Unlock(r)
  <2> SUFFICES ASSUME NEW s \in Serving', requests'[s].at \in WorkAts
               PROVE  Locked(s)'
    BY DEF RowInv
  <2>1. Onwards(r) /\ r \in Serving /\ s \in Serving /\ s \in Requests
    BY <1>2, ServeIs DEF Onwards, Serving
  <2>2. \A g \in Groups :
            \/ groups'[g] = groups[g]
            \/ /\ g = requests[r].to /\ requests[r].at \in WorkAts
               /\ \/ requests'[r].at = "unlock"
                  \/ requests[r].op = "move" /\ Exists(g)'
    BY <1>2, ServeIs
  <2>3. requests[s].to \in Groups
    BY <2>1, RequestIs, FieldsOf DEF TypeOK
  <2>4. CASE s # r
    <3>1. requests'[s] = requests[s]
      BY <2>1, <2>4 DEF Onwards
    <3>2. Locked(s) /\ requests[s].to \in requests[s].held
      BY <2>1, <3>1 DEF RowInv, HeldInv
    <3>3. groups'[requests[s].to] = groups[requests[s].to]
      <4>1. requests[s].to # requests[r].to \/ requests[r].at \notin WorkAts
        BY <2>1, <2>4, <3>2 DEF HeldInv
      <4> QED
        BY <2>2, <2>3, <4>1
    <3> QED
      BY <3>1, <3>2, <3>3 DEF Locked, Exists
  <2>5. CASE s = r
    <3>1. requests'[r].at # "unlock"
      BY <2>5 DEF WorkAts, ClaimAts
    <3>2. /\ requests'[r].to = requests[r].to /\ requests'[r].op = requests[r].op
          /\ requests'[r].serial = requests[r].serial
      BY <2>1 DEF Onwards
    <3>3. \/ /\ requests[r].at \in WorkAts
             /\ requests[r].op = "book" => requests'[r].row = requests[r].row
          \/ /\ Took(r, requests[r].to) /\ Exists(requests[r].to)
             /\ requests'[r].row = groups[requests[r].to]
             /\ requests[r].op = "book" =>
                    requests[r].serial \notin groups[requests[r].to].devices
      BY <1>2, <2>5, ServeIs
    <3>4. /\ Exists(requests[r].to)
          /\ requests[r].op = "book" =>
                 /\ requests'[r].row.devices = groups[requests[r].to].devices
                 /\ requests'[r].row.active = groups[requests[r].to].active
                 /\ requests[r].serial \notin requests'[r].row.devices
      BY <2>1, <3>3 DEF RowInv, Locked
    <3>5. \/ groups'[requests[r].to] = groups[requests[r].to]
          \/ requests[r].op = "move" /\ groups'[requests[r].to] # None
      BY <2>2, <2>3, <2>5, <3>1 DEF Exists
    <3>6. groups'[requests[r].to] # None
      BY <3>4, <3>5 DEF Exists
    <3>7. requests[r].op = "book" =>
              /\ requests'[r].row.devices = groups'[requests[r].to].devices
              /\ requests'[r].row.active = groups'[requests[r].to].active
      BY <3>4, <3>5
    <3> QED
      BY <2>5, <3>2, <3>4, <3>6, <3>7 DEF Locked, Exists
  <2> QED
    BY <2>4, <2>5
<1> QED
  BY <1>1, <1>2

\* Who asks has no lock yet.
LEMMA AskKeepsLocks ==
    ASSUME TypeOK, HeldInv, RowInv, NEW r \in Requests, Ask(r)
    PROVE  HeldInv' /\ RowInv'
<1>1. /\ UNCHANGED <<groups, locks>> /\ r \notin Serving /\ Serving' = Serving \cup {r}
      /\ \A s \in Serving : requests'[s] = requests[s]
      /\ requests'[r].held = {} /\ requests'[r].at \in {"lockFrom", "lockGroup"}
  BY AskIs
<1>2. requests'[r].at \notin ClaimAts /\ requests'[r].at \notin WorkAts
  BY <1>1 DEF ClaimAts, WorkAts
<1>3. HeldInv'
  BY <1>1, <1>2 DEF HeldInv
<1>4. RowInv'
  BY <1>1, <1>2 DEF RowInv, Locked, Exists
<1> QED
  BY <1>3, <1>4

\* A group that is locked is changed by its request only.
LEMMA ChangeKeepsLocks ==
    ASSUME TypeOK, HeldInv, RowInv, UNCHANGED <<requests, locks>>,
           NEW g \in Groups, g \notin locks, NEW row, Rewritten(g, row)
    PROVE  HeldInv' /\ RowInv'
<1>1. HeldInv'
  BY DEF HeldInv, Serving
<1>2. ASSUME NEW r \in Serving, requests[r].at \in WorkAts
      PROVE  Locked(r)'
  <2>1. requests[r].to \in Groups \ {g}
    BY <1>2, RequestIs, FieldsOf DEF TypeOK, HeldInv
  <2>2. groups'[requests[r].to] = groups[requests[r].to]
    BY <2>1 DEF Rewritten
  <2> QED
    BY <1>2, <2>2 DEF RowInv, Locked, Exists
<1> QED
  BY <1>1, <1>2 DEF RowInv, Serving

LEMMA OthersKeepLocks ==
    ASSUME HeldInv, RowInv, UNCHANGED <<requests, locks, groups>>
    PROVE  HeldInv' /\ RowInv'
BY DEF HeldInv, RowInv, Serving, Locked, Exists

LEMMA RelistKeepsLocks ==
    ASSUME TypeOK, HeldInv, RowInv, NEW job \in BagToSet(jobs), Relist(job)
    PROVE  HeldInv' /\ RowInv'
<1>1. /\ WorkFrame /\ job.group \in Origins
      /\ \/ UNCHANGED groups
         \/ \E row \in GroupRows : Rewritten(job.group, row)
  BY RelistIs
<1>2. CASE UNCHANGED groups
  BY <1>1, <1>2, OthersKeepLocks DEF WorkFrame
<1>3. CASE \E row \in GroupRows : Rewritten(job.group, row)
  <2>1. HeldInv'
    BY <1>1 DEF HeldInv, Serving, WorkFrame
  <2>2. ASSUME NEW r \in Serving, requests[r].at \in WorkAts
        PROVE  Locked(r)'
    <3>1. requests[r].to \in Groups /\ (requests[r].op = "book" => requests[r].to \in Bookings)
      BY RequestIs, FieldsOf DEF TypeOK, Proper
    <3>2. groups'[requests[r].to] # None \/ groups'[requests[r].to] = groups[requests[r].to]
      BY <1>3, <3>1, RowIs DEF Rewritten
    <3>3. requests[r].op = "book" => groups'[requests[r].to] = groups[requests[r].to]
      BY <1>1, <1>3, <3>1, BookingsAreNoOrigins DEF Rewritten
    <3> QED
      BY <1>1, <2>2, <3>2, <3>3 DEF RowInv, Locked, Exists, WorkFrame
  <2> QED
    BY <1>1, <2>1, <2>2 DEF RowInv, Serving, WorkFrame
<1> QED
  BY <1>1, <1>2, <1>3

LEMMA StepKeepsLocks ==
    ASSUME TypeOK, HeldInv, RowInv, [Next]_vars
    PROVE  HeldInv' /\ RowInv'
<1>1. CASE UNCHANGED vars
  BY <1>1, OthersKeepLocks DEF vars
<1>2. CASE \E r \in Requests : Ask(r)
  BY <1>2, AskKeepsLocks
<1>3. CASE \E r \in Requests : Serve(r) \/ TimeOut(r)
  BY <1>3, ServeKeepsHeld, ServeKeepsRows
<1>4. CASE \/ \E b \in Bookings : Activate(b) \/ Deactivate(b) \/ EndBooking(b)
           \/ \E b \in Bookings, d \in Devices : Unbook(b, d)
           \/ \E g \in Groups, u \in Users : RemoveUser(g, u) \/ AddUser(g, u)
  <2>1. UNCHANGED <<requests, locks>> /\ \E g \in Groups : \E op, row : Change(op, g, row)
    BY <1>4 DEF Activate, Deactivate, EndBooking, Unbook, RemoveUser, AddUser, Change, api,
                Groups
  <2>2. PICK g \in Groups : \E op, row : Change(op, g, row)
    BY <2>1
  <2>3. g \notin locks /\ \E row : Rewritten(g, row)
    BY <2>2 DEF Change, GroupWritten, Rewritten, TypeOK, GroupsOK
  <2> QED
    BY <2>1, <2>3, ChangeKeepsLocks
<1>5. CASE \/ \E u \in Users, d \in Devices : Invite(u, d)
           \/ \E order \in orders : Obey(order)
           \/ \E d \in Devices : WriteOwner(d)
           \/ WatchGroups \/ WatchDevices
  <2>1. UNCHANGED <<requests, locks, groups>>
    BY <1>5 DEF Invite, Obey, WriteOwner, WatchGroups, WatchDevices, tables, api
  <2> QED
    BY <2>1, OthersKeepLocks
<1>6. CASE \E job \in BagToSet(jobs) : Work(job)
  <2>1. PICK job \in BagToSet(jobs) : Work(job)
    BY <1>6
  <2>2. CASE Relist(job)
    BY <2>2, RelistKeepsLocks
  <2>3. CASE ~Relist(job)
    <3>1. UNCHANGED <<requests, locks, groups>>
      BY <2>1, <2>3, TicketIs, ToRootIs, CurrentIs, ReadOriginIs, ReadGroupIs, BackIs,
         EvictIs, TreatDeviceIs DEF Work, WorkFrame
    <3> QED
      BY <3>1, OthersKeepLocks
  <2> QED
    BY <2>2, <2>3
<1> QED
  BY <1>1, <1>2, <1>3, <1>4, <1>5, <1>6 DEF Next

LEMMA LocksToBeginWith ==
    ASSUME Init
    PROVE  HeldInv /\ RowInv
<1>1. Serving = {}
  BY DEF Init, Serving
<1> QED
  BY <1>1 DEF HeldInv, RowInv

-----------------------------------------------------------------------------
(***************************************************************************)
(* Answers: a ticket that is to be treated is the only one of its request, *)
(* which waits for it; so the answer is to what has been done.             *)
(***************************************************************************)
Sig ==
    /\ \A r \in Serving : requests[r].signature <= asked
    /\ \A r, s \in Serving : requests[r].signature = requests[s].signature => r = s

Tickets == {j \in ToDo : j.kind = "ticket"}

\* Request r waits, for the message that signature s belongs to.
Awaits(r, s) == r \in Serving /\ requests[r].at = "wait" /\ requests[r].signature = s

AskedFor(j) ==
    \E r \in Serving : Awaits(r, j.signature) /\ requests[r].serial = j.serial
                       /\ requests[r].to = j.group

\* A ticket is its request's, which has got that far.
TicketsMatch ==
    /\ \A s \in answers : s <= asked
    /\ \A j \in Tickets :
           /\ j.signature <= asked
           /\ \A r \in Serving : requests[r].signature = j.signature =>
                  /\ requests[r].at \in {"wait", "unlock"}
                  /\ requests[r].serial = j.serial /\ requests[r].to = j.group

TicketInv ==
    /\ \A j \in Tickets : j.serial \notin late =>
           /\ j \in Singles /\ j.signature \notin answers /\ AskedFor(j)
           /\ \A k \in Tickets : j.signature = k.signature => j = k
    /\ \A r \in Serving :
           requests[r].signature \in answers /\ requests[r].serial \notin late =>
               requests[r].at = "wait"

DeletesAreAlone ==
    "delete" \in scenario
    /\ (\/ \E r \in Serving : requests[r].op = "delete"
        \/ \E j \in ToDo : j.kind = "toRoot")
        => alone /\ \A r \in Serving : requests[r].op = "delete"

AnswerInv ==
    "delete" \in scenario =>
        \A r \in Serving :
            /\ requests[r].at = "wait" /\ requests[r].signature \in answers
            /\ requests[r].serial \notin late
            => devices[requests[r].serial].origin = requests[r].to

\* A change of a device makes a job about it.
LEMMA SentIs ==
    ASSUME NEW d, NEW row, NEW j \in Sent(d, row)
    PROVE  /\ j.kind = "device" /\ j.serial = d /\ j.group = row.id
           /\ j.change.old = devices[d] /\ j.change.new = row
           /\ ~(row.id = devices[d].id /\ row.origin = devices[d].origin)
<1>1. ~(row.id = devices[d].id /\ row.origin = devices[d].origin)
  BY DEF Sent
<1>2. j = DeviceJob([serial |-> d, old |-> devices[d], new |-> row])
  BY <1>1 DEF Sent
<1> QED
  BY <1>1, <1>2 DEF DeviceJob, Job

\* The steps that are neither a request's nor the treatment of a ticket.
Mild ==
    \/ \E b \in Bookings : Activate(b) \/ Deactivate(b) \/ EndBooking(b)
    \/ \E b \in Bookings, d \in Devices : Unbook(b, d)
    \/ \E g \in Groups, u \in Users : RemoveUser(g, u) \/ AddUser(g, u)
    \/ \E u \in Users, d \in Devices : Invite(u, d)
    \/ \E order \in orders : Obey(order)
    \/ \E d \in Devices : WriteOwner(d)
    \/ WatchGroups \/ WatchDevices
    \/ \E job \in BagToSet(jobs) : Work(job) /\ ~TreatTicket(job)

MildKinds == {"current", "fromOrigin", "readGroup", "back", "evict", "device", "drop", "add"}

MildTurn ==
    \E gone, made :
        /\ Turn(gone, made) /\ \A j \in gone : j.kind # "ticket"
        /\ \A j \in made : j.kind \in MildKinds

SameOrigins == \A d \in Devices : devices'[d].origin = devices[d].origin
MovesToRoot == \E j \in ToDo : j.kind = "toRoot"

LEMMA NothingTurns ==
    Turn({}, {}) => MildTurn
<1>1. PICK none : none = {}
  OBVIOUS
<1>2. Turn({}, {}) => Turn(none, none)
  BY <1>1
<1>3. \A j : j \notin none
  BY <1>1
<1> QED
  BY <1>2, <1>3 DEF MildTurn

LEMMA ChangesAreMild ==
    ASSUME TypeOK,
           \/ \E b \in Bookings : Activate(b) \/ Deactivate(b) \/ EndBooking(b)
           \/ \E b \in Bookings, d \in Devices : Unbook(b, d)
           \/ \E g \in Groups, u \in Users : RemoveUser(g, u) \/ AddUser(g, u)
    PROVE  /\ ChangeFrame /\ MildTurn /\ \E op : Begin(op)
<1>1. ASSUME NEW made, ChangeFrame, Turn({}, made), \E op : Begin(op),
             \A j \in made : j.kind \in MildKinds
      PROVE  ChangeFrame /\ MildTurn /\ \E op : Begin(op)
  <2>1. PICK none : none = {}
    OBVIOUS
  <2>2. Turn(none, made) /\ \A j \in none : j.kind # "ticket"
    BY <1>1, <2>1
  <2> QED
    BY <1>1, <2>2 DEF MildTurn
<1> USE JobIs DEF MildKinds
<1>2. ASSUME NEW b \in Bookings, Activate(b)
      PROVE  ChangeFrame /\ MildTurn /\ \E op : Begin(op)
  <2>1. PICK made : made = {Job("current", d, b) : d \in groups[b].devices}
    OBVIOUS
  <2>2. ChangeFrame /\ Turn({}, made) /\ \E op : Begin(op)
    BY <1>2, <2>1, ActivateIs
  <2>3. \A j \in made : j.kind \in MildKinds
    BY <2>1
  <2> QED
    BY <1>1, <2>2, <2>3
<1>3. ASSUME NEW b \in Bookings, Deactivate(b)
      PROVE  ChangeFrame /\ MildTurn /\ \E op : Begin(op)
  <2>1. PICK made : made = {Job("fromOrigin", d, None) : d \in groups[b].devices}
    OBVIOUS
  <2>2. ChangeFrame /\ Turn({}, made) /\ \E op : Begin(op)
    BY <1>3, <2>1, DeactivateIs
  <2>3. \A j \in made : j.kind \in MildKinds
    BY <2>1
  <2> QED
    BY <1>1, <2>2, <2>3
<1>4. ASSUME NEW b \in Bookings, EndBooking(b)
      PROVE  ChangeFrame /\ MildTurn /\ \E op : Begin(op)
  <2>1. PICK made : made = IF groups[b].active THEN {Job("fromOrigin", d, None) : d \in groups[b].devices}
                           ELSE {}
    OBVIOUS
  <2>2. ChangeFrame /\ Turn({}, made) /\ \E op : Begin(op)
    BY <1>4, <2>1, EndBookingIs
  <2>3. \A j \in made : j.kind \in MildKinds
    BY <2>1
  <2> QED
    BY <1>1, <2>2, <2>3
<1>5. ASSUME NEW b \in Bookings, NEW d \in Devices, Unbook(b, d)
      PROVE  ChangeFrame /\ MildTurn /\ \E op : Begin(op)
  <2>1. PICK made : made = IF groups[b].active THEN {Job("fromOrigin", d, None)} ELSE {}
    OBVIOUS
  <2>2. ChangeFrame /\ Turn({}, made) /\ \E op : Begin(op)
    BY <1>5, <2>1, UnbookIs
  <2>3. \A j \in made : j.kind \in MildKinds
    BY <2>1
  <2> QED
    BY <1>1, <2>2, <2>3
<1>6. ASSUME NEW g \in Groups, NEW u \in Users, RemoveUser(g, u)
      PROVE  ChangeFrame /\ MildTurn /\ \E op : Begin(op)
  <2>1. PICK made : made = IF groups[g].active
                           THEN {[Job("evict", d, g) EXCEPT !.user = u] : d \in groups[g].devices}
                           ELSE {}
    OBVIOUS
  <2>2. ChangeFrame /\ Turn({}, made) /\ \E op : Begin(op)
    BY <1>6, <2>1, RemoveUserIs
  <2>3. \A d : [Job("evict", d, g) EXCEPT !.user = u].kind = "evict"
    BY DEF Job
  <2>4. \A j \in made : j.kind \in MildKinds
    <3> SUFFICES ASSUME NEW j \in made PROVE j.kind = "evict"
      OBVIOUS
    <3>1. PICK d \in groups[g].devices : j = [Job("evict", d, g) EXCEPT !.user = u]
      BY <2>1
    <3>2. [Job("evict", d, g) EXCEPT !.user = u].kind = "evict"
      BY <2>3
    <3> QED
      BY <3>1, <3>2
  <2> QED
    BY <1>1, <2>2, <2>4
<1>7. ASSUME NEW g \in Groups, NEW u \in Users, AddUser(g, u)
      PROVE  ChangeFrame /\ MildTurn /\ \E op : Begin(op)
  BY <1>7, AddUserIs, NothingTurns
<1> QED
  BY <1>2, <1>3, <1>4, <1>5, <1>6, <1>7

\* What a row's other fields do not change.
LEMMA ReassignedOrigin ==
    ASSUME NEW d \in Devices, NEW row, Reassigned(d, row), row.origin = devices[d].origin
    PROVE  SameOrigins
BY DEF Reassigned, SameOrigins

LEMMA WorkIsMild ==
    ASSUME TypeOK, NEW job \in BagToSet(jobs), Work(job), ~TreatTicket(job)
    PROVE  /\ WorkFrame /\ answers' = answers /\ MildTurn
           /\ SameOrigins \/ MovesToRoot
<1>1. ASSUME NEW made, Turn({job}, made), \A j \in made : j.kind \in MildKinds,
             job.kind # "ticket"
      PROVE  MildTurn
  <2>1. PICK gone : gone = {job}
    OBVIOUS
  <2>2. Turn(gone, made) /\ \A j \in gone : j.kind # "ticket"
    BY <1>1, <2>1
  <2> QED
    BY <1>1, <2>2 DEF MildTurn
<1>2. job \in ToDo
  BY AtWork
<1> USE DEF MildKinds
<1>3. CASE MoveToRoot(job)
  <2>1. PICK made : made = Sent(job.serial, Moved(devices[job.serial], Root))
    OBVIOUS
  <2>2. /\ WorkFrame /\ answers' = answers /\ job.kind = "toRoot" /\ Turn({job}, made)
    BY <1>3, <2>1, ToRootIs
  <2>3. \A j \in made : j.kind \in MildKinds
    BY <2>1, SentIs
  <2> QED
    BY <1>1, <1>2, <2>2, <2>3 DEF MovesToRoot
<1>4. CASE MakeCurrent(job)
  <2>1. PICK row \in DeviceRows :
            /\ row.origin = devices[job.serial].origin /\ Reassigned(job.serial, row)
            /\ Turn({job}, Sent(job.serial, row))
    BY <1>4, CurrentIs
  <2>2. /\ WorkFrame /\ answers' = answers /\ job.kind = "current" /\ job.serial \in Devices
    BY <1>4, CurrentIs
  <2>3. \A j \in Sent(job.serial, row) : j.kind \in MildKinds
    BY SentIs
  <2> QED
    BY <1>1, <2>1, <2>2, <2>3, ReassignedOrigin
<1>5. CASE GoBack(job)
  <2>1. PICK row \in DeviceRows :
            /\ row.origin = devices[job.serial].origin /\ Reassigned(job.serial, row)
            /\ Turn({job}, Sent(job.serial, row))
    BY <1>5, BackIs
  <2>2. /\ WorkFrame /\ answers' = answers /\ job.kind = "back" /\ job.serial \in Devices
    BY <1>5, BackIs
  <2>3. \A j \in Sent(job.serial, row) : j.kind \in MildKinds
    BY SentIs
  <2> QED
    BY <1>1, <2>1, <2>2, <2>3, ReassignedOrigin
<1>6. CASE ReadOrigin(job)
  <2>1. PICK made : made = {Job("readGroup", job.serial, devices[job.serial].origin)}
    OBVIOUS
  <2>2. /\ WorkFrame /\ UNCHANGED <<devices, answers>> /\ job.kind = "fromOrigin"
        /\ Turn({job}, made)
    BY <1>6, <2>1, ReadOriginIs
  <2>3. \A j \in made : j.kind \in MildKinds
    BY <2>1, JobIs
  <2> QED
    BY <1>1, <2>2, <2>3 DEF SameOrigins
<1>7. CASE ReadGroup(job)
  BY <1>1, <1>7, ReadGroupIs DEF SameOrigins
<1>8. CASE Evict(job)
  <2>1. PICK made : made = {}
    OBVIOUS
  <2>2. /\ WorkFrame /\ UNCHANGED <<devices, answers>> /\ job.kind = "evict"
        /\ Turn({job}, made)
    BY <1>8, <2>1, EvictIs
  <2> QED
    BY <1>1, <2>1, <2>2 DEF SameOrigins
<1>9. CASE TreatDevice(job)
  <2>1. PICK made : made = IF Exists(job.group) /\ job.change.new.origin # job.change.old.origin
                           THEN {Job("drop", job.serial, job.change.old.origin),
                                 Job("add", job.serial, job.change.new.origin)}
                           ELSE {}
    OBVIOUS
  <2>2. /\ WorkFrame /\ UNCHANGED <<devices, answers>> /\ job.kind = "device"
        /\ Turn({job}, made)
    BY <1>9, <2>1, TreatDeviceIs
  <2>3. \A j \in made : j.kind \in MildKinds
    BY <2>1, JobIs
  <2> QED
    BY <1>1, <2>2, <2>3 DEF SameOrigins
<1>10. CASE Relist(job)
  <2>1. PICK made : made = {}
    OBVIOUS
  <2>2. /\ WorkFrame /\ UNCHANGED <<devices, answers>> /\ job.kind \in {"drop", "add"}
        /\ Turn({job}, made)
    BY <1>10, <2>1, RelistIs
  <2> QED
    BY <1>1, <2>1, <2>2 DEF SameOrigins
<1> QED
  BY <1>3, <1>4, <1>5, <1>6, <1>7, <1>8, <1>9, <1>10 DEF Work

LEMMA MildSteps ==
    ASSUME TypeOK, Mild
    PROVE  /\ UNCHANGED <<requests, answers, late, locks>> /\ MildTurn
           /\ SameOrigins \/ MovesToRoot
           /\ UNCHANGED <<asked, scenario, alone>> \/ \E op : Begin(op)
<1>1. CASE \/ \E b \in Bookings : Activate(b) \/ Deactivate(b) \/ EndBooking(b)
           \/ \E b \in Bookings, d \in Devices : Unbook(b, d)
           \/ \E g \in Groups, u \in Users : RemoveUser(g, u) \/ AddUser(g, u)
  BY <1>1, ChangesAreMild DEF ChangeFrame, SameOrigins
<1>2. CASE \E u \in Users, d \in Devices : Invite(u, d)
  BY <1>2, InviteIs, NothingTurns DEF SameOrigins
<1>3. CASE \E order \in orders : Obey(order)
  BY <1>3, ObeyIs, NothingTurns DEF SameOrigins
<1>4. CASE \E d \in Devices : WriteOwner(d)
  <2>1. PICK d \in Devices : WriteOwner(d)
    BY <1>4
  <2>2. PICK row \in DeviceRows : row.origin = devices[d].origin /\ Reassigned(d, row)
    BY <2>1, WriteOwnerIs
  <2>3. SameOrigins
    BY <2>2, ReassignedOrigin
  <2> QED
    BY <2>1, <2>3, WriteOwnerIs, NothingTurns
<1>5. CASE WatchGroups \/ WatchDevices
  BY <1>5, WatchIs, NothingTurns DEF SameOrigins
<1>6. CASE \E job \in BagToSet(jobs) : Work(job) /\ ~TreatTicket(job)
  BY <1>6, WorkIsMild DEF WorkFrame
<1> QED
  BY <1>1, <1>2, <1>3, <1>4, <1>5, <1>6 DEF Mild

\* Every step is mild, a request's, or treats a ticket.
LEMMA StepsDiffer ==
    ASSUME Next
    PROVE  \/ \E r \in Requests : Ask(r)
           \/ \E r \in Requests : Serve(r) \/ TimeOut(r)
           \/ \E job \in BagToSet(jobs) : TreatTicket(job)
           \/ Mild
BY DEF Next, Mild, Work

LEMMA StepKeepsSig ==
    ASSUME TypeOK, Sig, [Next]_vars
    PROVE  Sig'
<1>1. asked \in Nat /\ \A r \in Serving : requests[r].signature \in Nat
  BY RequestIs, FieldsOf DEF TypeOK, SequenceOK
<1>2. CASE UNCHANGED vars
  BY <1>2 DEF vars, Sig, Serving
<1>3. CASE \E r \in Requests : Ask(r)
  <2>1. PICK r \in Requests : Ask(r)
    BY <1>3
  <2>2. /\ Serving' = Serving \cup {r} /\ \A s \in Serving : requests'[s] = requests[s]
        /\ r \notin Serving /\ requests'[r].signature = asked + 1
        /\ Begin(requests'[r].op)
    BY <2>1, AskIs
  <2>3. asked' = asked + 1
    BY <2>2 DEF Begin
  <2>4. \A s \in Serving : requests'[s].signature <= asked
    BY <2>2 DEF Sig
  <2>5. \A s \in Serving' : requests'[s].signature <= asked'
    BY <1>1, <2>2, <2>3, <2>4
  <2>6. ASSUME NEW s \in Serving', NEW t \in Serving',
               requests'[s].signature = requests'[t].signature
        PROVE  s = t
    <3>1. s \in Serving => requests'[s].signature # asked + 1
      BY <1>1, <2>2, <2>4
    <3>2. t \in Serving => requests'[t].signature # asked + 1
      BY <1>1, <2>2, <2>4
    <3>3. CASE s \in Serving /\ t \in Serving
      BY <2>2, <2>6, <3>3 DEF Sig
    <3> QED
      BY <2>2, <2>6, <3>1, <3>2, <3>3
  <2> QED
    BY <2>5, <2>6 DEF Sig
<1>4. CASE \E r \in Requests : Serve(r) \/ TimeOut(r)
  <2>1. PICK r \in Requests : Serve(r) \/ TimeOut(r)
    BY <1>4
  <2>2. asked' = asked
    BY <2>1, LocksAre, StepsAre, BookWrites, TicketIsWritten, RowIsDeleted DEF Serve, ServeFrame
  <2>3. /\ Serving' \subseteq Serving
        /\ \A s \in Serving' : requests'[s].signature = requests[s].signature
    <3>1. CASE Unlock(r)
      BY <3>1, UnlockIs
    <3>2. CASE ~Unlock(r)
      BY <2>1, <3>2, ServeIs DEF Onwards, Serving
    <3> QED
      BY <3>1, <3>2
  <2> QED
    BY <2>2, <2>3 DEF Sig
<1>5. CASE \E job \in BagToSet(jobs) : TreatTicket(job)
  <2>1. UNCHANGED <<requests, asked>>
    BY <1>5, TicketIs DEF WorkFrame
  <2> QED
    BY <2>1 DEF Sig, Serving
<1>6. CASE Mild
  <2>1. requests' = requests /\ (asked' = asked \/ asked' = asked + 1)
    BY <1>6, MildSteps DEF Begin
  <2>2. \A s \in Serving : requests[s].signature <= asked'
    BY <1>1, <2>1 DEF Sig
  <2> QED
    BY <2>1, <2>2 DEF Sig, Serving
<1> QED
  BY <1>2, <1>3, <1>4, <1>5, <1>6, StepsDiffer

\* What the steps of a request make to do.
LEMMA BookTurns ==
    ASSUME TypeOK, RowInv, NEW r \in Requests, Book(r)
    PROVE  LET q == requests[r] IN
           \/ UNCHANGED groups /\ Turn({}, {})
           \/ /\ groups[q.to] \in GroupRows /\ q.serial \notin groups[q.to].devices
              /\ groups[q.to].active =>
                     \A b \in Rivals(q.to, q.serial) : ~groups[b].active
              /\ \E row \in GroupRows :
                     /\ row.devices = groups[q.to].devices \cup {q.serial}
                     /\ row.users = groups[q.to].users /\ row.active = groups[q.to].active
                     /\ Rewritten(q.to, row)
              /\ Turn({}, IF groups[q.to].active THEN {Job("current", q.serial, q.to)} ELSE {})
<1> DEFINE q == requests[r]
<1>1. /\ q.at = "write" /\ q.op = "book" /\ r \in Serving
      /\ \/ UNCHANGED groups /\ Turn({}, {})
         \/ /\ \A b \in Rivals(q.to, q.serial) : ~(groups[b].active /\ q.row.active)
            /\ groups[q.to] \in GroupRows
            /\ \E row \in GroupRows :
                   /\ row.devices = q.row.devices \cup {q.serial}
                   /\ row.users = groups[q.to].users /\ row.active = groups[q.to].active
                   /\ Rewritten(q.to, row)
            /\ q.row.devices = groups[q.to].devices /\ q.serial \notin q.row.devices =>
                   Turn({}, IF groups[q.to].active THEN {Job("current", q.serial, q.to)}
                            ELSE {})
  BY BookWrites DEF Onwards
<1>2. /\ q.row.devices = groups[q.to].devices /\ q.row.active = groups[q.to].active
      /\ q.serial \notin q.row.devices
  BY <1>1 DEF RowInv, Locked, WorkAts, ClaimAts
<1>3. CASE UNCHANGED groups /\ Turn({}, {})
  BY <1>3
<1>4. CASE /\ \A b \in Rivals(q.to, q.serial) : ~(groups[b].active /\ q.row.active)
           /\ groups[q.to] \in GroupRows
           /\ \E row \in GroupRows :
                  /\ row.devices = q.row.devices \cup {q.serial}
                  /\ row.users = groups[q.to].users /\ row.active = groups[q.to].active
                  /\ Rewritten(q.to, row)
           /\ q.row.devices = groups[q.to].devices /\ q.serial \notin q.row.devices =>
                  Turn({}, IF groups[q.to].active THEN {Job("current", q.serial, q.to)}
                           ELSE {})
  BY <1>2, <1>4
<1> QED
  BY <1>1, <1>3, <1>4

LEMMA ServeTurns ==
    ASSUME TypeOK, RowInv, NEW r \in Requests, Serve(r) \/ TimeOut(r),
           ~DeleteRow(r), ~AskTicket(r)
    PROVE  \E made : Turn({}, made) /\ \A j \in made : j.kind = "current"
<1>1. CASE Book(r)
  <2> DEFINE q == requests[r]
  <2>1. PICK made : /\ Turn({}, made)
                    /\ made \in {{}, {Job("current", q.serial, q.to)}}
    BY <1>1, BookTurns
  <2>2. \A j \in made : j.kind = "current"
    BY <2>1, JobIs
  <2> QED
    BY <2>1, <2>2
<1>2. CASE ~Book(r)
  <2>1. PICK made : made = {}
    OBVIOUS
  <2>2. Turn({}, made)
    BY <1>2, <2>1, LocksAre, StepsAre DEF Serve
  <2> QED
    BY <2>1, <2>2
<1> QED
  BY <1>1, <1>2

LEMMA ServeIsFramed ==
    ASSUME TypeOK, NEW r \in Requests, Serve(r) \/ TimeOut(r)
    PROVE  /\ ServeFrame /\ Serving' \subseteq Serving
           /\ \A s \in Serving' : /\ requests'[s].op = requests[s].op
                                  /\ requests'[s].serial = requests[s].serial
                                  /\ requests'[s].to = requests[s].to
                                  /\ requests'[s].signature = requests[s].signature
<1>1. ServeFrame
  BY LocksAre, StepsAre, BookWrites, TicketIsWritten, RowIsDeleted DEF Serve
<1>2. CASE Unlock(r)
  BY <1>1, <1>2, UnlockIs
<1>3. CASE ~Unlock(r)
  BY <1>1, <1>3, ServeIs DEF Onwards, Serving
<1> QED
  BY <1>2, <1>3

LEMMA StepKeepsDeletesAlone ==
    ASSUME TypeOK, RowInv, DeletesAreAlone, [Next]_vars
    PROVE  DeletesAreAlone'
<1> DEFINE Deletes == (\E r \in Serving : requests[r].op = "delete") \/ MovesToRoot
<1>1. "delete" \in scenario /\ Deletes =>
          alone /\ \A r \in Serving : requests[r].op = "delete"
  BY DEF DeletesAreAlone, MovesToRoot
<1>2. SUFFICES ASSUME "delete" \in scenario', Deletes'
               PROVE  alone' /\ \A r \in Serving' : requests'[r].op = "delete"
  BY DEF DeletesAreAlone, MovesToRoot
<1>3. CASE UNCHANGED vars
  <2>1. ToDo' = ToDo /\ Serving' = Serving
    BY <1>3 DEF vars, ToDo, Serving
  <2> QED
    BY <1>1, <1>2, <1>3, <2>1 DEF vars, MovesToRoot
<1>4. CASE \E r \in Requests : Ask(r)
  <2>1. PICK r \in Requests : Ask(r)
    BY <1>4
  <2>2. /\ Serving' = Serving \cup {r} /\ \A s \in Serving : requests'[s] = requests[s]
        /\ Begin(requests'[r].op) /\ Turn({}, {})
    BY <2>1, AskIs
  <2>3. /\ scenario' = scenario /\ alone' = (requests'[r].op \in scenario)
        /\ requests'[r].op \in scenario \/ alone => Quiet
    BY <2>2, BeginIs DEF TypeOK
  <2>4. ToDo' \subseteq ToDo
    BY <2>2 DEF Turn
  <2>5. Quiet => Serving = {} /\ ~Deletes
    BY QuietIs DEF MovesToRoot
  <2>6. ~Deletes
    BY <1>1, <1>2, <2>3, <2>5
  <2>7. requests'[r].op = "delete"
    BY <1>2, <2>2, <2>4, <2>6 DEF MovesToRoot
  <2> QED
    BY <1>2, <2>2, <2>3, <2>5, <2>7
<1>5. CASE \E r \in Requests : Serve(r) \/ TimeOut(r)
  <2>1. PICK r \in Requests : Serve(r) \/ TimeOut(r)
    BY <1>5
  <2>2. /\ ServeFrame /\ Serving' \subseteq Serving
        /\ \A s \in Serving' : requests'[s].op = requests[s].op
    BY <2>1, ServeIsFramed
  <2>3. MovesToRoot' => Deletes
    <3>1. CASE DeleteRow(r)
      BY <3>1, RowIsDeleted DEF Onwards
    <3>2. CASE AskTicket(r)
      <4> DEFINE ticket == [Job("ticket", requests[r].serial, requests[r].to)
                               EXCEPT !.signature = requests[r].signature]
      <4>1. ToDo' \subseteq ToDo \cup {ticket}
        BY <3>2, TicketIsWritten DEF Turn
      <4>2. ticket.kind = "ticket"
        BY DEF Job
      <4> HIDE DEF ticket
      <4> QED
        BY <4>1, <4>2 DEF MovesToRoot
    <3>3. CASE ~DeleteRow(r) /\ ~AskTicket(r)
      BY <2>1, <3>3, ServeTurns DEF Turn, MovesToRoot
    <3> QED
      BY <3>1, <3>2, <3>3
  <2>4. Deletes
    BY <1>2, <2>2, <2>3
  <2> QED
    BY <1>1, <1>2, <2>2, <2>4 DEF ServeFrame
<1>6. CASE \E job \in BagToSet(jobs) : TreatTicket(job)
  <2>1. PICK job \in BagToSet(jobs) : TreatTicket(job)
    BY <1>6
  <2>2. WorkFrame /\ Turn({job}, Sent(job.serial, Moved(devices[job.serial], job.group)))
    BY <2>1, TicketIs
  <2>3. MovesToRoot' => MovesToRoot
    BY <2>2, SentIs DEF MovesToRoot, Turn
  <2>4. Deletes
    BY <1>2, <2>2, <2>3 DEF WorkFrame, Serving
  <2> QED
    BY <1>1, <1>2, <2>2, <2>4 DEF WorkFrame, Serving
<1>7. CASE Mild
  <2>1. /\ requests' = requests /\ MildTurn
        /\ UNCHANGED <<asked, scenario, alone>> \/ \E op : Begin(op)
    BY <1>7, MildSteps
  <2>2. MovesToRoot' => MovesToRoot
    BY <2>1 DEF MildTurn, MildKinds, MovesToRoot, Turn
  <2>3. Deletes
    BY <1>2, <2>1, <2>2 DEF Serving
  <2>4. scenario' = scenario
    BY <2>1 DEF Begin
  <2>5. alone /\ \A r \in Serving : requests[r].op = "delete"
    BY <1>1, <1>2, <2>3, <2>4
  <2>6. ~\E op : Begin(op)
    BY <2>3, <2>5, QuietIs DEF Begin, MovesToRoot
  <2> QED
    BY <2>1, <2>5, <2>6 DEF Serving
<1> QED
  BY <1>3, <1>4, <1>5, <1>6, <1>7, StepsDiffer

\* Who has a signature.
LEMMA SignatureIs ==
    ASSUME TypeOK
    PROVE  /\ asked \in Nat /\ \A r \in Serving : requests[r].signature \in Nat
           /\ \A j \in Tickets : j.signature \in Nat
<1>1. asked \in Nat /\ \A r \in Serving : requests[r].signature \in Nat
  BY RequestIs, FieldsOf DEF TypeOK, SequenceOK
<1>2. ASSUME NEW j \in Tickets PROVE j.signature \in Nat
  BY ToDoIsLegal DEF Tickets, Jobs
<1> QED
  BY <1>1, <1>2

\* A request goes on: what it is about stays, and so it waits, or is at its end.
LEMMA ServeGoesOn ==
    ASSUME TypeOK, NEW r \in Requests, Serve(r) \/ TimeOut(r),
           NEW s \in Serving', requests[s].at \in {"wait", "unlock"}
    PROVE  requests'[s].at \in {"wait", "unlock"}
<1>1. CASE Unlock(r)
  BY <1>1, UnlockIs
<1>2. CASE ~Unlock(r)
  <2>1. Onwards(r)
    BY <1>2, ServeIs
  <2>2. s # r => requests'[s] = requests[s]
    BY <2>1 DEF Onwards, Serving
  <2>3. CASE s = r
    <3>1. requests[r].at # "unlock"
      BY <1>2 DEF Serve, TimeOut, LockFrom, LockGroup, LockDevice, LockOrigin, Book, CheckDelete,
                  DeleteRow, Check, AskTicket, Answered, At
    <3>2. Answered(r) \/ TimeOut(r)
      BY <1>2, <2>3, <3>1, ServeIs
    <3> QED
      BY <2>3, <3>2, WaitIs
  <2> QED
    BY <2>2, <2>3
<1> QED
  BY <1>1, <1>2

\* Who waits goes on waiting, or is answered, or too late.
LEMMA ServeAnswers ==
    ASSUME TypeOK, NEW r \in Requests, Serve(r) \/ TimeOut(r)
    PROVE  /\ answers' \subseteq answers /\ late \subseteq late'
           /\ ~(\E t : t \in late' \ late /\ t # requests[r].serial)
           /\ \A s \in Serving : requests[s].at = "wait" =>
                  \/ s \in Serving' /\ requests'[s] = requests[s]
                  \/ /\ s = r /\ requests[s].signature \notin answers'
                     /\ requests[s].signature \in answers \/ requests[s].serial \in late'
<1>1. CASE Unlock(r)
  <2>1. At(r, "unlock")
    BY <1>1 DEF Unlock
  <2> QED
    BY <1>1, <2>1, UnlockIs DEF At
<1>2. CASE Answered(r) \/ TimeOut(r)
  BY <1>2, WaitIs DEF Onwards, Serving
<1>3. CASE ~Unlock(r) /\ ~Answered(r) /\ ~TimeOut(r)
  <2>1. Onwards(r) /\ (requests[r].at # "wait" \/ AskTicket(r))
    BY <1>3, ServeIs
  <2>2. requests[r].at # "wait"
    BY <2>1 DEF AskTicket, At
  <2>3. UNCHANGED <<answers, late>>
    <3>1. CASE Check(r) \/ CheckDelete(r)
      BY <3>1 DEF Check, CheckDelete
    <3>2. CASE ~(Check(r) \/ CheckDelete(r))
      BY <1>3, <3>2, LocksAre, BookWrites, TicketIsWritten, RowIsDeleted DEF Serve
    <3> QED
      BY <3>1, <3>2
  <2> QED
    BY <2>1, <2>2, <2>3 DEF Onwards, Serving
<1> QED
  BY <1>1, <1>2, <1>3

\* Steps that write no ticket.
LEMMA MatchKept ==
    ASSUME TypeOK, TicketsMatch, Tickets' \subseteq Tickets, asked' \in {asked, asked + 1},
           answers' \subseteq answers \cup {j.signature : j \in Tickets},
           Serving' \subseteq Serving,
           \A s \in Serving' :
               /\ requests'[s].serial = requests[s].serial /\ requests'[s].to = requests[s].to
               /\ requests'[s].signature = requests[s].signature
               /\ requests[s].at \in {"wait", "unlock"} => requests'[s].at \in {"wait", "unlock"}
    PROVE  TicketsMatch'
<1> SUFFICES ASSUME NEW j \in Tickets'
             PROVE  /\ j.signature <= asked'
                    /\ \A r \in Serving' : requests'[r].signature = j.signature =>
                           /\ requests'[r].at \in {"wait", "unlock"}
                           /\ requests'[r].serial = j.serial /\ requests'[r].to = j.group
  <2>1. ASSUME NEW s \in answers' PROVE s <= asked'
    <3>1. s <= asked /\ s \in Nat /\ asked \in Nat
      BY SignatureIs DEF TicketsMatch, TypeOK, RequestsOK
    <3> QED
      BY <3>1
  <2> QED
    BY <2>1 DEF TicketsMatch
<1>1. j \in Tickets /\ j.signature \in Nat /\ asked \in Nat
  BY SignatureIs
<1>2. j.signature <= asked
  BY <1>1 DEF TicketsMatch
<1>3. j.signature <= asked'
  BY <1>1, <1>2
<1> QED
  BY <1>1, <1>3 DEF TicketsMatch

\* Only AskTicket writes a ticket.
LEMMA ServeTickets ==
    ASSUME TypeOK, RowInv, NEW r \in Requests, Serve(r) \/ TimeOut(r), ~AskTicket(r)
    PROVE  Tickets' \subseteq Tickets /\ Tickets \cap Singles \subseteq Singles'
<1>1. CASE DeleteRow(r)
  <2>1. PICK made : /\ Turn({}, made)
                    /\ made \in {{}, {Job("toRoot", d, Root) : d \in groups[requests[r].to].devices}}
    BY <1>1, RowIsDeleted
  <2>2. \A j \in made : j.kind # "ticket"
    BY <2>1, JobIs
  <2> QED
    BY <2>1, <2>2 DEF Turn, Tickets, Singles
<1>2. CASE ~DeleteRow(r)
  <2>1. PICK made : Turn({}, made) /\ \A j \in made : j.kind = "current"
    BY <1>2, ServeTurns
  <2> QED
    BY <2>1 DEF Turn, Tickets, Singles
<1> QED
  BY <1>1, <1>2

LEMMA StepKeepsMatch ==
    ASSUME TypeOK, Sig, RowInv, TicketsMatch, [Next]_vars
    PROVE  TicketsMatch'
<1>1. CASE UNCHANGED vars
  <2>1. Tickets' = Tickets
    BY <1>1 DEF vars, Tickets, ToDo
  <2> QED
    BY <1>1, <2>1 DEF vars, TicketsMatch, Serving
<1>2. ASSUME NEW r \in Requests, Ask(r) PROVE TicketsMatch'
  <2>1. /\ Serving' = Serving \cup {r} /\ \A s \in Serving : requests'[s] = requests[s]
        /\ requests'[r].signature = asked + 1 /\ Begin(requests'[r].op) /\ Turn({}, {})
    BY <1>2, AskIs
  <2>2. Tickets' = Tickets /\ asked' = asked + 1
    BY <2>1 DEF Turn, Tickets, Begin
  <2>5. \A s \in answers' : s <= asked'
    <3>1. \A s \in answers : s <= asked /\ s \in Nat /\ asked \in Nat
      BY SignatureIs DEF TicketsMatch, TypeOK, RequestsOK
    <3>2. answers' = answers
      BY <1>2, AskIs
    <3> QED
      BY <2>2, <3>1, <3>2
  <2> SUFFICES ASSUME NEW j \in Tickets
               PROVE  /\ j.signature <= asked'
                      /\ \A s \in Serving' : requests'[s].signature = j.signature =>
                             /\ requests'[s].at \in {"wait", "unlock"}
                             /\ requests'[s].serial = j.serial /\ requests'[s].to = j.group
    BY <2>2, <2>5 DEF TicketsMatch
  <2>3. j.signature <= asked /\ j.signature \in Nat /\ asked \in Nat
    BY SignatureIs DEF TicketsMatch
  <2>4. j.signature <= asked' /\ j.signature # asked + 1
    BY <2>2, <2>3
  <2> QED
    BY <2>1, <2>4 DEF TicketsMatch
<1>3. ASSUME NEW r \in Requests, Serve(r) \/ TimeOut(r) PROVE TicketsMatch'
  <2>1. /\ asked' = asked /\ Serving' \subseteq Serving
        /\ \A s \in Serving' : /\ requests'[s].serial = requests[s].serial
                               /\ requests'[s].to = requests[s].to
                               /\ requests'[s].signature = requests[s].signature
    BY <1>3, ServeIsFramed DEF ServeFrame
  <2>2. \A s \in Serving' : requests[s].at \in {"wait", "unlock"} =>
                               requests'[s].at \in {"wait", "unlock"}
    BY <1>3, ServeGoesOn
  <2>3. CASE ~AskTicket(r)
    BY <1>3, <2>1, <2>2, <2>3, ServeTickets, ServeAnswers, MatchKept
  <2>4. CASE AskTicket(r)
    <3> DEFINE q == requests[r]
               ticket == [Job("ticket", q.serial, q.to) EXCEPT !.signature = q.signature]
    <3>1. /\ Onwards(r) /\ requests'[r].at = "wait"
          /\ Turn({}, {}) \/ Turn({}, {ticket})
      BY <2>4, TicketIsWritten
    <3>2. /\ ticket.serial = q.serial /\ ticket.group = q.to
          /\ ticket.signature = q.signature
      BY DEF Job
    <3> HIDE DEF ticket
    <3>3. Tickets' \subseteq Tickets \cup {ticket}
      BY <3>1 DEF Turn, Tickets
    <3> SUFFICES ASSUME NEW j \in Tickets'
                 PROVE  /\ j.signature <= asked
                        /\ \A s \in Serving' : requests'[s].signature = j.signature =>
                               /\ requests'[s].at \in {"wait", "unlock"}
                               /\ requests'[s].serial = j.serial /\ requests'[s].to = j.group
      <4>1. \A s \in answers' : s <= asked
        BY <1>3, ServeAnswers DEF TicketsMatch
      <4> QED
        BY <2>1, <4>1 DEF TicketsMatch
    <3>4. CASE j = ticket
      <4>1. r \in Serving /\ j.signature <= asked
        BY <3>1, <3>2, <3>4 DEF Onwards, Sig
      <4>2. ASSUME NEW s \in Serving', requests'[s].signature = j.signature PROVE s = r
        BY <2>1, <3>2, <3>4, <4>1, <4>2 DEF Sig
      <4> QED
        BY <2>1, <3>1, <3>2, <3>4, <4>1, <4>2
    <3>5. CASE j # ticket
      BY <2>1, <2>2, <3>3, <3>5 DEF TicketsMatch
    <3> QED
      BY <3>4, <3>5
  <2> QED
    BY <2>3, <2>4
<1>4. ASSUME NEW job \in BagToSet(jobs), TreatTicket(job) PROVE TicketsMatch'
  <2>1. WorkFrame /\ Turn({job}, Sent(job.serial, Moved(devices[job.serial], job.group)))
    BY <1>4, TicketIs
  <2>2. Tickets' \subseteq Tickets
    BY <2>1, SentIs DEF Turn, Tickets
  <2>3. requests' = requests /\ Serving' = Serving /\ asked' = asked
    BY <2>1 DEF WorkFrame, Serving
  <2>4. job \in Tickets /\ answers' \subseteq answers \cup {job.signature}
    BY <1>4, TicketIs, AtWork DEF Tickets
  <2>5. answers' \subseteq answers \cup {j.signature : j \in Tickets}
    BY <2>4
  <2> QED
    BY <2>2, <2>3, <2>5, MatchKept
<1>5. CASE Mild
  <2>1. /\ requests' = requests /\ answers' = answers /\ MildTurn
        /\ asked' \in {asked, asked + 1}
    BY <1>5, MildSteps DEF Begin
  <2>2. Tickets' \subseteq Tickets
    BY <2>1 DEF MildTurn, MildKinds, Turn, Tickets
  <2>3. Serving' = Serving
    BY <2>1 DEF Serving
  <2> QED
    BY <2>1, <2>2, <2>3, MatchKept
<1> QED
  BY <1>1, <1>2, <1>3, <1>4, <1>5, StepsDiffer
\* Steps that make no tickets, and of requests that those who wait for one
\* survive.
LEMMA TicketsKept ==
    ASSUME TicketInv, Tickets' \subseteq Tickets, Tickets \cap Singles \subseteq Singles',
           late \subseteq late', answers' \subseteq answers,
           \A s \in Serving : requests[s].at = "wait" =>
               \/ s \in Serving' /\ requests'[s] = requests[s]
               \/ requests[s].signature \in answers \/ requests[s].serial \in late',
           \A s \in Serving' :
               requests'[s].signature \in answers' /\ requests'[s].serial \notin late' =>
                   requests'[s].at = "wait"
    PROVE  TicketInv'
<1>1. ASSUME NEW j \in Tickets', j.serial \notin late'
      PROVE  /\ j \in Singles' /\ j.signature \notin answers' /\ AskedFor(j)'
             /\ \A k \in Tickets' : j.signature = k.signature => j = k
  <2>1. /\ j \in Tickets /\ j \in Singles /\ j.signature \notin answers /\ AskedFor(j)
        /\ \A k \in Tickets : j.signature = k.signature => j = k
    BY <1>1 DEF TicketInv
  <2>2. PICK s \in Serving : /\ Awaits(s, j.signature) /\ requests[s].serial = j.serial
                             /\ requests[s].to = j.group
    BY <2>1 DEF AskedFor
  <2>3. s \in Serving' /\ requests'[s] = requests[s]
    BY <1>1, <2>1, <2>2 DEF Awaits
  <2>4. AskedFor(j)'
    BY <2>2, <2>3 DEF AskedFor, Awaits
  <2> QED
    BY <2>1, <2>4
<1> QED
  BY <1>1 DEF TicketInv

\* A new request has no ticket yet, and no answer.
LEMMA AskKeepsTickets ==
    ASSUME TypeOK, TicketsMatch, TicketInv, NEW r \in Requests, Ask(r)
    PROVE  TicketInv'
<1>1. /\ UNCHANGED <<answers, late>> /\ r \notin Serving /\ Serving' = Serving \cup {r}
      /\ \A s \in Serving : requests'[s] = requests[s]
      /\ Turn({}, {}) /\ requests'[r].signature = asked + 1
  BY AskIs
<1>2. Tickets' = Tickets /\ Singles \subseteq Singles'
  BY <1>1 DEF Turn, Tickets
<1>3. asked + 1 \notin answers
  <2>1. \A s \in answers : s <= asked /\ s \in Nat /\ asked \in Nat
    BY SignatureIs DEF TicketsMatch, TypeOK, RequestsOK
  <2> QED
    BY <2>1
<1>4. \A s \in Serving' : requests'[s].signature \in answers' /\ requests'[s].serial \notin late'
          => requests'[s].at = "wait"
  BY <1>1, <1>3 DEF TicketInv
<1> QED
  BY <1>1, <1>2, <1>4, TicketsKept

\* A ticket is written for a request that has none yet.
LEMMA TicketKeepsTickets ==
    ASSUME TypeOK, TicketsMatch, TicketInv, Sig, NEW r \in Requests, AskTicket(r)
    PROVE  TicketInv'
<1> DEFINE q == requests[r]
           ticket == [Job("ticket", q.serial, q.to) EXCEPT !.signature = q.signature]
<1>1. /\ UNCHANGED <<answers, late>> /\ Onwards(r) /\ q.at = "ask" /\ requests'[r].at = "wait"
      /\ Turn({}, {}) \/ Turn({}, {ticket})
  BY TicketIsWritten
<1>2. /\ ticket.kind = "ticket" /\ ticket.serial = q.serial /\ ticket.group = q.to
      /\ ticket.signature = q.signature
  BY DEF Job
<1> HIDE DEF ticket
<1>3. /\ r \in Serving /\ Serving' = Serving
      /\ \A s \in Serving \ {r} : requests'[s] = requests[s]
      /\ requests'[r].serial = q.serial /\ requests'[r].to = q.to
      /\ requests'[r].signature = q.signature
  BY <1>1 DEF Onwards, Serving
<1>4. \A j \in Tickets : j.signature # q.signature
  BY <1>1, <1>3 DEF TicketsMatch
<1>5. q.serial \notin late => q.signature \notin answers
  BY <1>1, <1>3 DEF TicketInv
<1>6. ticket \notin ToDo
  BY <1>2, <1>4 DEF Tickets
<1>7. /\ Tickets' \subseteq Tickets \cup {ticket} /\ Singles \subseteq Singles'
      /\ ticket \in Tickets' => ticket \in Singles'
  BY <1>1, <1>6 DEF Turn, Tickets, Singles
<1>8. ASSUME NEW j \in Tickets', j.serial \notin late
      PROVE  /\ j \in Singles' /\ j.signature \notin answers' /\ AskedFor(j)'
             /\ \A k \in Tickets' : j.signature = k.signature => j = k
  <2>1. CASE j = ticket
    <3>1. AskedFor(j)'
      BY <1>1, <1>2, <1>3, <2>1 DEF AskedFor, Awaits
    <3> QED
      BY <1>1, <1>2, <1>4, <1>5, <1>7, <1>8, <2>1, <3>1
  <2>2. CASE j # ticket
    <3>1. /\ j \in Tickets /\ j \in Singles /\ j.signature \notin answers /\ AskedFor(j)
          /\ \A k \in Tickets : j.signature = k.signature => j = k
      BY <1>7, <1>8, <2>2 DEF TicketInv
    <3>2. PICK s \in Serving : /\ Awaits(s, j.signature) /\ requests[s].serial = j.serial
                               /\ requests[s].to = j.group
      BY <3>1 DEF AskedFor
    <3>3. s \in Serving' /\ requests'[s] = requests[s]
      BY <1>1, <1>3, <3>2 DEF Awaits
    <3>4. AskedFor(j)'
      BY <3>2, <3>3 DEF AskedFor, Awaits
    <3> QED
      BY <1>1, <1>2, <1>4, <1>7, <3>1, <3>4
  <2> QED
    BY <2>1, <2>2
<1>9. ASSUME NEW s \in Serving', requests'[s].signature \in answers',
             requests'[s].serial \notin late'
      PROVE  requests'[s].at = "wait"
  BY <1>1, <1>3, <1>9 DEF TicketInv
<1> QED
  BY <1>1, <1>8, <1>9 DEF TicketInv

\* The other steps of a request make no tickets, and one that is still to be
\* treated is not answered.
LEMMA ServeKeepsTickets ==
    ASSUME TypeOK, TicketInv, Sig, RowInv, NEW r \in Requests, Serve(r) \/ TimeOut(r),
           ~AskTicket(r)
    PROVE  TicketInv'
<1>1. Tickets' \subseteq Tickets /\ Tickets \cap Singles \subseteq Singles'
  BY ServeTickets
<1>2. /\ answers' \subseteq answers /\ late \subseteq late'
      /\ \A s \in Serving : requests[s].at = "wait" =>
             \/ s \in Serving' /\ requests'[s] = requests[s]
             \/ /\ s = r /\ requests[s].signature \notin answers'
                /\ requests[s].signature \in answers \/ requests[s].serial \in late'
  BY ServeAnswers
<1>3. ASSUME NEW s \in Serving', requests'[s].signature \in answers',
             requests'[s].serial \notin late'
      PROVE  requests'[s].at = "wait"
  <2>1. /\ s \in Serving /\ requests'[s].serial = requests[s].serial
        /\ requests'[s].signature = requests[s].signature
    BY ServeIsFramed
  <2>2. requests[s].at = "wait"
    BY <1>2, <1>3, <2>1 DEF TicketInv
  <2> QED
    BY <1>2, <1>3, <2>1, <2>2
<1> QED
  BY <1>1, <1>2, <1>3, TicketsKept

\* A ticket is treated: it is not to be treated again, and its request alone is
\* told.
LEMMA TreatKeepsTickets ==
    ASSUME TypeOK, TicketsMatch, TicketInv, Sig, NEW job \in BagToSet(jobs), TreatTicket(job)
    PROVE  TicketInv'
<1> DEFINE sent == Sent(job.serial, Moved(devices[job.serial], job.group))
           told == {job.signature : r \in {q \in Serving : requests[q].signature = job.signature}}
<1>1. /\ WorkFrame /\ job.kind = "ticket" /\ Turn({job}, sent)
      /\ answers' = answers \cup told /\ job \in Tickets
  BY TicketIs, AtWork DEF Tickets
<1>2. \A j \in sent : j.kind # "ticket"
  BY SentIs
<1>3. \A t \in told : t = job.signature
  OBVIOUS
<1> HIDE DEF sent, told
<1>4. requests' = requests /\ Serving' = Serving /\ late' = late
  BY <1>1 DEF WorkFrame, Serving
<1>5. Tickets' \subseteq Tickets /\ (Tickets \cap Singles) \ {job} \subseteq Singles'
  BY <1>1, <1>2 DEF Turn, Tickets
<1>6. job.serial \notin late => job \notin Tickets'
  <2>1. job.serial \notin late => job \in Singles
    BY <1>1 DEF TicketInv
  <2> QED
    BY <1>1, <1>2, <2>1 DEF Turn, Tickets
<1>7. ASSUME NEW j \in Tickets', j.serial \notin late
      PROVE  /\ j \in Singles' /\ j.signature \notin answers' /\ AskedFor(j)'
             /\ \A k \in Tickets' : j.signature = k.signature => j = k
  <2>1. /\ j \in Tickets /\ j # job
    BY <1>5, <1>6, <1>7
  <2>2. /\ j \in Singles /\ j.signature \notin answers /\ AskedFor(j)
        /\ \A k \in Tickets : j.signature = k.signature => j = k
    BY <1>7, <2>1 DEF TicketInv
  <2>3. j.signature # job.signature
    BY <1>1, <2>1, <2>2
  <2>4. AskedFor(j)'
    BY <1>4, <2>2 DEF AskedFor, Awaits
  <2> QED
    BY <1>1, <1>3, <1>5, <2>1, <2>2, <2>3, <2>4
<1>8. ASSUME NEW s \in Serving', requests'[s].signature \in answers',
             requests'[s].serial \notin late'
      PROVE  requests'[s].at = "wait"
  <2>1. CASE requests[s].signature \in answers
    BY <1>4, <1>8, <2>1 DEF TicketInv
  <2>2. CASE requests[s].signature = job.signature
    <3>1. requests[s].serial = job.serial
      BY <1>1, <1>4, <1>8, <2>2 DEF TicketsMatch
    <3>2. PICK t \in Serving : Awaits(t, job.signature)
      BY <1>1, <1>4, <1>8, <3>1 DEF TicketInv, AskedFor
    <3>3. t = s
      BY <1>4, <1>8, <2>2, <3>2 DEF Awaits, Sig
    <3> QED
      BY <1>4, <3>2, <3>3 DEF Awaits
  <2> QED
    BY <1>1, <1>3, <1>4, <1>8, <2>1, <2>2
<1> QED
  BY <1>4, <1>7, <1>8 DEF TicketInv

LEMMA OthersKeepTickets ==
    ASSUME TicketInv, UNCHANGED <<requests, answers, late>>, MildTurn
    PROVE  TicketInv'
<1>1. PICK gone, made : /\ Turn(gone, made) /\ \A j \in gone : j.kind # "ticket"
                        /\ \A j \in made : j.kind \in MildKinds
  BY DEF MildTurn
<1>2. Tickets' \subseteq Tickets /\ Tickets \cap Singles \subseteq Singles'
  BY <1>1 DEF Turn, Tickets, MildKinds
<1>3. Serving' = Serving
  BY DEF Serving
<1>4. \A s \in Serving' : requests'[s].signature \in answers' /\ requests'[s].serial \notin late'
          => requests'[s].at = "wait"
  BY <1>3 DEF TicketInv
<1> QED
  BY <1>2, <1>3, <1>4, TicketsKept

LEMMA StepKeepsTickets ==
    ASSUME TypeOK, TicketsMatch, TicketInv, Sig, RowInv, [Next]_vars
    PROVE  TicketInv'
<1>1. CASE UNCHANGED vars
  <2>1. FeedsOK /\ UNCHANGED <<groupFeed, deviceFeed, jobs, requests, answers, late>>
    BY <1>1, TypesAreStored DEF vars
  <2>2. MildTurn
    BY <2>1, IdleTurn, NothingTurns
  <2> QED
    BY <2>1, <2>2, OthersKeepTickets
<1>2. CASE Mild
  BY <1>2, MildSteps, OthersKeepTickets
<1> QED
  BY <1>1, <1>2, AskKeepsTickets, TicketKeepsTickets, ServeKeepsTickets, TreatKeepsTickets,
     StepsDiffer

\* What a request was told stays true while it waits: it has locked the device.
LEMMA StepKeepsAnswers ==
    ASSUME TypeOK, HeldInv, RowInv, DeletesAreAlone, Sig, TicketsMatch, TicketInv, AnswerInv,
           [Next]_vars
    PROVE  AnswerInv'
<1>1. SUFFICES ASSUME "delete" \in scenario', NEW r \in Serving',
                      requests'[r].at = "wait", requests'[r].signature \in answers',
                      requests'[r].serial \notin late'
               PROVE  devices'[requests'[r].serial].origin = requests'[r].to
  BY DEF AnswerInv
<1>2. CASE UNCHANGED vars
  BY <1>1, <1>2 DEF vars, AnswerInv, Serving
<1>3. CASE \E s \in Requests : Ask(s)
  <2>1. PICK s \in Requests : Ask(s)
    BY <1>3
  <2>2. /\ Serving' = Serving \cup {s} /\ \A t \in Serving : requests'[t] = requests[t]
        /\ UNCHANGED <<devices, answers, late>>
        /\ requests'[s].at \in {"lockFrom", "lockGroup"} /\ Begin(requests'[s].op)
    BY <2>1, AskIs
  <2>3. r \in Serving /\ requests'[r] = requests[r] /\ scenario' = scenario
    BY <1>1, <2>2 DEF Begin
  <2> QED
    BY <1>1, <2>2, <2>3 DEF AnswerInv
<1>4. CASE \E s \in Requests : Serve(s) \/ TimeOut(s)
  <2>1. PICK s \in Requests : Serve(s) \/ TimeOut(s)
    BY <1>4
  <2>2. /\ devices' = devices /\ scenario' = scenario /\ r \in Serving
        /\ requests'[r].serial = requests[r].serial /\ requests'[r].to = requests[r].to
        /\ requests'[r].signature = requests[r].signature
    BY <1>1, <2>1, ServeIsFramed DEF ServeFrame
  <2>3. requests[r].signature \in answers /\ requests[r].serial \notin late
    BY <1>1, <2>1, <2>2, ServeAnswers
  <2>4. requests[r].at = "wait"
    BY <2>2, <2>3 DEF TicketInv
  <2> QED
    BY <1>1, <2>2, <2>3, <2>4 DEF AnswerInv
<1>5. CASE \E job \in BagToSet(jobs) : TreatTicket(job)
  <2>1. PICK job \in BagToSet(jobs) : TreatTicket(job)
    BY <1>5
  <2> DEFINE row == Moved(devices[job.serial], job.group)
             told == {job.signature : s \in {q \in Serving : requests[q].signature = job.signature}}
  <2>2. /\ WorkFrame /\ job.kind = "ticket" /\ job.serial \in Devices /\ job.group \in Origins
        /\ Reassigned(job.serial, row) /\ answers' = answers \cup told /\ job \in Tickets
    BY <2>1, TicketIs, AtWork DEF Tickets
  <2>3. row.origin = job.group
    BY <2>2, AtWork, MovedType
  <2>4. \A t \in told : t = job.signature
    OBVIOUS
  <2> HIDE DEF row, told
  <2>5. /\ requests' = requests /\ Serving' = Serving /\ late' = late /\ scenario' = scenario
    BY <2>2 DEF WorkFrame, Serving
  <2>6. requests[r].serial \in Devices
    BY <1>1, <2>5, RequestIs, FieldsOf DEF TypeOK, Proper
  <2>7. CASE requests[r].signature = job.signature
    <3>1. requests[r].serial = job.serial /\ requests[r].to = job.group
      BY <1>1, <2>2, <2>5, <2>7 DEF TicketsMatch
    <3> QED
      BY <2>2, <2>3, <2>5, <3>1 DEF Reassigned
  <2>8. CASE requests[r].signature # job.signature
    <3>1. requests[r].signature \in answers
      BY <1>1, <2>2, <2>4, <2>5, <2>8
    <3>2. devices[requests[r].serial].origin = requests[r].to
      BY <1>1, <2>5, <3>1 DEF AnswerInv
    <3>3. requests[r].serial # job.serial
      <4>1. SUFFICES ASSUME requests[r].serial = job.serial PROVE FALSE
        OBVIOUS
      <4>2. PICK s \in Serving : Awaits(s, job.signature) /\ requests[s].serial = job.serial
        BY <1>1, <2>2, <2>5, <4>1 DEF TicketInv, AskedFor
      <4>3. r # s
        BY <2>8, <4>2 DEF Awaits
      <4>4. requests[r].serial \in requests[r].held /\ requests[s].serial \in requests[s].held
        BY <1>1, <2>5, <4>2 DEF HeldInv, ClaimAts, Awaits
      <4> QED
        BY <1>1, <2>5, <4>1, <4>2, <4>3, <4>4 DEF HeldInv
    <3> QED
      BY <2>2, <2>5, <2>6, <3>2, <3>3 DEF Reassigned
  <2> QED
    BY <2>7, <2>8
<1>6. CASE Mild
  <2>1. /\ UNCHANGED <<requests, answers, late>> /\ (SameOrigins \/ MovesToRoot)
        /\ UNCHANGED <<asked, scenario, alone>> \/ \E op : Begin(op)
    BY <1>6, MildSteps
  <2>2. scenario' = scenario /\ Serving' = Serving
    BY <2>1 DEF Begin, Serving
  <2>3. requests[r].serial \in Devices /\ requests[r].op = "move"
    BY <1>1, <2>1, <2>2, RequestIs, FieldsOf DEF TypeOK, Proper
  <2>4. ~MovesToRoot
    BY <1>1, <2>2, <2>3 DEF DeletesAreAlone, MovesToRoot
  <2> QED
    BY <1>1, <2>1, <2>2, <2>3, <2>4 DEF AnswerInv, SameOrigins
<1> QED
  BY <1>2, <1>3, <1>4, <1>5, <1>6, StepsDiffer

\* The inductive invariant.
Settled ==
    /\ TypeOK /\ HeldInv /\ RowInv /\ Sig /\ DeletesAreAlone
    /\ TicketsMatch /\ TicketInv /\ AnswerInv

LEMMA SettledToBeginWith ==
    ASSUME Init
    PROVE  Settled
<1>1. TypeOK /\ HeldInv /\ RowInv
  BY TypesToBeginWith, LocksToBeginWith
<1>2. Serving = {} /\ answers = {}
  BY DEF Init, Serving
<1>3. ToDo = {}
  BY DEF Init, ToDo, EmptyBag, SetToBag, BagToSet
<1> QED
  BY <1>1, <1>2, <1>3
     DEF Settled, Sig, DeletesAreAlone, TicketsMatch, TicketInv, Tickets, AnswerInv

LEMMA StepKeepsSettled ==
    ASSUME Settled, [Next]_vars
    PROVE  Settled'
BY StepKeepsTypes, StepKeepsLocks, StepKeepsSig, StepKeepsDeletesAlone, StepKeepsMatch,
   StepKeepsTickets, StepKeepsAnswers DEF Settled

LEMMA AlwaysSettled == Spec => []Settled
<1>1. Init => Settled
  BY SettledToBeginWith
<1>2. Settled /\ [Next]_vars => Settled'
  BY StepKeepsSettled
<1> QED
  BY <1>1, <1>2, PTL DEF Spec

\* Two requests that are under way never hold the same group or device, and
\* the group that one has locked exists, with the devices that it has read,
\* until its last write (lockutil, and the writes in controllers/devices.ts
\* and groups.ts).
THEOREM LocksExclude == Spec => [](HeldInv /\ RowInv)
<1>1. Settled => HeldInv /\ RowInv
  BY DEF Settled
<1> QED
  BY <1>1, AlwaysSettled, PTL

\* A ticket is treated once, while its request waits for it, and nobody else is
\* told; unless a request about the same device has timed out.
THEOREM TicketsAreTheirOwn == Spec => []TicketInv
<1>1. Settled => TicketInv
  BY DEF Settled
<1> QED
  BY <1>1, AlwaysSettled, PTL

\* The answer that addOriginGroupDevices gives is true.
THEOREM AnswersAreTrue == Spec => AnswerIsTrue
<1> DEFINE True(r) ==
        /\ At(r, "wait") /\ requests[r].at # requests'[r].at
        /\ "delete" \in scenario /\ requests[r].serial \notin late'
        => devices[requests[r].serial].origin = requests[r].to
<1>1. Settled /\ [Next]_vars => [\A r \in Requests : True(r)]_vars
  <2> SUFFICES ASSUME Settled, Next, NEW r \in Requests,
                      "delete" \in scenario, At(r, "wait"),
                      requests[r].at # requests'[r].at, requests[r].serial \notin late'
               PROVE  devices[requests[r].serial].origin = requests[r].to
    OBVIOUS
  <2>1. TypeOK /\ AnswerInv /\ RowInv
    BY DEF Settled
  <2>2. r \in Serving /\ requests[r].at = "wait"
    BY DEF At, Serving
  <2>3. ~\E s \in Requests : Ask(s)
    BY <2>1, <2>2, AskIs
  <2>4. ~(\E job \in BagToSet(jobs) : TreatTicket(job)) /\ ~Mild
    BY <2>1, MildSteps, TicketIs DEF WorkFrame
  <2>5. PICK s \in Requests : Serve(s) \/ TimeOut(s)
    BY <2>3, <2>4, StepsDiffer
  <2>6. CASE Unlock(s)
    <3>1. s # r
      BY <2>2, <2>6 DEF Unlock, At
    <3>2. requests' = [requests EXCEPT ![s] = None]
      BY <2>6 DEF Unlock
    <3>3. requests'[r] = requests[r]
      BY <3>1, <3>2
    <3> QED
      BY <3>3
  <2>7. CASE ~Unlock(s)
    <3>1. s = r
      BY <2>1, <2>2, <2>5, <2>7, ServeIs DEF Onwards
    <3>2. Answered(r) \/ TimeOut(r)
      BY <2>1, <2>2, <2>5, <2>7, <3>1, ServeIs
    <3>3. requests[r].signature \in answers /\ requests[r].serial \notin late
      BY <2>1, <3>2, WaitIs
    <3> QED
      BY <2>1, <2>2, <3>3 DEF AnswerInv
  <2> QED
    BY <2>6, <2>7
<1>2. AnswerIsTrue <=> [][\A r \in Requests : True(r)]_vars
  BY DEF AnswerIsTrue
<1> HIDE DEF True
<1> QED
  BY <1>1, <1>2, AlwaysSettled, PTL DEF Spec

-----------------------------------------------------------------------------
(***************************************************************************)
(* Where a move of a device stands, if the next one waits until its lists  *)
(* are written: the jobs that are about its origin make a chain, of which  *)
(* every link but the last makes the next.  Other devices move meanwhile.  *)
(***************************************************************************)
\* The origin groups that list a device.
Listed(d) == {g \in Origins : Exists(g) /\ d \in groups[g].devices}

AtHome(d) == Exists(devices[d].origin) /\ Listed(d) = {devices[d].origin}

Resting(d) == Chain(d) = {} /\ AtHome(d)

Ticketed(d) ==
    AtHome(d) /\ \E j \in Singles : Chain(d) = {j} /\ j.kind = "ticket" /\ Exists(j.group)

Orphaned(d) ==
    /\ ~Exists(devices[d].origin) /\ Listed(d) = {}
    /\ \E j \in Singles : Chain(d) = {j} /\ j.kind = "toRoot"

Moving(d) ==
    /\ Exists(devices[d].origin)
    /\ \E j \in Singles :
           /\ Chain(d) = {j} /\ j.kind = "device" /\ j.change.new.origin = devices[d].origin
           /\ Listed(d) = {g \in {j.change.old.origin} : Exists(g)}
           /\ j.group = devices[d].origin \/ (j.group \in Bookings /\ Exists(j.group))

Relisting(d) ==
    /\ Exists(devices[d].origin)
    /\ \E k, l \in Jobs :
           /\ k.kind = "drop" /\ l.kind = "add" /\ Chain(d) \subseteq {k, l} \cap Singles
           /\ k.group # devices[d].origin /\ l.group = devices[d].origin
           /\ Listed(d) = {g \in {k.group} : k \in Chain(d) /\ Exists(g)}
                              \cup {g \in {devices[d].origin} : l \notin Chain(d)}

Stage(d) == Resting(d) \/ Ticketed(d) \/ Orphaned(d) \/ Moving(d) \/ Relisting(d)

MoveScope == {"relist", "schedule", "unbook"} \subseteq scenario

OriginInv == MoveScope => \A d \in Devices : Stage(d)

\* What is done after a booking is over, or has lost a device.
Backwards(j) == j.kind \in {"fromOrigin", "readGroup", "back"}

BackInv ==
    {"schedule", "unbook"} \subseteq scenario /\ (\E j \in ToDo : Backwards(j)) =>
        /\ alone /\ Serving = {}
        /\ \A j \in ToDo : Backwards(j) \/ Unmoved(j)

\* The bookings of a device that are active.
Act(d) == {b \in Bookings : Exists(b) /\ groups[b].active /\ d \in groups[b].devices}

OneBooking(d) == \A b, c \in Act(d) : b = c

JobsAgree(d) ==
    \A j \in ToDo : j.serial = d =>
        /\ j.kind = "current" => j.group \in Act(d)
        /\ Backwards(j) => Act(d) = {} /\ Exists(devices[d].origin)
        /\ j.kind \in {"readGroup", "back"} => j.group = devices[d].origin

Placed(d) ==
    /\ \/ \E j \in ToDo : j.serial = d /\ Backwards(j)
       \/ devices[d].id \in {devices[d].origin} \cup Act(d)
    /\ Act(d) # {} /\ devices[d].id = devices[d].origin =>
           \E j \in ToDo : j.serial = d /\ j.kind = "current"
    /\ devices[d].class = Class(devices[d].id)

Current(d) == OneBooking(d) /\ JobsAgree(d) /\ Placed(d)

CurrentScope ==
    /\ {"schedule", "unbook"} \subseteq scenario
    /\ "relist" \in scenario \/ \A g \in Origins : Exists(g)

CurrentInv == CurrentScope => \A d \in Devices : Current(d)

\* Jobs that are not of a chain leave it as it is.
SameChain(d) == Chain(d)' = Chain(d) /\ Chain(d) \cap Singles \subseteq Singles'

LEMMA ChainKept ==
    ASSUME NEW gone, NEW made, Turn(gone, made), NEW d,
           \A j \in gone \cup made : j.serial = d => ~Chained(j)
    PROVE  SameChain(d)
<1>1. ASSUME NEW j PROVE j \in Chain(d)' <=> j \in ToDo' /\ j.serial = d /\ Chained(j)
  BY DEF Chain, Chained, Unmoved
<1>2. ASSUME NEW j PROVE j \in Chain(d) <=> j \in ToDo /\ j.serial = d /\ Chained(j)
  BY DEF Chain
<1>3. Chain(d)' = Chain(d)
  BY <1>1, <1>2 DEF Turn
<1>4. Chain(d) \cap Singles \subseteq Singles'
  BY <1>2 DEF Turn
<1> QED
  BY <1>3, <1>4 DEF SameChain

\* What a chained job is about.
LEMMA ChainedIs ==
    ASSUME TypeOK, NEW d, NEW j \in Chain(d)
    PROVE  /\ j \in ToDo /\ j \in Jobs /\ j.serial = d /\ d \in Devices
           /\ j.kind \in {"ticket", "toRoot", "device", "drop", "add"}
           /\ j.kind \in {"ticket", "drop", "add"} => j.group \in Origins
           /\ j.kind = "toRoot" => j.group = Root
           /\ j.kind = "device" =>
                  /\ j.change.old \in DeviceRows /\ j.change.new \in DeviceRows
                  /\ j.change.old.origin \in Origins /\ j.change.new.origin \in Origins
                  /\ j.change.old.origin # j.change.new.origin
                  /\ j.group = j.change.new.id
<1>1. j \in ToDo /\ j.serial = d /\ Chained(j)
  BY DEF Chain
<1>2. j \in Jobs
  BY <1>1, ToDoIsLegal
<1>3. d \in Devices
  BY <1>1, <1>2 DEF Jobs
<1>4. ASSUME j.kind = "device"
      PROVE  /\ j.change.old \in DeviceRows /\ j.change.new \in DeviceRows
             /\ j.change.old.origin \in Origins /\ j.change.new.origin \in Origins
             /\ j.change.old.origin # j.change.new.origin
             /\ j.group = j.change.new.id
  <2>1. j.change \in DeviceChanges /\ j = DeviceJob(j.change)
    BY <1>2, <1>4 DEF Jobs
  <2>2. j.change.old \in DeviceRows /\ j.change.new \in DeviceRows
    BY <2>1 DEF DeviceChanges
  <2>3. j.change.old.origin # j.change.new.origin
    BY <1>1, <1>4 DEF Chained, Unmoved
  <2>4. j.group = j.change.new.id
    BY <2>1, DeviceJobIsLegal
  <2>5. j.change.old.origin \in Origins /\ j.change.new.origin \in Origins
    BY <2>2 DEF DeviceRows
  <2> QED
    BY <2>2, <2>3, <2>4, <2>5
<1>5. j.kind \in {"ticket", "toRoot", "device", "drop", "add"}
  BY <1>1 DEF Chained
<1>6. /\ j.kind \in {"ticket", "drop", "add"} => j.group \in Origins
      /\ j.kind = "toRoot" => j.group = Root
  BY <1>2 DEF Jobs
<1> QED
  BY <1>1, <1>2, <1>3, <1>4, <1>5, <1>6

\* The stage of a device that nothing is done about.
LEMMA StageKept ==
    ASSUME TypeOK, NEW d, SameChain(d), devices'[d].origin = devices[d].origin,
           Listed(d)' = Listed(d), devices[d].origin \in Origins,
           \A g \in Origins : Exists(g)' => Exists(g),
           Exists(devices[d].origin) => Exists(devices[d].origin)',
           \A j \in Chain(d) : j.kind = "ticket" /\ Exists(j.group) => Exists(j.group)',
           Chain(d) = {} \/ \A b \in Bookings : Exists(b) => Exists(b)'
    PROVE  Stage(d) => Stage(d)'
<1>1. PICK o \in Origins : o = devices[d].origin /\ o = devices'[d].origin
  OBVIOUS
<1>2. groups'[o] # None <=> groups[o] # None
  BY <1>1 DEF Exists
<1>3. PICK ch : ch = Chain(d) /\ ch = Chain(d)' /\ ch \cap Singles \subseteq Singles'
  BY DEF SameChain
<1>4. PICK ls : ls = Listed(d) /\ ls = Listed(d)'
  OBVIOUS
<1>5. AtHome(d) => AtHome(d)'
  BY <1>1, <1>2, <1>4 DEF AtHome, Exists
<1>6. ASSUME NEW g \in Origins, {h \in {g} : groups[h] # None} \subseteq ls
      PROVE  groups'[g] # None <=> groups[g] # None
  <2>1. g \in ls => groups'[g] # None
    BY <1>4 DEF Listed, Exists
  <2>2. groups[g] = None => groups'[g] = None
    BY DEF Exists
  <2> QED
    BY <1>6, <2>1, <2>2
<1>7. Resting(d) => Resting(d)'
  BY <1>3, <1>5 DEF Resting
<1>8. ASSUME Ticketed(d)
      PROVE  Ticketed(d)'
  <2>1. PICK j \in Singles : ch = {j} /\ j.kind = "ticket" /\ Exists(j.group)
    BY <1>3, <1>8 DEF Ticketed
  <2>4. groups'[j.group] # None
    BY <1>3, <2>1 DEF Exists
  <2>5. AtHome(d)'
    BY <1>5, <1>8 DEF Ticketed
  <2> QED
    BY <1>3, <2>1, <2>4, <2>5 DEF Ticketed, Exists
<1>9. Orphaned(d) => Orphaned(d)'
  BY <1>1, <1>2, <1>3, <1>4 DEF Orphaned, Exists
<1>10. ASSUME Moving(d)
       PROVE  Moving(d)'
  <2>1. PICK j \in Singles :
            /\ ch = {j} /\ j.kind = "device" /\ j.change.new.origin = o
            /\ ls = {g \in {j.change.old.origin} : groups[g] # None}
            /\ j.group = o \/ (j.group \in Bookings /\ groups[j.group] # None)
    BY <1>1, <1>3, <1>4, <1>10 DEF Moving, Exists
  <2>2. j.change.old.origin \in Origins
    BY <1>3, <2>1, ChainedIs
  <2>3. ls = {g \in {j.change.old.origin} : groups'[g] # None}
    BY <1>6, <2>1, <2>2
  <2>4. j.group \in Bookings /\ groups[j.group] # None => groups'[j.group] # None
    BY <1>3, <2>1 DEF Exists
  <2>5. groups[o] # None
    BY <1>1, <1>10 DEF Moving, Exists
  <2> QED
    BY <1>1, <1>2, <1>3, <1>4, <2>1, <2>3, <2>4, <2>5 DEF Moving, Exists
<1>11. ASSUME Relisting(d)
       PROVE  Relisting(d)'
  <2>1. PICK k, l \in Jobs :
            /\ k.kind = "drop" /\ l.kind = "add" /\ Chain(d) \subseteq {k, l} \cap Singles
            /\ k.group # devices[d].origin /\ l.group = devices[d].origin
            /\ Listed(d) = {g \in {k.group} : k \in Chain(d) /\ Exists(g)}
                               \cup {g \in {devices[d].origin} : l \notin Chain(d)}
    BY <1>11 DEF Relisting
  <2>2. /\ k.kind = "drop" /\ l.kind = "add" /\ ch \subseteq {k, l} \cap Singles
        /\ k.group # o /\ l.group = o
        /\ ls = {g \in {k.group} : k \in ch /\ groups[g] # None}
                   \cup {g \in {o} : l \notin ch}
    BY <1>1, <1>3, <1>4, <2>1 DEF Exists
  <2>3. k.group \in Origins
    BY <2>2 DEF Jobs
  <2>4. k \in ch => (groups'[k.group] # None <=> groups[k.group] # None)
    BY <1>6, <2>2, <2>3
  <2>5. ls = {g \in {k.group} : k \in ch /\ groups'[g] # None} \cup {g \in {o} : l \notin ch}
    BY <2>2, <2>4
  <2>6. groups[o] # None
    BY <1>1, <1>11 DEF Relisting, Exists
  <2>7. ch \subseteq {k, l} \cap Singles'
    BY <1>3, <2>2
  <2> QED
    BY <1>1, <1>2, <1>3, <1>4, <2>2, <2>5, <2>6, <2>7 DEF Relisting, Exists
<1> QED
  BY <1>7, <1>8, <1>9, <1>10, <1>11 DEF Stage

\* What a step leaves as it was.
SameLists == \A d \in Devices : Listed(d)' = Listed(d)
SameActs  == \A d \in Devices : Act(d)' = Act(d)
SameGroups(S) == \A g \in S : Exists(g)' <=> Exists(g)

LEMMA SameRows ==
    ASSUME UNCHANGED groups
    PROVE  SameLists /\ SameActs /\ SameGroups(Groups)
BY DEF SameLists, SameActs, SameGroups, Listed, Act, Exists

\* Rows with the same devices, that are as active.
LEMMA LikeRows ==
    ASSUME TypeOK, NEW g \in Groups, groups[g] \in GroupRows, NEW row \in GroupRows,
           row.devices = groups[g].devices, row.active = groups[g].active, Rewritten(g, row)
    PROVE  SameLists /\ SameActs /\ SameGroups(Groups)
<1>1. groups[g] # None /\ groups'[g] # None
  BY RowIs DEF Rewritten
<1>2. ASSUME NEW h \in Groups
      PROVE  /\ Exists(h)' <=> Exists(h)
             /\ groups'[h].devices = groups[h].devices /\ groups'[h].active = groups[h].active
  BY <1>1 DEF Rewritten, Exists
<1>3. ASSUME NEW d PROVE Listed(d)' = Listed(d) /\ Act(d)' = Act(d)
  BY <1>2 DEF Listed, Act, Groups, Exists
<1> QED
  BY <1>2, <1>3 DEF SameLists, SameActs, SameGroups

LEMMA BookingRow ==
    ASSUME TypeOK, NEW b \in Bookings, NEW row, Rewritten(b, row)
    PROVE  SameLists /\ SameGroups(Origins)
<1>1. ASSUME NEW h \in Origins PROVE groups'[h] = groups[h]
  BY BookingsAreNoOrigins DEF Rewritten, Groups
<1> QED
  BY <1>1 DEF SameLists, SameGroups, Listed, Exists

LEMMA OriginRow ==
    ASSUME TypeOK, NEW g \in Origins, NEW row, Rewritten(g, row)
    PROVE  SameActs /\ SameGroups(Bookings)
<1>1. ASSUME NEW h \in Bookings PROVE groups'[h] = groups[h]
  BY BookingsAreNoOrigins DEF Rewritten, Groups
<1> QED
  BY <1>1 DEF SameActs, SameGroups, Act, Exists

LEMMA OriginIs ==
    ASSUME TypeOK, NEW d \in Devices
    PROVE  /\ devices[d] \in DeviceRows /\ devices[d].origin \in Origins
           /\ devices[d].id \in Groups /\ Act(d) \subseteq Bookings
           /\ Origins \cap Bookings = {} /\ Root \in Origins /\ Exists(Root)
BY BookingsAreNoOrigins DEF TypeOK, DevicesOK, GroupsOK, DeviceRows, Act, Origins

\* A device that a step is not about.
LEMMA Undisturbed ==
    ASSUME TypeOK, NEW d \in Devices, NEW gone, NEW made, Turn(gone, made),
           \A j \in gone \cup made : j.serial = d => ~Chained(j),
           devices'[d].origin = devices[d].origin,
           Listed(d)' = Listed(d), SameGroups(Origins),
           SameGroups(Bookings) \/ ToDo = {}
    PROVE  Stage(d) => Stage(d)'
<1>1. SameChain(d)
  BY ChainKept
<1>2. /\ \A g \in Origins : Exists(g)' => Exists(g)
      /\ \A g \in Origins : Exists(g) => Exists(g)'
  BY DEF SameGroups
<1>3. devices[d].origin \in Origins /\ (Exists(devices[d].origin) => Exists(devices[d].origin)')
  BY <1>2, OriginIs DEF Exists
<1>4. Chain(d) = {} \/ \A b \in Bookings : Exists(b) => Exists(b)'
  BY DEF SameGroups, Chain
<1>5. \A j \in Chain(d) : j.kind = "ticket" /\ Exists(j.group) => Exists(j.group)'
  <2> SUFFICES ASSUME NEW j \in Chain(d), j.kind = "ticket", Exists(j.group)
               PROVE  Exists(j.group)'
    OBVIOUS
  <2>1. PICK g \in Origins : g = j.group
    BY ChainedIs
  <2> QED
    BY <1>2, <2>1
<1> QED
  BY <1>1, <1>2, <1>3, <1>4, <1>5, StageKept

\* Nothing to do.
LEMMA NothingToDo ==
    ASSUME TypeOK, NEW d \in Devices, Chain(d) = {}, Stage(d)
    PROVE  Resting(d)
<1>1. CASE Relisting(d)
  <2>1. Exists(devices[d].origin) /\ Listed(d) = {devices[d].origin}
    BY <1>1 DEF Relisting
  <2> QED
    BY <2>1 DEF Resting, AtHome
<1>2. ~Ticketed(d) /\ ~Orphaned(d) /\ ~Moving(d)
  BY DEF Ticketed, Orphaned, Moving
<1> QED
  BY <1>1, <1>2 DEF Stage

\* What does not overlap begins: no move is under way then.
LEMMA RestAtFirst ==
    ASSUME TypeOK, OriginInv, MoveScope, NEW op, Begin(op), op \in scenario \/ alone
    PROVE  ToDo = {} /\ Serving = {} /\ \A d \in Devices : Resting(d)
<1>1. Quiet
  BY BeginIs DEF TypeOK
<1>2. ToDo = {} /\ Serving = {}
  BY <1>1, QuietIs
<1>3. \A d \in Devices : Stage(d) /\ Chain(d) = {}
  BY <1>2 DEF Chain, OriginInv
<1> QED
  BY <1>2, <1>3, NothingToDo

\* Steps that are about no move.
LEMMA OriginKept ==
    ASSUME TypeOK, OriginInv, scenario' = scenario, NEW gone, NEW made, Turn(gone, made),
           \A j \in gone \cup made : ~Chained(j),
           SameOrigins, SameLists, SameGroups(Origins),
           MoveScope => SameGroups(Bookings) \/ ToDo = {}
    PROVE  OriginInv'
<1> SUFFICES ASSUME MoveScope, NEW d \in Devices
             PROVE  Stage(d)'
  BY DEF OriginInv, MoveScope
<1>1. Stage(d)
  BY DEF OriginInv
<1>2. devices'[d].origin = devices[d].origin /\ Listed(d)' = Listed(d)
  BY DEF SameOrigins, SameLists
<1>3. \A j \in gone \cup made : j.serial = d => ~Chained(j)
  OBVIOUS
<1> QED
  BY <1>1, <1>2, <1>3, Undisturbed

-----------------------------------------------------------------------------
(***************************************************************************)
(* What is alone, and what is not overtaken.                               *)
(***************************************************************************)
SamePlaces == \A d \in Devices : /\ devices'[d].id = devices[d].id
                                 /\ devices'[d].origin = devices[d].origin
                                 /\ devices'[d].class = devices[d].class

\* Steps of the worker, of the processor and of the change feeds.
Aside ==
    \/ \E order \in orders : Obey(order)
    \/ \E d \in Devices : WriteOwner(d)
    \/ WatchGroups \/ WatchDevices

LEMMA AsideIs ==
    ASSUME TypeOK, Aside
    PROVE  /\ Turn({}, {}) /\ SamePlaces
           /\ UNCHANGED <<groups, requests, standard, scenario, alone>>
<1>1. UNCHANGED devices => SamePlaces
  BY DEF SamePlaces
<1>2. CASE \E order \in orders : Obey(order)
  BY <1>1, <1>2, ObeyIs
<1>3. CASE \E d \in Devices : WriteOwner(d)
  <2>1. PICK d \in Devices : WriteOwner(d)
    BY <1>3
  <2>2. SamePlaces
    <3>1. PICK row \in DeviceRows :
             /\ row.id = devices[d].id /\ row.origin = devices[d].origin
             /\ row.class = devices[d].class /\ Reassigned(d, row)
      BY <2>1, WriteOwnerIs
    <3> QED
      BY <3>1 DEF SamePlaces, Reassigned
  <2> QED
    BY <2>1, <2>2, WriteOwnerIs
<1>4. CASE WatchGroups \/ WatchDevices
  BY <1>1, <1>4, WatchIs
<1> QED
  BY <1>2, <1>3, <1>4 DEF Aside

\* Operations that are no requests.
Operation(op) ==
    \/ op = "schedule" /\ \E b \in Bookings : Activate(b) \/ Deactivate(b) \/ EndBooking(b)
    \/ op = "unbook" /\ \E b \in Bookings, d \in Devices : Unbook(b, d)
    \/ op = "users" /\ \E g \in Groups, u \in Users : RemoveUser(g, u) \/ AddUser(g, u)
    \/ op = "invite" /\ \E u \in Users, d \in Devices : Invite(u, d)

LEMMA OperationIs ==
    ASSUME TypeOK, NEW op, Operation(op)
    PROVE  /\ TypeOK' /\ Begin(op) /\ UNCHANGED <<devices, requests>> /\ SamePlaces
           /\ alone' = (op \in scenario) /\ UNCHANGED <<standard, scenario>>
<1>1. TypeOK' /\ Begin(op) /\ UNCHANGED <<devices, requests>>
  BY ActivateIs, DeactivateIs, EndBookingIs, UnbookIs, RemoveUserIs, AddUserIs, InviteIs
     DEF Operation, ChangeFrame
<1>2. alone' = (op \in scenario) /\ UNCHANGED <<standard, scenario>>
  BY <1>1, BeginIs DEF TypeOK
<1> QED
  BY <1>1, <1>2 DEF SamePlaces

\* The steps, by who takes them.
LEMMA WhoSteps ==
    ASSUME Next
    PROVE  \/ \E r \in Requests : Ask(r)
           \/ \E r \in Requests : Serve(r) \/ TimeOut(r)
           \/ \E op \in {"schedule", "unbook", "users", "invite"} : Operation(op)
           \/ Aside
           \/ \E job \in BagToSet(jobs) : Work(job)
BY DEF Next, Operation, Aside

\* Who makes jobs that go backwards.
LEMMA WorkMakes ==
    ASSUME TypeOK, NEW job \in BagToSet(jobs), Work(job)
    PROVE  /\ WorkFrame /\ job \in ToDo
           /\ \E made :
                  /\ Turn({job}, made)
                  /\ Backwards(job) \/ Unmoved(job) => \A j \in made : Backwards(j) \/ Unmoved(j)
                  /\ ~Backwards(job) => \A j \in made : ~Backwards(j)
<1> DEFINE Fine(made) ==
        /\ Turn({job}, made)
        /\ Backwards(job) \/ Unmoved(job) => \A j \in made : Backwards(j) \/ Unmoved(j)
        /\ ~Backwards(job) => \A j \in made : ~Backwards(j)
<1>1. job \in ToDo
  BY AtWork
<1>2. ASSUME NEW d, NEW row, NEW j \in Sent(d, row)
      PROVE  /\ ~Backwards(j)
             /\ row.origin = devices[d].origin => Unmoved(j)
  BY SentIs DEF Backwards, Unmoved
<1>3. CASE TreatTicket(job) \/ MoveToRoot(job)
  <2>1. PICK d, row : Turn({job}, Sent(d, row)) /\ WorkFrame
    BY <1>3, TicketIs, ToRootIs
  <2>2. ~(Backwards(job) \/ Unmoved(job))
    BY <1>3 DEF TreatTicket, MoveToRoot, Backwards, Unmoved
  <2>3. Fine(Sent(d, row))
    BY <1>2, <2>1, <2>2
  <2> QED
    BY <1>1, <2>1, <2>3
<1>4. CASE MakeCurrent(job) \/ GoBack(job)
  <2>1. PICK row \in DeviceRows : /\ row.origin = devices[job.serial].origin
                                  /\ Turn({job}, Sent(job.serial, row)) /\ WorkFrame
    <3>1. CASE MakeCurrent(job)
      BY <3>1, CurrentIs
    <3>2. CASE GoBack(job)
      BY <3>2, BackIs
    <3> QED
      BY <1>4, <3>1, <3>2
  <2>2. Fine(Sent(job.serial, row))
    BY <1>2, <2>1
  <2> QED
    BY <1>1, <2>1, <2>2
<1>5. CASE ReadOrigin(job)
  <2>1. WorkFrame /\ Turn({job}, {Job("readGroup", job.serial, devices[job.serial].origin)})
        /\ job.kind = "fromOrigin"
    BY <1>5, ReadOriginIs
  <2>2. Backwards(job) /\ Backwards(Job("readGroup", job.serial, devices[job.serial].origin))
    BY <2>1, JobIs DEF Backwards
  <2>3. Fine({Job("readGroup", job.serial, devices[job.serial].origin)})
    BY <2>1, <2>2
  <2> QED
    BY <1>1, <2>1, <2>3
<1>6. CASE ReadGroup(job)
  <2>1. PICK next : /\ Turn({job}, next) /\ \A j \in next : j.kind = "back"
    BY <1>6, ReadGroupIs
  <2>2. WorkFrame /\ job.kind = "readGroup"
    BY <1>6, ReadGroupIs
  <2>3. Fine(next)
    BY <2>1, <2>2 DEF Backwards
  <2> QED
    BY <1>1, <2>2, <2>3
<1>7. CASE Evict(job) \/ Relist(job)
  <2>1. WorkFrame /\ Turn({job}, {})
    BY <1>7, EvictIs, RelistIs
  <2> QED
    BY <1>1, <2>1
<1>8. CASE TreatDevice(job)
  <2>1. PICK made : made = IF Exists(job.group) /\ job.change.new.origin # job.change.old.origin
                           THEN {Job("drop", job.serial, job.change.old.origin),
                                 Job("add", job.serial, job.change.new.origin)}
                           ELSE {}
    OBVIOUS
  <2>2. WorkFrame /\ Turn({job}, made) /\ job.kind = "device"
    BY <1>8, <2>1, TreatDeviceIs
  <2>3. Unmoved(job) => made = {}
    BY <2>1 DEF Unmoved
  <2>4. \A j \in made : j.kind \in {"drop", "add"}
    BY <2>1, JobIs
  <2>5. Fine(made)
    BY <2>2, <2>3, <2>4 DEF Backwards
  <2> QED
    BY <1>1, <2>2, <2>5
<1> QED
  BY <1>3, <1>4, <1>5, <1>6, <1>7, <1>8 DEF Work

\* What the steps of a request make.
LEMMA ServeMakes ==
    ASSUME TypeOK, RowInv, NEW r \in Requests, Serve(r) \/ TimeOut(r)
    PROVE  /\ ServeFrame /\ SamePlaces /\ r \in Serving /\ UNCHANGED <<standard, scenario, alone>>
           /\ \E made : /\ Turn({}, made) /\ \A j \in made : ~Backwards(j)
                        /\ requests[r].op = "move" /\ ~AskTicket(r) => made = {}
<1> DEFINE Fine(made) == /\ Turn({}, made) /\ \A j \in made : ~Backwards(j)
                         /\ requests[r].op = "move" /\ ~AskTicket(r) => made = {}
<1> SUFFICES \E made : Fine(made)
  <2>1. ServeFrame
    BY ServeIsFramed
  <2>2. r \in Serving
    BY UnlockIs, ServeIs DEF Onwards
  <2> QED
    BY <2>1, <2>2 DEF ServeFrame, SamePlaces
<1>1. CASE LockFrom(r) \/ LockGroup(r) \/ LockDevice(r) \/ LockOrigin(r)
  <2>1. Fine({})
    BY <1>1, LocksAre
  <2> QED
    BY <2>1
<1>2. CASE Check(r) \/ CheckDelete(r) \/ Answered(r) \/ TimeOut(r) \/ Unlock(r)
  <2>1. Fine({})
    BY <1>2, StepsAre
  <2> QED
    BY <2>1
<1>3. CASE Book(r)
  <2>1. requests[r].op = "book"
    BY <1>3, BookWrites
  <2>2. PICK made : Turn({}, made) /\ \A j \in made : j.kind = "current"
    <3>1. ~DeleteRow(r) /\ ~AskTicket(r)
      BY <1>3 DEF Book, DeleteRow, AskTicket, At
    <3> QED
      BY <3>1, ServeTurns
  <2>3. Fine(made)
    BY <2>1, <2>2 DEF Backwards
  <2> QED
    BY <2>3
<1>4. CASE AskTicket(r)
  <2>1. PICK made : /\ Turn({}, made)
                    /\ made = {} \/ made = {[Job("ticket", requests[r].serial, requests[r].to)
                                               EXCEPT !.signature = requests[r].signature]}
    BY <1>4, TicketIsWritten
  <2>2. \A j \in made : j.kind = "ticket"
    BY <2>1 DEF Job
  <2>3. Fine(made)
    BY <1>4, <2>1, <2>2 DEF Backwards
  <2> QED
    BY <2>3
<1>5. CASE DeleteRow(r)
  <2>1. requests[r].op = "delete"
    BY <1>5, RowIsDeleted
  <2>2. PICK made : /\ Turn({}, made)
                    /\ made = {} \/ made = {Job("toRoot", d, Root) :
                                               d \in groups[requests[r].to].devices}
    BY <1>5, RowIsDeleted
  <2>3. \A j \in made : j.kind = "toRoot"
    BY <2>2, JobIs
  <2>4. Fine(made)
    BY <2>1, <2>2, <2>3 DEF Backwards
  <2> QED
    BY <2>4
<1> QED
  BY <1>1, <1>2, <1>3, <1>4, <1>5 DEF Serve

LEMMA StepKeepsBack ==
    ASSUME TypeOK, RowInv, BackInv, [Next]_vars
    PROVE  BackInv'
<1>1. CASE UNCHANGED vars
  <2>1. ToDo' = ToDo /\ Serving' = Serving
    BY <1>1 DEF vars, tables, ToDo, Serving
  <2> QED
    BY <1>1, <2>1 DEF BackInv, vars
<1> DEFINE Before == {"schedule", "unbook"} \subseteq scenario
           Goal == alone' /\ Serving' = {} /\ \A j \in ToDo' : Backwards(j) \/ Unmoved(j)
<1> SUFFICES ASSUME Next, {"schedule", "unbook"} \subseteq scenario',
                    NEW back \in ToDo', Backwards(back)
             PROVE  Goal
  BY <1>1 DEF BackInv, Backwards, Unmoved
<1>2. ASSUME Before, back \in ToDo
      PROVE  alone /\ Serving = {} /\ \A j \in ToDo : Backwards(j) \/ Unmoved(j)
  BY <1>2 DEF BackInv
<1>3. ASSUME NEW s \in Requests, Ask(s) PROVE FALSE
  <2>1. Turn({}, {}) /\ Begin(requests'[s].op)
    BY <1>3, AskIs
  <2>2. scenario' = scenario /\ (alone => Quiet)
    BY <2>1, BeginIs DEF TypeOK
  <2>3. back \in ToDo
    BY <2>1 DEF Turn
  <2> QED
    BY <1>2, <2>2, <2>3, QuietIs
<1>4. ASSUME NEW s \in Requests, Serve(s) \/ TimeOut(s) PROVE FALSE
  <2>1. PICK made : Turn({}, made) /\ \A j \in made : ~Backwards(j)
    BY <1>4, ServeMakes
  <2>2. s \in Serving /\ scenario' = scenario
    BY <1>4, ServeMakes
  <2>3. back \in ToDo
    BY <2>1 DEF Turn
  <2> QED
    BY <1>2, <2>2, <2>3
<1>5. CASE Aside
  <2>1. ToDo' = ToDo /\ UNCHANGED <<requests, scenario, alone>>
    BY <1>5, AsideIs DEF Turn
  <2> QED
    BY <1>2, <2>1 DEF Serving
<1>6. ASSUME NEW job \in BagToSet(jobs), Work(job) PROVE Goal
  <2>1. PICK made :
            /\ Turn({job}, made)
            /\ Backwards(job) \/ Unmoved(job) => \A j \in made : Backwards(j) \/ Unmoved(j)
            /\ ~Backwards(job) => \A j \in made : ~Backwards(j)
    BY <1>6, WorkMakes
  <2>2. job \in ToDo /\ UNCHANGED <<requests, scenario, alone>>
    BY <1>6, WorkMakes DEF WorkFrame
  <2>3. back \in ToDo \/ Backwards(job)
    BY <2>1 DEF Turn
  <2>4. alone /\ Serving = {} /\ \A j \in ToDo : Backwards(j) \/ Unmoved(j)
    BY <2>2, <2>3 DEF BackInv
  <2>5. Serving' = {}
    BY <2>2, <2>4 DEF Serving
  <2> QED
    BY <2>1, <2>2, <2>4, <2>5 DEF Turn
<1>7. ASSUME NEW op \in {"schedule", "unbook", "users", "invite"}, Operation(op) PROVE Goal
  <2>1. /\ TypeOK' /\ Begin(op) /\ UNCHANGED requests /\ alone' = (op \in scenario)
        /\ scenario' = scenario
    BY <1>7, OperationIs
  <2>2. op \in scenario \/ alone => Quiet
    BY <2>1, BeginIs DEF TypeOK
  <2>3. Serving' = Serving
    BY <2>1 DEF Serving
  <2>4. back \notin ToDo
    BY <1>2, <2>1, <2>2, QuietIs
  <2>5. ASSUME NEW made, Turn({}, made), \A j \in made : ~Backwards(j) PROVE FALSE
    BY <2>4, <2>5 DEF Turn
  <2>6. CASE op \in {"users", "invite"}
    <3>1. ASSUME NEW g \in Groups, NEW u \in Users, RemoveUser(g, u) PROVE FALSE
      <4>1. PICK made : /\ Turn({}, made)
                        /\ made = IF groups[g].active
                                  THEN {[Job("evict", d, g) EXCEPT !.user = u] :
                                           d \in groups[g].devices}
                                  ELSE {}
        BY <3>1, RemoveUserIs
      <4>2. \A j \in made : j.kind = "evict"
        BY <4>1 DEF Job
      <4> QED
        BY <2>5, <4>1, <4>2 DEF Backwards
    <3>2. PICK none : none = {}
      OBVIOUS
    <3>3. ~Turn({}, none)
      BY <2>5, <3>2
    <3> QED
      BY <1>7, <2>6, <3>1, <3>2, <3>3, AddUserIs, InviteIs DEF Operation
  <2>7. CASE op \in {"schedule", "unbook"}
    <3>1. alone' /\ ToDo = {} /\ Serving = {}
      BY <2>1, <2>2, <2>7, QuietIs
    <3>2. ASSUME NEW b \in Bookings, Activate(b) PROVE FALSE
      <4>1. PICK made : Turn({}, made) /\ made = {Job("current", d, b) : d \in groups[b].devices}
        BY <3>2, ActivateIs
      <4>2. \A j \in made : ~Backwards(j)
        BY <4>1, JobIs DEF Backwards
      <4> QED
        BY <2>5, <4>1, <4>2
    <3>3. ASSUME NEW made, Turn({}, made), \A j \in made : Backwards(j) PROVE Goal
      BY <2>3, <3>1, <3>3 DEF Turn
    <3>4. \A d : Backwards(Job("fromOrigin", d, None))
      BY JobIs DEF Backwards
    <3>5. ASSUME NEW b \in Bookings, Deactivate(b) \/ EndBooking(b) PROVE Goal
      <4>1. PICK made : /\ Turn({}, made)
                        /\ \/ made = {Job("fromOrigin", d, None) : d \in groups[b].devices}
                           \/ made = {}
        BY <3>5, DeactivateIs, EndBookingIs
      <4>2. \A j \in made : Backwards(j)
        BY <3>4, <4>1
      <4> QED
        BY <3>3, <4>1, <4>2
    <3>6. ASSUME NEW b \in Bookings, NEW d \in Devices, Unbook(b, d) PROVE Goal
      <4>1. PICK made : Turn({}, made) /\ (made = {Job("fromOrigin", d, None)} \/ made = {})
        BY <3>6, UnbookIs
      <4>2. \A j \in made : Backwards(j)
        BY <3>4, <4>1
      <4> QED
        BY <3>3, <4>1, <4>2
    <3> QED
      BY <1>7, <2>7, <3>2, <3>5, <3>6 DEF Operation
  <2> QED
    BY <1>7, <2>6, <2>7
<1> QED
  BY <1>3, <1>4, <1>5, <1>6, <1>7, WhoSteps

-----------------------------------------------------------------------------
(***************************************************************************)
(* The moves: steps that are about none.                                   *)
(***************************************************************************)
LEMMA AskKeepsOrigins ==
    ASSUME TypeOK, OriginInv, NEW r \in Requests, Ask(r)
    PROVE  OriginInv'
<1>1. Turn({}, {}) /\ UNCHANGED <<groups, devices>> /\ Begin(requests'[r].op)
  BY AskIs
<1>2. scenario' = scenario
  BY <1>1, BeginIs DEF TypeOK
<1>3. SameOrigins /\ SameLists /\ SameGroups(Groups)
  BY <1>1, SameRows DEF SameOrigins
<1>4. SameGroups(Origins) /\ SameGroups(Bookings)
  BY <1>3 DEF SameGroups, Groups
<1>5. PICK none : none = {}
  OBVIOUS
<1>6. Turn(none, none) /\ \A j \in none \cup none : ~Chained(j)
  BY <1>1, <1>5
<1> QED
  BY <1>2, <1>3, <1>4, <1>6, OriginKept

LEMMA AsideKeepsOrigins ==
    ASSUME TypeOK, OriginInv, Aside
    PROVE  OriginInv'
<1>1. Turn({}, {}) /\ SamePlaces /\ UNCHANGED <<groups, requests, scenario, alone>>
  BY AsideIs
<1>2. SameOrigins /\ SameLists /\ SameGroups(Groups)
  BY <1>1, SameRows DEF SameOrigins, SamePlaces
<1>3. SameGroups(Origins) /\ SameGroups(Bookings)
  BY <1>2 DEF SameGroups, Groups
<1>4. PICK none : none = {}
  OBVIOUS
<1>5. Turn(none, none) /\ \A j \in none \cup none : ~Chained(j)
  BY <1>1, <1>4
<1> QED
  BY <1>1, <1>2, <1>3, <1>5, OriginKept

\* A request's steps but the ticket and the deletion.
LEMMA ServeKeepsOrigins ==
    ASSUME TypeOK, RowInv, OriginInv, NEW r \in Requests, Serve(r) \/ TimeOut(r),
           ~AskTicket(r), ~DeleteRow(r)
    PROVE  OriginInv'
<1>1. PICK made : Turn({}, made) /\ \A j \in made : j.kind = "current"
  BY ServeTurns
<1>2. ServeFrame /\ Serving' \subseteq Serving /\ UNCHANGED <<scenario, alone>>
      /\ \A s \in Serving' : requests'[s].op = requests[s].op
  BY ServeIsFramed, ServeMakes
<1>4. SameOrigins
  BY <1>2 DEF SameOrigins, ServeFrame
<1>5. SameLists /\ SameGroups(Origins) /\ SameGroups(Bookings)
  <2>1. CASE UNCHANGED groups
    <3>1. SameLists /\ SameGroups(Groups)
      BY <2>1, SameRows
    <3> QED
      BY <3>1 DEF SameGroups, Groups
  <2>2. CASE Book(r)
    <3>1. CASE UNCHANGED groups
      BY <2>1, <3>1
    <3>2. CASE ~UNCHANGED groups
      <4>1. /\ requests[r].to \in Bookings
            /\ groups[requests[r].to] \in GroupRows
            /\ \E row \in GroupRows : Rewritten(requests[r].to, row)
        BY <2>2, <3>2, BookWrites
      <4>2. PICK row \in GroupRows : Rewritten(requests[r].to, row)
        BY <4>1
      <4>3. SameLists /\ SameGroups(Origins)
        BY <4>1, <4>2, BookingRow
      <4>4. SameGroups(Bookings)
        <5>1. groups[requests[r].to] # None /\ groups'[requests[r].to] # None
          BY <4>1, <4>2, RowIs DEF Rewritten
        <5> QED
          BY <4>2, <5>1 DEF SameGroups, Rewritten, Exists, Groups
      <4> QED
        BY <4>3, <4>4
    <3> QED
      BY <3>1, <3>2
  <2>3. Book(r) \/ UNCHANGED groups
    BY LocksAre, StepsAre DEF Serve
  <2> QED
    BY <2>1, <2>2, <2>3
<1>6. PICK none : none = {}
  OBVIOUS
<1>7. Turn(none, made) /\ \A j \in none \cup made : ~Chained(j)
  BY <1>1, <1>6 DEF Chained, Unmoved
<1> QED
  BY <1>2, <1>4, <1>5, <1>7, OriginKept

\* Operations on bookings and users.
LEMMA OperationKeepsOrigins ==
    ASSUME TypeOK, OriginInv, NEW op \in {"schedule", "unbook", "users", "invite"},
           Operation(op)
    PROVE  OriginInv'
<1>1. /\ Begin(op) /\ UNCHANGED <<devices, requests, scenario>> /\ SameOrigins
  BY OperationIs DEF SamePlaces, SameOrigins
<1> SUFFICES ASSUME MoveScope
             PROVE  OriginInv'
  BY <1>1 DEF OriginInv, MoveScope
<1>3. op \in {"schedule", "unbook"} => ToDo = {}
  <2>1. op \in {"schedule", "unbook"} => Quiet
    BY <1>1, BeginIs DEF TypeOK, MoveScope
  <2> QED
    BY <2>1, QuietIs
<1>4. ASSUME NEW made, Turn({}, made), \A j \in made : ~Chained(j),
             SameLists, SameGroups(Origins), SameGroups(Bookings) \/ ToDo = {}
      PROVE  OriginInv'
  <2>1. PICK none : none = {}
    OBVIOUS
  <2>2. Turn(none, made) /\ \A j \in none \cup made : ~Chained(j)
    BY <1>4, <2>1
  <2> QED
    BY <1>1, <1>4, <2>2, OriginKept
<1>5. ASSUME NEW b \in Bookings, NEW row, Rewritten(b, row), op \in {"schedule", "unbook"},
             NEW made, Turn({}, made), \A j \in made : j.kind \in {"current", "fromOrigin"}
      PROVE  OriginInv'
  <2>1. SameLists /\ SameGroups(Origins)
    BY <1>5, BookingRow
  <2>2. \A j \in made : ~Chained(j)
    BY <1>5 DEF Chained, Unmoved
  <2> QED
    BY <1>3, <1>4, <1>5, <2>1, <2>2
<1>6. \A d, g : Job("current", d, g).kind = "current" /\ Job("fromOrigin", d, g).kind = "fromOrigin"
  BY JobIs
<1>7. CASE op = "schedule"
  <2>1. PICK b \in Bookings : Activate(b) \/ Deactivate(b) \/ EndBooking(b)
    BY <1>7 DEF Operation
  <2>2. CASE Activate(b)
    <3>1. PICK row : Rewritten(b, row)
      BY <2>2, ActivateIs
    <3>2. PICK made : Turn({}, made) /\ made = {Job("current", d, b) : d \in groups[b].devices}
      BY <2>2, ActivateIs
    <3> QED
      BY <1>5, <1>6, <1>7, <3>1, <3>2
  <2>3. CASE Deactivate(b) \/ EndBooking(b)
    <3>1. PICK row : Rewritten(b, row)
      BY <2>3, DeactivateIs, EndBookingIs
    <3>2. PICK made : /\ Turn({}, made)
                      /\ \/ made = {Job("fromOrigin", d, None) : d \in groups[b].devices}
                         \/ made = {}
      BY <2>3, DeactivateIs, EndBookingIs
    <3> QED
      BY <1>5, <1>6, <1>7, <3>1, <3>2
  <2> QED
    BY <2>1, <2>2, <2>3
<1>8. CASE op = "unbook"
  <2>1. PICK b \in Bookings, d \in Devices : Unbook(b, d)
    BY <1>8 DEF Operation
  <2>2. PICK row : Rewritten(b, row)
    BY <2>1, UnbookIs
  <2>3. PICK made : Turn({}, made) /\ (made = {Job("fromOrigin", d, None)} \/ made = {})
    BY <2>1, UnbookIs
  <2> QED
    BY <1>5, <1>6, <1>8, <2>2, <2>3
<1>9. CASE op = "users"
  <2>1. PICK g \in Groups, u \in Users : RemoveUser(g, u) \/ AddUser(g, u)
    BY <1>9 DEF Operation
  <2>2. groups[g] \in GroupRows
    BY <2>1, RemoveUserIs, AddUserIs
  <2>3. PICK row \in GroupRows : /\ row.devices = groups[g].devices
                                 /\ row.active = groups[g].active /\ Rewritten(g, row)
    BY <2>1, RemoveUserIs, AddUserIs
  <2>4. SameLists /\ SameGroups(Origins) /\ SameGroups(Bookings)
    <3>1. SameLists /\ SameGroups(Groups)
      BY <2>2, <2>3, LikeRows
    <3> QED
      BY <3>1 DEF SameGroups, Groups
  <2>5. PICK made : /\ Turn({}, made)
                    /\ \/ made = {[Job("evict", d, g) EXCEPT !.user = u] : d \in groups[g].devices}
                       \/ made = {}
    BY <2>1, RemoveUserIs, AddUserIs
  <2>6. ASSUME NEW j \in made PROVE j.kind = "evict"
    <3>1. PICK d \in groups[g].devices : j = [Job("evict", d, g) EXCEPT !.user = u]
      BY <2>5
    <3> QED
      BY <3>1 DEF Job
  <2> QED
    BY <1>4, <2>4, <2>5, <2>6 DEF Chained, Unmoved
<1>10. CASE op = "invite"
  <2>1. Turn({}, {}) /\ UNCHANGED groups
    BY <1>10, InviteIs DEF Operation
  <2>2. SameLists /\ SameGroups(Groups)
    BY <2>1, SameRows
  <2>3. SameGroups(Origins) /\ SameGroups(Bookings)
    BY <2>2 DEF SameGroups, Groups
  <2>4. PICK none : none = {}
    OBVIOUS
  <2>5. Turn({}, none) /\ \A j \in none : ~Chained(j)
    BY <2>1, <2>4
  <2> QED
    BY <1>4, <2>2, <2>3, <2>5
<1> QED
  BY <1>7, <1>8, <1>9, <1>10

\* A job that is not of a chain.
LEMMA QuietWorkKeepsOrigins ==
    ASSUME TypeOK, OriginInv, NEW job \in BagToSet(jobs), Work(job), ~Chained(job)
    PROVE  OriginInv'
<1> DEFINE Fine(made) == Turn({job}, made) /\ \A j \in made : ~Chained(j)
<1>1. job.kind \notin {"ticket", "toRoot", "drop", "add"}
      /\ (job.kind = "device" => job.change.old.origin = job.change.new.origin)
  BY DEF Chained, Unmoved
<1>2. WorkFrame
  BY WorkMakes
<1>4. SameOrigins /\ UNCHANGED groups /\ \E made : Fine(made)
  <2>1. UNCHANGED devices => SameOrigins
    BY DEF SameOrigins
  <2>2. CASE MakeCurrent(job) \/ GoBack(job)
    <3>1. PICK row \in DeviceRows : /\ row.origin = devices[job.serial].origin
                                    /\ Reassigned(job.serial, row)
                                    /\ Turn({job}, Sent(job.serial, row))
      <4>1. CASE MakeCurrent(job)
        BY <4>1, CurrentIs
      <4>2. CASE GoBack(job)
        BY <4>2, BackIs
      <4> QED
        BY <2>2, <4>1, <4>2
    <3>2. UNCHANGED groups /\ job.serial \in Devices
      BY <2>2, CurrentIs, BackIs
    <3>3. SameOrigins
      BY <3>1, <3>2, ReassignedOrigin
    <3>4. Fine(Sent(job.serial, row))
      BY <3>1, SentIs DEF Chained, Unmoved
    <3> QED
      BY <3>2, <3>3, <3>4
  <2>3. CASE ReadOrigin(job)
    <3>1. Fine({Job("readGroup", job.serial, devices[job.serial].origin)})
      BY <2>3, ReadOriginIs, JobIs DEF Chained, Unmoved
    <3> QED
      BY <2>1, <2>3, <3>1, ReadOriginIs
  <2>4. CASE ReadGroup(job)
    <3>1. PICK next : Turn({job}, next) /\ \A j \in next : j.kind = "back"
      BY <2>4, ReadGroupIs
    <3>2. Fine(next)
      BY <3>1 DEF Chained, Unmoved
    <3> QED
      BY <2>1, <2>4, <3>2, ReadGroupIs
  <2>5. CASE Evict(job)
    BY <2>1, <2>5, EvictIs
  <2>6. CASE TreatDevice(job)
    <3>1. UNCHANGED <<groups, devices>> /\ job.kind = "device"
      BY <2>6, TreatDeviceIs
    <3>2. Turn({job}, {})
      BY <1>1, <2>6, <3>1, TreatDeviceIs
    <3> QED
      BY <2>1, <3>1, <3>2
  <2> QED
    BY <1>1, <2>2, <2>3, <2>4, <2>5, <2>6 DEF Work, TreatTicket, MoveToRoot, Relist
<1>5. PICK made : Fine(made)
  BY <1>4
<1>6. SameLists /\ SameGroups(Groups)
  BY <1>4, SameRows
<1>7. SameGroups(Origins) /\ SameGroups(Bookings)
  BY <1>6 DEF SameGroups, Groups
<1>8. PICK gone : gone = {job}
  OBVIOUS
<1>9. Turn(gone, made) /\ \A j \in gone \cup made : ~Chained(j)
  BY <1>5, <1>8
<1> QED
  BY <1>2, <1>4, <1>6, <1>7, <1>9, OriginKept DEF WorkFrame

-----------------------------------------------------------------------------
(***************************************************************************)
(* The moves: from one stage to the next.                                  *)
(***************************************************************************)
\* The chain of a device, after a step that makes jobs about it.
LEMMA ChainMade ==
    ASSUME NEW gone, NEW made, Turn(gone, made), NEW d, NEW ch, ch = Chain(d),
           \A j \in made : j.serial = d /\ Chained(j) /\ j \notin ch
    PROVE  /\ Chain(d)' \subseteq ch \cup made
           /\ (ch \ gone) \cup made \subseteq Chain(d)'
           /\ gone \cap ch \cap Singles \cap Chain(d)' = {}
           /\ (ch \cap Singles) \ gone \subseteq Singles'
           /\ made \subseteq Singles'
<1>1. ASSUME NEW j PROVE j \in Chain(d)' <=> j \in ToDo' /\ j.serial = d /\ Chained(j)
  BY DEF Chain, Chained, Unmoved
<1>2. ASSUME NEW j PROVE j \in ch <=> j \in ToDo /\ j.serial = d /\ Chained(j)
  BY DEF Chain
<1> QED
  BY <1>1, <1>2 DEF Turn

\* A device that a job of another device's chain is about.
LEMMA OthersKeepStage ==
    ASSUME TypeOK, NEW d \in Devices, NEW gone, NEW made, Turn(gone, made),
           \A j \in gone \cup made : j.serial # d,
           devices'[d].origin = devices[d].origin,
           Listed(d)' = Listed(d), SameGroups(Groups)
    PROVE  Stage(d) => Stage(d)'
<1>1. SameGroups(Origins) /\ SameGroups(Bookings)
  BY DEF SameGroups, Groups
<1> QED
  BY <1>1, Undisturbed

\* A request writes its ticket: nothing is done about the origin of its device.
LEMMA TicketKeepsOrigins ==
    ASSUME TypeOK, OriginInv, NEW r \in Requests, AskTicket(r)
    PROVE  OriginInv'
<1>1. PICK x, g, n : x = requests[r].serial /\ g = requests[r].to /\ n = requests[r].signature
  OBVIOUS
<1> DEFINE ticket == [Job("ticket", x, g) EXCEPT !.signature = n]
<1>2. ServeFrame /\ g \in Origins /\ x \in Devices
  BY <1>1, TicketIsWritten
<1>3. UNCHANGED <<devices, scenario>>
  BY <1>2 DEF ServeFrame
<1> SUFFICES ASSUME MoveScope
             PROVE  \A d \in Devices : Stage(d)'
  BY <1>3 DEF OriginInv, MoveScope
<1>4. \A d \in Devices : Stage(d)
  BY DEF OriginInv
<1>5. Chain(x) = {}
  BY <1>1 DEF AskTicket, MoveScope
<1>6. Resting(x)
  BY <1>2, <1>4, <1>5, NothingToDo
<1>7. SameLists /\ SameGroups(Groups)
  <2>1. CASE UNCHANGED groups
    BY <2>1, SameRows
  <2>2. CASE ~UNCHANGED groups
    <3>1. groups[g] \in GroupRows /\ g \in Groups
      BY <1>1, <1>2, <2>2, TicketIsWritten DEF Groups
    <3>2. PICK row \in GroupRows : /\ row.devices = groups[g].devices
                                   /\ row.active = groups[g].active
                                   /\ Rewritten(g, row)
      BY <1>1, <2>2, TicketIsWritten
    <3> QED
      BY <3>1, <3>2, LikeRows
  <2> QED
    BY <2>1, <2>2
<1>8. ASSUME NEW d \in Devices, NEW made, Turn({}, made), \A j \in made : j.serial # d
      PROVE  Stage(d)'
  <2>1. devices'[d].origin = devices[d].origin /\ Listed(d)' = Listed(d)
    BY <1>3, <1>7 DEF SameLists
  <2>2. PICK none : none = {}
    OBVIOUS
  <2>3. Turn(none, made) /\ \A j \in none \cup made : j.serial # d
    BY <1>8, <2>2
  <2> QED
    BY <1>4, <1>7, <2>1, <2>3, OthersKeepStage
<1>9. ASSUME NEW made, Turn({}, made), made = {ticket}, Exists(g)
      PROVE  Stage(x)'
  <2>1. PICK j : j = ticket
    OBVIOUS
  <2>2. made = {j} /\ j.kind = "ticket" /\ j.serial = x /\ j.group = g
    BY <1>9, <2>1 DEF Job
  <2>3. Chained(j)
    BY <2>2 DEF Chained
  <2>4. PICK none : none = {}
    OBVIOUS
  <2>5. none = Chain(x) /\ Turn(none, made)
    BY <1>5, <1>9, <2>4
  <2>6. \A k \in made : k.serial = x /\ Chained(k) /\ k \notin none
    BY <2>2, <2>3, <2>4
  <2>7. /\ Chain(x)' \subseteq none \cup made /\ (none \ none) \cup made \subseteq Chain(x)'
        /\ made \subseteq Singles'
    BY <2>5, <2>6, ChainMade
  <2>8. Chain(x)' = {j} /\ j \in Singles'
    BY <2>2, <2>4, <2>7
  <2>9. AtHome(x)'
    <3>1. PICK o \in Origins : o = devices[x].origin /\ o = devices'[x].origin
      BY <1>2, <1>3, OriginIs
    <3>2. Exists(o) /\ Listed(x) = {o}
      BY <1>2, <1>6, <3>1 DEF Resting, AtHome
    <3>3. Exists(o)' /\ Listed(x)' = {o}
      BY <1>2, <1>7, <3>1, <3>2 DEF SameLists, SameGroups, Groups
    <3> QED
      BY <3>1, <3>3 DEF AtHome, Exists
  <2>10. Exists(g)'
    BY <1>2, <1>7, <1>9 DEF SameGroups, Groups
  <2>11. Ticketed(x)'
    BY <2>2, <2>8, <2>9, <2>10 DEF Ticketed, Exists
  <2> QED
    BY <2>11 DEF Stage
<1>10. CASE Turn({}, {})
  <2>1. PICK none : none = {}
    OBVIOUS
  <2>2. Turn({}, none) /\ \A d \in Devices : \A j \in none : j.serial # d
    BY <1>10, <2>1
  <2> QED
    BY <1>8, <2>2
<1>11. CASE ~Turn({}, {})
  <2>1. PICK made : Turn({}, made) /\ made = {ticket}
    BY <1>1, <1>11, TicketIsWritten
  <2>2. Exists(g)
    BY <1>1, <1>11, TicketIsWritten
  <2>3. \A j \in made : j.serial = x
    BY <2>1 DEF Job
  <2>4. Stage(x)'
    BY <1>9, <2>1, <2>2
  <2>5. ASSUME NEW d \in Devices PROVE Stage(d)'
    BY <1>8, <2>1, <2>3, <2>4
  <2> QED
    BY <2>5
<1> QED
  BY <1>10, <1>11

\* An origin group is deleted: its devices go to the root.
LEMMA DeletionKeepsOrigins ==
    ASSUME TypeOK, HeldInv, TicketsMatch, OriginInv, NEW r \in Requests, DeleteRow(r)
    PROVE  OriginInv'
<1>1. PICK g : g = requests[r].to
  OBVIOUS
<1>2. /\ ServeFrame /\ r \in Serving /\ requests[r].at = "deleteRow"
      /\ g \in Origins \ {Root} /\ Rewritten(g, None)
  BY <1>1, RowIsDeleted DEF Onwards
<1>3. UNCHANGED <<devices, scenario>>
  BY <1>2 DEF ServeFrame
<1> SUFFICES ASSUME MoveScope, NEW d \in Devices
             PROVE  Stage(d)'
  BY <1>3 DEF OriginInv, MoveScope
<1>4. /\ Stage(d)
      /\ devices[d].origin = g \/ (Exists(g) /\ d \in groups[g].devices) => Resting(d)
  <2>1. Stage(d)
    BY DEF OriginInv
  <2>2. devices[d].origin = g \/ (Exists(g) /\ d \in groups[g].devices) => Chain(d) = {}
    BY <1>1 DEF DeleteRow, Concerned, MoveScope
  <2> QED
    BY <2>1, <2>2, NothingToDo
<1>10. ASSUME NEW j \in ToDo, j.kind = "ticket", j.group = g PROVE FALSE
  <2>1. Awaited(j)
    BY <1>1, <1>10 DEF DeleteRow, MoveScope
  <2>2. PICK s \in Serving : At(s, "wait") /\ requests[s].signature = j.signature
    BY <2>1 DEF Awaited
  <2>3. requests[s].at = "wait" /\ requests[s].to = g
    BY <1>10, <2>2 DEF TicketsMatch, Tickets, At
  <2>4. g \in requests[s].held /\ g \in requests[r].held /\ r # s
    BY <1>1, <1>2, <2>3 DEF HeldInv, WorkAts, ClaimAts
  <2> QED
    BY <1>2, <2>4 DEF HeldInv
<1>5. PICK lost : lost = IF Exists(g) THEN groups[g].devices ELSE {}
  OBVIOUS
<1>6. PICK made : Turn({}, made) /\ made = {Job("toRoot", e, Root) : e \in lost}
  <2>1. CASE Exists(g)
    <3>1. Turn({}, {Job("toRoot", e, Root) : e \in groups[g].devices})
      BY <1>1, <2>1, RowIsDeleted
    <3> QED
      BY <1>5, <2>1, <3>1
  <2>2. CASE ~Exists(g)
    <3>1. Turn({}, {})
      BY <1>1, <2>2, RowIsDeleted
    <3>2. {Job("toRoot", e, Root) : e \in lost} = {}
      BY <1>5, <2>2
    <3> QED
      BY <3>1, <3>2
  <2> QED
    BY <2>1, <2>2
<1>7. /\ \A h \in Origins : Exists(h)' <=> Exists(h) /\ h # g
      /\ \A b \in Bookings : Exists(b)' <=> Exists(b)
      /\ Listed(d)' = Listed(d) \ {g}
      /\ d \in lost <=> g \in Listed(d)
  <2>1. \A h \in Groups \ {g} : groups'[h] = groups[h]
    BY <1>2 DEF Rewritten
  <2>2. groups'[g] = None /\ g \in Groups /\ g \notin Bookings
    BY <1>2, BookingsAreNoOrigins DEF Rewritten, Groups
  <2> QED
    BY <1>2, <1>5, <2>1, <2>2 DEF Exists, Listed, Groups
<1>8. CASE d \notin lost
  <2>1. Listed(d)' = Listed(d)
    BY <1>7, <1>8
  <2>2. PICK none : none = {}
    OBVIOUS
  <2>3. Turn(none, made) /\ \A j \in none \cup made : j.serial = d => ~Chained(j)
    BY <1>6, <1>8, <2>2, JobIs
  <2>4. SameChain(d)
    BY <2>3, ChainKept
  <2>5. devices[d].origin # g
    BY <1>2, <1>4, <1>7, <1>8 DEF Resting, AtHome
  <2>6. Exists(devices[d].origin) => Exists(devices[d].origin)'
    BY <1>3, <1>7, <2>5, OriginIs DEF Exists
  <2>7. /\ devices'[d].origin = devices[d].origin /\ devices[d].origin \in Origins
        /\ \A h \in Origins : Exists(h)' => Exists(h)
        /\ \A b \in Bookings : Exists(b) => Exists(b)'
    BY <1>3, <1>7, OriginIs
  <2>8. ASSUME NEW j \in Chain(d), j.kind = "ticket", Exists(j.group) PROVE Exists(j.group)'
    <3>1. j \in ToDo /\ j.group \in Origins
      BY <2>8, ChainedIs
    <3>2. PICK h \in Origins : h = j.group
      BY <3>1
    <3>3. h # g
      BY <1>10, <2>8, <3>1, <3>2
    <3> QED
      BY <1>7, <2>8, <3>2, <3>3
  <2> QED
    BY <1>4, <2>1, <2>4, <2>6, <2>7, <2>8, StageKept
<1>9. CASE d \in lost
  <2>1. Resting(d) /\ devices[d].origin = g /\ Listed(d) = {g}
    <3>1. Resting(d)
      BY <1>4, <1>5, <1>9
    <3> QED
      BY <1>7, <1>9, <3>1 DEF Resting, AtHome
  <2>2. PICK j : j = Job("toRoot", d, Root)
    OBVIOUS
  <2>3. j.kind = "toRoot" /\ j.serial = d /\ Chained(j) /\ j \in made
    BY <1>6, <1>9, <2>2, JobIs DEF Chained
  <2>4. ASSUME NEW k \in made, k.serial = d PROVE k = j
    <3>1. PICK e \in lost : k = Job("toRoot", e, Root)
      BY <1>6
    <3>2. e = d
      BY <2>4, <3>1, JobIs
    <3> QED
      BY <2>2, <3>1, <3>2
  <2>5. Chain(d) = {}
    BY <2>1 DEF Resting
  <2>6. Chain(d)' = {j} /\ j \in Singles'
    <3>1. ASSUME NEW k PROVE k \in Chain(d)' <=> k \in ToDo' /\ k.serial = d /\ Chained(k)
      BY DEF Chain, Chained, Unmoved
    <3>2. j \notin ToDo
      BY <2>3, <2>5 DEF Chain
    <3>3. j \in ToDo' /\ j \in Singles'
      BY <1>6, <2>3, <3>2 DEF Turn
    <3>4. ASSUME NEW k \in Chain(d)' PROVE k = j
      <4>1. k \in ToDo' /\ k.serial = d /\ Chained(k)
        BY <3>1, <3>4
      <4>2. k \notin ToDo
        BY <2>5, <4>1 DEF Chain
      <4> QED
        BY <1>6, <2>4, <4>1, <4>2 DEF Turn
    <3> QED
      BY <2>3, <3>1, <3>3, <3>4
  <2>7. ~Exists(devices[d].origin)' /\ Listed(d)' = {}
    BY <1>3, <1>7, <2>1, <1>2 DEF Exists
  <2>8. Orphaned(d)'
    BY <2>3, <2>6, <2>7 DEF Orphaned
  <2> QED
    BY <2>8 DEF Stage
<1> QED
  BY <1>8, <1>9

\* A device whose move does not go backwards is in its origin or its booking.
LEMMA WhereItIs ==
    ASSUME TypeOK, BackInv, CurrentInv, CurrentScope, NEW job \in ToDo,
           ~Backwards(job), ~Unmoved(job), NEW d \in Devices
    PROVE  devices[d].id \in {devices[d].origin} \cup Act(d)
<1>1. \A j \in ToDo : ~Backwards(j)
  BY DEF BackInv, CurrentScope
<1> QED
  BY <1>1 DEF CurrentInv, Current, Placed

\* The origin of a device is written: the watcher is to see it.
LEMMA MoveBegins ==
    ASSUME TypeOK, NEW d \in Devices, NEW job \in Singles, Chain(d) = {job},
           job.kind # "device", NEW g \in Origins, g # devices[d].origin, Exists(g),
           UNCHANGED groups, NEW row, row = Moved(devices[d], g), Reassigned(d, row),
           Turn({job}, Sent(d, row)), devices[d].id \in {devices[d].origin} \cup Act(d),
           Listed(d) = {h \in {devices[d].origin} : Exists(h)}
    PROVE  Moving(d)'
<1>1. PICK old : old = devices[d] /\ old \in DeviceRows /\ old.origin \in Origins
  BY OriginIs
<1>2. /\ row \in DeviceRows /\ row.origin = g
      /\ old.id = old.origin => row.id = g
      /\ old.id # old.origin => row.id = old.id
  BY <1>1, MovedType
<1>3. PICK j : j = DeviceJob([serial |-> d, old |-> old, new |-> row])
  OBVIOUS
<1>4. Sent(d, row) = {j}
  BY <1>1, <1>2, <1>3 DEF Sent
<1>5. /\ j.kind = "device" /\ j.serial = d /\ j.group = row.id
      /\ j.change.old = old /\ j.change.new = row
  BY <1>3 DEF DeviceJob, Job
<1>6. Chained(j)
  BY <1>1, <1>2, <1>5 DEF Chained, Unmoved
<1>7. PICK gone, made, ch : gone = {job} /\ made = {j} /\ ch = {job}
  OBVIOUS
<1>8. Turn(gone, made) /\ ch = Chain(d)
  BY <1>4, <1>7
<1>9. \A k \in made : k.serial = d /\ Chained(k) /\ k \notin ch
  BY <1>5, <1>6, <1>7
<1>10. /\ Chain(d)' \subseteq ch \cup made /\ (ch \ gone) \cup made \subseteq Chain(d)'
       /\ gone \cap ch \cap Singles \cap Chain(d)' = {} /\ made \subseteq Singles'
  BY <1>8, <1>9, ChainMade
<1>11. Chain(d)' = {j} /\ j \in Singles'
  BY <1>7, <1>10
<1>12. devices'[d] = row /\ devices'[d].origin = g
  BY <1>2 DEF Reassigned
<1>13. Listed(d)' = Listed(d)
  BY DEF Listed, Exists
<1>14. Listed(d)' = {h \in {old.origin} : groups'[h] # None}
  BY <1>1, <1>13 DEF Exists
<1>15. j.group = g \/ (j.group \in Bookings /\ groups'[j.group] # None)
  BY <1>1, <1>2, <1>5 DEF Act, Exists
<1>16. groups'[g] # None
  BY DEF Exists
<1> QED
  BY <1>2, <1>5, <1>11, <1>12, <1>14, <1>15, <1>16 DEF Moving, Exists

\* The devices that a job is not about.
LEMMA WorkOnOthers ==
    ASSUME TypeOK, NEW job \in BagToSet(jobs), NEW made, Turn({job}, made),
           \A j \in made : j.serial = job.serial, SameGroups(Groups),
           NEW d \in Devices, d # job.serial, devices'[d].origin = devices[d].origin,
           Listed(d)' = Listed(d)
    PROVE  Stage(d) => Stage(d)'
<1>1. PICK gone : gone = {job}
  OBVIOUS
<1>2. Turn(gone, made) /\ \A j \in gone \cup made : j.serial # d
  BY <1>1
<1> QED
  BY <1>2, OthersKeepStage

\* It is enough to look at the device of a job.
LEMMA WorkKeepsOrigins ==
    ASSUME TypeOK, OriginInv, WorkFrame, NEW job \in BagToSet(jobs), job.serial \in Devices,
           NEW made, Turn({job}, made), \A j \in made : j.serial = job.serial,
           SameGroups(Groups),
           \A d \in Devices \ {job.serial} : /\ devices'[d].origin = devices[d].origin
                                             /\ Listed(d)' = Listed(d),
           NEW x, x = job.serial,
           MoveScope => Stage(x)'
    PROVE  OriginInv'
<1>1. scenario' = scenario
  BY DEF WorkFrame
<1> SUFFICES ASSUME MoveScope, NEW d \in Devices
             PROVE  Stage(d)'
  BY <1>1 DEF OriginInv, MoveScope
<1>2. Stage(d)
  BY DEF OriginInv
<1>3. d # x => Stage(d)'
  BY <1>2, WorkOnOthers
<1> QED
  BY <1>3

\* A job of a chain, by the stage of its device.
LEMMA StageOf ==
    ASSUME TypeOK, NEW job \in ToDo, NEW x, x = job.serial, Chained(job), Stage(x)
    PROVE  /\ job \in Chain(x)
           /\ job.kind = "ticket" => Ticketed(x) /\ Chain(x) = {job} /\ job \in Singles
                                     /\ Exists(job.group)
           /\ job.kind = "toRoot" => Orphaned(x) /\ Chain(x) = {job} /\ job \in Singles
           /\ job.kind = "device" =>
                  /\ Moving(x) /\ Chain(x) = {job} /\ job \in Singles
                  /\ job.change.new.origin = devices[x].origin
                  /\ Listed(x) = {g \in {job.change.old.origin} : Exists(g)}
                  /\ job.group = devices[x].origin \/ (job.group \in Bookings /\ Exists(job.group))
           /\ job.kind \in {"drop", "add"} => Relisting(x)
<1>1. job \in Chain(x)
  BY DEF Chain
<1>2. CASE Resting(x)
  BY <1>1, <1>2 DEF Resting
<1>3. CASE Ticketed(x)
  BY <1>1, <1>3 DEF Ticketed
<1>4. CASE Orphaned(x)
  BY <1>1, <1>4 DEF Orphaned
<1>5. CASE Moving(x)
  BY <1>1, <1>5 DEF Moving
<1>6. CASE Relisting(x)
  <2>1. job.kind \in {"drop", "add"}
    BY <1>1, <1>6 DEF Relisting
  <2> QED
    BY <1>1, <1>6, <2>1
<1> QED
  BY <1>2, <1>3, <1>4, <1>5, <1>6 DEF Stage

\* A ticket, or an order to move to the root, is treated.
LEMMA TreatKeepsOrigins ==
    ASSUME TypeOK, BackInv, CurrentInv, OriginInv,
           NEW job \in BagToSet(jobs), TreatTicket(job) \/ MoveToRoot(job)
    PROVE  OriginInv'
<1>1. PICK x, g, row : x = job.serial /\ g = job.group /\ row = Moved(devices[x], g)
  OBVIOUS
<1>2. /\ WorkFrame /\ UNCHANGED groups /\ job.kind \in {"ticket", "toRoot"}
      /\ job.kind = "toRoot" => g = Root
      /\ x \in Devices /\ g \in Origins /\ row \in DeviceRows /\ Reassigned(x, row)
      /\ Turn({job}, Sent(x, row)) /\ job \in ToDo
  <2>1. CASE TreatTicket(job)
    BY <1>1, <2>1, TicketIs, AtWork
  <2>2. CASE MoveToRoot(job)
    BY <1>1, <2>2, ToRootIs, AtWork DEF Origins
  <2> QED
    BY <2>1, <2>2
<1>3. PICK made : made = Sent(x, row)
  OBVIOUS
<1>4. Turn({job}, made) /\ \A j \in made : j.serial = job.serial
  BY <1>1, <1>2, <1>3, SentIs
<1>5. SameLists /\ SameGroups(Groups)
  BY <1>2, SameRows
<1>6. \A d \in Devices \ {job.serial} : /\ devices'[d].origin = devices[d].origin
                                        /\ Listed(d)' = Listed(d)
  BY <1>1, <1>2, <1>5 DEF SameLists, Reassigned
<1>7. ASSUME MoveScope
      PROVE  Stage(x)'
  <2>1. Stage(x) /\ Chained(job)
    BY <1>2, <1>7 DEF OriginInv, MoveScope, Chained
  <2>2. devices[x].id \in {devices[x].origin} \cup Act(x)
    BY <1>2, <1>7, WhereItIs DEF MoveScope, CurrentScope, Backwards, Unmoved
  <2>3. Chain(x) = {job} /\ job \in Singles /\ Exists(g)
        /\ Listed(x) = {h \in {devices[x].origin} : Exists(h)}
    <3>1. CASE job.kind = "ticket"
      BY <1>1, <1>2, <2>1, <3>1, StageOf DEF Ticketed, AtHome
    <3>2. CASE job.kind = "toRoot"
      BY <1>1, <1>2, <2>1, <3>2, StageOf, OriginIs DEF Orphaned
    <3> QED
      BY <1>2, <3>1, <3>2
  <2>4. CASE g # devices[x].origin
    <3>1. Moving(x)'
      BY <1>1, <1>2, <2>2, <2>3, <2>4, MoveBegins
    <3> QED
      BY <3>1 DEF Stage
  <2>5. CASE g = devices[x].origin
    <3>1. job.kind = "ticket" /\ AtHome(x)
      <4>1. job.kind # "toRoot"
        BY <1>1, <1>2, <2>1, <2>3, <2>5, StageOf DEF Orphaned
      <4> QED
        BY <1>1, <1>2, <2>1, <4>1, StageOf DEF Ticketed
    <3>2. made = {}
      BY <1>1, <1>3, <2>5 DEF Sent, Moved
    <3>3. Chain(x)' = {}
      <4>1. ASSUME NEW k \in Chain(x)' PROVE FALSE
        <5>1. k \in ToDo' /\ k.serial = x /\ Chained(k)
          BY <4>1 DEF Chain, Chained, Unmoved
        <5>2. k \in ToDo /\ k \in Chain(x)
          BY <1>4, <3>2, <5>1 DEF Turn, Chain
        <5>3. k = job
          BY <2>3, <5>2
        <5> QED
          BY <1>4, <2>3, <3>2, <5>1, <5>3 DEF Turn
      <4> QED
        BY <4>1
    <3>4. devices'[x] = row /\ row.origin = g
      BY <1>1, <1>2, MovedType, OriginIs DEF Reassigned
    <3>5. AtHome(x)'
      BY <1>2, <1>5, <2>3, <2>5, <3>1, <3>4 DEF AtHome, SameLists, Exists
    <3> QED
      BY <3>3, <3>5 DEF Stage, Resting
  <2> QED
    BY <2>4, <2>5
<1> QED
  BY <1>1, <1>2, <1>4, <1>5, <1>6, <1>7, WorkKeepsOrigins

\* The watcher sees a move: the lists of the two groups are to be written.
LEMMA SeeingKeepsOrigins ==
    ASSUME TypeOK, OriginInv, NEW job \in BagToSet(jobs), TreatDevice(job), Chained(job)
    PROVE  OriginInv'
<1>1. PICK x, c : x = job.serial /\ c = job.change
  OBVIOUS
<1>2. PICK k, l, made : /\ k = Job("drop", x, c.old.origin) /\ l = Job("add", x, c.new.origin)
                        /\ made = {k, l}
  OBVIOUS
<1>3. /\ WorkFrame /\ UNCHANGED <<groups, devices>> /\ job.kind = "device" /\ x \in Devices
      /\ job \in ToDo /\ job \in Jobs /\ c.old.origin # c.new.origin
      /\ c.old.origin \in Origins /\ c.new.origin \in Origins
  <2>1. WorkFrame /\ UNCHANGED <<groups, devices>> /\ job.kind = "device"
    BY TreatDeviceIs
  <2>2. job \in ToDo /\ job \in Jobs /\ x \in Devices
    BY <1>1, AtWork
  <2>3. job \in Chain(x)
    BY <1>1, <2>2 DEF Chain
  <2>4. /\ c.old.origin # c.new.origin
        /\ c.old.origin \in Origins /\ c.new.origin \in Origins
    BY <1>1, <2>1, <2>3, ChainedIs
  <2> QED
    BY <2>1, <2>2, <2>4
<1>4. /\ k \in Jobs /\ l \in Jobs /\ k.kind = "drop" /\ l.kind = "add"
      /\ k.serial = x /\ l.serial = x /\ k.group = c.old.origin /\ l.group = c.new.origin
  BY <1>2, <1>3, JobIs, JobIsLegal
<1>5. SameLists /\ SameGroups(Groups)
  BY <1>3, SameRows
<1>6. \A d \in Devices \ {job.serial} : /\ devices'[d].origin = devices[d].origin
                                        /\ Listed(d)' = Listed(d)
  BY <1>3, <1>5 DEF SameLists
<1>7. ASSUME MoveScope
      PROVE  /\ Turn({job}, made)
             /\ Stage(x)'
  <2>1. Stage(x)
    BY <1>3, <1>7 DEF OriginInv, MoveScope
  <2>2. /\ Moving(x) /\ Chain(x) = {job} /\ job \in Singles
        /\ c.new.origin = devices[x].origin
        /\ Listed(x) = {g \in {c.old.origin} : Exists(g)}
        /\ job.group = devices[x].origin \/ (job.group \in Bookings /\ Exists(job.group))
    BY <1>1, <1>3, <2>1, StageOf
  <2>3. Exists(devices[x].origin) /\ Exists(job.group)
    BY <2>2 DEF Moving
  <2>4. Turn({job}, made)
    BY <1>1, <1>2, <1>3, <2>3, TreatDeviceIs
  <2>5. PICK gone, ch : gone = {job} /\ ch = {job}
    OBVIOUS
  <2>6. Turn(gone, made) /\ ch = Chain(x)
    BY <2>2, <2>4, <2>5
  <2>7. \A j \in made : j.serial = x /\ Chained(j) /\ j \notin ch
    BY <1>2, <1>3, <1>4, <2>5 DEF Chained
  <2>8. /\ Chain(x)' \subseteq ch \cup made /\ (ch \ gone) \cup made \subseteq Chain(x)'
        /\ gone \cap ch \cap Singles \cap Chain(x)' = {} /\ made \subseteq Singles'
    BY <2>6, <2>7, ChainMade
  <2>9. Chain(x)' = {k, l} /\ {k, l} \subseteq Singles'
    BY <1>2, <2>2, <2>5, <2>8
  <2>10. devices'[x].origin = c.new.origin /\ Listed(x)' = Listed(x)
    BY <1>3, <1>5, <2>2 DEF SameLists
  <2>11. Listed(x)' = {g \in {k.group} : k \in Chain(x)' /\ groups'[g] # None}
                        \cup {g \in {devices'[x].origin} : l \notin Chain(x)'}
    BY <1>3, <1>4, <2>2, <2>9, <2>10 DEF Exists
  <2>12. groups'[devices'[x].origin] # None
    BY <1>3, <2>3 DEF Exists
  <2>13. Relisting(x)'
    BY <1>3, <1>4, <2>9, <2>10, <2>11, <2>12 DEF Relisting, Exists
  <2> QED
    BY <2>4, <2>13 DEF Stage
<1>8. CASE MoveScope
  <2>1. \A j \in made : j.serial = job.serial
    BY <1>1, <1>2, <1>4
  <2> QED
    BY <1>1, <1>3, <1>5, <1>6, <1>7, <1>8, <2>1, WorkKeepsOrigins
<1>9. CASE ~MoveScope
  BY <1>3, <1>9 DEF OriginInv, MoveScope, WorkFrame
<1> QED
  BY <1>8, <1>9

\* What the lists of a group and of a device have in common.
LEMMA RelistedIs ==
    ASSUME TypeOK, NEW job \in BagToSet(jobs), Relist(job), NEW x, x = job.serial
    PROVE  /\ SameGroups(Groups) /\ SameActs
           /\ \A d \in Devices \ {x} : Listed(d)' = Listed(d)
           /\ Listed(x)' = IF job.kind = "drop" THEN Listed(x) \ {job.group}
                           ELSE Listed(x) \cup {g \in {job.group} : Exists(g)}
<1>1. PICK g : g = job.group /\ g \in Origins /\ g \in Groups
  BY RelistIs DEF Groups
<1>2. job.kind \in {"drop", "add"}
  BY RelistIs
<1>3. CASE ~Exists(g)
  <2>1. UNCHANGED groups
    BY <1>1, <1>3, RelistIs
  <2>2. SameLists /\ SameActs /\ SameGroups(Groups)
    BY <2>1, SameRows
  <2>3. x \in Devices /\ g \notin Listed(x) /\ {h \in {g} : Exists(h)} = {}
    BY <1>3, RelistIs DEF Listed
  <2> QED
    BY <1>1, <2>2, <2>3 DEF SameLists
<1>4. CASE Exists(g)
  <2>1. PICK row \in GroupRows :
            /\ row.devices = IF job.kind = "add" THEN groups[g].devices \cup {x}
                             ELSE groups[g].devices \ {x}
            /\ Rewritten(g, row)
    BY <1>1, <1>4, RelistIs
  <2>2. groups[g] # None /\ groups'[g] # None /\ groups'[g].devices = row.devices
    BY <1>4, <2>1, RowIs DEF Rewritten, Exists
  <2>3. \A h \in Groups \ {g} : groups'[h] = groups[h]
    BY <2>1 DEF Rewritten
  <2>4. SameGroups(Groups)
    BY <2>2, <2>3 DEF SameGroups, Exists
  <2>5. SameActs
    BY <1>1, <2>1, OriginRow
  <2>6. ASSUME NEW d
        PROVE  Listed(d)' = IF d # x THEN Listed(d)
                            ELSE IF job.kind = "drop" THEN Listed(d) \ {g}
                            ELSE Listed(d) \cup {g}
    <3>1. \A h \in Origins \ {g} : groups'[h] = groups[h]
      BY <2>3 DEF Groups
    <3>2. d \in groups'[g].devices <=> IF d # x THEN d \in groups[g].devices
                                       ELSE job.kind # "drop"
      BY <1>2, <2>1, <2>2
    <3> QED
      BY <1>1, <2>2, <3>1, <3>2 DEF Listed, Exists
  <2>7. {h \in {g} : Exists(h)} = {g}
    BY <1>4
  <2> QED
    BY <1>1, <2>4, <2>5, <2>6, <2>7
<1> QED
  BY <1>3, <1>4

\* A list of an origin group is brought up to date.
LEMMA RelistKeepsOrigins ==
    ASSUME TypeOK, OriginInv, NEW job \in BagToSet(jobs), Relist(job)
    PROVE  OriginInv'
<1>1. PICK x, g : x = job.serial /\ g = job.group
  OBVIOUS
<1>2. /\ WorkFrame /\ UNCHANGED devices /\ job.kind \in {"drop", "add"} /\ x \in Devices
      /\ g \in Origins /\ Turn({job}, {}) /\ job \in ToDo /\ job \in Jobs
  BY <1>1, RelistIs, AtWork
<1>3. /\ SameGroups(Groups) /\ \A d \in Devices \ {x} : Listed(d)' = Listed(d)
      /\ Listed(x)' = IF job.kind = "drop" THEN Listed(x) \ {g}
                      ELSE Listed(x) \cup {h \in {g} : Exists(h)}
  BY <1>1, RelistedIs
<1>4. PICK made : made = {}
  OBVIOUS
<1>5. /\ Turn({job}, made) /\ \A j \in made : j.serial = job.serial
      /\ \A d \in Devices \ {job.serial} : /\ devices'[d].origin = devices[d].origin
                                           /\ Listed(d)' = Listed(d)
  BY <1>1, <1>2, <1>3, <1>4
<1>6. ASSUME MoveScope
      PROVE  Stage(x)'
  <2>1. Stage(x) /\ Chained(job)
    BY <1>2, <1>6 DEF OriginInv, MoveScope, Chained
  <2>2. Relisting(x) /\ job \in Chain(x)
    BY <1>1, <1>2, <2>1, StageOf
  <2>3. PICK k, l \in Jobs :
            /\ k.kind = "drop" /\ l.kind = "add" /\ Chain(x) \subseteq {k, l} \cap Singles
            /\ k.group # devices[x].origin /\ l.group = devices[x].origin
            /\ Listed(x) = {h \in {k.group} : k \in Chain(x) /\ Exists(h)}
                               \cup {h \in {devices[x].origin} : l \notin Chain(x)}
    BY <2>2 DEF Relisting
  <2>4. PICK o : o = devices[x].origin /\ o = devices'[x].origin /\ o \in Origins /\ Exists(o)
    BY <1>2, <2>2, OriginIs DEF Relisting
  <2>5. PICK gone, ch : gone = {job} /\ ch = Chain(x)
    OBVIOUS
  <2>6. Turn(gone, made) /\ \A j \in made : j.serial = x /\ Chained(j) /\ j \notin ch
    BY <1>2, <1>4, <2>5
  <2>7. /\ Chain(x)' \subseteq ch \cup made /\ (ch \ gone) \cup made \subseteq Chain(x)'
        /\ gone \cap ch \cap Singles \cap Chain(x)' = {}
        /\ (ch \cap Singles) \ gone \subseteq Singles'
    BY <2>5, <2>6, ChainMade
  <2>8. Chain(x)' = ch \ {job} /\ ch \ {job} \subseteq Singles' /\ ch \subseteq {k, l}
    BY <1>4, <2>2, <2>3, <2>5, <2>7
  <2>9. job = k \/ job = l
    BY <2>2, <2>3
  <2>10. \A h \in Origins : groups'[h] # None <=> groups[h] # None
    BY <1>3 DEF SameGroups, Groups, Exists
  <2>11. k.group \in Origins /\ k # l
    BY <2>3 DEF Jobs
  <2>12. PICK ls : ls = Listed(x)'
    OBVIOUS
  <2>13. ls = {h \in {k.group} : k \in ch \ {job} /\ groups'[h] # None}
                 \cup {h \in {o} : l \notin ch \ {job}}
    <3>1. Listed(x) = {h \in {k.group} : k \in ch /\ groups[h] # None}
                         \cup {h \in {o} : l \notin ch}
      BY <2>3, <2>4, <2>5 DEF Exists
    <3>2. CASE job = k
      <4>1. ls = Listed(x) \ {k.group} /\ g = k.group
        BY <1>1, <1>3, <2>3, <2>12, <3>2
      <4>2. k \notin ch \ {job} /\ (l \in ch \ {job} <=> l \in ch)
        BY <2>11, <3>2
      <4>3. o # k.group
        BY <2>3, <2>4
      <4> QED
        BY <3>1, <4>1, <4>2, <4>3
    <3>3. CASE job = l
      <4>1. ls = Listed(x) \cup {o}
        BY <1>1, <1>3, <2>3, <2>4, <2>12, <3>3
      <4>2. l \notin ch \ {job} /\ (k \in ch \ {job} <=> k \in ch)
        BY <2>11, <3>3
      <4>3. \A h \in {k.group} : groups'[h] # None <=> groups[h] # None
        BY <2>10, <2>11
      <4> QED
        BY <3>1, <4>1, <4>2, <4>3
    <3> QED
      BY <2>9, <3>2, <3>3
  <2>14. groups'[o] # None
    BY <2>4, <2>10 DEF Exists
  <2>15. Relisting(x)'
    BY <2>3, <2>4, <2>8, <2>12, <2>13, <2>14 DEF Relisting, Exists
  <2> QED
    BY <2>15 DEF Stage
<1> QED
  BY <1>1, <1>2, <1>3, <1>5, <1>6, WorkKeepsOrigins

LEMMA StepKeepsOrigins ==
    ASSUME TypeOK, HeldInv, RowInv, TicketsMatch, BackInv, CurrentInv, OriginInv, [Next]_vars
    PROVE  OriginInv'
<1>1. CASE UNCHANGED vars
  <2>1. Turn({}, {}) /\ UNCHANGED <<groups, devices, requests, scenario, alone>>
    <3>1. FeedsOK /\ UNCHANGED <<groupFeed, deviceFeed, jobs>>
      BY <1>1, TypesAreStored DEF vars
    <3> QED
      BY <1>1, <3>1, IdleTurn DEF vars
  <2>2. SameOrigins /\ SameLists /\ SameGroups(Groups)
    BY <2>1, SameRows DEF SameOrigins
  <2>3. SameGroups(Origins) /\ SameGroups(Bookings)
    BY <2>2 DEF SameGroups, Groups
  <2>5. PICK none : none = {}
    OBVIOUS
  <2>6. Turn(none, none) /\ \A j \in none \cup none : ~Chained(j)
    BY <2>1, <2>5
  <2> QED
    BY <2>1, <2>2, <2>3, <2>6, OriginKept
<1>2. ASSUME NEW r \in Requests, Serve(r) \/ TimeOut(r) PROVE OriginInv'
  BY <1>2, ServeKeepsOrigins, TicketKeepsOrigins, DeletionKeepsOrigins
<1>3. ASSUME NEW job \in BagToSet(jobs), Work(job) PROVE OriginInv'
  <2>1. CASE ~Chained(job)
    BY <1>3, <2>1, QuietWorkKeepsOrigins
  <2>2. CASE Chained(job)
    <3>1. TreatTicket(job) \/ MoveToRoot(job) \/ TreatDevice(job) \/ Relist(job)
      BY <1>3, <2>2 DEF Work, Chained, MakeCurrent, ReadOrigin, ReadGroup, GoBack, Evict
    <3> QED
      BY <2>2, <3>1, TreatKeepsOrigins, SeeingKeepsOrigins, RelistKeepsOrigins
  <2> QED
    BY <2>1, <2>2
<1> QED
  BY <1>1, <1>2, <1>3, AskKeepsOrigins, OperationKeepsOrigins, AsideKeepsOrigins, WhoSteps

-----------------------------------------------------------------------------
(***************************************************************************)
(* The current group of a device.                                          *)
(***************************************************************************)
\* Jobs that write where a device is.
Steers(j) == j.kind = "current" \/ Backwards(j)

\* It is enough to look at each device.
LEMMA EachIsCurrent ==
    ASSUME CurrentInv, UNCHANGED scenario, \A g \in Origins : Exists(g)' => Exists(g),
           CurrentScope => \A d \in Devices : Current(d) => Current(d)'
    PROVE  CurrentInv'
BY DEF CurrentInv, CurrentScope

\* A device that nothing is done to that matters.
LEMMA CurrentKept ==
    ASSUME TypeOK, NEW d \in Devices, Current(d), NEW gone, NEW made, Turn(gone, made),
           UNCHANGED standard, SamePlaces, Act(d)' = Act(d),
           \A j \in gone \cup made : j.serial = d => ~Steers(j),
           \/ Exists(devices[d].origin) => Exists(devices[d].origin)'
           \/ \A j \in ToDo : ~Backwards(j)
    PROVE  Current(d)'
<1>1. PICK i, o, c : /\ i = devices[d].id /\ o = devices[d].origin /\ c = devices[d].class
                     /\ i = devices'[d].id /\ o = devices'[d].origin /\ c = devices'[d].class
  BY DEF SamePlaces
<1>2. PICK act : act = Act(d) /\ act = Act(d)'
  OBVIOUS
<1>3. ASSUME NEW j, j.serial = d, Steers(j)
      PROVE  j \in ToDo' <=> j \in ToDo
  BY <1>3 DEF Turn
<1>4. OneBooking(d)'
  BY <1>2 DEF Current, OneBooking
<1>5. JobsAgree(d)'
  <2> SUFFICES ASSUME NEW j \in ToDo', j.serial = d
               PROVE  /\ j.kind = "current" => j.group \in act
                      /\ Backwards(j) => act = {} /\ groups'[o] # None
                      /\ j.kind \in {"readGroup", "back"} => j.group = o
    BY <1>1, <1>2 DEF JobsAgree, Backwards, Exists
  <2>1. CASE ~Steers(j)
    BY <2>1 DEF Steers, Backwards
  <2>2. CASE Steers(j)
    <3>1. j \in ToDo
      BY <1>3, <2>2
    <3>2. /\ j.kind = "current" => j.group \in act
          /\ Backwards(j) => act = {} /\ groups[o] # None
          /\ j.kind \in {"readGroup", "back"} => j.group = o
      BY <1>1, <1>2, <3>1 DEF Current, JobsAgree, Exists
    <3>3. Backwards(j) => groups'[o] # None
      BY <1>1, <3>1, <3>2 DEF Exists
    <3> QED
      BY <3>2, <3>3
  <2> QED
    BY <2>1, <2>2
<1>6. Placed(d)'
  <2>1. i \in {o} \cup act \/ \E j \in ToDo' : j.serial = d /\ Backwards(j)
    BY <1>1, <1>2, <1>3 DEF Current, Placed, Steers
  <2>2. act # {} /\ i = o => \E j \in ToDo' : j.serial = d /\ j.kind = "current"
    BY <1>1, <1>2, <1>3 DEF Current, Placed, Steers
  <2>3. c = Class(i) /\ Class(i)' = Class(i)
    BY <1>1 DEF Current, Placed, Class
  <2> QED
    BY <1>1, <1>2, <2>1, <2>2, <2>3 DEF Placed, Backwards, Class
<1> QED
  BY <1>4, <1>5, <1>6 DEF Current

\* Steps that are about no booking.
LEMMA PlacesKept ==
    ASSUME TypeOK, CurrentInv, NEW gone, NEW made, Turn(gone, made),
           UNCHANGED <<standard, scenario>>, SamePlaces, SameActs, SameGroups(Groups),
           \A j \in gone \cup made : ~Steers(j)
    PROVE  CurrentInv'
<1>1. \A g \in Groups : Exists(g)' <=> Exists(g)
  BY DEF SameGroups
<1>2. ASSUME NEW d \in Devices, Current(d) PROVE Current(d)'
  <2>1. PICK o \in Groups : o = devices[d].origin /\ o = devices'[d].origin
    BY OriginIs DEF SamePlaces, Groups
  <2>2. Exists(devices[d].origin) => Exists(devices[d].origin)'
    BY <1>1, <2>1 DEF Exists
  <2>3. Act(d)' = Act(d)
    BY DEF SameActs
  <2> QED
    BY <1>2, <2>2, <2>3, CurrentKept
<1> QED
  BY <1>1, <1>2, EachIsCurrent DEF Groups

\* The bookings of a device, after a booking was written.
LEMMA ActsAre ==
    ASSUME TypeOK, NEW b \in Bookings, NEW row \in GroupRows \cup {None}, Rewritten(b, row),
           NEW d
    PROVE  /\ row # None /\ row.active /\ d \in row.devices => Act(d)' = Act(d) \cup {b}
           /\ ~(row # None /\ row.active /\ d \in row.devices) => Act(d)' = Act(d) \ {b}
<1>1. groups'[b] = row /\ \A h \in Bookings \ {b} : groups'[h] = groups[h]
  BY DEF Rewritten, Groups
<1> QED
  BY <1>1 DEF Act, Exists

\* A booking of a device becomes active.
LEMMA BookingStarts ==
    ASSUME TypeOK, NEW d \in Devices, Current(d), NEW made, Turn({}, made),
           UNCHANGED standard, SamePlaces, NEW b \in Bookings, Act(d) = {}, Act(d)' = {b},
           \A j \in ToDo : ~Backwards(j), Job("current", d, b) \in made,
           \A j \in made : j.serial = d => j = Job("current", d, b)
    PROVE  Current(d)'
<1>1. PICK i, o, c : /\ i = devices[d].id /\ o = devices[d].origin /\ c = devices[d].class
                     /\ i = devices'[d].id /\ o = devices'[d].origin /\ c = devices'[d].class
  BY DEF SamePlaces
<1>2. PICK k : k = Job("current", d, b)
  OBVIOUS
<1>3. k.kind = "current" /\ k.serial = d /\ k.group = b /\ k \in ToDo'
  BY <1>2, JobIs DEF Turn
<1>4. OneBooking(d)'
  BY DEF OneBooking
<1>5. JobsAgree(d)'
  <2> SUFFICES ASSUME NEW j \in ToDo', j.serial = d, Steers(j)
               PROVE  j = k
    BY <1>3 DEF JobsAgree, Backwards, Steers
  <2>1. j \notin ToDo
    BY DEF Current, JobsAgree, Steers
  <2> QED
    BY <1>2, <2>1 DEF Turn
<1>6. Placed(d)'
  <2>1. i = o
    BY <1>1 DEF Current, Placed
  <2>2. c = Class(i) /\ Class(i)' = Class(i)
    BY <1>1 DEF Current, Placed, Class
  <2> QED
    BY <1>1, <1>3, <2>1, <2>2 DEF Placed, Class
<1> QED
  BY <1>4, <1>5, <1>6 DEF Current

\* The booking of a device that is active is over, or loses it.
LEMMA BookingStops ==
    ASSUME TypeOK, NEW d \in Devices, Current(d), NEW made, Turn({}, made),
           UNCHANGED standard, SamePlaces, Act(d)' = {}, ToDo = {},
           Exists(devices[d].origin), SameGroups(Origins),
           Job("fromOrigin", d, None) \in made, \A j \in made : j.kind = "fromOrigin"
    PROVE  Current(d)'
<1>1. PICK i, o, c : /\ i = devices[d].id /\ o = devices[d].origin /\ c = devices[d].class
                     /\ i = devices'[d].id /\ o = devices'[d].origin /\ c = devices'[d].class
  BY DEF SamePlaces
<1>2. PICK k : k = Job("fromOrigin", d, None)
  OBVIOUS
<1>3. k.kind = "fromOrigin" /\ k.serial = d /\ k \in ToDo'
  BY <1>2, JobIs DEF Turn
<1>4. OneBooking(d)'
  BY DEF OneBooking
<1>5. groups'[o] # None
  BY <1>1, OriginIs DEF SameGroups, Exists
<1>6. \A j \in ToDo' : j.kind = "fromOrigin"
  BY DEF Turn
<1>7. JobsAgree(d)'
  BY <1>1, <1>5, <1>6 DEF JobsAgree, Backwards, Exists
<1>8. Placed(d)'
  <2>1. c = Class(i) /\ Class(i)' = Class(i)
    BY <1>1 DEF Current, Placed, Class
  <2> QED
    BY <1>1, <1>3, <2>1 DEF Placed, Backwards, Class
<1> QED
  BY <1>4, <1>7, <1>8 DEF Current

\* The steps of a request.
LEMMA ServeKeepsCurrent ==
    ASSUME TypeOK, RowInv, BackInv, CurrentInv, NEW r \in Requests, Serve(r) \/ TimeOut(r)
    PROVE  CurrentInv'
<1>1. /\ r \in Serving /\ SamePlaces /\ UNCHANGED <<standard, scenario>>
  BY ServeMakes
<1>2. CurrentScope => \A j \in ToDo : ~Backwards(j)
  BY <1>1 DEF BackInv, CurrentScope
<1>3. ASSUME NEW made, Turn({}, made), \A j \in made : ~Steers(j), SameActs,
             SameGroups(Groups)
      PROVE  CurrentInv'
  <2>1. PICK none : none = {}
    OBVIOUS
  <2>2. Turn(none, made) /\ \A j \in none \cup made : ~Steers(j)
    BY <1>3, <2>1
  <2> QED
    BY <1>1, <1>3, <2>2, PlacesKept
<1>4. CASE UNCHANGED groups /\ Turn({}, {})
  <2>1. PICK none : none = {}
    OBVIOUS
  <2>2. Turn({}, none) /\ \A j \in none : ~Steers(j)
    BY <1>4, <2>1
  <2> QED
    BY <1>3, <1>4, <2>2, SameRows
<1>5. CASE Book(r)
  <2>1. PICK d, b : d = requests[r].serial /\ b = requests[r].to
    OBVIOUS
  <2>2. d \in Devices /\ b \in Bookings
    BY <1>5, <2>1, BookWrites
  <2>3. CASE ~(UNCHANGED groups /\ Turn({}, {}))
    <3>1. /\ groups[b] \in GroupRows /\ d \notin groups[b].devices
          /\ groups[b].active => \A x \in Rivals(b, d) : ~groups[x].active
      BY <1>5, <2>1, <2>3, BookTurns
    <3>2. PICK row \in GroupRows :
              /\ row.devices = groups[b].devices \cup {d} /\ row.active = groups[b].active
              /\ Rewritten(b, row)
      BY <1>5, <2>1, <2>3, BookTurns
    <3>3. PICK made : /\ Turn({}, made)
                      /\ made = IF groups[b].active THEN {Job("current", d, b)} ELSE {}
      BY <1>5, <2>1, <2>3, BookTurns
    <3>4. groups[b] # None /\ row # None
      BY <3>1, RowIs
    <3>5. \A g \in Groups : Exists(g)' <=> Exists(g)
      BY <3>2, <3>4 DEF Rewritten, Exists
    <3>6. ASSUME NEW e \in Devices, e # d \/ ~groups[b].active
          PROVE  Act(e)' = Act(e)
      <4>1. b \in Act(e) <=> row.active /\ e \in row.devices
        BY <2>2, <3>2, <3>1, <3>4, <3>6 DEF Act, Exists
      <4>2. \/ row # None /\ row.active /\ e \in row.devices /\ Act(e)' = Act(e) \cup {b}
            \/ ~(row.active /\ e \in row.devices) /\ Act(e)' = Act(e) \ {b}
        BY <2>2, <3>2, <3>4, ActsAre
      <4> QED
        BY <4>1, <4>2
    <3>7. ASSUME groups[b].active PROVE Act(d) = {} /\ Act(d)' = {b}
      <4>1. ASSUME NEW x \in Act(d) PROVE FALSE
        <5>1. x \in Bookings /\ Exists(x) /\ groups[x].active /\ d \in groups[x].devices
          BY DEF Act
        <5>2. x # b
          BY <3>1, <5>1
        <5> QED
          BY <3>1, <3>7, <5>1, <5>2 DEF Rivals
      <4>2. Act(d)' = Act(d) \cup {b}
        BY <2>2, <3>2, <3>4, <3>7, ActsAre
      <4> QED
        BY <4>1, <4>2
    <3>8. ASSUME CurrentScope, NEW e \in Devices, Current(e) PROVE Current(e)'
      <4>1. \A j \in ToDo : ~Backwards(j)
        BY <1>2, <3>8
      <4>2. CASE e = d /\ groups[b].active
        <5>1. Job("current", d, b) \in made /\ \A j \in made : j = Job("current", d, b)
          BY <3>3, <4>2
        <5> QED
          BY <1>1, <2>2, <3>3, <3>7, <3>8, <4>1, <4>2, <5>1, BookingStarts
      <4>3. CASE e # d \/ ~groups[b].active
        <5>1. \A j \in made : j.serial = e => ~Steers(j)
          BY <3>3, <4>3, JobIs
        <5>2. PICK none : none = {}
          OBVIOUS
        <5>3. Turn(none, made) /\ \A j \in none \cup made : j.serial = e => ~Steers(j)
          BY <3>3, <5>1, <5>2
        <5>4. Act(e)' = Act(e)
          BY <3>6, <4>3
        <5> QED
          BY <1>1, <3>8, <4>1, <5>3, <5>4, CurrentKept
      <4> QED
        BY <4>2, <4>3
    <3> QED
      BY <1>1, <3>5, <3>8, EachIsCurrent DEF Groups
  <2> QED
    BY <1>4, <2>3
<1>6. CASE AskTicket(r)
  <2>1. PICK g : g = requests[r].to
    OBVIOUS
  <2>2. g \in Groups
    BY <1>6, <2>1, TicketIsWritten DEF Groups
  <2>3. PICK made : /\ Turn({}, made)
                    /\ made = {} \/ made = {[Job("ticket", requests[r].serial, requests[r].to)
                                               EXCEPT !.signature = requests[r].signature]}
    BY <1>6, TicketIsWritten
  <2>4. \A j \in made : j.kind = "ticket"
    BY <2>3 DEF Job
  <2>5. SameActs /\ SameGroups(Groups)
    <3>1. CASE UNCHANGED groups
      BY <3>1, SameRows
    <3>2. CASE ~UNCHANGED groups
      <4>1. groups[g] \in GroupRows
        BY <1>6, <2>1, <3>2, TicketIsWritten
      <4>2. PICK row \in GroupRows : /\ row.devices = groups[g].devices
                                     /\ row.active = groups[g].active
                                     /\ Rewritten(g, row)
        BY <1>6, <2>1, <3>2, TicketIsWritten
      <4> QED
        BY <2>2, <4>1, <4>2, LikeRows
    <3> QED
      BY <3>1, <3>2
  <2> QED
    BY <1>3, <2>3, <2>4, <2>5 DEF Steers, Backwards
<1>7. CASE DeleteRow(r)
  <2>1. PICK g : g = requests[r].to
    OBVIOUS
  <2>2. g \in Origins /\ Rewritten(g, None)
    BY <1>7, <2>1, RowIsDeleted
  <2>3. SameActs
    BY <2>2, OriginRow
  <2>4. \A h \in Groups : Exists(h)' => Exists(h)
    BY <2>2 DEF Rewritten, Exists
  <2>5. PICK made : /\ Turn({}, made)
                    /\ made = {} \/ made = {Job("toRoot", d, Root) :
                                               d \in groups[requests[r].to].devices}
    BY <1>7, RowIsDeleted
  <2>6. \A j \in made : j.kind = "toRoot"
    BY <2>5, JobIs
  <2>7. PICK none : none = {}
    OBVIOUS
  <2>8. Turn(none, made) /\ \A j \in none \cup made : ~Steers(j)
    BY <2>5, <2>6, <2>7 DEF Steers, Backwards
  <2>9. ASSUME CurrentScope, NEW e \in Devices, Current(e) PROVE Current(e)'
    <3>1. Act(e)' = Act(e) /\ \A j \in ToDo : ~Backwards(j)
      BY <1>2, <2>3, <2>9 DEF SameActs
    <3> QED
      BY <1>1, <2>8, <2>9, <3>1, CurrentKept
  <2> QED
    BY <1>1, <2>4, <2>9, EachIsCurrent DEF Groups
<1>8. CASE \/ LockFrom(r) \/ LockGroup(r) \/ LockDevice(r) \/ LockOrigin(r)
           \/ Check(r) \/ CheckDelete(r) \/ Answered(r) \/ TimeOut(r) \/ Unlock(r)
  BY <1>4, <1>8, LocksAre, StepsAre
<1> QED
  BY <1>5, <1>6, <1>7, <1>8 DEF Serve

\* Operations on bookings and users.
LEMMA OperationKeepsCurrent ==
    ASSUME TypeOK, OriginInv, CurrentInv,
           NEW op \in {"schedule", "unbook", "users", "invite"}, Operation(op)
    PROVE  CurrentInv'
<1>1. Begin(op) /\ SamePlaces /\ UNCHANGED <<devices, standard, scenario>>
  BY OperationIs
<1>2. ASSUME CurrentScope, op \in {"schedule", "unbook"}
      PROVE  /\ ToDo = {} /\ \A d \in Devices : Exists(devices[d].origin)
  <2>1. op \in scenario
    BY <1>2 DEF CurrentScope
  <2>2. Quiet
    BY <1>1, <2>1, BeginIs DEF TypeOK
  <2>3. CASE "relist" \in scenario
    <3>1. MoveScope
      BY <1>2, <2>3 DEF CurrentScope, MoveScope
    <3>2. \A d \in Devices : Resting(d)
      BY <1>1, <2>1, <3>1, RestAtFirst
    <3> QED
      BY <2>2, <3>2, QuietIs DEF Resting, AtHome
  <2>4. CASE "relist" \notin scenario
    BY <1>2, <2>2, <2>4, QuietIs, OriginIs DEF CurrentScope
  <2> QED
    BY <2>3, <2>4
<1>3. ASSUME NEW made, Turn({}, made), \A j \in made : ~Steers(j), SameActs,
             SameGroups(Groups)
      PROVE  CurrentInv'
  <2>1. PICK none : none = {}
    OBVIOUS
  <2>2. Turn(none, made) /\ \A j \in none \cup made : ~Steers(j)
    BY <1>3, <2>1
  <2> QED
    BY <1>1, <1>3, <2>2, PlacesKept
<1>4. ASSUME NEW b \in Bookings, groups[b] \in GroupRows, NEW row \in GroupRows \cup {None},
             Rewritten(b, row), op \in {"schedule", "unbook"}, NEW made, Turn({}, made),
             CurrentScope =>
                 \A d \in Devices :
                     \/ Act(d)' = Act(d) /\ \A j \in made : j.serial = d => ~Steers(j)
                     \/ Act(d)' = {} /\ Job("fromOrigin", d, None) \in made
                        /\ \A j \in made : j.kind = "fromOrigin"
                     \/ Act(d) = {} /\ Act(d)' = {b} /\ Job("current", d, b) \in made
                        /\ \A j \in made : j.serial = d => j = Job("current", d, b)
      PROVE  CurrentInv'
  <2>1. SameGroups(Origins)
    BY <1>4, BookingRow
  <2>2. ASSUME CurrentScope, NEW d \in Devices, Current(d) PROVE Current(d)'
    <3>1. ToDo = {} /\ Exists(devices[d].origin)
      BY <1>2, <1>4, <2>2
    <3>2. CASE Act(d)' = Act(d) /\ \A j \in made : j.serial = d => ~Steers(j)
      <4>1. PICK none : none = {}
        OBVIOUS
      <4>2. Turn(none, made) /\ \A j \in none \cup made : j.serial = d => ~Steers(j)
        BY <1>4, <3>2, <4>1
      <4>3. \A j \in ToDo : ~Backwards(j)
        BY <3>1
      <4> QED
        BY <1>1, <2>2, <3>2, <4>2, <4>3, CurrentKept
    <3>3. CASE Act(d)' = {} /\ Job("fromOrigin", d, None) \in made
               /\ \A j \in made : j.kind = "fromOrigin"
      BY <1>1, <1>4, <2>1, <2>2, <3>1, <3>3, BookingStops
    <3>4. CASE Act(d) = {} /\ Act(d)' = {b} /\ Job("current", d, b) \in made
               /\ \A j \in made : j.serial = d => j = Job("current", d, b)
      <4>1. \A j \in ToDo : ~Backwards(j)
        BY <3>1
      <4> QED
        BY <1>1, <1>4, <2>2, <3>4, <4>1, BookingStarts
    <3> QED
      BY <1>4, <2>2, <3>2, <3>3, <3>4
  <2>3. \A g \in Origins : Exists(g)' => Exists(g)
    BY <2>1 DEF SameGroups
  <2> QED
    BY <1>1, <2>2, <2>3, EachIsCurrent
<1>5. ASSUME NEW b \in Bookings, NEW d \in Devices
      PROVE  /\ b \in Act(d) <=> Exists(b) /\ groups[b].active /\ d \in groups[b].devices
             /\ CurrentScope /\ b \in Act(d) => Act(d) = {b}
  BY DEF Act, CurrentInv, Current, OneBooking
<1>6. CASE op = "schedule"
  <2>1. PICK b \in Bookings : Activate(b) \/ Deactivate(b) \/ EndBooking(b)
    BY <1>6 DEF Operation
  <2>2. groups[b] \in GroupRows /\ Exists(b)
    BY <2>1, ActivateIs, DeactivateIs, EndBookingIs, RowIs DEF Exists
  <2>3. CASE Activate(b)
    <3>1. /\ ~groups[b].active
          /\ CurrentScope =>
                 \A d \in groups[b].devices : \A x \in Rivals(b, d) : ~groups[x].active
      BY <2>3, ActivateIs DEF CurrentScope
    <3>2. PICK row \in GroupRows : row.devices = groups[b].devices /\ row.active /\ Rewritten(b, row)
      BY <2>3, ActivateIs
    <3>3. PICK made : Turn({}, made) /\ made = {Job("current", d, b) : d \in groups[b].devices}
      BY <2>3, ActivateIs
    <3>4. row # None /\ row \in GroupRows \cup {None}
      BY <3>2, RowIs
    <3>5. ASSUME NEW j \in made, NEW d, j.serial = d
          PROVE  j = Job("current", d, b) /\ d \in groups[b].devices
      <4>1. PICK e \in groups[b].devices : j = Job("current", e, b)
        BY <3>3
      <4>2. e = d
        BY <3>5, <4>1, JobIs
      <4> QED
        BY <4>1, <4>2
    <3>6. ASSUME CurrentScope, NEW d \in Devices
          PROVE  \/ Act(d)' = Act(d) /\ \A j \in made : j.serial = d => ~Steers(j)
                 \/ Act(d) = {} /\ Act(d)' = {b} /\ Job("current", d, b) \in made
                    /\ \A j \in made : j.serial = d => j = Job("current", d, b)
      <4>1. CASE d \in groups[b].devices
        <5>1. ASSUME NEW x \in Act(d) PROVE FALSE
          <6>1. x \in Bookings /\ Exists(x) /\ groups[x].active /\ d \in groups[x].devices
            BY DEF Act
          <6>2. x # b
            BY <3>1, <6>1
          <6> QED
            BY <3>1, <3>6, <4>1, <6>1, <6>2 DEF Rivals
        <5>2. Act(d)' = Act(d) \cup {b}
          BY <3>2, <3>4, <4>1, ActsAre
        <5>3. Job("current", d, b) \in made
          BY <3>3, <4>1
        <5> QED
          BY <3>5, <5>1, <5>2, <5>3
      <4>2. CASE d \notin groups[b].devices
        <5>1. Act(d)' = Act(d) \ {b} /\ b \notin Act(d)
          BY <1>5, <3>2, <3>4, <4>2, ActsAre
        <5> QED
          BY <3>5, <4>2, <5>1
      <4> QED
        BY <4>1, <4>2
    <3> QED
      BY <1>4, <1>6, <2>2, <3>2, <3>3, <3>4, <3>6
  <2>4. ASSUME NEW row \in GroupRows \cup {None}, Rewritten(b, row), row = None \/ ~row.active,
               NEW made, Turn({}, made),
               made = IF groups[b].active THEN {Job("fromOrigin", d, None) : d \in groups[b].devices}
                      ELSE {}
        PROVE  CurrentInv'
    <3>1. ASSUME CurrentScope, NEW d \in Devices
          PROVE  \/ Act(d)' = Act(d) /\ \A j \in made : j.serial = d => ~Steers(j)
                 \/ Act(d)' = {} /\ Job("fromOrigin", d, None) \in made
                    /\ \A j \in made : j.kind = "fromOrigin"
      <4>1. Act(d)' = Act(d) \ {b}
        BY <2>4, ActsAre
      <4>2. CASE b \in Act(d)
        BY <1>5, <2>4, <3>1, <4>1, <4>2, JobIs
      <4>3. CASE b \notin Act(d)
        <5>1. ASSUME NEW j \in made, j.serial = d PROVE FALSE
          <6>1. groups[b].active
            BY <2>4, <5>1
          <6>2. PICK e \in groups[b].devices : j = Job("fromOrigin", e, None)
            BY <2>4, <5>1, <6>1
          <6>3. e = d
            BY <5>1, <6>2, JobIs
          <6> QED
            BY <1>5, <2>2, <4>3, <6>1, <6>2, <6>3
        <5> QED
          BY <4>1, <4>3, <5>1
      <4> QED
        BY <4>2, <4>3
    <3> QED
      BY <1>4, <1>6, <2>2, <2>4, <3>1
  <2>5. CASE Deactivate(b)
    <3>1. PICK row \in GroupRows : ~row.active /\ Rewritten(b, row)
      BY <2>5, DeactivateIs
    <3>2. groups[b].active /\ Turn({}, {Job("fromOrigin", d, None) : d \in groups[b].devices})
      BY <2>5, DeactivateIs
    <3>3. PICK made : Turn({}, made) /\ made = {Job("fromOrigin", d, None) : d \in groups[b].devices}
      BY <3>2
    <3> QED
      BY <2>4, <3>1, <3>2, <3>3
  <2>6. CASE EndBooking(b)
    <3>1. PICK row : row = None /\ Rewritten(b, row)
      BY <2>6, EndBookingIs
    <3>2. PICK made : /\ Turn({}, made)
                      /\ made = IF groups[b].active
                                THEN {Job("fromOrigin", d, None) : d \in groups[b].devices}
                                ELSE {}
      BY <2>6, EndBookingIs
    <3> QED
      BY <2>4, <3>1, <3>2
  <2> QED
    BY <2>1, <2>3, <2>5, <2>6
<1>7. CASE op = "unbook"
  <2>1. PICK b \in Bookings, x \in Devices : Unbook(b, x)
    BY <1>7 DEF Operation
  <2>2. groups[b] \in GroupRows /\ Exists(b) /\ x \in groups[b].devices
    BY <2>1, UnbookIs, RowIs DEF Exists
  <2>3. PICK row \in GroupRows : /\ row.devices = groups[b].devices \ {x}
                                 /\ row.active = groups[b].active /\ Rewritten(b, row)
    BY <2>1, UnbookIs
  <2>4. PICK made : /\ Turn({}, made)
                    /\ made = IF groups[b].active THEN {Job("fromOrigin", x, None)} ELSE {}
    BY <2>1, UnbookIs
  <2>5. row # None /\ row \in GroupRows \cup {None}
    BY <2>3, RowIs
  <2>6. ASSUME CurrentScope, NEW d \in Devices
        PROVE  \/ Act(d)' = Act(d) /\ \A j \in made : j.serial = d => ~Steers(j)
               \/ Act(d)' = {} /\ Job("fromOrigin", d, None) \in made
                  /\ \A j \in made : j.kind = "fromOrigin"
    <3>1. CASE d = x /\ groups[b].active
      <4>1. Act(d) = {b}
        BY <1>5, <2>2, <2>6, <3>1
      <4>2. Act(d)' = Act(d) \ {b}
        BY <2>3, <2>5, <3>1, ActsAre
      <4> QED
        BY <2>4, <3>1, <4>1, <4>2, JobIs
    <3>2. CASE ~(d = x /\ groups[b].active)
      <4>1. row.active /\ d \in row.devices <=> b \in Act(d)
        BY <1>5, <2>2, <2>3, <3>2
      <4>2. /\ row.active /\ d \in row.devices => Act(d)' = Act(d) \cup {b}
            /\ ~(row.active /\ d \in row.devices) => Act(d)' = Act(d) \ {b}
        BY <2>3, <2>5, ActsAre
      <4>3. Act(d)' = Act(d)
        BY <4>1, <4>2
      <4> QED
        BY <2>4, <3>2, <4>3, JobIs
    <3> QED
      BY <3>1, <3>2
  <2> QED
    BY <1>4, <1>7, <2>2, <2>3, <2>4, <2>5, <2>6
<1>8. CASE op = "users"
  <2>1. PICK g \in Groups, u \in Users : RemoveUser(g, u) \/ AddUser(g, u)
    BY <1>8 DEF Operation
  <2>2. groups[g] \in GroupRows
    BY <2>1, RemoveUserIs, AddUserIs
  <2>3. PICK row \in GroupRows : /\ row.devices = groups[g].devices
                                 /\ row.active = groups[g].active /\ Rewritten(g, row)
    BY <2>1, RemoveUserIs, AddUserIs
  <2>4. PICK made : /\ Turn({}, made)
                    /\ \/ made = {[Job("evict", d, g) EXCEPT !.user = u] : d \in groups[g].devices}
                       \/ made = {}
    BY <2>1, RemoveUserIs, AddUserIs
  <2>5. ASSUME NEW j \in made PROVE j.kind = "evict"
    <3>1. PICK d \in groups[g].devices : j = [Job("evict", d, g) EXCEPT !.user = u]
      BY <2>4
    <3> QED
      BY <3>1 DEF Job
  <2> QED
    BY <1>3, <2>2, <2>3, <2>4, <2>5, LikeRows DEF Steers, Backwards
<1>9. CASE op = "invite"
  <2>1. Turn({}, {}) /\ UNCHANGED groups
    BY <1>9, InviteIs DEF Operation
  <2>2. PICK none : none = {}
    OBVIOUS
  <2>3. Turn({}, none) /\ \A j \in none : ~Steers(j)
    BY <2>1, <2>2
  <2> QED
    BY <1>3, <2>1, <2>3, SameRows
<1> QED
  BY <1>6, <1>7, <1>8, <1>9

\* It is enough to look at the device of a job.
LEMMA WorkKeepsCurrent ==
    ASSUME TypeOK, CurrentInv, WorkFrame, NEW job \in BagToSet(jobs), NEW x \in Devices,
           x = job.serial, NEW made, Turn({job}, made), \A j \in made : j.serial = x,
           UNCHANGED groups, NEW row, Reassigned(x, row),
           CurrentScope /\ Current(x) => Current(x)'
    PROVE  CurrentInv'
<1>1. SameActs /\ SameGroups(Groups) /\ UNCHANGED <<standard, scenario>>
  BY SameRows DEF WorkFrame
<1>2. PICK gone : gone = {job}
  OBVIOUS
<1>3. ASSUME NEW d \in Devices, d # x, Current(d) PROVE Current(d)'
  <2>1. PICK i, o, c : /\ i = devices[d].id /\ o = devices[d].origin /\ c = devices[d].class
                       /\ devices'[d] = devices[d]
    BY <1>3 DEF Reassigned
  <2>2. PICK act : act = Act(d) /\ act = Act(d)'
    BY <1>1 DEF SameActs
  <2>3. ASSUME NEW j, j.serial = d PROVE j \in ToDo' <=> j \in ToDo
    BY <1>3, <2>3 DEF Turn
  <2>4. groups'[o] = groups[o]
    OBVIOUS
  <2>5. OneBooking(d)'
    BY <1>3, <2>2 DEF Current, OneBooking
  <2>6. JobsAgree(d)'
    <3> SUFFICES ASSUME NEW j \in ToDo', j.serial = d
                 PROVE  /\ j.kind = "current" => j.group \in act
                        /\ Backwards(j) => act = {} /\ groups'[o] # None
                        /\ j.kind \in {"readGroup", "back"} => j.group = o
      BY <2>1, <2>2 DEF JobsAgree, Backwards, Exists
    <3>1. j \in ToDo
      BY <2>3
    <3> QED
      BY <1>3, <2>1, <2>2, <2>4, <3>1 DEF Current, JobsAgree, Exists
  <2>7. Placed(d)'
    <3>1. i \in {o} \cup act \/ \E j \in ToDo' : j.serial = d /\ Backwards(j)
      BY <1>3, <2>1, <2>2, <2>3 DEF Current, Placed
    <3>2. act # {} /\ i = o => \E j \in ToDo' : j.serial = d /\ j.kind = "current"
      BY <1>3, <2>1, <2>2, <2>3 DEF Current, Placed
    <3>3. c = Class(i) /\ Class(i)' = Class(i)
      BY <1>1, <1>3, <2>1 DEF Current, Placed, Class
    <3> QED
      BY <2>1, <2>2, <3>1, <3>2, <3>3 DEF Placed, Backwards, Class
  <2> QED
    BY <2>5, <2>6, <2>7 DEF Current
<1>4. \A g \in Origins : Exists(g)' => Exists(g)
  BY <1>1 DEF SameGroups, Groups
<1> QED
  BY <1>1, <1>3, <1>4, EachIsCurrent

\* The row of a device was written, and says where the device is.
LEMMA PlaceWritten ==
    ASSUME TypeOK, NEW x \in Devices, UNCHANGED <<groups, standard>>,
           NEW row, Reassigned(x, row), row.class = Class(row.id), OneBooking(x),
           NEW act, act = Act(x),
           row.id \in {row.origin} \cup act,
           act # {} /\ row.id = row.origin => \E j \in ToDo' : j.serial = x /\ j.kind = "current",
           \A j \in ToDo' : j.serial = x =>
               /\ j.kind = "current" => j.group \in act
               /\ Backwards(j) => act = {} /\ Exists(row.origin)
               /\ j.kind \in {"readGroup", "back"} => j.group = row.origin
    PROVE  Current(x)'
<1>1. devices'[x] = row
  BY DEF Reassigned
<1>2. act = Act(x)'
  BY DEF Act, Exists
<1>3. OneBooking(x)'
  BY <1>2 DEF OneBooking
<1>4. PICK o : o = row.origin
  OBVIOUS
<1>5. groups'[o] = groups[o]
  OBVIOUS
<1>6. JobsAgree(x)'
  BY <1>1, <1>2, <1>4, <1>5 DEF JobsAgree, Backwards, Exists
<1>7. PICK i : i = row.id
  OBVIOUS
<1>8. Class(i)' = Class(i)
  BY DEF Class
<1>9. Placed(x)'
  BY <1>1, <1>2, <1>7, <1>8 DEF Placed, Backwards, Class
<1> QED
  BY <1>3, <1>6, <1>9 DEF Current

\* A device moves: it stays in its booking, or goes to its new origin.
LEMMA TreatKeepsCurrent ==
    ASSUME TypeOK, BackInv, CurrentInv, NEW job \in BagToSet(jobs),
           TreatTicket(job) \/ MoveToRoot(job)
    PROVE  CurrentInv'
<1>1. PICK x, g, row : x = job.serial /\ g = job.group /\ row = Moved(devices[x], g)
  OBVIOUS
<1>2. /\ WorkFrame /\ UNCHANGED groups /\ job.kind \in {"ticket", "toRoot"}
      /\ x \in Devices /\ g \in Origins /\ Reassigned(x, row)
      /\ Turn({job}, Sent(x, row)) /\ job \in ToDo
  <2>1. CASE TreatTicket(job)
    BY <1>1, <2>1, TicketIs, AtWork
  <2>2. CASE MoveToRoot(job)
    BY <1>1, <2>2, ToRootIs, AtWork DEF Origins
  <2> QED
    BY <2>1, <2>2
<1>3. PICK old : old = devices[x] /\ old \in DeviceRows
  BY <1>2, OriginIs
<1>4. /\ row.origin = g
      /\ old.id = old.origin => row.id = g /\ row.class = Class(g)
      /\ old.id # old.origin => row.id = old.id /\ row.class = old.class
  BY <1>1, <1>2, <1>3, MovedType
<1>5. PICK made : made = Sent(x, row)
  OBVIOUS
<1>6. Turn({job}, made) /\ \A j \in made : j.serial = x /\ j.kind = "device"
  BY <1>2, <1>5, SentIs
<1>7. ASSUME CurrentScope, Current(x) PROVE Current(x)'
  <2>1. PICK act : act = Act(x) /\ act \subseteq Bookings
    BY <1>2, OriginIs
  <2>2. old.id \in {old.origin} \cup act
    BY <1>2, <1>3, <1>7, <2>1, WhereItIs DEF Backwards, Unmoved
  <2>3. old.class = Class(old.id)
    BY <1>3, <1>7 DEF Current, Placed
  <2>4. row.class = Class(row.id) /\ row.id \in {row.origin} \cup act
    BY <1>4, <2>2, <2>3
  <2>5. act # {} /\ row.id = row.origin => \E j \in ToDo' : j.serial = x /\ j.kind = "current"
    <3> SUFFICES ASSUME act # {}, row.id = row.origin
                 PROVE  \E j \in ToDo' : j.serial = x /\ j.kind = "current"
      OBVIOUS
    <3>1. old.id = old.origin
      BY <1>2, <1>4, <2>1, <2>2, BookingsAreNoOrigins
    <3>2. PICK j \in ToDo : j.serial = x /\ j.kind = "current"
      BY <1>3, <1>7, <2>1, <3>1 DEF Current, Placed
    <3>3. j # job
      BY <1>2, <3>2
    <3> QED
      BY <1>6, <3>2, <3>3 DEF Turn
  <2>6. \A j \in ToDo : ~Backwards(j)
    BY <1>2, <1>7 DEF BackInv, CurrentScope, Backwards, Unmoved
  <2>7. ASSUME NEW j \in ToDo', j.serial = x
        PROVE  /\ j.kind = "current" => j.group \in act
               /\ ~Backwards(j) /\ j.kind \notin {"readGroup", "back"}
    <3>1. j \in ToDo \/ j.kind = "device"
      BY <1>6 DEF Turn
    <3> QED
      BY <1>7, <2>1, <2>6, <2>7, <3>1 DEF Current, JobsAgree, Backwards
  <2>8. UNCHANGED standard /\ OneBooking(x)
    BY <1>2, <1>7 DEF WorkFrame, Current
  <2> QED
    BY <1>2, <2>1, <2>4, <2>5, <2>7, <2>8, PlaceWritten
<1> QED
  BY <1>1, <1>2, <1>6, <1>7, WorkKeepsCurrent

\* A booking has begun: the device is in it.
LEMMA MakingKeepsCurrent ==
    ASSUME TypeOK, CurrentInv, NEW job \in BagToSet(jobs), MakeCurrent(job)
    PROVE  CurrentInv'
<1>1. PICK x, b : x = job.serial /\ b = job.group
  OBVIOUS
<1>2. /\ WorkFrame /\ UNCHANGED groups /\ job.kind = "current" /\ x \in Devices
      /\ b \in Bookings /\ job \in ToDo
  BY <1>1, CurrentIs, AtWork
<1>3. PICK row \in DeviceRows : /\ row.id = b /\ row.origin = devices[x].origin
                                /\ row.class = Class(b) /\ Reassigned(x, row)
                                /\ Turn({job}, Sent(x, row))
  BY <1>1, CurrentIs
<1>4. PICK made : made = Sent(x, row)
  OBVIOUS
<1>5. Turn({job}, made) /\ \A j \in made : j.serial = x /\ j.kind = "device"
  BY <1>3, <1>4, SentIs
<1>6. ASSUME CurrentScope, Current(x) PROVE Current(x)'
  <2>1. PICK act : act = Act(x) /\ b \in act
    BY <1>1, <1>2, <1>6 DEF Current, JobsAgree
  <2>2. row.origin # b
    BY <1>2, <1>3, OriginIs
  <2>3. ASSUME NEW j \in ToDo', j.serial = x
        PROVE  /\ j.kind = "current" => j.group \in act
               /\ ~Backwards(j) /\ j.kind \notin {"readGroup", "back"}
    <3>1. j \in ToDo \/ j.kind = "device"
      BY <1>5 DEF Turn
    <3> QED
      BY <1>6, <2>1, <2>3, <3>1 DEF Current, JobsAgree, Backwards
  <2>4. UNCHANGED standard /\ OneBooking(x)
    BY <1>2, <1>6 DEF WorkFrame, Current
  <2> QED
    BY <1>2, <1>3, <2>1, <2>2, <2>3, <2>4, PlaceWritten
<1> QED
  BY <1>1, <1>2, <1>3, <1>5, <1>6, WorkKeepsCurrent

\* A booking is over: the device is in its origin again.
LEMMA GoingBackKeepsCurrent ==
    ASSUME TypeOK, CurrentInv, NEW job \in BagToSet(jobs), GoBack(job)
    PROVE  CurrentInv'
<1>1. PICK x, g : x = job.serial /\ g = job.group
  OBVIOUS
<1>2. /\ WorkFrame /\ UNCHANGED groups /\ job.kind = "back" /\ x \in Devices /\ job \in ToDo
  BY <1>1, BackIs, AtWork
<1>3. PICK row \in DeviceRows : /\ row.id = devices[x].origin /\ row.origin = devices[x].origin
                                /\ row.class = Class(g) /\ Reassigned(x, row)
                                /\ Turn({job}, Sent(x, row))
  BY <1>1, BackIs
<1>4. PICK made : made = Sent(x, row)
  OBVIOUS
<1>5. Turn({job}, made) /\ \A j \in made : j.serial = x /\ j.kind = "device"
  BY <1>3, <1>4, SentIs
<1>6. ASSUME CurrentScope, Current(x) PROVE Current(x)'
  <2>1. PICK o, act : o = devices[x].origin /\ act = Act(x)
    OBVIOUS
  <2>2. act = {} /\ Exists(o) /\ g = o
    BY <1>1, <1>2, <1>6, <2>1 DEF Current, JobsAgree, Backwards
  <2>3. ASSUME NEW j \in ToDo', j.serial = x
        PROVE  /\ j.kind # "current"
               /\ j.kind \in {"readGroup", "back"} => j.group = o
    <3>1. j \in ToDo \/ j.kind = "device"
      BY <1>5 DEF Turn
    <3> QED
      BY <1>6, <2>1, <2>2, <2>3, <3>1 DEF Current, JobsAgree, Backwards
  <2>4. UNCHANGED standard /\ OneBooking(x)
    BY <1>2, <1>6 DEF WorkFrame, Current
  <2> QED
    BY <1>2, <1>3, <2>1, <2>2, <2>3, <2>4, PlaceWritten
<1> QED
  BY <1>1, <1>2, <1>3, <1>5, <1>6, WorkKeepsCurrent

\* The device and its origin group are read.
LEMMA ReadingKeepsCurrent ==
    ASSUME TypeOK, CurrentInv, NEW job \in BagToSet(jobs), ReadOrigin(job) \/ ReadGroup(job)
    PROVE  CurrentInv'
<1>1. PICK x, o, row : x = job.serial /\ o = devices[x].origin /\ row = devices[x]
  OBVIOUS
<1>2. /\ WorkFrame /\ UNCHANGED <<groups, devices>> /\ Backwards(job) /\ x \in Devices
      /\ job \in ToDo /\ row \in DeviceRows
      /\ job.kind \in {"fromOrigin", "readGroup"}
  BY <1>1, ReadOriginIs, ReadGroupIs, AtWork DEF Backwards
<1>3. PICK made :
          /\ Turn({job}, made)
          /\ \A j \in made : /\ j.serial = x /\ j.kind \in {"readGroup", "back"}
                             /\ j.group = IF job.kind = "fromOrigin" THEN o ELSE job.group
          /\ job.kind = "fromOrigin" \/ Exists(job.group) => made # {}
  <2>1. CASE ReadOrigin(job)
    <3>1. PICK made : made = {Job("readGroup", x, o)}
      OBVIOUS
    <3>2. Turn({job}, made) /\ job.kind = "fromOrigin"
      BY <1>1, <2>1, <3>1, ReadOriginIs
    <3> QED
      BY <3>1, <3>2, JobIs
  <2>2. CASE ReadGroup(job)
    BY <1>1, <2>2, ReadGroupIs
  <2> QED
    BY <2>1, <2>2
<1>4. Reassigned(x, row)
  BY <1>1, <1>2 DEF Reassigned
<1>5. ASSUME CurrentScope, Current(x) PROVE Current(x)'
  <2>1. PICK act : act = Act(x)
    OBVIOUS
  <2>2. act = {} /\ Exists(o) /\ (job.kind = "readGroup" => job.group = o)
    BY <1>1, <1>2, <1>5, <2>1 DEF Current, JobsAgree
  <2>3. PICK k \in made : k.serial = x /\ Backwards(k) /\ k \in ToDo'
    BY <1>2, <1>3, <2>2 DEF Turn, Backwards
  <2>4. ASSUME NEW j \in ToDo', j.serial = x
        PROVE  /\ j.kind # "current"
               /\ j.kind \in {"readGroup", "back"} => j.group = o
    <3>1. j \in ToDo \/ j \in made
      BY <1>3 DEF Turn
    <3> QED
      BY <1>1, <1>2, <1>3, <1>5, <2>1, <2>2, <2>4, <3>1 DEF Current, JobsAgree
  <2>5. PICK i, c : i = row.id /\ c = row.class /\ c = Class(i)
    BY <1>1, <1>5 DEF Current, Placed
  <2>6. act = Act(x)' /\ devices'[x] = row /\ groups'[o] # None /\ Class(i)' = Class(i)
    BY <1>1, <1>2, <2>1, <2>2 DEF Act, Exists, Class, WorkFrame
  <2>7. OneBooking(x)' /\ JobsAgree(x)'
    BY <1>1, <2>2, <2>4, <2>6 DEF OneBooking, JobsAgree, Exists
  <2>8. Placed(x)'
    BY <1>1, <2>2, <2>3, <2>5, <2>6 DEF Placed, Backwards, Class
  <2> QED
    BY <2>7, <2>8 DEF Current
<1> QED
  BY <1>1, <1>2, <1>3, <1>4, <1>5, WorkKeepsCurrent

\* Jobs that are about no booking.
LEMMA OtherWorkKeepsCurrent ==
    ASSUME TypeOK, CurrentInv, NEW job \in BagToSet(jobs),
           Evict(job) \/ TreatDevice(job) \/ Relist(job)
    PROVE  CurrentInv'
<1>1. WorkFrame /\ UNCHANGED devices /\ job.kind \in {"evict", "device", "drop", "add"}
  BY EvictIs, TreatDeviceIs, RelistIs
<1>2. SamePlaces
  BY <1>1 DEF SamePlaces
<1>3. SameActs /\ SameGroups(Groups)
  BY SameRows, EvictIs, TreatDeviceIs, RelistedIs
<1>4. PICK made : Turn({job}, made) /\ \A j \in made : j.kind \in {"drop", "add"}
  <2>1. CASE Evict(job) \/ Relist(job)
    <3>1. PICK none : none = {}
      OBVIOUS
    <3>2. Turn({job}, none)
      BY <2>1, <3>1, EvictIs, RelistIs
    <3> QED
      BY <3>1, <3>2
  <2>2. CASE TreatDevice(job)
    <3>1. PICK made : made = IF Exists(job.group) /\ job.change.new.origin # job.change.old.origin
                             THEN {Job("drop", job.serial, job.change.old.origin),
                                   Job("add", job.serial, job.change.new.origin)}
                             ELSE {}
      OBVIOUS
    <3>2. Turn({job}, made)
      BY <2>2, <3>1, TreatDeviceIs
    <3> QED
      BY <3>1, <3>2, JobIs
  <2> QED
    BY <2>1, <2>2
<1>5. PICK gone : gone = {job}
  OBVIOUS
<1>6. Turn(gone, made) /\ \A j \in gone \cup made : ~Steers(j)
  BY <1>1, <1>4, <1>5 DEF Steers, Backwards
<1> QED
  BY <1>1, <1>2, <1>3, <1>6, PlacesKept DEF WorkFrame

LEMMA StepKeepsCurrent ==
    ASSUME TypeOK, RowInv, OriginInv, BackInv, CurrentInv, [Next]_vars
    PROVE  CurrentInv'
<1>1. ASSUME Turn({}, {}), SamePlaces, UNCHANGED <<groups, standard, scenario>>
      PROVE  CurrentInv'
  <2>1. PICK none : none = {}
    OBVIOUS
  <2>2. Turn(none, none) /\ \A j \in none \cup none : ~Steers(j)
    BY <1>1, <2>1
  <2> QED
    BY <1>1, <2>2, SameRows, PlacesKept
<1>2. CASE UNCHANGED vars
  <2>1. FeedsOK /\ UNCHANGED <<groupFeed, deviceFeed, jobs>>
    BY <1>2, TypesAreStored DEF vars
  <2>2. Turn({}, {})
    BY <2>1, IdleTurn
  <2> QED
    BY <1>1, <1>2, <2>2 DEF vars, SamePlaces
<1>3. ASSUME NEW r \in Requests, Ask(r) PROVE CurrentInv'
  <2>1. Turn({}, {}) /\ UNCHANGED <<groups, devices>> /\ Begin(requests'[r].op)
    BY <1>3, AskIs
  <2>2. UNCHANGED <<standard, scenario>>
    BY <2>1, BeginIs DEF TypeOK
  <2> QED
    BY <1>1, <2>1, <2>2 DEF SamePlaces
<1>4. CASE Aside
  BY <1>1, <1>4, AsideIs
<1>5. ASSUME NEW job \in BagToSet(jobs), Work(job) PROVE CurrentInv'
  BY <1>5, TreatKeepsCurrent, MakingKeepsCurrent, GoingBackKeepsCurrent,
     ReadingKeepsCurrent, OtherWorkKeepsCurrent DEF Work
<1> QED
  BY <1>2, <1>3, <1>4, <1>5, ServeKeepsCurrent, OperationKeepsCurrent, WhoSteps

\* The inductive invariant.
Located == Settled /\ BackInv /\ OriginInv /\ CurrentInv

LEMMA LocatedToBeginWith ==
    ASSUME Init
    PROVE  Located
<1>1. Settled /\ TypeOK
  BY SettledToBeginWith DEF Settled
<1>2. Serving = {} /\ ToDo = {}
  <2>1. Serving = {}
    BY DEF Init, Serving
  <2>2. ToDo = {}
    BY DEF Init, ToDo, EmptyBag, SetToBag, BagToSet
  <2> QED
    BY <2>1, <2>2
<1>3. ASSUME NEW d \in Devices
      PROVE  /\ Resting(d) /\ Act(d) = {}
             /\ devices[d].id = Root /\ devices[d].origin = Root
             /\ devices[d].class = Class(Root)
  <2>1. devices[d].id = Root /\ devices[d].origin = Root /\ devices[d].class = Class(Root)
    BY DEF Init
  <2>2. PICK users : groups = [g \in Groups |->
                                 Group(g, IF g \in Origins THEN Users ELSE users)]
    BY DEF Init
  <2>3. ASSUME NEW g \in Groups
        PROVE  /\ groups[g].devices = IF g = Root THEN Devices ELSE {}
               /\ groups[g].active = (g \in Origins)
    BY <2>2 DEF Group
  <2>4. Exists(Root)
    BY <1>1, OriginIs
  <2>5. Listed(d) = {Root}
    BY <2>3, <2>4 DEF Listed, Groups, Origins
  <2>6. Act(d) = {}
    BY <2>3, BookingsAreNoOrigins DEF Act, Groups
  <2>7. Chain(d) = {}
    BY <1>2 DEF Chain
  <2> QED
    BY <2>1, <2>4, <2>5, <2>6, <2>7 DEF Resting, AtHome
<1>4. BackInv
  BY <1>2 DEF BackInv
<1>5. OriginInv
  BY <1>3 DEF OriginInv, Stage
<1>6. CurrentInv
  BY <1>2, <1>3 DEF CurrentInv, Current, OneBooking, JobsAgree, Placed
<1> QED
  BY <1>1, <1>4, <1>5, <1>6 DEF Located

LEMMA StepKeepsLocated ==
    ASSUME Located, [Next]_vars
    PROVE  Located'
<1>1. Settled' /\ TypeOK /\ HeldInv /\ RowInv /\ TicketsMatch
  BY StepKeepsSettled DEF Located, Settled
<1>2. BackInv'
  BY <1>1, StepKeepsBack DEF Located
<1>3. OriginInv' /\ CurrentInv'
  BY <1>1, StepKeepsOrigins, StepKeepsCurrent DEF Located
<1> QED
  BY <1>1, <1>2, <1>3 DEF Located

LEMMA AlwaysLocated == Spec => []Located
<1>1. Init => Located
  BY LocatedToBeginWith
<1>2. Located /\ [Next]_vars => Located'
  BY StepKeepsLocated
<1> QED
  BY <1>1, <1>2, PTL DEF Spec

\* Once nothing is under way, the origin group of a device exists and lists it,
\* and no other does (doUpdateDeviceOriginGroup of watchers/groups.ts, and
\* updateOriginGroups of watchers/devices.ts, which bring the lists up to date).
THEOREM ListsAgree == Spec => []OriginsAgree
<1>1. Located => OriginsAgree
  <2> SUFFICES ASSUME Located, MoveScope, Quiet, NEW d \in Devices
               PROVE  /\ Exists(devices[d].origin)
                      /\ \A g \in Origins :
                             Exists(g) => (d \in groups[g].devices <=> devices[d].origin = g)
    BY DEF OriginsAgree, MoveScope
  <2>1. TypeOK /\ Stage(d)
    BY DEF Located, Settled, OriginInv, MoveScope
  <2>2. Chain(d) = {}
    BY QuietIs DEF Chain
  <2>3. Resting(d)
    BY <2>1, <2>2, NothingToDo
  <2> QED
    BY <2>3 DEF Resting, AtHome, Listed
<1> QED
  BY <1>1, AlwaysLocated, PTL

\* Once nothing is under way, a device is in the booking of it that is active,
\* or else in its origin, and has the class of that group (dbapi.ts,
\* updateDeviceCurrentGroup and updateDeviceCurrentGroupFromOrigin).
THEOREM PlacesAgree == Spec => []CurrentIsRight
<1>1. Located => CurrentIsRight
  <2> SUFFICES ASSUME Located, CurrentScope, Quiet, NEW d \in Devices
               PROVE  /\ devices[d].id \in IF Act(d) = {} THEN {devices[d].origin} ELSE Act(d)
                      /\ devices[d].class = Class(devices[d].id)
    BY DEF CurrentIsRight, CurrentScope, Act
  <2>1. ToDo = {} /\ Current(d)
    BY QuietIs DEF Located, CurrentInv
  <2> QED
    BY <2>1 DEF Current, Placed
<1> QED
  BY <1>1, AlwaysLocated, PTL

-----------------------------------------------------------------------------
(***************************************************************************)
(* Who holds a device.  An invitation and a removal begin when all is      *)
(* quiet; so but for the holder that was just invited the row knows who    *)
(* holds the device, and a holder that is not in its group is about to be  *)
(* told to leave.                                                          *)
(***************************************************************************)
HolderScope == {"relist", "schedule", "unbook", "invite", "users"} \subseteq scenario

Rest == alone /\ Serving = {} /\ ToDo = {}

Known == \A d \in Devices : devices[d].owner = holder[d]

Invited ==
    \A o \in orders : o.user # None =>
        /\ Rest /\ orders = {o} /\ Known
        /\ holder[o.serial] = None /\ Exists(devices[o.serial].id)
        /\ o.user \in groups[devices[o.serial].id].users

Told == (\E d \in Devices : holder[d] \notin {None, devices[d].owner}) => Rest /\ orders = {}

\* Jobs that will make the holder leave.
Evicts(j, d) ==
    \/ j.kind = "evict" /\ j.group = devices[d].id /\ j.user = holder[d]
    \/ /\ j.kind = "device" /\ j.change.new.id = devices[d].id
       /\ j.change.old.id # devices[d].id /\ j.change.new.owner = holder[d]

Leaving(d) ==
    \/ [serial |-> d, user |-> None] \in orders
    \/ \E j \in ToDo : j.serial = d /\ Evicts(j, d)

Outside(d) ==
    holder[d] # None /\ Exists(devices[d].id) /\ holder[d] \notin groups[devices[d].id].users

HolderInv == HolderScope => Invited /\ Told /\ \A d \in Devices : Outside(d) => Leaving(d)

\* Nobody is invited, and the row knows the holder.
Informed ==
    /\ \A o \in orders : o.user = None
    /\ \A d \in Devices : holder[d] \in {None, devices[d].owner}

LEMMA InformedIs ==
    /\ Informed => Invited /\ Told
    /\ Invited /\ Told /\ ~Rest => Informed
    /\ Quiet => Informed
BY QuietIs DEF Informed, Invited, Told

\* No group gets a row again, or loses a user.
NobodyIsRemoved ==
    \A g \in Groups : Exists(g)' => Exists(g) /\ groups[g].users \subseteq groups'[g].users

LEMMA LikeUsers ==
    ASSUME NEW g \in Groups, NEW row \in GroupRows \cup {None}, Rewritten(g, row),
           row # None => Exists(g) /\ groups[g].users \subseteq row.users
    PROVE  NobodyIsRemoved
BY DEF NobodyIsRemoved, Rewritten, Exists

LEMMA SameUsers ==
    UNCHANGED groups => NobodyIsRemoved
BY DEF NobodyIsRemoved, Exists

\* A device that stays in its group, with its holder.
LEMMA OutsideKept ==
    ASSUME TypeOK, NobodyIsRemoved, NEW d \in Devices, devices'[d].id = devices[d].id,
           holder'[d] = holder[d], orders \subseteq orders',
           NEW gone, NEW made, Turn(gone, made),
           \A j \in gone : j.serial = d => j.kind \notin {"evict", "device"},
           Outside(d) => Leaving(d)
    PROVE  Outside(d)' => Leaving(d)'
<1>1. PICK i : i = devices[d].id /\ i = devices'[d].id
  OBVIOUS
<1>2. i \in Groups
  BY <1>1 DEF TypeOK, DevicesOK, DeviceRows
<1>3. PICK h : h = holder[d] /\ h = holder'[d]
  OBVIOUS
<1> SUFFICES ASSUME h # None, groups'[i] # None, h \notin groups'[i].users
             PROVE  Leaving(d)'
  BY <1>1, <1>3 DEF Outside, Exists
<1>4. Outside(d)
  BY <1>1, <1>2, <1>3 DEF Outside, Exists, NobodyIsRemoved
<1>5. CASE [serial |-> d, user |-> None] \in orders
  BY <1>5 DEF Leaving
<1>6. CASE \E j \in ToDo : j.serial = d /\ Evicts(j, d)
  <2>1. PICK j \in ToDo : j.serial = d /\ Evicts(j, d)
    BY <1>6
  <2>2. j.kind \in {"evict", "device"}
    BY <2>1 DEF Evicts
  <2>3. j \in ToDo'
    BY <2>1, <2>2 DEF Turn
  <2>4. \/ j.kind = "evict" /\ j.group = i /\ j.user = h
        \/ /\ j.kind = "device" /\ j.change.new.id = i
           /\ j.change.old.id # i /\ j.change.new.owner = h
    BY <1>1, <1>3, <2>1 DEF Evicts
  <2> QED
    BY <1>1, <1>3, <2>1, <2>3, <2>4 DEF Leaving, Evicts
<1> QED
  BY <1>4, <1>5, <1>6 DEF Leaving

\* What is left alone does not disturb anybody.
LEMMA StaysInformed ==
    ASSUME Informed, UNCHANGED holder,
           \A o \in orders' : o \in orders \/ o.user = None,
           \A d \in Devices : devices'[d].owner = devices[d].owner
    PROVE  Informed'
BY DEF Informed

LEMMA HoldersInformed ==
    ASSUME UNCHANGED scenario,
           HolderScope => Informed' /\ \A d \in Devices : Outside(d)' => Leaving(d)'
    PROVE  HolderInv'
<1>1. Informed' => Invited' /\ Told'
  BY DEF Informed, Invited, Told
<1> QED
  BY <1>1 DEF HolderInv, HolderScope

LEMMA AskKeepsHolders ==
    ASSUME TypeOK, HolderInv, NEW r \in Requests, Ask(r)
    PROVE  HolderInv'
<1>1. /\ Turn({}, {}) /\ Begin(requests'[r].op)
      /\ UNCHANGED <<groups, devices, holder, orders>>
  BY AskIs
<1>2. UNCHANGED scenario /\ (alone => Quiet)
  BY <1>1, BeginIs DEF TypeOK
<1> SUFFICES ASSUME HolderScope
             PROVE  Informed' /\ \A d \in Devices : Outside(d)' => Leaving(d)'
  BY <1>2, HoldersInformed
<1>3. Informed
  BY <1>2, InformedIs DEF HolderInv, Rest
<1>4. Informed'
  BY <1>1, <1>3, StaysInformed
<1>5. PICK none : none = {}
  OBVIOUS
<1>6. Turn(none, none) /\ NobodyIsRemoved
  BY <1>1, <1>5, SameUsers
<1>7. ASSUME NEW d \in Devices PROVE Outside(d)' => Leaving(d)'
  BY <1>1, <1>5, <1>6, OutsideKept DEF HolderInv
<1> QED
  BY <1>4, <1>7

LEMMA ServeKeepsHolders ==
    ASSUME TypeOK, RowInv, HolderInv, NEW r \in Requests, Serve(r) \/ TimeOut(r)
    PROVE  HolderInv'
<1>1. ServeFrame /\ SamePlaces /\ r \in Serving /\ UNCHANGED scenario
  BY ServeMakes
<1>2. PICK made : Turn({}, made)
  BY ServeMakes
<1> SUFFICES ASSUME HolderScope
             PROVE  Informed' /\ \A d \in Devices : Outside(d)' => Leaving(d)'
  BY <1>1, HoldersInformed
<1>3. Informed
  BY <1>1, InformedIs DEF HolderInv, Rest
<1>4. Informed'
  BY <1>1, <1>3, StaysInformed DEF ServeFrame
<1>5. NobodyIsRemoved
  <2>1. PICK g : g = requests[r].to
    OBVIOUS
  <2>2. CASE UNCHANGED groups
    BY <2>2, SameUsers
  <2>3. CASE Book(r)
    <3>1. \/ UNCHANGED groups
          \/ /\ g \in Bookings /\ Exists(g)
             /\ \E row \in GroupRows : row.users = groups[g].users /\ Rewritten(g, row)
      BY <2>1, <2>3, BookWrites
    <3> QED
      BY <2>2, <3>1, LikeUsers DEF Groups
  <2>4. CASE AskTicket(r)
    <3>1. \/ UNCHANGED groups
          \/ /\ g \in Origins /\ Exists(g)
             /\ \E row \in GroupRows : row.users = groups[g].users /\ Rewritten(g, row)
      BY <2>1, <2>4, TicketIsWritten
    <3> QED
      BY <2>2, <3>1, LikeUsers DEF Groups
  <2>5. CASE DeleteRow(r)
    <3>1. g \in Origins /\ Rewritten(g, None)
      BY <2>1, <2>5, RowIsDeleted
    <3> QED
      BY <3>1, LikeUsers DEF Groups
  <2>6. UNCHANGED groups \/ Book(r) \/ AskTicket(r) \/ DeleteRow(r)
    BY LocksAre, StepsAre DEF Serve
  <2> QED
    BY <2>2, <2>3, <2>4, <2>5, <2>6
<1>6. PICK none : none = {}
  OBVIOUS
<1>7. Turn(none, made)
  BY <1>2, <1>6
<1>8. ASSUME NEW d \in Devices PROVE Outside(d)' => Leaving(d)'
  BY <1>1, <1>5, <1>6, <1>7, OutsideKept DEF HolderInv, ServeFrame
<1> QED
  BY <1>4, <1>8

\* The worker, the processor and the change feeds.
LEMMA ObeyKeepsHolders ==
    ASSUME TypeOK, HolderInv, NEW order \in orders, Obey(order)
    PROVE  HolderInv'
<1> DEFINE x == order.serial
           u == order.user
<1>1. /\ Turn({}, {}) /\ UNCHANGED <<groups, devices, requests, scenario, alone>>
      /\ x \in Devices /\ u \in Users \cup {None}
      /\ order = [serial |-> x, user |-> u] /\ orders' = orders \ {order}
      /\ \A d \in Devices \ {x} : holder'[d] = holder[d]
      /\ holder'[x] = IF u = None \/ holder[x] = None THEN u ELSE holder[x]
  BY ObeyIs
<1> SUFFICES ASSUME HolderScope
             PROVE  Invited' /\ Told' /\ \A d \in Devices : Outside(d)' => Leaving(d)'
  BY <1>1 DEF HolderInv, HolderScope
<1>2. Invited /\ Told /\ \A d \in Devices : Outside(d) => Leaving(d)
  BY DEF HolderInv
<1>3. PICK none : none = {}
  OBVIOUS
<1>4. Turn(none, none) /\ NobodyIsRemoved /\ ToDo' = ToDo /\ Serving' = Serving
  <2>1. ToDo' = ToDo
    BY <1>1 DEF Turn
  <2> QED
    BY <1>1, <1>3, <2>1, SameUsers DEF Serving
<1>5. CASE u = None
  <2>1. \A o \in orders : o.user = None
    <3>1. ASSUME NEW o \in orders, o.user # None PROVE FALSE
      <4>1. orders = {o}
        BY <1>2, <3>1 DEF Invited
      <4> QED
        BY <1>5, <3>1, <4>1
    <3> QED
      BY <3>1
  <2>2. \A d \in Devices : holder[d] \in {None, devices[d].owner}
    BY <1>2 DEF Told
  <2>3. \A d \in Devices : holder'[d] \in {None, devices'[d].owner}
    BY <1>1, <1>5, <2>2
  <2>4. Invited' /\ Told'
    BY <1>1, <2>1, <2>3 DEF Invited, Told
  <2>5. ASSUME NEW d \in Devices, Outside(d)' PROVE Leaving(d)'
    <3>1. d # x
      BY <1>1, <1>5, <2>5 DEF Outside
    <3>2. holder'[d] = holder[d]
      BY <1>1, <3>1
    <3>3. Outside(d)
      BY <1>1, <2>5, <3>2 DEF Outside, Exists
    <3>4. CASE [serial |-> d, user |-> None] \in orders
      <4>1. [serial |-> d, user |-> None].serial # order.serial
        BY <3>1
      <4>2. [serial |-> d, user |-> None] \in orders'
        BY <1>1, <3>4, <4>1
      <4> QED
        BY <4>2 DEF Leaving
    <3>5. CASE \E j \in ToDo : j.serial = d /\ Evicts(j, d)
      <4>1. PICK j \in ToDo : j.serial = d /\ Evicts(j, d)
        BY <3>5
      <4> QED
        BY <1>1, <1>4, <3>2, <4>1 DEF Leaving, Evicts
    <3> QED
      BY <1>2, <3>3, <3>4, <3>5 DEF Leaving
  <2> QED
    BY <2>4, <2>5
<1>6. CASE u # None
  <2>1. /\ Rest /\ orders = {order} /\ Known /\ holder[x] = None
        /\ Exists(devices[x].id) /\ u \in groups[devices[x].id].users
    BY <1>2, <1>6 DEF Invited
  <2>2. Rest' /\ orders' = {}
    BY <1>1, <1>4, <2>1 DEF Rest
  <2>3. Invited' /\ Told'
    BY <2>2 DEF Invited, Told
  <2>4. ASSUME NEW d \in Devices, Outside(d)' PROVE FALSE
    <3>1. d # x
      BY <1>1, <2>1, <2>4 DEF Outside
    <3>2. Outside(d)
      BY <1>1, <2>4, <3>1 DEF Outside, Exists
    <3>3. [serial |-> d, user |-> None] \in orders
      BY <1>2, <2>1, <3>2 DEF Leaving, Rest
    <3>4. [serial |-> d, user |-> None].user # order.user
      BY <1>6
    <3> QED
      BY <2>1, <3>3, <3>4
  <2> QED
    BY <2>3, <2>4
<1> QED
  BY <1>5, <1>6

LEMMA WriteKeepsHolders ==
    ASSUME TypeOK, HolderInv, NEW x \in Devices, WriteOwner(x)
    PROVE  HolderInv'
<1>1. /\ Turn({}, {}) /\ UNCHANGED <<groups, holder, orders, requests, scenario, alone>>
      /\ devices[x].owner # holder[x]
  BY WriteOwnerIs
<1>2. PICK row \in DeviceRows : /\ row.id = devices[x].id /\ row.owner = holder[x]
                                /\ Reassigned(x, row)
  BY WriteOwnerIs
<1>3. \A d \in Devices : /\ devices'[d].id = devices[d].id
                         /\ devices'[d].owner \in {devices[d].owner, holder[d]}
  BY <1>2 DEF Reassigned
<1> SUFFICES ASSUME HolderScope
             PROVE  Invited' /\ Told' /\ \A d \in Devices : Outside(d)' => Leaving(d)'
  BY <1>1 DEF HolderInv, HolderScope
<1>4. Invited /\ Told /\ \A d \in Devices : Outside(d) => Leaving(d)
  BY DEF HolderInv
<1>5. PICK none : none = {}
  OBVIOUS
<1>6. Turn(none, none) /\ NobodyIsRemoved /\ ToDo' = ToDo /\ Serving' = Serving
  <2>1. ToDo' = ToDo
    BY <1>1 DEF Turn
  <2> QED
    BY <1>1, <1>5, <2>1, SameUsers DEF Serving
<1>7. \A o \in orders : o.user = None
  BY <1>1, <1>4 DEF Invited, Known
<1>8. Invited'
  BY <1>1, <1>7 DEF Invited
<1>9. Told'
  <2>1. ASSUME NEW d \in Devices, holder'[d] \notin {None, devices'[d].owner}
        PROVE  Rest' /\ orders' = {}
    <3>1. holder[d] \notin {None, devices[d].owner}
      BY <1>1, <1>3, <2>1
    <3>2. Rest /\ orders = {}
      BY <1>4, <3>1 DEF Told
    <3> QED
      BY <1>1, <1>6, <3>2 DEF Rest
  <2> QED
    BY <2>1 DEF Told
<1>10. ASSUME NEW d \in Devices PROVE Outside(d)' => Leaving(d)'
  BY <1>1, <1>3, <1>4, <1>5, <1>6, OutsideKept
<1> QED
  BY <1>8, <1>9, <1>10

LEMMA WatchKeepsHolders ==
    ASSUME TypeOK, HolderInv, WatchGroups \/ WatchDevices
    PROVE  HolderInv'
<1>1. /\ Turn({}, {})
      /\ UNCHANGED <<groups, devices, holder, orders, requests, scenario, alone>>
  BY WatchIs
<1>2. ToDo' = ToDo /\ Serving' = Serving
  BY <1>1 DEF Turn, Serving
<1>3. (Rest' <=> Rest) /\ (Known' <=> Known)
  BY <1>1, <1>2 DEF Rest, Known
<1>4. (Invited => Invited') /\ (Told => Told')
  BY <1>1, <1>3 DEF Invited, Told, Exists
<1>5. ASSUME NEW d \in Devices, Outside(d) => Leaving(d) PROVE Outside(d)' => Leaving(d)'
  <2>1. Outside(d)' => Outside(d)
    BY <1>1 DEF Outside, Exists
  <2>2. Leaving(d) => Leaving(d)'
    BY <1>1, <1>2 DEF Leaving, Evicts
  <2> QED
    BY <1>5, <2>1, <2>2
<1> QED
  BY <1>1, <1>4, <1>5 DEF HolderInv, HolderScope

LEMMA AsideKeepsHolders ==
    ASSUME TypeOK, HolderInv, Aside
    PROVE  HolderInv'
BY ObeyKeepsHolders, WriteKeepsHolders, WatchKeepsHolders DEF Aside

\* When all is quiet nobody is outside.
LEMMA QuietInside ==
    ASSUME HolderInv, HolderScope, Quiet, NEW d \in Devices
    PROVE  ~Outside(d)
BY QuietIs DEF HolderInv, Leaving

LEMMA InviteKeepsHolders ==
    ASSUME TypeOK, HolderInv, NEW u \in Users, NEW x \in Devices, Invite(u, x)
    PROVE  HolderInv'
<1>1. /\ Turn({}, {}) /\ Begin("invite")
      /\ UNCHANGED <<groups, devices, holder, requests>>
      /\ devices[x].owner = None /\ Exists(devices[x].id)
      /\ u \in groups[devices[x].id].users
      /\ orders' = orders \cup {[serial |-> x, user |-> u]}
  BY InviteIs
<1>2. /\ "invite" \in scenario => Quiet
      /\ alone' = ("invite" \in scenario) /\ UNCHANGED scenario
  BY <1>1, BeginIs DEF TypeOK
<1> SUFFICES ASSUME HolderScope
             PROVE  Invited' /\ Told' /\ \A d \in Devices : Outside(d)' => Leaving(d)'
  BY <1>2 DEF HolderInv, HolderScope
<1>3. /\ Quiet /\ ToDo = {} /\ Serving = {} /\ orders = {}
      /\ \A d \in Devices : devices[d].owner = holder[d]
  BY <1>2, QuietIs DEF HolderScope
<1>4. Rest'
  BY <1>1, <1>2, <1>3 DEF Rest, Turn, Serving, HolderScope
<1>5. orders' = {[serial |-> x, user |-> u]} /\ Known' /\ holder'[x] = None
  BY <1>1, <1>3 DEF Known
<1>6. Invited'
  <2>1. ASSUME NEW o \in orders'
        PROVE  /\ orders' = {o} /\ holder'[o.serial] = None
               /\ groups'[devices'[o.serial].id] # None
               /\ o.user \in groups'[devices'[o.serial].id].users
    BY <1>1, <1>5 DEF Exists
  <2> QED
    BY <1>4, <1>5, <2>1 DEF Invited, Exists
<1>7. Told'
  BY <1>5 DEF Told, Known
<1>8. \A d \in Devices : ~Outside(d)'
  BY <1>1, <1>3, QuietInside DEF Outside, Exists
<1> QED
  BY <1>6, <1>7, <1>8

\* When all is quiet, the group that a device is in lists it and is active.
LEMMA QuietListed ==
    ASSUME TypeOK, OriginInv, CurrentInv, HolderScope, Quiet, NEW d \in Devices
    PROVE  /\ Exists(devices[d].id)
           /\ groups[devices[d].id].active /\ d \in groups[devices[d].id].devices
<1>1. ToDo = {}
  BY QuietIs
<1>2. devices[d].id \in {devices[d].origin} \cup Act(d)
  BY <1>1 DEF CurrentInv, CurrentScope, HolderScope, Current, Placed
<1>3. CASE devices[d].id \in Act(d)
  BY <1>3 DEF Act
<1>4. CASE devices[d].id = devices[d].origin
  <2>1. Stage(d) /\ Chain(d) = {}
    BY <1>1 DEF OriginInv, MoveScope, HolderScope, Chain
  <2>2. Resting(d)
    BY <2>1, NothingToDo
  <2>3. PICK o \in Origins : o = devices[d].origin
    BY DEF TypeOK, DevicesOK, DeviceRows
  <2>4. Exists(o) /\ d \in groups[o].devices
    BY <2>2, <2>3 DEF Resting, AtHome, Listed
  <2>5. groups[o].active
    BY <2>4 DEF TypeOK, GroupsOK
  <2> QED
    BY <1>4, <2>3, <2>4, <2>5
<1> QED
  BY <1>2, <1>3, <1>4

LEMMA RemovalKeepsHolders ==
    ASSUME TypeOK, OriginInv, CurrentInv, HolderInv,
           NEW g \in Groups, NEW u \in Users, RemoveUser(g, u)
    PROVE  HolderInv'
<1>1. /\ Begin("users") /\ ChangeFrame /\ groups[g] \in GroupRows
      /\ Turn({}, IF groups[g].active
                  THEN {[Job("evict", d, g) EXCEPT !.user = u] : d \in groups[g].devices}
                  ELSE {})
  BY RemoveUserIs
<1>2. PICK row \in GroupRows : row.users = groups[g].users \ {u} /\ Rewritten(g, row)
  BY RemoveUserIs
<1>3. ("users" \in scenario => Quiet) /\ UNCHANGED scenario
  BY <1>1, BeginIs DEF TypeOK
<1> SUFFICES ASSUME HolderScope
             PROVE  Informed' /\ \A d \in Devices : Outside(d)' => Leaving(d)'
  BY <1>3, HoldersInformed
<1>4. Quiet
  BY <1>3 DEF HolderScope
<1>5. Informed'
  BY <1>1, <1>4, InformedIs, StaysInformed DEF ChangeFrame
<1>6. ASSUME NEW d \in Devices, Outside(d)' PROVE Leaving(d)'
  <2>1. ~Outside(d)
    BY <1>4, QuietInside
  <2>2. devices'[d] = devices[d] /\ holder'[d] = holder[d]
    BY <1>1 DEF ChangeFrame
  <2>3. PICK i \in Groups : i = devices[d].id /\ i = devices'[d].id
    BY <2>2 DEF TypeOK, DevicesOK, DeviceRows
  <2>4. Exists(i) /\ groups[i].active /\ d \in groups[i].devices
    BY <1>4, <2>3, QuietListed
  <2>5. holder[d] # None /\ holder[d] \notin groups'[i].users
    BY <1>6, <2>2, <2>3 DEF Outside
  <2>6. holder[d] \in groups[i].users
    BY <2>1, <2>3, <2>4, <2>5 DEF Outside
  <2>7. i = g
    BY <1>2, <2>5, <2>6 DEF Rewritten
  <2>8. holder[d] = u
    BY <1>2, <2>5, <2>6, <2>7 DEF Rewritten
  <2>9. PICK j : j = [Job("evict", d, g) EXCEPT !.user = u]
    OBVIOUS
  <2>10. j.kind = "evict" /\ j.serial = d /\ j.group = g /\ j.user = u
    BY <2>9 DEF Job
  <2>11. j \in {[Job("evict", e, g) EXCEPT !.user = u] : e \in groups[g].devices}
    BY <2>4, <2>7, <2>9
  <2>12. j \in ToDo'
    BY <1>1, <2>4, <2>7, <2>11 DEF Turn
  <2> QED
    BY <2>2, <2>3, <2>7, <2>8, <2>10, <2>12 DEF Leaving, Evicts
<1> QED
  BY <1>5, <1>6

\* Bookings and additions of users.
LEMMA ChangeKeepsHolders ==
    ASSUME TypeOK, HolderInv, NEW op \in {"schedule", "unbook", "users"}, Begin(op),
           ChangeFrame, NobodyIsRemoved
    PROVE  HolderInv'
<1>1. (op \in scenario => Quiet) /\ UNCHANGED scenario
  BY BeginIs DEF TypeOK
<1> SUFFICES ASSUME HolderScope
             PROVE  Informed' /\ \A d \in Devices : Outside(d)' => Leaving(d)'
  BY <1>1, HoldersInformed
<1>2. Quiet
  BY <1>1 DEF HolderScope
<1>3. Informed'
  BY <1>2, InformedIs, StaysInformed DEF ChangeFrame
<1>4. ASSUME NEW d \in Devices PROVE ~Outside(d)'
  <2>1. ~Outside(d)
    BY <1>2, QuietInside
  <2>2. PICK i \in Groups : i = devices[d].id /\ i = devices'[d].id
    BY DEF ChangeFrame, TypeOK, DevicesOK, DeviceRows
  <2>3. groups'[i] # None => groups[i] # None /\ groups[i].users \subseteq groups'[i].users
    BY DEF NobodyIsRemoved, Exists
  <2> QED
    BY <2>1, <2>2, <2>3 DEF Outside, Exists, ChangeFrame
<1> QED
  BY <1>3, <1>4

LEMMA OperationKeepsHolders ==
    ASSUME TypeOK, OriginInv, CurrentInv, HolderInv,
           NEW op \in {"schedule", "unbook", "users", "invite"}, Operation(op)
    PROVE  HolderInv'
<1>1. ASSUME NEW b \in Bookings, Activate(b) \/ Deactivate(b) \/ EndBooking(b)
      PROVE  HolderInv'
  <2>1. /\ Begin("schedule") /\ ChangeFrame /\ groups[b] \in GroupRows
        /\ \E row \in GroupRows \cup {None} :
               /\ Rewritten(b, row) /\ (row # None => row.users = groups[b].users)
    BY <1>1, ActivateIs, DeactivateIs, EndBookingIs
  <2>2. Exists(b) /\ b \in Groups
    BY <2>1, RowIs DEF Exists, Groups
  <2>3. NobodyIsRemoved
    BY <2>1, <2>2, LikeUsers
  <2> QED
    BY <2>1, <2>3, ChangeKeepsHolders
<1>2. ASSUME NEW b \in Bookings, NEW d \in Devices, Unbook(b, d) PROVE HolderInv'
  <2>1. /\ Begin("unbook") /\ ChangeFrame /\ groups[b] \in GroupRows
        /\ \E row \in GroupRows : row.users = groups[b].users /\ Rewritten(b, row)
    BY <1>2, UnbookIs
  <2>2. Exists(b) /\ b \in Groups
    BY <2>1, RowIs DEF Exists, Groups
  <2>3. NobodyIsRemoved
    BY <2>1, <2>2, LikeUsers
  <2> QED
    BY <2>1, <2>3, ChangeKeepsHolders
<1>3. ASSUME NEW g \in Groups, NEW u \in Users, AddUser(g, u) PROVE HolderInv'
  <2>1. /\ Begin("users") /\ ChangeFrame /\ groups[g] \in GroupRows
        /\ \E row \in GroupRows : row.users = groups[g].users \cup {u} /\ Rewritten(g, row)
    BY <1>3, AddUserIs
  <2>2. Exists(g)
    BY <2>1, RowIs DEF Exists
  <2>3. NobodyIsRemoved
    BY <2>1, <2>2, LikeUsers
  <2> QED
    BY <2>1, <2>3, ChangeKeepsHolders
<1> QED
  BY <1>1, <1>2, <1>3, RemovalKeepsHolders, InviteKeepsHolders DEF Operation

\* The watchers work while nobody is invited.
LEMMA WorkInformed ==
    ASSUME HolderInv, HolderScope, NEW job \in ToDo, WorkFrame,
           orders' = orders \/ \E d \in Devices : Release(d),
           \A d \in Devices : devices'[d].owner = devices[d].owner
    PROVE  Informed /\ Informed'
<1>1. Informed
  BY InformedIs DEF HolderInv, Rest
<1>2. \A o \in orders' : o \in orders \/ o.user = None
  BY DEF Release
<1> QED
  BY <1>1, <1>2, StaysInformed DEF WorkFrame

\* A row of a device is written, with the owner it had.
LEMMA PlacingKeepsHolders ==
    ASSUME TypeOK, HolderInv, WorkFrame, NEW job \in ToDo, job.kind \notin {"evict", "device"},
           NEW x \in Devices, NEW row \in DeviceRows, row.owner = devices[x].owner,
           Reassigned(x, row), Turn({job}, Sent(x, row)), UNCHANGED <<groups, orders>>
    PROVE  HolderInv'
<1>1. UNCHANGED <<holder, scenario>>
  BY DEF WorkFrame
<1> SUFFICES ASSUME HolderScope
             PROVE  Informed' /\ \A d \in Devices : Outside(d)' => Leaving(d)'
  BY <1>1, HoldersInformed
<1>2. Informed /\ Informed'
  BY WorkInformed DEF Reassigned
<1>3. PICK gone : gone = {job}
  OBVIOUS
<1>4. PICK made : made = Sent(x, row)
  OBVIOUS
<1>5. Turn(gone, made) /\ NobodyIsRemoved
  BY <1>3, <1>4, SameUsers
<1>6. ASSUME NEW d \in Devices, devices'[d].id = devices[d].id
      PROVE  Outside(d)' => Leaving(d)'
  BY <1>1, <1>3, <1>5, <1>6, OutsideKept DEF HolderInv
<1>7. ASSUME row.id # devices[x].id
      PROVE  Outside(x)' => Leaving(x)'
  <2> SUFFICES ASSUME Outside(x)'
               PROVE  Leaving(x)'
    OBVIOUS
  <2>1. devices'[x] = row
    BY DEF Reassigned
  <2>2. row.owner = holder[x] /\ holder'[x] = holder[x]
    BY <1>1, <1>2 DEF Informed, Outside
  <2>3. PICK c : c = [serial |-> x, old |-> devices[x], new |-> row]
    OBVIOUS
  <2>4. c \in DeviceChanges
    BY <2>3 DEF DeviceChanges, TypeOK, DevicesOK
  <2>5. PICK j : j = DeviceJob(c)
    OBVIOUS
  <2>6. j.kind = "device" /\ j.serial = x /\ j.change = c
    BY <2>3, <2>4, <2>5, DeviceJobIsLegal
  <2>7. j \in made
    BY <1>4, <1>7, <2>3, <2>5 DEF Sent
  <2>8. j \in ToDo'
    BY <1>5, <2>7 DEF Turn
  <2> QED
    BY <1>7, <2>1, <2>2, <2>3, <2>6, <2>8 DEF Leaving, Evicts
<1>8. \A d \in Devices : d = x \/ devices'[d].id = devices[d].id
  BY DEF Reassigned
<1>9. devices'[x].id = row.id
  BY DEF Reassigned
<1>10. \A d \in Devices : Outside(d)' => Leaving(d)'
  BY <1>6, <1>7, <1>8, <1>9
<1> QED
  BY <1>2, <1>10

\* A job that touches no device and no holder.
LEMMA OtherKeepsHolders ==
    ASSUME TypeOK, HolderInv, WorkFrame, NEW job \in ToDo, job.kind \notin {"evict", "device"},
           NEW made, Turn({job}, made), NobodyIsRemoved, UNCHANGED <<devices, orders>>
    PROVE  HolderInv'
<1>1. UNCHANGED <<holder, scenario>>
  BY DEF WorkFrame
<1> SUFFICES ASSUME HolderScope
             PROVE  Informed' /\ \A d \in Devices : Outside(d)' => Leaving(d)'
  BY <1>1, HoldersInformed
<1>2. Informed'
  BY WorkInformed
<1>3. PICK gone : gone = {job}
  OBVIOUS
<1>4. Turn(gone, made)
  BY <1>3
<1>5. ASSUME NEW d \in Devices PROVE Outside(d)' => Leaving(d)'
  BY <1>1, <1>3, <1>4, OutsideKept DEF HolderInv
<1> QED
  BY <1>2, <1>5

\* A job that tells a holder to leave if it should.
LEMMA EvictionKeepsHolders ==
    ASSUME TypeOK, HolderInv, WorkFrame, NEW job \in ToDo, job.serial \in Devices,
           NEW made, Turn({job}, made), UNCHANGED <<groups, devices>>,
           orders' = orders \/ Release(job.serial),
           Informed /\ Outside(job.serial) /\ Evicts(job, job.serial) => Release(job.serial)
    PROVE  HolderInv'
<1>1. UNCHANGED <<holder, scenario>>
  BY DEF WorkFrame
<1> SUFFICES ASSUME HolderScope
             PROVE  Informed' /\ \A d \in Devices : Outside(d)' => Leaving(d)'
  BY <1>1, HoldersInformed
<1>2. Informed /\ Informed'
  BY WorkInformed
<1>3. PICK x \in Devices : x = job.serial
  OBVIOUS
<1>4. orders \subseteq orders'
  BY DEF Release
<1>5. ASSUME NEW d \in Devices, Outside(d)' PROVE Leaving(d)'
  <2>1. Outside(d)
    BY <1>1, <1>5 DEF Outside, Exists
  <2>2. Leaving(d)
    BY <2>1 DEF HolderInv
  <2>3. CASE [serial |-> d, user |-> None] \in orders
    BY <1>4, <2>3 DEF Leaving
  <2>4. CASE \E j \in ToDo : j.serial = d /\ Evicts(j, d)
    <3>1. PICK j \in ToDo : j.serial = d /\ Evicts(j, d)
      BY <2>4
    <3>2. CASE j # job
      <4>1. j \in ToDo'
        BY <3>1, <3>2 DEF Turn
      <4> QED
        BY <1>1, <3>1, <4>1 DEF Leaving, Evicts
    <3>3. CASE j = job
      <4>1. d = x /\ Release(x)
        BY <1>2, <1>3, <2>1, <3>1, <3>3
      <4> QED
        BY <4>1 DEF Leaving, Release
    <3> QED
      BY <3>2, <3>3
  <2> QED
    BY <2>2, <2>3, <2>4 DEF Leaving
<1> QED
  BY <1>2, <1>5

LEMMA MovedOwner ==
    ASSUME NEW d \in DeviceRows, NEW g
    PROVE  Moved(d, g).owner = d.owner
BY DEF Moved, DeviceRows

LEMMA WorkKeepsHolders ==
    ASSUME TypeOK, HolderInv, NEW job \in BagToSet(jobs), Work(job)
    PROVE  HolderInv'
<1>1. PICK x : x = job.serial
  OBVIOUS
<1>2. job \in ToDo /\ WorkFrame
  BY WorkMakes
<1>3. x \in Devices => devices[x] \in DeviceRows
  BY DEF TypeOK, DevicesOK
<1>4. CASE TreatTicket(job)
  <2>1. PICK row : row = Moved(devices[x], job.group)
    OBVIOUS
  <2>2. /\ x \in Devices /\ row \in DeviceRows /\ Reassigned(x, row)
        /\ Turn({job}, Sent(x, row)) /\ UNCHANGED <<groups, orders>> /\ job.kind = "ticket"
    BY <1>1, <1>4, <2>1, TicketIs
  <2>3. row.owner = devices[x].owner
    BY <1>3, <2>1, <2>2, MovedOwner
  <2> QED
    BY <1>2, <2>2, <2>3, PlacingKeepsHolders
<1>5. CASE MoveToRoot(job)
  <2>1. PICK row : row = Moved(devices[x], Root)
    OBVIOUS
  <2>2. /\ x \in Devices /\ row \in DeviceRows /\ Reassigned(x, row)
        /\ Turn({job}, Sent(x, row)) /\ UNCHANGED <<groups, orders>> /\ job.kind = "toRoot"
    BY <1>1, <1>5, <2>1, ToRootIs
  <2>3. row.owner = devices[x].owner
    BY <1>3, <2>1, <2>2, MovedOwner
  <2> QED
    BY <1>2, <2>2, <2>3, PlacingKeepsHolders
<1>6. CASE MakeCurrent(job) \/ GoBack(job)
  <2>1. /\ x \in Devices /\ UNCHANGED <<groups, orders>> /\ job.kind \in {"current", "back"}
        /\ \E row \in DeviceRows : /\ row.owner = devices[x].owner /\ Reassigned(x, row)
                                   /\ Turn({job}, Sent(x, row))
    BY <1>1, <1>6, CurrentIs, BackIs
  <2> QED
    BY <1>2, <2>1, PlacingKeepsHolders
<1>7. CASE ReadOrigin(job) \/ ReadGroup(job)
  <2>1. /\ UNCHANGED <<groups, devices, orders>> /\ job.kind \in {"fromOrigin", "readGroup"}
        /\ \E made : Turn({job}, made)
    BY <1>7, ReadOriginIs, ReadGroupIs
  <2>2. NobodyIsRemoved
    BY <2>1, SameUsers
  <2> QED
    BY <1>2, <2>1, <2>2, OtherKeepsHolders
<1>8. CASE Relist(job)
  <2>1. PICK g : g = job.group
    OBVIOUS
  <2>2. /\ UNCHANGED <<devices, orders>> /\ job.kind \in {"drop", "add"} /\ g \in Origins
        /\ Turn({job}, {})
        /\ \/ UNCHANGED groups
           \/ /\ Exists(g)
              /\ \E row \in GroupRows : row.users = groups[g].users /\ Rewritten(g, row)
    BY <1>8, <2>1, RelistIs
  <2>3. NobodyIsRemoved
    BY <2>2, SameUsers, LikeUsers DEF Groups
  <2>4. \E made : Turn({job}, made)
    BY <2>2
  <2> QED
    BY <1>2, <2>2, <2>3, <2>4, OtherKeepsHolders
<1>9. CASE Evict(job)
  <2>1. /\ UNCHANGED <<groups, devices>> /\ x \in Devices /\ job.kind = "evict"
        /\ IF devices[x].id = job.group /\ devices[x].owner = job.user
           THEN Release(x) ELSE UNCHANGED orders
    BY <1>1, <1>9, EvictIs
  <2>2. \E made : Turn({job}, made)
    BY <1>9, EvictIs
  <2>3. Informed /\ Outside(x) /\ Evicts(job, x) => Release(x)
    BY <2>1 DEF Informed, Outside, Evicts
  <2>4. orders' = orders \/ Release(x)
    BY <2>1
  <2> QED
    BY <1>1, <1>2, <2>1, <2>2, <2>3, <2>4, EvictionKeepsHolders
<1>10. CASE TreatDevice(job)
  <2>1. PICK old, new : old = job.change.old /\ new = job.change.new
    OBVIOUS
  <2>2. /\ UNCHANGED <<groups, devices>> /\ x \in Devices /\ job.kind = "device"
        /\ job.change \in DeviceChanges /\ job = DeviceJob(job.change)
        /\ IF /\ Exists(job.group) /\ new.id # old.id
              /\ new.owner # None /\ new.owner \notin groups[job.group].users
           THEN Release(x) ELSE UNCHANGED orders
    BY <1>1, <1>10, <2>1, TreatDeviceIs
  <2>3. \E made : Turn({job}, made)
    BY <1>10, TreatDeviceIs
  <2>4. job.group = new.id
    BY <2>1, <2>2, DeviceJobIsLegal
  <2>5. Informed /\ Outside(x) /\ Evicts(job, x) => Release(x)
    BY <2>1, <2>2, <2>4 DEF Informed, Outside, Evicts
  <2>6. orders' = orders \/ Release(x)
    BY <2>2
  <2> QED
    BY <1>1, <1>2, <2>2, <2>3, <2>5, <2>6, EvictionKeepsHolders
<1> QED
  BY <1>4, <1>5, <1>6, <1>7, <1>8, <1>9, <1>10 DEF Work

LEMMA StepKeepsHolders ==
    ASSUME Located, HolderInv, [Next]_vars
    PROVE  HolderInv'
<1>1. TypeOK /\ RowInv /\ OriginInv /\ CurrentInv
  BY DEF Located, Settled
<1>2. CASE UNCHANGED vars
  <2>1. FeedsOK /\ UNCHANGED <<groupFeed, deviceFeed, jobs>>
    BY <1>1, <1>2, TypesAreStored DEF vars
  <2>2. ToDo' = ToDo /\ Serving' = Serving
    BY <1>2, <2>1, IdleTurn DEF vars, Turn, Serving
  <2>3. (Rest' <=> Rest) /\ (Known' <=> Known)
    BY <1>2, <2>2 DEF vars, Rest, Known
  <2>4. (Invited => Invited') /\ (Told => Told')
    BY <1>2, <2>3 DEF vars, Invited, Told, Exists
  <2>5. ASSUME NEW d \in Devices, Outside(d) => Leaving(d)
        PROVE  Outside(d)' => Leaving(d)'
    <3>1. Outside(d)' => Outside(d)
      BY <1>2 DEF vars, Outside, Exists
    <3>2. Leaving(d) => Leaving(d)'
      BY <1>2, <2>2 DEF vars, Leaving, Evicts
    <3> QED
      BY <2>5, <3>1, <3>2
  <2> QED
    BY <1>2, <2>4, <2>5 DEF vars, HolderInv, HolderScope
<1>3. CASE Next
  BY <1>1, <1>3, AskKeepsHolders, ServeKeepsHolders, OperationKeepsHolders,
     AsideKeepsHolders, WorkKeepsHolders, WhoSteps
<1> QED
  BY <1>2, <1>3

\* Once nothing is under way, whoever holds a device is in its current group
\* (treatGroupUsersChange of watchers/groups.ts and watchers/devices.ts, which
\* release it from those who are not).
THEOREM HoldersAreInside == Spec => []NoOutsider
<1>1. Init => HolderInv
  BY DEF Init, HolderInv, Invited, Told, Outside
<1>2. Located /\ HolderInv /\ [Next]_vars => HolderInv'
  BY StepKeepsHolders
<1>3. Located /\ HolderInv => NoOutsider
  BY QuietInside DEF NoOutsider, HolderScope, Outside
<1> QED
  BY <1>1, <1>2, <1>3, AlwaysLocated, PTL DEF Spec
=============================================================================
