--------------------------- MODULE GroupLockProofs ---------------------------
(***************************************************************************)
(* What GroupLock promises for any number of requests, ticks, overlapping  *)
(* attempts and restarts: mutual exclusion as long as the groups engine is *)
(* not restarted, and that no lock is left behind if the database answers  *)
(* before the next attempt.                                                *)
(***************************************************************************)
EXTENDS GroupLock, TLAPS

LEMMA OneIsASlot == 1 \in Slots
<1>1. Overlap \in Nat /\ Overlap # 0
  BY BoundsAssumption
<1> QED BY <1>1 DEF Slots

\* What Becomes does to the attempts.
LEMMA BecomesOne ==
    ASSUME TypeOK, NEW c \in Callers, NEW i \in Slots, NEW a \in Outcomes, Becomes(c, i, a)
    PROVE  /\ attempts' \in [Callers -> [Slots -> Outcomes]]
           /\ attempts'[c][i] = a
           /\ \A d \in Callers, j \in Slots :
                  d # c \/ j # i => attempts'[d][j] = attempts[d][j]
<1>1. attempts \in [Callers -> [Slots -> Outcomes]]
  BY DEF TypeOK
<1>2. [attempts[c] EXCEPT ![i] = a] \in [Slots -> Outcomes]
  BY <1>1
<1>3. attempts' = [attempts EXCEPT ![c] = [attempts[c] EXCEPT ![i] = a]]
  BY <1>1 DEF Becomes
<1> QED BY <1>1, <1>2, <1>3

\* What an attempt does to the row and to itself.
LEMMA ExecuteOne ==
    ASSUME TypeOK, NEW c \in Callers, NEW i \in Slots, Execute(c, i)
    PROVE  \E a \in {"took", "not", "gone"} :
               /\ Becomes(c, i, a)
               /\ lock' \in [user : BOOLEAN, admin : BOOLEAN]
               /\ lock.user => lock'.user /\ a # "took"
               /\ a = "took" => lock'.user
<1>1. CASE ~exists /\ Becomes(c, i, "gone") /\ UNCHANGED lock
  BY <1>1 DEF TypeOK
<1>2. CASE exists /\ c \in Requests /\ TryUser(c, i)
  <2>1. CASE ~lock.admin /\ ~lock.user
    BY <1>2, <2>1 DEF TryUser, TypeOK
  <2>2. CASE lock.admin \/ lock.user
    <3>1. lock' = lock /\ Becomes(c, i, "not")
      BY <1>2, <2>2 DEF TryUser
    <3> QED BY <3>1 DEF TypeOK
  <2> QED BY <2>1, <2>2
<1>3. CASE exists /\ c \notin Requests /\ TryAdmin(c, i)
  <2>1. lock' = [user |-> TRUE, admin |-> TRUE]
    BY <1>3 DEF TryAdmin
  <2>2. CASE lock.user
    BY <1>3, <2>1, <2>2 DEF TryAdmin
  <2>3. CASE ~lock.user
    BY <1>3, <2>1, <2>3 DEF TryAdmin
  <2> QED BY <2>2, <2>3
<1> QED BY <1>1, <1>2, <1>3 DEF Execute

LEMMA CountingIsTyped ==
    ASSUME counter \in [Callers -> Nat], NEW c \in Callers
    PROVE  /\ [counter EXCEPT ![c] = counter[c] + 1] \in [Callers -> Nat]
           /\ [counter EXCEPT ![c] = counter[c]] \in [Callers -> Nat]
<1>1. counter[c] \in Nat
  OBVIOUS
<1>2. counter[c] + 1 \in Nat
  BY <1>1
<1> QED BY <1>1, <1>2

LEMMA RestartsAreCounted ==
    ASSUME TypeOK, Restart
    PROVE  restarts' \in 0 .. MaxRestarts /\ restarts' # 0
<1>1. restarts \in 0 .. MaxRestarts /\ restarts < MaxRestarts /\ restarts' = restarts + 1
  BY DEF Restart, TypeOK
<1>2. MaxRestarts \in Nat
  BY BoundsAssumption
<1> QED BY <1>1, <1>2

LEMMA InitIsTyped == Init => TypeOK
<1> SUFFICES ASSUME Init PROVE TypeOK
  OBVIOUS
<1>1. 0 \in 0 .. MaxRestarts
  BY BoundsAssumption
<1>2. NoneSent \in [Slots -> Outcomes]
  BY DEF NoneSent, Outcomes
<1> QED BY <1>1, <1>2 DEF Init, TypeOK, Free

LEMMA TypeStays == TypeOK /\ [Next]_vars => TypeOK'
<1> SUFFICES ASSUME TypeOK, [Next]_vars PROVE TypeOK'
  OBVIOUS
<1> USE DEF TypeOK
<1>1. ASSUME NEW c \in Callers, Begin(c) PROVE TypeOK'
  <2>1. attempts' \in [Callers -> [Slots -> Outcomes]]
    BY <1>1, OneIsASlot, BecomesOne DEF Begin, Outcomes
  <2> QED BY <1>1, <2>1 DEF Begin, Goto
<1>2. ASSUME NEW c \in Callers, NEW i \in Slots, Again(c, i) PROVE TypeOK'
  <2>1. attempts' \in [Callers -> [Slots -> Outcomes]]
    BY <1>2, BecomesOne DEF Again, Outcomes
  <2> QED BY <1>2, <2>1 DEF Again
<1>3. ASSUME NEW c \in Callers, NEW i \in Slots, Execute(c, i) PROVE TypeOK'
  <2>1. PICK a \in {"took", "not", "gone"} :
            Becomes(c, i, a) /\ lock' \in [user : BOOLEAN, admin : BOOLEAN]
    BY <1>3, ExecuteOne
  <2>2. a \in Outcomes
    BY DEF Outcomes
  <2>3. attempts' \in [Callers -> [Slots -> Outcomes]]
    BY <2>1, <2>2, BecomesOne
  <2> QED BY <1>3, <2>1, <2>3 DEF Execute
<1>4. ASSUME NEW c \in Callers, NEW i \in Slots, Answer(c, i) PROVE TypeOK'
  <2>1. UNCHANGED <<exists, lock, restarts, prompt>>
    BY <1>4 DEF Answer
  <2>2. attempts' \in [Callers -> [Slots -> Outcomes]]
    <3>1. Becomes(c, i, "none") /\ "none" \in Outcomes
      BY <1>4 DEF Answer, Outcomes
    <3> QED BY <3>1, BecomesOne
  <2>3. held' \in [Callers -> BOOLEAN]
    <3> DEFINE h == held[c] \/ (attempts[c][i] = "took" /\
                                (c \in Ticks \/ phase[c] \in {"first", "retrying"}))
    <3>1. held' = [held EXCEPT ![c] = h]
      BY <1>4, Zenon DEF Answer
    <3>2. h \in BOOLEAN
      OBVIOUS
    <3> HIDE DEF h
    <3> QED BY <3>1, <3>2
  <2>4. counter' \in [Callers -> Nat]
    <3>1. \/ counter' = [counter EXCEPT ![c] = counter[c] + 1]
          \/ counter' = [counter EXCEPT ![c] = counter[c]]
      BY <1>4, Zenon DEF Answer
    <3>2. counter \in [Callers -> Nat]
      OBVIOUS
    <3>3. CASE counter' = [counter EXCEPT ![c] = counter[c] + 1]
      BY <3>2, <3>3, CountingIsTyped
    <3>4. CASE counter' = [counter EXCEPT ![c] = counter[c]]
      BY <3>2, <3>4, CountingIsTyped
    <3> QED BY <3>1, <3>3, <3>4
  <2>5. phase' \in [Callers -> {"idle", "first", "retrying", "holding", "giving up",
                                "releasing", "done"}]
    BY <1>4 DEF Answer, Goto, Told
  <2> QED BY <2>1, <2>2, <2>3, <2>4, <2>5
<1>5. ASSUME NEW c \in Callers, Finish(c) PROVE TypeOK'
  BY <1>5 DEF Finish, Goto
<1>6. ASSUME NEW c \in Callers, Release(c) PROVE TypeOK'
  BY <1>6 DEF Release, Goto, Free
<1>7. ASSUME Restart PROVE TypeOK'
  <2>2. NoneSent \in [Slots -> Outcomes]
    BY DEF NoneSent, Outcomes
  <2>1. restarts' \in 0 .. MaxRestarts
    BY <1>7, RestartsAreCounted
  <2> QED BY <1>7, <2>1, <2>2 DEF Restart, Free
<1>8. CASE UNCHANGED vars
  BY <1>8 DEF vars
<1> QED BY <1>1, <1>2, <1>3, <1>4, <1>5, <1>6, <1>7, <1>8 DEF Next

\* Every variable keeps its type, whatever overlaps.
THEOREM TypeCorrect == Spec => []TypeOK
  BY InitIsTyped, TypeStays, PTL DEF Spec
-----------------------------------------------------------------------------
(***************************************************************************)
(* Mutual exclusion.  A claim on the lock is a caller that has it, or an   *)
(* attempt that took it and whose answer is under way.  There is never     *)
(* more than one claim, and the row is locked while there is one: only an  *)
(* attempt that finds it unlocked makes a claim, and only the caller that  *)
(* has the claim unlocks it.                                               *)
(***************************************************************************)
Owns(c) == Holds(c) \/ (phase[c] = "giving up" /\ held[c])
Took(c, i) == attempts[c][i] = "took"

OneClaim ==
    restarts = 0 =>
        /\ \A c, d \in Callers : Owns(c) /\ Owns(d) => c = d
        /\ \A c, d \in Callers, i \in Slots : ~(Owns(c) /\ Took(d, i))
        /\ \A c, d \in Callers, i, j \in Slots :
               Took(c, i) /\ Took(d, j) => c = d /\ i = j
        /\ \A c \in Callers : Owns(c) => lock.user
        /\ \A c \in Callers, i \in Slots : Took(c, i) => lock.user

AskersHaveNothing ==
    /\ \A c \in Callers : phase[c] \in {"idle", "first", "retrying"} => ~held[c]
    /\ \A c \in Callers, i \in Slots : phase[c] = "idle" => attempts[c][i] = "none"

IInv == TypeOK /\ AskersHaveNothing /\ OneClaim

\* A caller that was not told yet has no lock object.
LEMMA AskersStay ==
    ASSUME TypeOK, AskersHaveNothing, [Next]_vars
    PROVE  AskersHaveNothing'
<1> USE DEF AskersHaveNothing
<1>1. ASSUME NEW c \in Callers, Begin(c) PROVE AskersHaveNothing'
  BY <1>1, OneIsASlot DEF Begin, Goto, Becomes, TypeOK
<1>2. ASSUME NEW c \in Callers, NEW i \in Slots, Again(c, i) PROVE AskersHaveNothing'
  BY <1>2 DEF Again, Becomes, TypeOK
<1>3. ASSUME NEW c \in Callers, NEW i \in Slots, Execute(c, i) PROVE AskersHaveNothing'
  <2>1. /\ phase' = phase
        /\ held' = held
        /\ attempts[c][i] = "sent"
    BY <1>3 DEF Execute
  <2>2. \A d \in Callers, j \in Slots : d # c \/ j # i => attempts'[d][j] = attempts[d][j]
    <3>1. PICK a \in {"took", "not", "gone"} : Becomes(c, i, a)
      BY <1>3, ExecuteOne
    <3> QED BY <3>1, BecomesOne DEF Outcomes
  <2> QED BY <2>1, <2>2
<1>4. ASSUME NEW c \in Callers, NEW i \in Slots, Answer(c, i) PROVE AskersHaveNothing'
  <2>1. /\ phase[c] # "idle"
        /\ \A d \in Callers : d # c => /\ \A j \in Slots : attempts'[d][j] = attempts[d][j]
                                       /\ held'[d] = held[d]
                                       /\ phase'[d] = phase[d]
    BY <1>4 DEF Answer, Becomes, Goto, TypeOK
  <2>2. phase'[c] # "idle"
    BY <1>4, <2>1 DEF Answer, Goto, Told, TypeOK
  <2>3. ASSUME phase'[c] \in {"first", "retrying"} PROVE ~held'[c]
    BY <1>4, <2>3 DEF Answer, Goto, Told, Final, TypeOK
  <2> QED BY <2>1, <2>2, <2>3
<1>5. ASSUME NEW c \in Callers, Finish(c) PROVE AskersHaveNothing'
  BY <1>5 DEF Finish, Goto, TypeOK
<1>6. ASSUME NEW c \in Callers, Release(c) PROVE AskersHaveNothing'
  BY <1>6 DEF Release, Goto, TypeOK
<1>7. ASSUME Restart PROVE AskersHaveNothing'
  BY <1>7 DEF Restart, NoneSent, TypeOK
<1>8. CASE UNCHANGED vars
  BY <1>8 DEF vars
<1> QED BY <1>1, <1>2, <1>3, <1>4, <1>5, <1>6, <1>7, <1>8 DEF Next

\* An attempt makes a claim only if there is none.
LEMMA ExecuteKeepsOneClaim ==
    ASSUME TypeOK, OneClaim, NEW c \in Callers, NEW i \in Slots, Execute(c, i)
    PROVE  OneClaim'
<1>1. /\ UNCHANGED <<phase, held, restarts>>
      /\ \A d \in Callers : Owns(d)' <=> Owns(d)
  BY DEF Execute, Owns, Holds
<1>2. PICK a \in {"took", "not", "gone"} :
          /\ Becomes(c, i, a)
          /\ lock.user => lock'.user /\ a # "took"
          /\ a = "took" => lock'.user
  BY ExecuteOne
<1>3. /\ Took(c, i)' <=> a = "took"
      /\ \A d \in Callers, j \in Slots : d # c \/ j # i => (Took(d, j)' <=> Took(d, j))
  BY <1>2, BecomesOne DEF Took, Outcomes
<1>4. CASE lock.user
  BY <1>1, <1>2, <1>3, <1>4 DEF OneClaim
<1>5. CASE ~lock.user
  <2>1. restarts = 0 => \A d \in Callers : ~Owns(d) /\ \A j \in Slots : ~Took(d, j)
    BY <1>5 DEF OneClaim
  <2> QED BY <1>1, <1>2, <1>3, <2>1 DEF OneClaim
<1> QED BY <1>4, <1>5

\* What locks the row is an attempt that took it.
LEMMA UnlockedIsTaken ==
    ASSUME TypeOK, NEW c \in Callers, NEW i \in Slots, Execute(c, i), ~lock.user
    PROVE  lock'.user => Took(c, i)'
<1>1. CASE ~exists /\ UNCHANGED lock
  BY <1>1
<1>2. CASE exists /\ c \in Requests /\ TryUser(c, i)
  <2>1. CASE lock.admin
    BY <1>2, <2>1 DEF TryUser
  <2>2. CASE ~lock.admin
    <3>1. Becomes(c, i, "took")
      BY <1>2, <2>2 DEF TryUser
    <3> QED BY <3>1, BecomesOne DEF Took, Outcomes
  <2> QED BY <2>1, <2>2
<1>3. CASE exists /\ c \notin Requests /\ TryAdmin(c, i)
  <2>1. Becomes(c, i, "took")
    BY <1>3 DEF TryAdmin
  <2> QED BY <2>1, BecomesOne DEF Took, Outcomes
<1> QED BY <1>1, <1>2, <1>3 DEF Execute

\* An answer turns an attempt's claim into its caller's, or into nobody's.
LEMMA AnswerKeepsOneClaim ==
    ASSUME TypeOK, AskersHaveNothing, OneClaim,
           NEW c \in Callers, NEW i \in Slots, Answer(c, i)
    PROVE  OneClaim'
<1>1. UNCHANGED <<lock, restarts>> /\ ~Took(c, i)'
  BY DEF Answer, Becomes, Took, TypeOK
<1>2. \A d \in Callers, j \in Slots : Took(d, j)' => Took(d, j)
  BY DEF Answer, Becomes, Took, TypeOK
<1>3. \A d \in Callers : d # c => (Owns(d)' <=> Owns(d))
  BY DEF Answer, Goto, Owns, Holds, TypeOK
<1>4. Owns(c)' => Owns(c) \/ Took(c, i)
  BY DEF Answer, Goto, Told, Final, Owns, Holds, Took, AskersHaveNothing, TypeOK
<1> QED BY <1>1, <1>2, <1>3, <1>4 DEF OneClaim

\* A caller that unlocks has the claim.
LEMMA ReleaseKeepsOneClaim ==
    ASSUME TypeOK, OneClaim, NEW c \in Callers, Release(c)
    PROVE  OneClaim'
<1>1. UNCHANGED <<restarts, attempts>> /\ Owns(c) /\ ~Owns(c)'
  BY DEF Release, Goto, Owns, Holds, TypeOK
<1>2. \A d \in Callers : d # c => (Owns(d)' <=> Owns(d))
  BY DEF Release, Goto, Owns, Holds, TypeOK
<1>3. \A d \in Callers, j \in Slots : Took(d, j)' <=> Took(d, j)
  BY <1>1 DEF Took
<1> QED BY <1>1, <1>2, <1>3 DEF OneClaim

LEMMA InvariantStays == IInv /\ [Next]_vars => IInv'
<1> SUFFICES ASSUME IInv, [Next]_vars PROVE OneClaim'
  BY TypeStays, AskersStay DEF IInv
<1> USE DEF IInv
<1>1. ASSUME NEW c \in Callers, Begin(c) PROVE OneClaim'
  <2>1. /\ UNCHANGED <<lock, restarts>>
        /\ \A d \in Callers : Owns(d)' <=> Owns(d)
    BY <1>1 DEF Begin, Goto, Owns, Holds, TypeOK
  <2>2. \A d \in Callers, j \in Slots : Took(d, j)' => Took(d, j)
    BY <1>1 DEF Begin, Becomes, Took, TypeOK
  <2> QED BY <2>1, <2>2 DEF OneClaim
<1>2. ASSUME NEW c \in Callers, NEW i \in Slots, Again(c, i) PROVE OneClaim'
  <2>1. /\ UNCHANGED <<lock, restarts>>
        /\ \A d \in Callers : Owns(d)' <=> Owns(d)
    BY <1>2 DEF Again, Owns, Holds
  <2>2. \A d \in Callers, j \in Slots : Took(d, j)' => Took(d, j)
    BY <1>2 DEF Again, Becomes, Took, TypeOK
  <2> QED BY <2>1, <2>2 DEF OneClaim
<1>3. ASSUME NEW c \in Callers, NEW i \in Slots, Execute(c, i) PROVE OneClaim'
  BY <1>3, ExecuteKeepsOneClaim
<1>4. ASSUME NEW c \in Callers, NEW i \in Slots, Answer(c, i) PROVE OneClaim'
  BY <1>4, AnswerKeepsOneClaim
<1>5. ASSUME NEW c \in Callers, Finish(c) PROVE OneClaim'
  <2>1. /\ UNCHANGED <<lock, restarts, attempts>>
        /\ \A d \in Callers : Owns(d)' => Owns(d)
    BY <1>5 DEF Finish, Goto, Owns, Holds, TypeOK
  <2>2. \A d \in Callers, j \in Slots : Took(d, j)' <=> Took(d, j)
    BY <2>1 DEF Took
  <2> QED BY <2>1, <2>2 DEF OneClaim
<1>6. ASSUME NEW c \in Callers, Release(c) PROVE OneClaim'
  BY <1>6, ReleaseKeepsOneClaim
<1>7. ASSUME Restart PROVE OneClaim'
  <2>1. restarts' # 0
    BY <1>7, RestartsAreCounted
  <2> QED BY <2>1 DEF OneClaim
<1>8. CASE UNCHANGED vars
  BY <1>8 DEF vars, OneClaim, Owns, Holds, Took
<1> QED BY <1>1, <1>2, <1>3, <1>4, <1>5, <1>6, <1>7, <1>8 DEF Next

\* Two callers never both hold the group, unless the groups engine was restarted.
THEOREM Exclusion == Spec => []MutualExclusion
<1>1. Init => IInv
  BY InitIsTyped DEF Init, IInv, AskersHaveNothing, OneClaim, Owns, Holds, Took, NoneSent
<1>2. IInv => MutualExclusion
  BY DEF IInv, OneClaim, Owns, MutualExclusion
<1> QED BY <1>1, <1>2, InvariantStays, PTL DEF Spec
-----------------------------------------------------------------------------
(***************************************************************************)
(* No lock is left behind.  If the database answers before the next        *)
(* attempt, a caller has one attempt under way at most, and none once it   *)
(* was told: what takes the lock is never overlooked.                      *)
(***************************************************************************)
Asks(c)   == phase[c] \in {"first", "retrying"}
Claims(c) == (held[c] /\ phase[c] # "done") \/ \E i \in Slots : Took(c, i)
Sent(c, i) == attempts[c][i] # "none"

OneAttempt ==
    prompt => \A c \in Callers, i, j \in Slots :
                  Sent(c, i) => Asks(c) /\ (Sent(c, j) => i = j)

LockedIsClaimed == prompt /\ lock.user => \E c \in Callers : Claims(c)

PromptInv == TypeOK /\ AskersHaveNothing /\ OneAttempt /\ LockedIsClaimed

LEMMA OneAttemptStays ==
    ASSUME TypeOK, AskersHaveNothing, OneAttempt, [Next]_vars
    PROVE  OneAttempt'
<1>1. ASSUME NEW c \in Callers, Begin(c) PROVE OneAttempt'
  <2>1. /\ prompt' = prompt /\ Asks(c)' /\ \A i \in Slots : ~Sent(c, i)
        /\ \A d \in Callers : d # c => (Asks(d)' <=> Asks(d))
    BY <1>1 DEF Begin, Goto, Asks, Sent, AskersHaveNothing, TypeOK
  <2>2. \A d \in Callers, j \in Slots : d # c \/ j # 1 => (Sent(d, j)' <=> Sent(d, j))
    BY <1>1, OneIsASlot, BecomesOne DEF Begin, Sent, Outcomes
  <2> QED BY <2>1, <2>2 DEF OneAttempt
<1>2. ASSUME NEW c \in Callers, NEW i \in Slots, Again(c, i) PROVE OneAttempt'
  <2>1. /\ prompt' = prompt /\ Asks(c)'
        /\ \A d \in Callers : Asks(d)' <=> Asks(d)
    BY <1>2 DEF Again, Asks
  <2>2. prompt => \A j \in Slots : ~Sent(c, j)
    BY <1>2 DEF Again, NoneSent, Sent
  <2>3. \A d \in Callers, j \in Slots : d # c \/ j # i => (Sent(d, j)' <=> Sent(d, j))
    BY <1>2, BecomesOne DEF Again, Sent, Outcomes
  <2> QED BY <2>1, <2>2, <2>3 DEF OneAttempt
<1>3. ASSUME NEW c \in Callers, NEW i \in Slots, Execute(c, i) PROVE OneAttempt'
  <2>1. /\ prompt' = prompt /\ Sent(c, i)
        /\ \A d \in Callers : Asks(d)' <=> Asks(d)
    BY <1>3 DEF Execute, Asks, Sent
  <2>2. PICK a \in {"took", "not", "gone"} : Becomes(c, i, a)
    BY <1>3, ExecuteOne
  <2>3. \A d \in Callers, j \in Slots : d # c \/ j # i => (Sent(d, j)' <=> Sent(d, j))
    BY <2>2, BecomesOne DEF Sent, Outcomes
  <2> QED BY <2>1, <2>3 DEF OneAttempt
<1>4. ASSUME NEW c \in Callers, NEW i \in Slots, Answer(c, i) PROVE OneAttempt'
  <2>1. /\ prompt' = prompt /\ Sent(c, i)
        /\ \A d \in Callers : d # c => (Asks(d)' <=> Asks(d))
    BY <1>4 DEF Answer, Goto, Asks, Sent, TypeOK
  <2>2. /\ ~Sent(c, i)'
        /\ \A d \in Callers, j \in Slots : d # c \/ j # i => (Sent(d, j)' <=> Sent(d, j))
    <3>1. Becomes(c, i, "none") /\ "none" \in Outcomes
      BY <1>4 DEF Answer, Outcomes
    <3> QED BY <3>1, BecomesOne DEF Sent
  <2> QED BY <2>1, <2>2 DEF OneAttempt
<1>5. ASSUME NEW c \in Callers, Finish(c) PROVE OneAttempt'
  <2>1. /\ UNCHANGED <<prompt, attempts>>
        /\ \A d \in Callers : Asks(d) => Asks(d)'
    BY <1>5 DEF Finish, Goto, Asks, TypeOK
  <2> QED BY <2>1 DEF OneAttempt, Sent
<1>6. ASSUME NEW c \in Callers, Release(c) PROVE OneAttempt'
  <2>1. /\ UNCHANGED <<prompt, attempts>>
        /\ \A d \in Callers : Asks(d) => Asks(d)'
    BY <1>6 DEF Release, Goto, Asks, TypeOK
  <2> QED BY <2>1 DEF OneAttempt, Sent
<1>7. ASSUME Restart PROVE OneAttempt'
  BY <1>7 DEF Restart, NoneSent, OneAttempt, Asks, Sent
<1>8. CASE UNCHANGED vars
  BY <1>8 DEF vars, OneAttempt, Asks, Sent
<1> QED BY <1>1, <1>2, <1>3, <1>4, <1>5, <1>6, <1>7, <1>8 DEF Next

LEMMA LockedIsClaimedStays ==
    ASSUME PromptInv, [Next]_vars
    PROVE  LockedIsClaimed'
<1> USE DEF PromptInv
<1>1. ASSUME NEW c \in Callers, Begin(c) PROVE LockedIsClaimed'
  <2>1. /\ UNCHANGED <<prompt, lock, held>> /\ phase'[c] # "done"
        /\ \A d \in Callers : d # c => phase'[d] = phase[d]
    BY <1>1 DEF Begin, Goto, TypeOK
  <2>2. \A d \in Callers, j \in Slots : Took(d, j) => Took(d, j)'
    BY <1>1, OneIsASlot, BecomesOne DEF Begin, Took, Outcomes, AskersHaveNothing
  <2> QED BY <2>1, <2>2 DEF LockedIsClaimed, Claims
<1>2. ASSUME NEW c \in Callers, NEW i \in Slots, Again(c, i) PROVE LockedIsClaimed'
  <2>1. UNCHANGED <<prompt, lock, held, phase>> /\ ~Took(c, i)
    BY <1>2 DEF Again, Took
  <2>2. \A d \in Callers, j \in Slots : Took(d, j) => Took(d, j)'
    BY <1>2, <2>1, BecomesOne DEF Again, Took, Outcomes
  <2> QED BY <2>1, <2>2 DEF LockedIsClaimed, Claims
<1>3. ASSUME NEW c \in Callers, NEW i \in Slots, Execute(c, i) PROVE LockedIsClaimed'
  <2>1. UNCHANGED <<prompt, held, phase>> /\ ~Took(c, i)
    BY <1>3 DEF Execute, Took
  <2>2. PICK a \in {"took", "not", "gone"} : Becomes(c, i, a)
    BY <1>3, ExecuteOne
  <2>3. \A d \in Callers, j \in Slots : Took(d, j) => Took(d, j)'
    BY <2>1, <2>2, BecomesOne DEF Took, Outcomes
  <2>4. CASE lock.user
    BY <2>1, <2>3, <2>4 DEF LockedIsClaimed, Claims
  <2>5. CASE ~lock.user
    <3>1. lock'.user => Took(c, i)'
      BY <1>3, <2>5, UnlockedIsTaken
    <3> QED BY <3>1 DEF LockedIsClaimed, Claims
  <2> QED BY <2>4, <2>5
<1>4. ASSUME NEW c \in Callers, NEW i \in Slots, Answer(c, i) PROVE LockedIsClaimed'
  <2> SUFFICES ASSUME prompt, lock.user PROVE \E d \in Callers : Claims(d)'
    BY <1>4 DEF Answer, LockedIsClaimed
  <2>1. Asks(c) /\ ~held[c]
    BY <1>4 DEF Answer, OneAttempt, Sent, Asks, AskersHaveNothing
  <2>2. /\ \A d \in Callers : d # c => held'[d] = held[d] /\ phase'[d] = phase[d]
        /\ \A d \in Callers, j \in Slots : d # c \/ j # i => (Took(d, j) => Took(d, j)')
    <3>1. Becomes(c, i, "none") /\ "none" \in Outcomes
      BY <1>4 DEF Answer, Outcomes
    <3>2. \A d \in Callers, j \in Slots : d # c \/ j # i => (Took(d, j) => Took(d, j)')
      BY <3>1, BecomesOne DEF Took
    <3> QED BY <1>4, <3>2 DEF Answer, Goto, TypeOK
  <2>3. CASE Took(c, i)
    <3>1. held'[c] /\ phase'[c] = "holding"
      BY <1>4, <2>1, <2>3 DEF Answer, Goto, Told, Final, Took, Asks, TypeOK
    <3> QED BY <3>1 DEF Claims
  <2>4. CASE ~Took(c, i)
    <3>1. PICK d \in Callers : Claims(d)
      BY DEF LockedIsClaimed
    <3>2. CASE d # c
      BY <2>2, <3>1, <3>2 DEF Claims
    <3>3. CASE d = c
      BY <2>1, <2>2, <2>4, <3>1, <3>3 DEF Claims
    <3> QED BY <3>2, <3>3
  <2> QED BY <2>3, <2>4
<1>5. ASSUME NEW c \in Callers, Finish(c) PROVE LockedIsClaimed'
  <2>1. /\ UNCHANGED <<prompt, lock, held, attempts>>
        /\ \A d \in Callers : held[d] /\ phase[d] # "done" => phase'[d] # "done"
    BY <1>5 DEF Finish, Goto, TypeOK
  <2>2. \A d \in Callers : Claims(d) => Claims(d)'
    BY <2>1 DEF Claims, Took
  <2> QED BY <2>1, <2>2 DEF LockedIsClaimed
<1>6. ASSUME NEW c \in Callers, Release(c) PROVE LockedIsClaimed'
  <2>1. ~lock'.user
    BY <1>6 DEF Release, Free, TypeOK
  <2> QED BY <2>1 DEF LockedIsClaimed
<1>7. ASSUME Restart PROVE LockedIsClaimed'
  BY <1>7 DEF Restart, Free, LockedIsClaimed
<1>8. CASE UNCHANGED vars
  BY <1>8 DEF vars, LockedIsClaimed, Claims, Took
<1> QED BY <1>1, <1>2, <1>3, <1>4, <1>5, <1>6, <1>7, <1>8 DEF Next

\* If the database answers in time, the row is locked only as long as somebody
\* has the lock or is about to be told so.
THEOREM NothingIsLeft == Spec => []NoLockIsLeft
<1>1. Init => PromptInv
  <2> SUFFICES ASSUME Init PROVE PromptInv
    OBVIOUS
  <2>1. ~lock.user
    BY DEF Init, Free
  <2> QED BY <2>1, InitIsTyped DEF Init, PromptInv, AskersHaveNothing, OneAttempt,
                               LockedIsClaimed, Sent, NoneSent
<1>2. PromptInv /\ [Next]_vars => PromptInv'
  BY TypeStays, AskersStay, OneAttemptStays, LockedIsClaimedStays DEF PromptInv
<1>3. PromptInv => NoLockIsLeft
  BY DEF PromptInv, LockedIsClaimed, Claims, Took, NoLockIsLeft
<1> QED BY <1>1, <1>2, <1>3, PTL DEF Spec
=============================================================================
