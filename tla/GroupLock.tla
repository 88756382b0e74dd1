------------------------------ MODULE GroupLock ------------------------------
(***************************************************************************)
(* The lock of a group's row, and the retries of those who want it.        *)
(*                                                                         *)
(* API requests take it with lockGroupByOwner, ticks of the groups engine  *)
(* with adminLockGroup (lib/db/api.ts).  Both go through                   *)
(* setIntervalWrapper (lib/util/apiutil.ts): after a first attempt that    *)
(* failed, an attempt is begun every 50 to 550 ms, whether or not the last *)
(* one was answered, until one succeeds or ten have failed.  What an       *)
(* attempt still under way does to the row then is not looked at.          *)
(*                                                                         *)
(* Ticks begin every second (groups-engine/scheduler), whatever became of  *)
(* those before: several are under way.  A groups engine that starts       *)
(* clears every lock.                                                      *)
(***************************************************************************)
EXTENDS Integers

CONSTANTS
    Requests,   \* API requests that lock the group
    Ticks,      \* ticks of the groups engine that do
    Overlap,    \* bound: attempts of one caller that are under way at a time
    Tries,      \* attempts of the interval that fail before it gives up
    MaxRestarts \* bound: restarts of the groups engine

ASSUME CallersAssumption == Requests \cap Ticks = {}
ASSUME BoundsAssumption ==
    Overlap \in Nat \ {0} /\ Tries \in Nat \ {0} /\ MaxRestarts \in Nat

Callers == Requests \cup Ticks
Slots   == 1 .. Overlap

VARIABLES
    exists,   \* whether the group's row is there
    lock,     \* the lock of the row
    phase,    \* what a caller is doing
    held,     \* whether a caller's own lock object has the group
    counter,  \* attempts of a caller's interval that failed
    attempts, \* the attempts of a caller that are under way
    restarts, \* restarts so far
    prompt    \* whether the database answers before the next attempt

vars == <<exists, lock, phase, held, counter, attempts, restarts, prompt>>

Free     == [user |-> FALSE, admin |-> FALSE]
NoneSent == [i \in Slots |-> "none"]

Init ==
    /\ exists = TRUE
    /\ lock = Free
    /\ phase = [c \in Callers |-> "idle"]
    /\ held = [c \in Callers |-> FALSE]
    /\ counter = [c \in Callers |-> 0]
    /\ attempts = [c \in Callers |-> NoneSent]
    /\ restarts = 0
    /\ prompt \in BOOLEAN

Goto(c, p)       == phase' = [phase EXCEPT ![c] = p]
Becomes(c, i, a) == attempts' = [attempts EXCEPT ![c][i] = a]
-----------------------------------------------------------------------------
(***************************************************************************)
(* setIntervalWrapper.                                                     *)
(***************************************************************************)
\* The first attempt.
Begin(c) ==
    /\ phase[c] = "idle"
    /\ Becomes(c, 1, "sent")
    /\ Goto(c, "first")
    /\ UNCHANGED <<exists, lock, held, counter, restarts, prompt>>

\* Mutant: the interval ends one attempt early.
AgainTooFew(c, i) ==
    /\ phase[c] = "retrying"
    /\ counter[c] + 1 < Tries
    /\ attempts[c][i] = "none"
    /\ prompt => attempts[c] = NoneSent
    /\ Becomes(c, i, "sent")
    /\ UNCHANGED <<exists, lock, phase, held, counter, restarts, prompt>>

\* The interval.
Again(c, i) ==
    /\ phase[c] = "retrying"
    /\ attempts[c][i] = "none"
    /\ prompt => attempts[c] = NoneSent
    /\ Becomes(c, i, "sent")
    /\ UNCHANGED <<exists, lock, phase, held, counter, restarts, prompt>>

\* An attempt of a request changes the lock only if nobody has it.
TryUser(c, i) ==
    LET free == ~lock.admin /\ ~lock.user
    IN  /\ lock' = IF free THEN [lock EXCEPT !.user = TRUE] ELSE lock
        /\ Becomes(c, i, IF free THEN "took" ELSE "not")

\* Mutant: what counts is that the row was changed.
TryAdminReplaced(c, i) ==
    /\ lock' = [user |-> TRUE, admin |-> TRUE]
    /\ Becomes(c, i, IF lock.user /\ lock.admin THEN "not" ELSE "took")

\* An attempt of a tick keeps requests out even if it fails.
TryAdmin(c, i) ==
    /\ lock' = [user |-> TRUE, admin |-> TRUE]
    /\ Becomes(c, i, IF lock.user THEN "not" ELSE "took")

Execute(c, i) ==
    /\ attempts[c][i] = "sent"
    /\ \/ ~exists /\ Becomes(c, i, "gone") /\ UNCHANGED lock
       \/ exists /\ c \in Requests /\ TryUser(c, i)
       \/ exists /\ c \notin Requests /\ TryAdmin(c, i)
    /\ UNCHANGED <<exists, phase, held, counter, restarts, prompt>>

\* What a caller does once it is told, with or without the lock.
Told(c, took) ==
    IF took THEN "holding" ELSE IF c \in Ticks THEN "giving up" ELSE "done"

\* A request that failed looks whether the group is still there.
Final(c, a) == a \in {"took", "gone"} \/ (c \in Requests /\ ~exists)

\* An answer.  One that comes when the caller was told already changes nothing
\* but the lock object of a tick.
Answer(c, i) ==
    LET a     == attempts[c][i]
        asks  == phase[c] \in {"first", "retrying"}
        fails == asks /\ ~Final(c, a)
    IN  /\ a \in {"took", "not", "gone"}
        /\ Becomes(c, i, "none")
        /\ held' = [held EXCEPT ![c] = @ \/ (a = "took" /\ (c \in Ticks \/ asks))]
        /\ counter' = [counter EXCEPT ![c] =
               IF fails /\ phase[c] = "retrying" THEN @ + 1 ELSE @]
        /\ IF asks /\ ~fails THEN Goto(c, Told(c, a = "took"))
           ELSE IF fails /\ phase[c] = "first" THEN Goto(c, "retrying")
           ELSE IF fails /\ counter[c] + 1 = Tries THEN Goto(c, Told(c, FALSE))
           ELSE UNCHANGED phase
        /\ UNCHANGED <<exists, lock, restarts, prompt>>
-----------------------------------------------------------------------------
(***************************************************************************)
(* The holder, and the engine.                                             *)
(***************************************************************************)
\* Mutant: an operation that fails does not unlock.
FinishUnsure(c) ==
    /\ phase[c] \in {"holding", "giving up"}
    /\ \E p \in {"releasing", "done"} : Goto(c, IF held[c] THEN p ELSE "done")
    /\ exists' \in (IF phase[c] = "holding" THEN {exists, FALSE} ELSE {exists})
    /\ UNCHANGED <<lock, held, counter, attempts, restarts, prompt>>

\* The operation that the lock was taken for is over; it may have deleted the
\* group.  A tick that was refused has marked the group as waiting.
Finish(c) ==
    /\ phase[c] \in {"holding", "giving up"}
    /\ Goto(c, IF held[c] THEN "releasing" ELSE "done")
    /\ exists' \in (IF phase[c] = "holding" THEN {exists, FALSE} ELSE {exists})
    /\ UNCHANGED <<lock, held, counter, attempts, restarts, prompt>>

\* unlockGroup and adminUnlockGroup.
Release(c) ==
    /\ phase[c] = "releasing"
    /\ lock' = IF c \in Requests THEN [lock EXCEPT !.user = FALSE] ELSE Free
    /\ Goto(c, "done")
    /\ held' = [held EXCEPT ![c] = FALSE]
    /\ UNCHANGED <<exists, counter, attempts, restarts, prompt>>

\* The groups engine crashes, its ticks with it, and starts: unlockBookingObjects.
\* (Bound: only in behaviours in which the database answers in time, the ones
\* that have a property about restarts.)
Restart ==
    /\ prompt
    /\ restarts < MaxRestarts
    /\ restarts' = restarts + 1
    /\ lock' = Free
    /\ phase' = [c \in Callers |-> IF c \in Ticks THEN "idle" ELSE phase[c]]
    /\ held' = [c \in Callers |-> c \notin Ticks /\ held[c]]
    /\ counter' = [c \in Callers |-> IF c \in Ticks THEN 0 ELSE counter[c]]
    /\ attempts' = [c \in Callers |-> IF c \in Ticks THEN NoneSent ELSE attempts[c]]
    /\ UNCHANGED <<exists, prompt>>

Next ==
    \/ \E c \in Callers, i \in Slots :
           Again(c, i) \/ Execute(c, i) \/ Answer(c, i)
    \/ \E c \in Callers : Begin(c) \/ Finish(c) \/ Release(c)
    \/ Restart

Spec == Init /\ [][Next]_vars

\* The database answers, and intervals fire.
FairSpec ==
    /\ Spec
    /\ \A c \in Callers, i \in Slots :
           WF_vars(Again(c, i)) /\ WF_vars(Execute(c, i)) /\ WF_vars(Answer(c, i))
-----------------------------------------------------------------------------
Outcomes == {"none", "sent", "took", "not", "gone"}

TypeOK ==
    /\ exists \in BOOLEAN
    /\ lock \in [user : BOOLEAN, admin : BOOLEAN]
    /\ phase \in [Callers -> {"idle", "first", "retrying", "holding", "giving up",
                              "releasing", "done"}]
    /\ held \in [Callers -> BOOLEAN]
    /\ counter \in [Callers -> Nat]
    /\ attempts \in [Callers -> [Slots -> Outcomes]]
    /\ restarts \in 0 .. MaxRestarts
    /\ prompt \in BOOLEAN

Holds(c) == phase[c] \in {"holding", "releasing"}

\* However the attempts of requests and ticks overlap, answered in time or not,
\* two callers never both hold the group: unless the groups engine was restarted,
\* which clears the locks of live requests too.
MutualExclusion ==
    restarts = 0 => \A c, d \in Callers : Holds(c) /\ Holds(d) => c = d

\* If every attempt is answered before the next one, the row is locked only as
\* long as somebody has the lock or is about to be told so, restarts or not.  (An
\* attempt that takes the lock after its caller was told leaves it taken: requests
\* are then refused, and ticks too, until the groups engine is restarted.)
NoLockIsLeft ==
    prompt /\ exists /\ lock.user =>
        \E c \in Callers : \/ held[c] /\ phase[c] # "done"
                           \/ \E i \in Slots : attempts[c][i] = "took"

\* Every caller is told in the end, also if the lock is never released.
EveryCallerIsTold ==
    \A c \in Callers : (phase[c] \in {"first", "retrying"})
                           ~> (phase[c] \notin {"first", "retrying"})
=============================================================================
