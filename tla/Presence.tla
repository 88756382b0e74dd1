------------------------------ MODULE Presence ------------------------------
(***************************************************************************)
(* The present flag of a device's row, and who keeps it: the provider that *)
(* introduces the device and reports it absent, once when it is removed    *)
(* and once when a worker of it retires (units/provider); the heartbeats   *)
(* of its workers, also of those that are being stopped                    *)
(* (units/device/plugins/heartbeat.ts); the processor that writes the flag *)
(* and relays to the application side (units/processor); and the reaper,   *)
(* which listens on that side and pushes back to the device side           *)
(* (units/reaper, util/ttlset.ts).                                         *)
(*                                                                         *)
(* One device: the reaper's entries do not affect each other.  Time is     *)
(* abstracted: an entry may time out at any moment, and does so in the end *)
(* if no heartbeat comes.  What may overlap with what is chosen once, so    *)
(* that a property can say under which overlaps it holds.                  *)
(***************************************************************************)
EXTENDS Naturals, Sequences

CONSTANTS
    Overlaps,       \* the choices of what may start while earlier messages
                    \* are under way
    MaxRestarts,    \* bound: restarts of the reaper
    MaxStrays,      \* bound: workers that outlive the removal of the device
    MaxQueue        \* bound: messages under way when another one is started

Starts == {"introduce", "beat", "absent", "retire", "reap", "restart"}
ASSUME OverlapsAreStarts == Overlaps \subseteq SUBSET Starts
ASSUME RestartsAreNumber == MaxRestarts \in Nat
ASSUME StraysAreNumber == MaxStrays \in Nat

VARIABLES
    tracked,        \* the provider has introduced the device
    worker,         \* the worker of this introduction: "none", "up", or
                    \* "crashed" and to be restarted
    retiring,       \* workers of removed devices that were told to stop
    orphans,        \* workers that were restarted after the removal
    toProcessor,    \* device side, from the provider, worker and reaper
    writes,         \* what the processor has yet to write, in order
    present,        \* the flag of the row
    toReaper,       \* application side
    reaper,         \* "loading" the present devices, "loaded", "listening"
    known,          \* the reaper's TtlSet has the device
    restarts,       \* how often the reaper was restarted
    overlapping     \* the choice, which does not change

vars == <<tracked, worker, retiring, orphans, toProcessor, writes, present,
          toReaper, reaper, known, restarts, overlapping>>
strays    == <<retiring, orphans>>
device    == <<tracked, worker, strays>>
processor == <<writes, present, overlapping>>
reaping   == <<reaper, known, restarts>>

Reports == {"introduction", "heartbeat", "present", "absent"}
Ops     == {"initial", "present", "absent"}

\* The reaper has loaded an empty table.
Init ==
    /\ tracked = FALSE
    /\ worker = "none"
    /\ retiring = 0
    /\ orphans = 0
    /\ toProcessor = <<>>
    /\ writes = <<>>
    /\ present = FALSE
    /\ toReaper = <<>>
    /\ reaper = "listening"
    /\ known = FALSE
    /\ restarts = 0
    /\ overlapping \in Overlaps

Push(m) == toProcessor' = Append(toProcessor, m)

Quiet == toProcessor = <<>> /\ writes = <<>> /\ toReaper = <<>>

\* Only what starts a chain of messages is bounded, not what goes on with one.
\* A worker does not retire while the reaper starts, unless restarts overlap.
MayStart(kind) ==
    /\ kind \in overlapping \/ (Quiet /\ reaper = "listening")
    /\ kind = "retire" => reaper = "listening" \/ "restart" \in overlapping
    /\ Len(toProcessor) + Len(writes) + Len(toReaper) < MaxQueue
-----------------------------------------------------------------------------
(***************************************************************************)
(* The provider and the workers.  A removal is handled at once, but the    *)
(* worker that it stops takes its time, and the next introduction does not *)
(* wait for it.                                                            *)
(***************************************************************************)
Beating == worker = "up" \/ retiring > 0 \/ orphans > 0

Introduce ==
    /\ ~tracked
    /\ MayStart("introduce")
    /\ tracked' = TRUE
    /\ Push("introduction")
    /\ UNCHANGED <<worker, strays, processor, toReaper, reaping>>

Boot ==
    /\ tracked
    /\ worker # "up"
    /\ worker' = "up"
    /\ UNCHANGED <<tracked, strays, toProcessor, processor, toReaper, reaping>>

Beat ==
    /\ Beating
    /\ MayStart("beat")
    /\ Push("heartbeat")
    /\ UNCHANGED <<device, processor, toReaper, reaping>>

\* An exit with an error is not reported.
Crash ==
    /\ worker = "up"
    /\ worker' = "crashed"
    /\ UNCHANGED <<tracked, strays, toProcessor, processor, toReaper, reaping>>

\* The device is removed: its worker is told to stop; but one that has just
\* crashed is restarted all the same.
Removed ==
    /\ tracked
    /\ worker = "none" \/ retiring + orphans < MaxStrays
    /\ MayStart("absent")
    /\ tracked' = FALSE
    /\ worker' = "none"
    /\ retiring' = retiring + (IF worker = "up" THEN 1 ELSE 0)
    /\ orphans' = orphans + (IF worker = "crashed" THEN 1 ELSE 0)
    /\ Push("absent")
    /\ UNCHANGED <<processor, toReaper, reaping>>

\* A worker has exited cleanly, because it was told to or by itself: the device
\* is reported absent, whatever has become of it since.
Retire ==
    /\ MayStart("retire")
    /\ \/ /\ worker = "up"
          /\ worker' = "none"
          /\ UNCHANGED strays
       \/ /\ retiring > 0
          /\ retiring' = retiring - 1
          /\ UNCHANGED <<worker, orphans>>
       \/ /\ orphans > 0
          /\ orphans' = orphans - 1
          /\ UNCHANGED <<worker, retiring>>
    /\ Push("absent")
    /\ UNCHANGED <<tracked, processor, toReaper, reaping>>

\* An error ends a worker that was restarted after the removal.
Perish ==
    /\ orphans > 0
    /\ orphans' = orphans - 1
    /\ UNCHANGED <<tracked, worker, retiring, toProcessor, processor, toReaper,
                   reaping>>

\* The provider dies, or its host: nobody reports anything.
Vanish ==
    /\ tracked \/ Beating
    /\ tracked' = FALSE
    /\ worker' = "none"
    /\ retiring' = 0
    /\ orphans' = 0
    /\ UNCHANGED <<toProcessor, processor, toReaper, reaping>>
-----------------------------------------------------------------------------
(***************************************************************************)
(* The processor.  It does not wait for its writes, except to relay an     *)
(* introduction.                                                           *)
(***************************************************************************)

Write(m) ==
    CASE m = "introduction" -> <<"initial">>
      [] m = "heartbeat"    -> <<>>
      [] m = "present"      -> <<"present">>
      [] m = "absent"       -> <<"absent">>

Relay(m) == IF m = "introduction" THEN <<>> ELSE <<m>>

Process ==
    /\ toProcessor # <<>>
    /\ LET m == Head(toProcessor)
       IN  /\ toProcessor' = Tail(toProcessor)
           /\ writes' = writes \o Write(m)
           /\ toReaper' = toReaper \o Relay(m)
    /\ UNCHANGED <<device, present, reaping, overlapping>>

\* saveDeviceInitialState, setDevicePresent, setDeviceAbsent.
Applied(op) == op # "absent"

Apply ==
    /\ writes # <<>>
    /\ writes' = Tail(writes)
    /\ present' = Applied(Head(writes))
    /\ toReaper' = IF Head(writes) = "initial"
                   THEN Append(toReaper, "introduction") ELSE toReaper
    /\ UNCHANGED <<device, toProcessor, reaping, overlapping>>
-----------------------------------------------------------------------------
(***************************************************************************)
(* The reaper.                                                             *)
(***************************************************************************)
\* A new process: its set is empty until the present devices are loaded.
Restart ==
    /\ reaper = "listening"
    /\ restarts < MaxRestarts
    /\ MayStart("restart")
    /\ restarts' = restarts + 1
    /\ reaper' = "loading"
    /\ known' = FALSE
    /\ UNCHANGED <<device, toProcessor, processor, toReaper>>

\* loadInitialState: the query's answer, bumped silently when it arrives.
Load ==
    /\ reaper = "loading"
    /\ reaper' = "loaded"
    /\ known' = present
    /\ UNCHANGED <<device, toProcessor, processor, toReaper, restarts>>

\* listenToChanges: only now is there a listener.
Listen ==
    /\ reaper = "loaded"
    /\ reaper' = "listening"
    /\ UNCHANGED <<device, toProcessor, processor, toReaper, known, restarts>>

\* A message that comes before the listener is lost.
Miss ==
    /\ reaper # "listening"
    /\ toReaper # <<>>
    /\ toReaper' = Tail(toReaper)
    /\ UNCHANGED <<device, toProcessor, processor, reaping>>

Hear(m) ==
    /\ reaper = "listening"
    /\ toReaper # <<>>
    /\ Head(toReaper) = m
    /\ toReaper' = Tail(toReaper)
    /\ UNCHANGED <<device, processor, reaper, restarts>>

\* Mutant: announced, but only dropped.
HearIntroductionOnce ==
    /\ Hear("introduction")
    /\ known' = FALSE
    /\ Push("present")

\* Dropped silently and bumped: a new entry always, so it is announced.
HearIntroduction ==
    /\ Hear("introduction")
    /\ known' = TRUE
    /\ Push("present")

\* Bumped: announced if the entry is new.
HearHeartbeat ==
    /\ Hear("heartbeat")
    /\ known' = TRUE
    /\ IF known THEN UNCHANGED toProcessor ELSE Push("present")

\* Mutant: only the reaper forgets a device that it times out.
HearAbsentInVain ==
    /\ Hear("absent")
    /\ UNCHANGED <<known, toProcessor>>

\* Dropped silently, whoever said so: the reaper hears itself as well.
HearAbsent ==
    /\ Hear("absent")
    /\ known' = FALSE
    /\ UNCHANGED toProcessor

\* Its own DevicePresentMessage comes back too; there is no handler for it.
HearPresent ==
    /\ Hear("present")
    /\ UNCHANGED <<known, toProcessor>>

\* Mutant: an entry that times out is dropped silently.
ReapSilently ==
    /\ reaper = "listening"
    /\ known
    /\ MayStart("reap")
    /\ known' = FALSE
    /\ UNCHANGED <<device, toProcessor, processor, toReaper, reaper, restarts>>

\* TtlSet._check drops an entry that timed out.
Reap ==
    /\ reaper = "listening"
    /\ known
    /\ MayStart("reap")
    /\ known' = FALSE
    /\ Push("absent")
    /\ UNCHANGED <<device, processor, toReaper, reaper, restarts>>

Next ==
    \/ Introduce
    \/ Boot
    \/ Beat
    \/ Crash
    \/ Removed
    \/ Retire
    \/ Perish
    \/ Vanish
    \/ Process
    \/ Apply
    \/ Restart
    \/ Load
    \/ Listen
    \/ Miss
    \/ HearIntroduction
    \/ HearHeartbeat
    \/ HearAbsent
    \/ HearPresent
    \/ Reap

Hearing == HearIntroduction \/ HearHeartbeat \/ HearAbsent \/ HearPresent

Spec == Init /\ [][Next]_vars

\* Messages are delivered and written, a worker beats as long as it lives, and
\* the entry of a device that does not is timed out.
Fairness ==
    /\ WF_vars(Process) /\ WF_vars(Apply)
    /\ WF_vars(Load) /\ WF_vars(Listen) /\ WF_vars(Hearing)
    /\ SF_vars(Beat)
    /\ SF_vars(~Beating /\ Reap)

FairSpec == Spec /\ Fairness
-----------------------------------------------------------------------------
(***************************************************************************)
(* Properties.                                                             *)
(***************************************************************************)
\* The type invariant.
TypeOK ==
    /\ tracked \in BOOLEAN
    /\ worker \in {"none", "up", "crashed"}
    /\ retiring \in 0..MaxStrays
    /\ orphans \in 0..MaxStrays
    /\ toProcessor \in Seq(Reports)
    /\ writes \in Seq(Ops)
    /\ present \in BOOLEAN
    /\ toReaper \in Seq(Reports)
    /\ reaper \in {"loading", "loaded", "listening"}
    /\ known \in BOOLEAN
    /\ restarts \in 0..MaxRestarts

\* A device whose worker is up is shown as present again and again, however
\* late its heartbeats are and whatever else is under way: the reports of the
\* worker before it, which retires after the device is back, included.  Not a
\* restart of the reaper: it may take over a flag that an absent report is
\* about to clear.
BeatingIsPresent == <>[](worker = "up") => []<>present

\* When nothing is under way, the reaper watches every device that the row
\* shows as present, so it can find out that the device is lost.  Holds if
\* only heartbeats overlap with other messages.
Prompt == overlapping \subseteq {"beat"}

PresentIsWatched ==
    Prompt /\ Quiet /\ reaper = "listening" /\ present => known

\* A device that is gone for good, its last workers too, is shown as absent for
\* good: the reaper "marks lost devices as absent until a heartbeat is received
\* again" (doc/DEPLOYMENT.md:467).  The code does not keep that promise once a
\* heartbeat is under way as its device times out or its worker retires: the
\* reaper forgets the device, the heartbeat brings it back, and then the reaper
\* hears the DeviceAbsentMessage, its own or the provider's, and forgets it for
\* good.
LostIsAbsent == <>[](~tracked /\ ~Beating) => <>[]~present

\* It keeps it if only heartbeats overlap with other messages.
LostIsAbsentIfPrompt == Prompt => LostIsAbsent
=============================================================================
