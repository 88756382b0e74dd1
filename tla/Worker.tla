------------------------------- MODULE Worker -------------------------------
(***************************************************************************)
(* A device worker: its group plugin (DeviceGroup) with two plugins that   *)
(* live in the same process, the screen (Screen), which anybody may watch  *)
(* and which ends with the process, and the reverse port forwards          *)
(* (Forward), which are the holder's and end with the reservation.         *)
(***************************************************************************)
EXTENDS DeviceGroup

CONSTANTS Clients, Configs, FailLimit, MaxSending,      \* Screen
          Ids, Ports, MaxConnections,                   \* Forward
          MaxTenures,   \* bound: reservations in a behaviour with forwards
    Uses    \* what may go on in one behaviour: sets of "group" (joins),
                  \* "turn" (several events in one turn), "screen", "forward",
                  \* and of the bad moments of Screen and Forward

VARIABLES
    uses,       \* a member of Uses
    clients, told, config, runningState, desiredState, ensuring,
    stage, output, socket, captured, failures, frame, readable, needsReadable,
    sending,
    creating, open, ending, handlers

Running == phase # "exited"

\* The tenures of the device that are over: each ends with a release.
Tenure == IF currentGroup = NoGroup THEN issued ELSE issued - 1

Capture == INSTANCE Screen WITH alive <- Running, overlapping <- uses
Reverse == INSTANCE Forward WITH tenure <- Tenure, overlapping <- uses

screen == <<clients, told, config, runningState, desiredState, ensuring, stage, output, socket, captured, failures, frame,
            readable, needsReadable, sending>>
forwards == <<creating, open, ending, handlers>>

all == <<vars, uses, screen, forwards>>

WorkerInit ==
    /\ Init
    /\ uses \in Uses
    /\ Capture!Init
    /\ "screen" \in uses \/ config = CHOOSE c \in Configs : TRUE
    /\ Reverse!Init
-----------------------------------------------------------------------------
Emits == "turn" \in uses \/ received = 0

\* What the group plugin does by itself.
GroupOnly ==
    \/ /\ "group" \in uses
       /\ Emits
       /\ \/ /\ "forward" \in uses => issued + Len(jobs) < MaxTenures
             /\ \E u \in Users : ReceiveGroup(u) \/ ReceiveAutoGroup(u)
          \/ \E id \in 0..issued : ReceiveUngroup(id)
    \/ /\ Emits
       /\ \E u \in Users, kind \in TimerKinds : CheckTimeout(u, kind)
    \/ MatchedJoin
    \/ JoinGrouped
    \/ JoinMissed
    \/ JoinFree
    \/ Acknowledge
    \/ MatchedLeave
    \/ LeaveRefused

Grouping ==
    /\ GroupOnly
    /\ UNCHANGED <<uses, screen, forwards>>

\* The event `leave' resets the forwards.
Releasing ==
    /\ Leave
    /\ Reverse!Reset
    /\ UNCHANGED <<uses, screen>>

\* The observers of SIGTERM: the producer is asked to stop, and nobody waits.
Stopping ==
    /\ Emits
    /\ Stop
    /\ Capture!Stopped
    /\ UNCHANGED <<uses, forwards>>

Dying ==
    /\ Exit \/ Crash
    /\ Capture!Reset
    /\ Reverse!Gone
    /\ UNCHANGED uses

Restarting ==
    /\ Restart
    /\ UNCHANGED <<uses, screen, forwards>>

Screening ==
    /\ "screen" \in uses
    /\ Capture!Next
    /\ UNCHANGED <<vars, uses, forwards>>

\* What the producer does by itself.
Continuing ==
    /\ "screen" \in uses
    /\ Capture!Chain \/ Capture!Sent
    /\ UNCHANGED <<vars, uses, forwards>>

\* An error of the producer is fatal.
ScreenFails ==
    /\ Capture!MustDie
    /\ Dying

Forwarding ==
    /\ "forward" \in uses
    /\ Running
    /\ Reverse!Next
    /\ UNCHANGED <<vars, uses, screen>>

WorkerNext ==
    \/ Grouping
    \/ Releasing
    \/ Stopping
    \/ Dying
    \/ ScreenFails
    \/ Restarting
    \/ Screening
    \/ Forwarding

WorkerSpec == WorkerInit /\ [][WorkerNext]_all

\* The chains of a live producer go on, a fatal error is the end of the
\* process, and SIGTERM is after ten seconds at the latest.
FairSpec ==
    /\ WorkerSpec
    /\ WF_all(Continuing)
    /\ WF_all(ScreenFails)
    /\ WF_all(phase = "stopping" /\ Dying)
-----------------------------------------------------------------------------
\* What is promised of the screen and of the forwards holds in the worker, its
\* crashes, its ends and the comings and goings of its holders included; the
\* properties are stated where their state is.

\* Who watches a screen that is up has its banner, and the rotation and size
\* are those that were asked for last (screen/stream.ts 217-226, 552-563).
ScreenIsCurrent == Capture!ScreenIsCurrent

\* minicap runs if and only if somebody watches, in the end (screen/stream.ts
\* 128-203, 544-550).
FollowsWatchers == Capture!FollowsWatchers

\* The loop that sends the frames does not die (screen/stream.ts 575-585).
FramesFlow == Capture!FramesFlow

\* Forwards end with the reservation (forward/index.ts 156-160, on the event
\* that solo.ts and group.ts make of a release), also with those that one turn
\* ends and begins again; not with one that a second join replaces, for which
\* there is no such event.
NothingIsInherited == ~contested => Reverse!NothingIsInherited
=============================================================================
