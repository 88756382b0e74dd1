------------------------------ MODULE Control ------------------------------
(***************************************************************************)
(* The touch plugin of a device worker as a whole: the way of a touch from *)
(* the pages to the plugin's queue of gestures (Touch), and what becomes   *)
(* of it while minitouch is restarted and VNC clients touch the screen as  *)
(* well (Minitouch).  A behaviour is about the one or the other: in        *)
(* Minitouch a gesture is whatever Touch may make of it.  The owner, who   *)
(* comes and goes with the events `join' and `leave', is the same.         *)
(***************************************************************************)
EXTENDS Touch

CONSTANTS Viewers, FailLimit, MaxWrites     \* Minitouch

VARIABLES minitouch, writeQueue, protocol, held, viewers

Holding == touch.owner # None

Fingers == INSTANCE Minitouch WITH holding <- Holding, overlapping <- scenario

touching == <<minitouch, writeQueue, protocol, held, viewers>>

ControlInit ==
    /\ Init
    /\ Fingers!Init

-----------------------------------------------------------------------------
\* The gestures of the pages.
Gesturing ==
    /\ "minitouch" \notin scenario
    /\ \/ \E p \in Pages, c \in Contacts : FingerDown(p, c) \/ FingerMove(p, c)
                                        \/ FingerUp(p, c) \/ FingersMissed(p, c)
       \/ \E p \in Pages : Leave(p) \/ Age(p)
       \/ \E k \in sent : Deliver(k)
       \/ RowWritten
       \/ \E id \in Ids : Expire(id)
    /\ UNCHANGED touching

\* The event `join' or `leave'.
OwnerChanged ==
    /\ SetOwner
    /\ IF touch.owner = None THEN Fingers!Joined ELSE Fingers!Left

\* The consumer, and those who touch.
Consuming ==
    /\ "minitouch" \in scenario
    /\ Fingers!Next
    /\ UNCHANGED vars

\* The worker dies and is started again: nobody holds the device.
Dying ==
    /\ "minitouch" \in scenario
    /\ Fingers!Gone
    /\ touch' = [Emptied(None) EXCEPT !.log = touch.log]
    /\ UNCHANGED <<pages, issued, row, sent, lost, aged, scenario>>

ControlNext == Gesturing \/ OwnerChanged \/ Consuming \/ Dying

ControlSpec == ControlInit /\ [][ControlNext]_<<vars, touching>>
-----------------------------------------------------------------------------
\* All fingers on the screen are the holder's (touch/index.ts 113-121,
\* 609-611; stated in Minitouch).
NothingIsStuck == Fingers!NothingIsStuck
=============================================================================
