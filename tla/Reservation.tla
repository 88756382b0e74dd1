---------------------------- MODULE Reservation ----------------------------
(***************************************************************************)
(* What a device promises its users: it is held by at most one user at a   *)
(* time, under a reservation of its own, and passes from one reservation   *)
(* to another only by being released in between.                           *)
(*                                                                         *)
(* DeviceGroup shows that the group plugin of a device worker implements   *)
(* this specification.                                                     *)
(***************************************************************************)
EXTENDS Naturals

CONSTANTS
    Users,      \* users, each with the group channel it controls devices by
    None        \* "no user"

VARIABLES
    holder,     \* the reservation in force, NoGroup when the device is free
    issued      \* how many reservations the device has ever handed out

vars == <<holder, issued>>

\* An owner as the worker keeps it: who, and under which reservation.
NoGroup == [group |-> None, reservationId |-> 0]
Groups  == [group : Users \cup {None}, reservationId : Nat]

Init ==
    /\ holder = NoGroup
    /\ issued = 0

Acquire(u) ==
    /\ holder = NoGroup
    /\ issued' = issued + 1
    /\ holder' = [group |-> u, reservationId |-> issued + 1]

Release ==
    /\ holder # NoGroup
    /\ holder' = NoGroup
    /\ UNCHANGED issued

Next ==
    \/ \E u \in Users : Acquire(u)
    \/ Release

Spec == Init /\ [][Next]_vars
=============================================================================
