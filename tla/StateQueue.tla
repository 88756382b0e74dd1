----------------------------- MODULE StateQueue -----------------------------
(***************************************************************************)
(* StateQueue (util/statequeue.ts): the states that a service on the phone *)
(* is to be in, one after the other.                                       *)
(***************************************************************************)
EXTENDS Sequences, Functions

\* push: a state that waits already is the last that does.
Pushed(queue, state) ==
    IF state \in Range(queue)
    THEN SubSeq(queue, 1, CHOOSE i \in DOMAIN queue : queue[i] = state)
    ELSE Append(queue, state)

\* What a service pushes to be restarted.
Restarted(queue) == Pushed(Pushed(queue, "stopped"), "started")
=============================================================================
