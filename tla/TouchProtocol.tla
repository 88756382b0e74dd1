--------------------------- MODULE TouchProtocol ---------------------------
(***************************************************************************)
(* TouchProtocol (units/device/plugins/touch/protocol.ts): the contacts    *)
(* that are down on the screen, and the changes that are staged until they *)
(* are committed.  The operators are about a record with the fields        *)
(* `active' and `staged'.  Coordinates are left out.                       *)
(***************************************************************************)
CONSTANT Contacts   \* the fingers

Lifted == [c \in Contacts |-> "none"]

\* What a commit tells minitouch to press and to lift.
Put(q)   == {c \in Contacts : q.staged[c] = "down"} \ q.active
Taken(q) == {c \in Contacts : q.staged[c] = "up"} \cap q.active

Commit(q) == [q EXCEPT !.active = (@ \cup Put(q)) \ Taken(q), !.staged = Lifted]

Reset(q) == [q EXCEPT !.active = {}, !.staged = Lifted]

StageFinish(q, held) ==
    [q EXCEPT !.staged = [c \in Contacts |-> IF c \in held THEN "up" ELSE @[c]]]

Finish(q, held) == Commit(StageFinish(q, held))

Pressed(q, c) == q.staged[c] = "down" \/ (q.staged[c] = "none" /\ c \in q.active)

Play(q, k) ==
    CASE k.type = "down"                       -> [q EXCEPT !.staged[k.contact] = "down"]
      [] k.type = "move" /\ Pressed(q, k.contact) -> [q EXCEPT !.staged[k.contact] = "down"]
      [] k.type = "up"                         -> [q EXCEPT !.staged[k.contact] = "up"]
      [] k.type = "commit"                     -> Commit(q)
      [] k.type = "reset"                      -> Reset(q)
      [] OTHER                                 -> q

\* The fingers that a gesture holds after a packet (wire/touch-gesture.ts).
Held(held, k) ==
    CASE k.type = "down"  -> held \cup {k.contact}
      [] k.type = "up"    -> held \ {k.contact}
      [] k.type = "reset" -> {}
      [] OTHER            -> held
=============================================================================
