-------------------------------- MODULE Touch --------------------------------
(***************************************************************************)
(* The way of a touch from a web page to the phone.                        *)
(*                                                                         *)
(* A page (res/app/.../screen-touch.ts) emits what the fingers do as       *)
(* packets, numbered modulo a cycle.  The websocket unit gives a gesture   *)
(* its identity, a page and an order, and the reservation that the         *)
(* device's row shows (units/websocket/ios-access.ts); a page that leaves  *)
(* cancels its gestures.  Packets overtake each other and get lost.  The   *)
(* device's worker puts each gesture in order again                        *)
(* (wire/touch-gesture.ts, wire/seqqueue.ts), one gesture at a time, and   *)
(* plays it on the screen (device/plugins/touch/protocol.ts).              *)
(*                                                                         *)
(* Time is abstracted: a timer that is set may fire at any moment.         *)
(* Coordinates are left out.                                               *)
(***************************************************************************)
EXTENDS Integers, FiniteSets, SequencesExt, FiniteSetsExt, TouchProtocol

CONSTANTS
    Pages,           \* web pages, each with its own socket
    Cycle,           \* sequence numbers are modulo this
    MinSafe,         \* packets that allow to skip a missing one
    MaxPending,      \* gestures that have not begun, at most
    None,
    Scenarios,       \* what may happen besides touches, in one behaviour
    MaxReservations, \* bound: reservations of the device
    MaxGestures,     \* bound: gestures of a page
    MaxLength,       \* bound: packets of a long gesture, of which none is lost
    MaxSent,         \* bound: packets on their way
    MaxLost          \* bound: packets that get lost

ASSUME CycleAssumption == Cycle \in Nat /\ Cycle % 2 = 0 /\ MinSafe < Cycle \div 2

Window       == Cycle \div 2
Reservations == 1 .. MaxReservations
Orders       == 1 .. MaxGestures
Ids          == [page : Pages, order : Orders]

VARIABLES
    pages,  \* what a page, and the websocket unit for it, know
    issued, \* reservations so far
    row,    \* the reservation that the device's row shows
    sent,   \* packets on their way to the worker
    lost,   \* packets lost so far
    aged,   \* the last gesture of a page that is too old to begin
    touch,  \* the worker: the queue of gestures and the screen
    scenario \* what happens in this behaviour

vars == <<pages, issued, row, sent, lost, aged, touch, scenario>>

NoGesture == [order |-> 0, reservation |-> None]

\* `log' records the gestures that were begun and cancelled, and `played' of
\* an entry the positions that were played: history only.
NoEntry ==
    [packets |-> {}, start |-> None, next |-> None, held |-> {}, timer |-> "none",
     played |-> <<>>]

\* The queue of a worker that nobody has reserved.
Emptied(owner) ==
    [owner |-> owner, current |-> None, entries |-> << >>, waiting |-> <<>>,
     retired |-> {}, latest |-> [p \in Pages |-> 0],
     active |-> {}, staged |-> Lifted, log |-> <<>>]

Init ==
    /\ pages = [p \in Pages |->
           [open |-> TRUE, at |-> 0, fingers |-> {}, made |-> 0, length |-> 0, counter |-> 0,
            gesture |-> NoGesture, fences |-> [r \in Reservations |-> 0]]]
    /\ issued = 1
    /\ row = 1
    /\ sent = {}
    /\ lost = 0
    /\ aged = [p \in Pages |-> 0]
    /\ touch = Emptied(1)
    /\ scenario \in Scenarios
-----------------------------------------------------------------------------
(***************************************************************************)
(* The queue of gestures.                                                  *)
(***************************************************************************)
Id(k)  == [page |-> k.page, order |-> k.order]
Number(k) == k.at % Cycle

Pending(q) == DOMAIN q.entries \ {q.current}
Fresh(id)  == id.order > aged[id.page]
Allowed(q, k) == q.owner # None /\ k.reservation = q.owner

\* Mutant: nothing is remembered of a page but its retired gestures.
RememberNothing(q, id) == q

\* The latest gesture of a page that has begun or is over.
Remember(q, id) ==
    [q EXCEPT !.latest[id.page] = IF @ < id.order THEN id.order ELSE @]

Retire(q, id) == [Remember(q, id) EXCEPT !.retired = @ \cup {id}]

Forget(q, id) ==
    Retire([q EXCEPT
        !.entries = [i \in DOMAIN @ \ {id} |-> @[i]],
        !.waiting = SelectSeq(@, LAMBDA i : i # id),
        !.current = IF @ = id THEN None ELSE @], id)

ForgetAll(q, ids) == FoldSet(LAMBDA id, acc : Forget(acc, id), q, ids)

\* Mutant: the wait for the end of the current gesture is not limited.
WaitForTailPatiently(q) == q

WaitForTail(q) ==
    IF q.waiting # <<>> /\ q.entries[Head(q.waiting)].timer = "none"
    THEN [q EXCEPT !.entries[Head(q.waiting)].timer = "tail"]
    ELSE q

\* The distance of a packet from the next one that is expected.
Ahead(e, k) == (Number(k) - e.next) % Cycle
Buffered(e, seq) == \E k \in e.packets : Number(k) = seq

\* The packets that can be played, in order.
Run(e) ==
    LET length == Max({0} \cup {n \in 1 .. Cycle :
                      \A i \in 0 .. n - 1 : Buffered(e, (e.next + i) % Cycle)})
    IN  [i \in 1 .. length |-> CHOOSE k \in e.packets : Ahead(e, k) = i - 1]

\* Mutant: the fingers of a gesture that is over stay down.
StoppedHolding(q, id) == Forget(q, id)

\* A gesture that is over lifts the fingers that it holds.
Stopped(q, id) == Finish(Forget(q, id), q.entries[id].held)

Handle(q, id, k) ==
    IF q.current # id THEN q
    ELSE IF k.type = "stop" THEN Stopped(q, id)
    ELSE [Play(q, k) EXCEPT
             !.entries[id] = [@ EXCEPT
                 !.packets = @ \ {k}, !.next = (Number(k) + 1) % Cycle,
                 !.held = Held(@, k), !.played = Append(@, k.at)]]

Consume(q, id) ==
    FoldLeft(LAMBDA acc, k : Handle(acc, id, k), q, Run(q.entries[id]))

Safe(e, k) ==
    \/ k.type \in {"commit", "stop"}
    \/ k.type \in {"move", "up"} /\ k.contact \in e.held

\* A missing packet is given up if those after it concern pressed fingers only.
CanSkip(e) ==
    /\ e.held # {}
    /\ ~Buffered(e, e.next)
    /\ Cardinality({k \in e.packets : \A b \in e.packets :
                       Ahead(e, b) <= Ahead(e, k) => Safe(e, b)}) >= MinSafe

SkipOnce(q, id) ==
    IF q.current = id /\ CanSkip(q.entries[id])
    THEN Consume([q EXCEPT !.entries[id].next = (@ + 1) % Cycle], id)
    ELSE q

SkipGap(q, id) ==
    FoldLeft(LAMBDA acc, i : SkipOnce(acc, id), q, [i \in 1 .. Window |-> i])

CheckGap(q, id) ==
    IF q.current = id
    THEN [q EXCEPT !.entries[id].timer =
              IF q.entries[id].packets = {} THEN "none" ELSE "gap"]
    ELSE q

Advance(q, id) == CheckGap(SkipGap(Consume(q, id), id), id)

Activate(q, id) ==
    LET e    == q.entries[id]
        next == (e.start + 1) % Cycle
        kept == {k \in e.packets : (Number(k) - next) % Cycle < Window}
    IN  Advance([Remember(q, id) EXCEPT
            !.current = id,
            !.log = Append(@, [what |-> "begin", id |-> id]),
            !.entries[id] = [e EXCEPT !.packets = kept, !.next = next, !.timer = "none"]], id)

\* The gestures that wait begin as those before them are over.
Promote(q) ==
    WaitForTail(
        FoldLeft(LAMBDA acc, id :
                     IF acc.current # None THEN acc
                     ELSE Activate([acc EXCEPT !.waiting = Tail(@)], id),
                 q, q.waiting))

Settle(q) == IF q.current = None THEN Promote(q) ELSE q

\* Mutant: a packet that comes after it was given up is kept.
ScheduleLate(q, id, k) ==
    LET e == q.entries[id]
    IN  IF Buffered(e, Number(k)) THEN q
        ELSE IF Cardinality(e.packets) >= Window - 1 /\ Number(k) # e.next
             THEN Promote(Forget(Reset(q), id))
        ELSE Settle(Advance([q EXCEPT !.entries[id].packets = @ \cup {k}], id))

\* A packet of the current gesture, unless it is a duplicate or was given up.
Schedule(q, id, k) ==
    LET e == q.entries[id]
    IN  IF Ahead(e, k) >= Window \/ Buffered(e, Number(k)) THEN q
        ELSE IF Cardinality(e.packets) >= Window - 1 /\ Number(k) # e.next
             THEN Promote(Forget(Reset(q), id))
        ELSE Settle(Advance([q EXCEPT !.entries[id].packets = @ \cup {k}], id))

\* The entry of a gesture, made if there is room for it.
Entered(q, id) ==
    IF id \in DOMAIN q.entries \/ ~Fresh(id) THEN q
    ELSE IF Cardinality(Pending(q)) >= MaxPending THEN Retire(q, id)
    ELSE [q EXCEPT !.entries = (id :> [NoEntry EXCEPT !.timer = "start"]) @@ @]

\* The next gesture of the page whose gesture is current waits for its turn.
Queued(q, id) ==
    LET waiting == SetToSortSeq({q.waiting[i] : i \in DOMAIN q.waiting} \cup {id},
                                LAMBDA a, b : a.order < b.order)
    IN  WaitForTail([q EXCEPT
            !.waiting = waiting,
            !.entries = [i \in DOMAIN @ |->
                IF q.waiting # <<>> /\ i = Head(q.waiting) /\ i # Head(waiting)
                THEN [@[i] EXCEPT !.timer = "none"] ELSE @[i]]])

Replaced(q) ==
    LET left == ForgetAll(q, {q.waiting[i] : i \in DOMAIN q.waiting})
    IN  IF left.current = None THEN left ELSE Forget(Reset(left), left.current)

Start(q, k) ==
    LET id      == Id(k)
        entered == Entered(q, id)
        started == [entered EXCEPT !.entries[id].start = Number(k),
                                   !.entries[id].timer = "none"]
    IN  IF \/ id \in q.retired
           \/ q.current = id
           \/ id \in Pending(q) /\ q.entries[id].start # None
           \/ id \notin Pending(q) /\ ~Fresh(id)
           \/ id.order <= q.latest[id.page]
        THEN q
        ELSE IF id \notin DOMAIN entered.entries THEN entered
        ELSE IF q.current # None /\ q.current.page = id.page THEN Queued(started, id)
        ELSE Settle(Activate(Replaced(started), id))

Push(q, k) ==
    LET id      == Id(k)
        entered == Entered(q, id)
    IN  IF \/ id \in q.retired
           \/ id \notin DOMAIN q.entries /\ id.order <= q.latest[id.page]
        THEN q
        ELSE IF id \notin DOMAIN entered.entries THEN entered
        ELSE IF id = q.current THEN Schedule(q, id, k)
        ELSE IF Buffered(entered.entries[id], Number(k)) THEN entered
        ELSE IF Cardinality(entered.entries[id].packets) >= Window - 1
             THEN WaitForTail(Forget(entered, id))
        ELSE [entered EXCEPT !.entries[id].packets = @ \cup {k}]

\* The gestures `ids' are dropped, and `id' will not begin any more.
Clear(q, id, ids) ==
    IF ids = {} /\ ~Fresh(id) THEN q
    ELSE LET pending == ForgetAll(Remember(q, id), ids \ {q.current})
             cleared == IF q.current \in ids THEN Forget(Reset(pending), q.current)
                        ELSE pending
         IN  Promote([Retire(cleared, id) EXCEPT
                        !.log = Append(@, [what |-> "cancel", id |-> id])])

\* The gestures of a page up to one of them.
Through(q, id) == {i \in DOMAIN q.entries : i.page = id.page /\ i.order <= id.order}

Receive(q, k) ==
    IF ~Allowed(q, k) THEN q
    ELSE CASE k.type = "start"  -> Start(q, k)
           [] k.type = "cancel" -> Clear(q, Id(k), Through(q, Id(k)))
           [] k.type = "stop" /\ q.current = Id(k) /\ Ahead(q.entries[Id(k)], k) >= Window
                                -> Clear(q, Id(k), {Id(k)})
           [] OTHER             -> Push(q, k)
-----------------------------------------------------------------------------
(***************************************************************************)
(* The pages and the websocket unit.                                       *)
(***************************************************************************)
Raw(type, contact) == [type |-> type, contact |-> contact]

Cancel(p, g) ==
    [page |-> p, order |-> g.order, reservation |-> g.reservation,
     type |-> "cancel", contact |-> None, at |-> 0]

\* The gestures of a page that may not have been played to their end.
Fenced(w) == {r \in Reservations : w.fences[r] # 0}

\* A page that may not do what it asks loses the gesture that it is making,
\* or all of them if it is making none.
Denied(p, w) ==
    LET g == w.gesture
    IN  /\ sent' = sent \cup
               IF g # NoGesture THEN {Cancel(p, g)}
               ELSE {Cancel(p, [order |-> w.fences[r], reservation |-> r]) : r \in Fenced(w)}
        /\ pages' = [pages EXCEPT ![p] =
               IF g # NoGesture
               THEN [w EXCEPT !.gesture = NoGesture,
                              !.fences[g.reservation] = IF @ <= g.order THEN 0 ELSE @]
               ELSE [w EXCEPT !.fences = [r \in Reservations |-> 0]]]
        /\ UNCHANGED lost

Granted(p, w, raws) ==
    LET packets == {[page |-> p, order |-> w.gesture.order, reservation |-> row,
                     type |-> raws[i].type, contact |-> raws[i].contact,
                     at |-> pages[p].at + i] : i \in DOMAIN raws}
    IN  /\ \E missing \in {{}} \cup (IF "lose" \in scenario /\ lost < MaxLost
                                     THEN {{k} : k \in packets} ELSE {}) :
               /\ sent' = sent \cup (packets \ missing)
               /\ lost' = lost + Cardinality(missing)
        /\ pages' = [pages EXCEPT ![p] =
               IF raws[Len(raws)].type = "stop" THEN [w EXCEPT !.gesture = NoGesture] ELSE w]

\* A page makes one gesture if it is long or if several pages take part.
Gestures == IF {"pages", "long"} \cap scenario # {} THEN 1 ELSE MaxGestures

\* A page emits the packets of one event, with its fingers as they are after.
Emit(p, fingers, raws) ==
    LET begins  == raws[1].type = "start"
        length  == Len(raws) + IF begins THEN 0 ELSE pages[p].length
        emitted == [pages[p] EXCEPT !.fingers = fingers, !.at = @ + Len(raws),
                                    !.length = length,
                                    !.made = IF begins THEN @ + 1 ELSE @]
        begun   == [emitted EXCEPT
                       !.counter = @ + 1,
                       !.gesture = [order |-> pages[p].counter + 1, reservation |-> row],
                       !.fences[row] = pages[p].counter + 1]
    IN  /\ pages[p].open
        /\ Cardinality(sent) + Len(raws) <= MaxSent
        /\ length <= IF "long" \in scenario THEN MaxLength ELSE Cycle
        /\ IF row = None THEN Denied(p, emitted)
           ELSE IF begins THEN Granted(p, begun, raws)
           ELSE IF emitted.gesture.reservation = row THEN Granted(p, emitted, raws)
           ELSE Denied(p, emitted)
        /\ UNCHANGED <<scenario, issued, row, aged, touch>>

FingerDown(p, c) ==
    LET first == pages[p].fingers = {}
        down  == <<Raw("down", c), Raw("commit", None)>>
    IN  /\ c \notin pages[p].fingers
        /\ p = 1 \/ "pages" \in scenario
        /\ c = 0 \/ "fingers" \in scenario
        /\ first => pages[p].made < Gestures
        /\ Emit(p, pages[p].fingers \cup {c},
                IF first THEN <<Raw("start", None)>> \o down ELSE down)

FingerMove(p, c) ==
    /\ c \in pages[p].fingers
    /\ Emit(p, pages[p].fingers, <<Raw("move", c), Raw("commit", None)>>)

FingerUp(p, c) ==
    LET up == <<Raw("up", c), Raw("commit", None)>>
    IN  /\ c \in pages[p].fingers
        /\ Emit(p, pages[p].fingers \ {c},
                IF pages[p].fingers = {c} THEN Append(up, Raw("stop", None)) ELSE up)

\* The page missed that its fingers were lifted: it begins anew.
FingersMissed(p, c) ==
    /\ "miss" \in scenario
    /\ pages[p].fingers # {}
    /\ pages[p].made < Gestures
    /\ Emit(p, {c}, <<Raw("start", None), Raw("reset", None), Raw("down", c), Raw("commit", None)>>)

\* Mutant: a page that leaves cancels nothing.
LeaveSilently(p) ==
    /\ "leave" \in scenario
    /\ p = 1 \/ "pages" \in scenario
    /\ pages[p].open
    /\ pages' = [pages EXCEPT ![p] =
           [@ EXCEPT !.open = FALSE, !.fingers = {}, !.gesture = NoGesture,
                     !.fences = [r \in Reservations |-> 0]]]
    /\ UNCHANGED <<scenario, issued, row, sent, lost, aged, touch>>

\* The socket of a page is disconnected.
Leave(p) ==
    /\ "leave" \in scenario
    /\ p = 1 \/ "pages" \in scenario
    /\ pages[p].open
    /\ sent' = sent \cup {Cancel(p, [order |-> pages[p].fences[r], reservation |-> r]) :
                              r \in Fenced(pages[p])}
    /\ pages' = [pages EXCEPT ![p] =
           [@ EXCEPT !.open = FALSE, !.fingers = {}, !.gesture = NoGesture,
                     !.fences = [r \in Reservations |-> 0]]]
    /\ UNCHANGED <<scenario, issued, row, lost, aged, touch>>
-----------------------------------------------------------------------------
(***************************************************************************)
(* The network, the owner and time.                                        *)
(***************************************************************************)
\* A packet is not overtaken by those that are half a cycle after it.
Deliver(k) ==
    /\ \A b \in sent : b.page = k.page /\ b.type # "cancel" /\ k.type # "cancel"
           => k.at - b.at < Window
    /\ sent' = sent \ {k}
    /\ touch' = Receive(touch, k)
    /\ UNCHANGED <<scenario, pages, issued, row, lost, aged>>

\* The group plugin tells of a join, with a new reservation, or a leave.
SetOwner ==
    /\ "owner" \in scenario
    /\ touch.owner # None \/ issued < MaxReservations
    /\ issued' = IF touch.owner = None THEN issued + 1 ELSE issued
    /\ touch' = [Emptied(IF touch.owner = None THEN issued + 1 ELSE None)
                    EXCEPT !.log = touch.log]
    /\ UNCHANGED <<scenario, pages, row, sent, lost, aged>>

RowWritten ==
    /\ row # touch.owner
    /\ row' = touch.owner
    /\ UNCHANGED <<scenario, pages, issued, sent, lost, aged, touch>>

Age(p) ==
    /\ "age" \in scenario
    /\ p = 1 \/ "pages" \in scenario
    /\ aged[p] < pages[p].counter
    /\ aged' = [aged EXCEPT ![p] = @ + 1]
    /\ UNCHANGED <<scenario, pages, issued, row, sent, lost, touch>>

\* The timer of a gesture fires.
Expire(id) ==
    /\ id \in DOMAIN touch.entries
    /\ touch.entries[id].timer # "none"
    /\ touch' = IF touch.entries[id].timer = "start" THEN Forget(touch, id)
                ELSE Promote(Forget(Reset(touch), touch.current))
    /\ UNCHANGED <<scenario, pages, issued, row, sent, lost, aged>>

Next ==
    \/ \E p \in Pages, c \in Contacts : FingerDown(p, c) \/ FingerMove(p, c)
                                  \/ FingerUp(p, c) \/ FingersMissed(p, c)
    \/ \E p \in Pages : Leave(p) \/ Age(p)
    \/ \E k \in sent : Deliver(k)
    \/ SetOwner \/ RowWritten
    \/ \E id \in Ids : Expire(id)

Spec == Init /\ [][Next]_vars
-----------------------------------------------------------------------------
\* No finger is left down on the phone's screen: what is pressed is held by the
\* gesture that is played, however that gesture came to its end.
NoStrayFinger ==
    LET held == IF touch.current = None THEN {} ELSE touch.entries[touch.current].held
    IN  /\ touch.active \subseteq held \cup {c \in Contacts : touch.staged[c] = "up"}
        /\ {c \in Contacts : touch.staged[c] = "down"} \subseteq held
        /\ touch.current = None => touch.staged = Lifted

\* The packets of a gesture are played in the order in which the page emitted
\* them, whatever overtook what and whatever was lost.
PlayedInOrder ==
    \A id \in DOMAIN touch.entries :
        LET played == touch.entries[id].played
        IN  \A i \in 1 .. Len(played) - 1 : played[i] < played[i + 1]

\* The gestures of a page begin in order, each at most once, and none that was
\* cancelled begins, even if the cancellation overtook its beginning.
BegunInOrder ==
    \A i, j \in DOMAIN touch.log :
        i < j /\ touch.log[j].what = "begin" /\ touch.log[i].id.page = touch.log[j].id.page
            => touch.log[i].id.order < touch.log[j].id.order

\* If no packet was lost and no page missed that fingers were lifted, then once
\* all have arrived, no page has a finger down and no timer is running, the screen
\* is not pressed: whether a page ended its gestures, left, or was refused in the
\* middle of one.  (A gesture that was never ended keeps its fingers pressed if
\* the next one, which waits for its end, overflows its buffer meanwhile.)
LiftedInTheEnd ==
    (/\ lost = 0
     /\ "miss" \notin scenario
     /\ sent = {}
     /\ \A p \in Pages : pages[p].fingers = {}
     /\ \A id \in DOMAIN touch.entries : touch.entries[id].timer = "none")
        => touch.active = {}

\* Nothing that is lost blocks the queue: a timer is running for whatever waits,
\* be it a gesture for its beginning or for the end of the one before it, or a
\* packet for those before it.
NothingBlocks ==
    /\ touch.waiting # <<>> =>
           touch.current # None /\ touch.entries[Head(touch.waiting)].timer = "tail"
    /\ \A id \in DOMAIN touch.entries :
           CASE id = touch.current -> touch.entries[id].packets # {} => touch.entries[id].timer = "gap"
             [] id \in ToSet(touch.waiting) -> touch.entries[id].start # None
             [] OTHER -> touch.entries[id].timer = "start"
=============================================================================
