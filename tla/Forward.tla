------------------------------ MODULE Forward ------------------------------
(***************************************************************************)
(* Reverse port forwards of a device worker: the forward plugin            *)
(* (units/device/plugins/forward/index.ts) and its ForwardManager          *)
(* (forward/util/manager.ts).  A forward is a connection to a service on   *)
(* the phone; the manager lists the connections by the id that the page    *)
(* chose, and ends them when the device is released.  A connection that    *)
(* was told to end says so later, and what it does then it does by id.     *)
(* The destinations that a connection opens at the other side are left     *)
(* out: they come and go with it.                                          *)
(***************************************************************************)
EXTENDS Naturals

CONSTANTS
    Ids,            \* ids that pages give to forwards
    Ports,          \* ports of the device
    MaxConnections  \* bound: connections at a time

VARIABLES
    tenure,     \* who holds the device, as the composition has it
    overlapping,    \* what happens at bad moments: "reuse" (an id is used
                    \* again before its last forward ended), "late" (the
                    \* device is released while a connection is opened)
    creating,   \* connections that are being opened
    open,       \* connections with a handler that was not told to end
    ending,     \* connections that were told to end, and did not yet
    handlers    \* handlersById: the number of the connection, or 0

forwards == <<creating, open, ending, handlers>>

-----------------------------------------------------------------------------
Unlisted == [id \in Ids |-> 0]

Init ==
    /\ creating = {}
    /\ open = {}
    /\ ending = {}
    /\ handlers = Unlisted

Live == creating \cup open \cup ending

\* ForwardCreateMessage: createForward connects to the service.
Create(id, port) ==
    /\ "reuse" \in overlapping \/ \A c \in Live : c.id # id
    /\ \E n \in 1..MaxConnections :
        /\ {c.number : c \in Live} \cap 1..n = 1..n-1
        /\ creating' = creating \cup
               {[number |-> n, id |-> id, port |-> port, during |-> tenure]}
    /\ UNCHANGED <<open, ending, handlers>>

\* connectService failed: the page is told.
Refused(c) ==
    /\ creating' = creating \ {c}
    /\ UNCHANGED <<open, ending, handlers>>

Listed(ids) == {c \in open : c.id \in ids /\ handlers[c.id] = c.number}
Without(ids) == [id \in Ids |-> IF id \in ids THEN 0 ELSE handlers[id]]

\* Mutant: the handler is forgotten, and its connection goes on.
Forgotten(ids) ==
    /\ UNCHANGED <<open, ending>>
    /\ handlers' = Without(ids)

\* ForwardManager.remove: the handlers are told to end and taken off the list.
Removed(ids) ==
    /\ open' = open \ Listed(ids)
    /\ ending' = ending \cup Listed(ids)
    /\ handlers' = Without(ids)

\* Connected: ForwardManager.add, which removes what has the same id, and then
\* the first that it finds on the same port.
Connected(c) ==
    /\ "late" \in overlapping \/ c.during = tenure
    /\ LET clashing == {d \in Listed(Ids \ {c.id}) : d.port = c.port}
       IN  \E first \in IF clashing = {} THEN {{}} ELSE {{d.id} : d \in clashing} :
           LET replaced == {c.id} \cup first
           IN  /\ creating' = creating \ {c}
               /\ open' = (open \ Listed(replaced)) \cup {c}
               /\ ending' = ending \cup Listed(replaced)
               /\ handlers' = [Without(first) EXCEPT ![c.id] = c.number]

\* ForwardRemoveMessage.
Remove(id) ==
    /\ Removed({id})
    /\ UNCHANGED creating

\* A connection ends, because it was told to or because its service died: the
\* listener takes its id off the list, whoever has that id by now.
Ended(c) ==
    /\ open' = open \ {c}
    /\ ending' = ending \ {c}
    /\ handlers' = [handlers EXCEPT ![c.id] = 0]
    /\ UNCHANGED creating

\* reset, when the group is left: ForwardManager.removeAll.
Reset ==
    /\ Removed(Ids)
    /\ UNCHANGED creating

\* The process is gone, and its connections with it.
Gone ==
    /\ creating' = {}
    /\ open' = {}
    /\ ending' = {}
    /\ handlers' = Unlisted

Next ==
    \/ \E id \in Ids, port \in Ports : Create(id, port)
    \/ \E c \in creating : Refused(c)
    \/ \E c \in creating : Connected(c)
    \/ \E id \in Ids : Remove(id)
    \/ \E c \in open \cup ending : Ended(c)
-----------------------------------------------------------------------------
\* A port of the device is listed once, and a forward ends with the tenure of
\* the device that it was asked for in: who gets the phone next does not get
\* its forwards as well, whatever was removed, replaced or dying when it was
\* released (forward/index.ts 156-160, manager.ts 162-202).  The second part
\* holds if no connection is still being opened then (when it is, it is added
\* after removeAll), and if pages do not use an id again before its last
\* forward ended (the end of the old one takes the new one off the list, and
\* removeAll does not find it).
NothingIsInherited ==
    /\ \A c, d \in Listed(Ids) : c.port = d.port => c = d
    /\ {"reuse", "late"} \cap overlapping = {} =>
           \A c \in open : c.during = tenure
=============================================================================
