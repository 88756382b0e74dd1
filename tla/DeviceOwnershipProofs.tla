---------------------- MODULE DeviceOwnershipProofs ----------------------
(***************************************************************************)
(* What DeviceOwnership promises for every set of users and processors,    *)
(* with and without autoRestoreOwner: its types; that a claim on an owned  *)
(* device is its owner's, however the writes of several processors and of  *)
(* the API interleave; and, with one processor, that the row tells the     *)
(* truth.                                                                  *)
(***************************************************************************)
EXTENDS DeviceOwnership, SequenceTheorems, TLAPS

Orders   == [kind : Kinds, user : Users \cup {None}, id : Nat]
Messages == [type : MsgTypes, owner : Groups]
Writes   == [op : Ops, owner : Groups, user : Users \cup {None}]
Rows     == [present : BOOLEAN, ready : BOOLEAN, owner : Groups,
             restoreOwner : Claims]
-----------------------------------------------------------------------------
(***************************************************************************)
(* Types.                                                                  *)
(***************************************************************************)
LEMMA ConstantsAreTyped == NoGroup \in Groups /\ NoClaim \in Claims
  BY DEF NoGroup, Groups, NoClaim, Claims

LEMMA MsgIsTyped ==
    ASSUME NEW type \in MsgTypes, NEW owner \in Groups
    PROVE  Msg(type, owner) \in Messages
  BY DEF Msg, Messages

LEMMA WriteIsTyped ==
    ASSUME NEW op \in Ops, NEW owner \in Groups, NEW user \in Users \cup {None}
    PROVE  Write(op, owner, user) \in Writes
  BY DEF Write, Writes

LEMMA PlainIsTyped ==
    ASSUME NEW op \in Ops
    PROVE  Plain(op) \in Writes
  BY ConstantsAreTyped, WriteIsTyped DEF Plain

LEMMA OrderIsTyped ==
    ASSUME NEW kind \in Kinds, NEW user \in Users \cup {None}, NEW id \in Nat
    PROVE  Order(kind, user, id) \in Orders
  BY DEF Order, Orders

\* What is sent and asked keeps the channels typed.
LEMMA SendIsTyped ==
    ASSUME TypeOK, NEW type \in MsgTypes, NEW owner \in Groups,
           Send(<<Msg(type, owner)>>)
    PROVE  deviceOut' \in Seq(Messages)
<1>1. <<Msg(type, owner)>> \in Seq(Messages)
  BY MsgIsTyped
<1>2. deviceOut \in Seq(Messages)
  BY DEF TypeOK, Messages
<1> QED BY <1>1, <1>2 DEF Send

LEMMA AskIsTyped ==
    ASSUME TypeOK, NEW order \in Orders, Ask(order)
    PROVE  inbox' \in Seq(Orders)
  BY DEF TypeOK, Ask, Orders

\* A processor's writes are writes, and so is what it does after setDeviceReady.
LEMMA WritesOfIsTyped ==
    ASSUME NEW m \in Messages
    PROVE  WritesOf(m) \in Seq(Writes)
<1>1. \A op \in Ops : <<Plain(op)>> \in Seq(Writes)
  BY PlainIsTyped
<1>2. <<Write("own", m.owner, None)>> \in Seq(Writes)
  BY WriteIsTyped DEF Messages, Ops
<1>3. \A s, t \in Seq(Writes) : s \o t \in Seq(Writes)
  OBVIOUS
<1>4. <<>> \in Seq(Writes)
  OBVIOUS
<1>5. {"initial", "present", "reserve", "absent", "ready", "disown"} \subseteq Ops
  BY DEF Ops
<1>6. m.type \in MsgTypes
  BY DEF Messages
<1>7. CASE m.type = "absent"
  BY <1>1, <1>3, <1>4, <1>5, <1>7 DEF WritesOf
<1>8. CASE m.type = "join"
  BY <1>2, <1>8 DEF WritesOf
<1>9. CASE m.type \in {"introduction", "present", "ready", "leave"}
  BY <1>1, <1>5, <1>9 DEF WritesOf
<1> QED BY <1>6, <1>7, <1>8, <1>9 DEF MsgTypes

LEMMA AfterReadyIsTyped ==
    ASSUME NEW r \in Rows
    PROVE  AfterReady(r) \in Seq(Writes)
<1>1. <<Plain("clear")>> \in Seq(Writes)
  BY PlainIsTyped DEF Ops
<1>2. <<Write("settle", NoGroup, r.restoreOwner.user)>> \in Seq(Writes)
  BY ConstantsAreTyped, WriteIsTyped DEF Rows, Claims, Ops
<1>3. <<>> \in Seq(Writes)
  OBVIOUS
<1> QED BY <1>1, <1>2, <1>3 DEF AfterReady

\* Every write of dbapi keeps the row a row.
LEMMA ReservedIsTyped ==
    ASSUME NEW r \in Rows
    PROVE  Reserved(r) \in Rows
  BY DEF Reserved, Rows, Groups, Claims

LEMMA WrittenIsTyped ==
    ASSUME NEW r \in Rows, NEW w \in Writes, w.op # "settle"
    PROVE  Written(w, r) \in Rows
<1>1. /\ w.op \in Ops
      /\ w.owner \in Groups
  BY DEF Writes
<1>2. CASE w.op = "reserve"
  BY <1>2, ReservedIsTyped DEF Written
<1>3. CASE w.op \in {"initial", "ready", "disown"}
  BY <1>3, ConstantsAreTyped DEF Written, Readied, Rows
<1>4. CASE w.op \in {"present", "absent"}
  BY <1>4 DEF Written, Rows
<1>5. CASE w.op \in {"own", "clear"}
  BY <1>1, <1>5, ConstantsAreTyped DEF Written, Owned, Rows
<1> QED BY <1>1, <1>2, <1>3, <1>4, <1>5 DEF Ops

LEMMA TypeOKInit == ASSUME Init PROVE TypeOK
<1>1. \A T : <<>> \in Seq(T)
  OBVIOUS
<1> QED BY <1>1, ConstantsAreTyped DEF Init, TypeOK

LEMMA EndedIsTyped ==
    ASSUME Ended
    PROVE  inbox' \in Seq(Orders)
<1>1. <<>> \in Seq(Orders)
  OBVIOUS
<1> QED BY <1>1 DEF Ended

LEMMA ProvideKeepsTypes ==
    ASSUME TypeOK, Provide
    PROVE  TypeOK'
<1> USE ConstantsAreTyped
<1>1. CASE Plug
  <2>1. deviceOut' \in Seq(Messages)
    BY <1>1, SendIsTyped DEF Plug, MsgTypes
  <2> QED BY <1>1, <2>1 DEF Plug, TypeOK, Messages
<1>2. CASE Boot
  <2>1. deviceOut' \in Seq(Messages)
    BY <1>2, SendIsTyped DEF Boot, MsgTypes
  <2> QED BY <1>2, <2>1 DEF Boot, TypeOK, Messages
<1>3. CASE Unplug
  <2>1. deviceOut' \in Seq(Messages)
    BY <1>3, SendIsTyped DEF Unplug, MsgTypes
  <2> QED BY <1>3, <2>1 DEF Unplug, TypeOK, Messages
<1>4. CASE GoOffline
  BY <1>4 DEF GoOffline, TypeOK
<1>5. CASE Retire
  <2>1. deviceOut' \in Seq(Messages)
    BY <1>5, SendIsTyped DEF Retire, MsgTypes
  <2> QED BY <1>5, <2>1, EndedIsTyped DEF Retire, Ended, TypeOK, Messages, Orders
<1>6. CASE Crash
  BY <1>6, EndedIsTyped DEF Crash, Ended, TypeOK, Orders
<1>7. ASSUME NEW type \in {"absent", "present"}, Reap(type)
      PROVE  TypeOK'
  <2>1. deviceOut' \in Seq(Messages)
    BY <1>7, SendIsTyped DEF Reap, MsgTypes
  <2> QED BY <1>7, <2>1 DEF Reap, device, TypeOK, Messages
<1> QED BY <1>1, <1>2, <1>3, <1>4, <1>5, <1>6, <1>7 DEF Provide

LEMMA NextOrderIsTyped ==
    ASSUME TypeOK, NEW kind \in Kinds, NextOrder(kind)
    PROVE  /\ Head(inbox) \in Orders
           /\ inbox' \in Seq(Orders)
<1>1. inbox \in Seq(Orders) /\ inbox # <<>>
  BY DEF TypeOK, Orders, NextOrder
<1>2. Head(inbox) \in Orders /\ Tail(inbox) \in Seq(Orders)
  BY <1>1
<1> QED BY <1>2 DEF NextOrder

LEMMA WorkKeepsTypes ==
    ASSUME TypeOK, Work
    PROVE  TypeOK'
<1> USE ConstantsAreTyped
<1>1. CASE Join
  <2> DEFINE new == [group |-> Head(inbox).user, reservationId |-> issued + 1]
  <2>1. Head(inbox) \in Orders /\ inbox' \in Seq(Orders)
    BY <1>1, NextOrderIsTyped DEF Join, Kinds
  <2>2. new \in Groups
    BY <2>1 DEF Orders, Groups, TypeOK
  <2>3. deviceOut' \in Seq(Messages)
    BY <1>1, <2>2, SendIsTyped DEF Join, MsgTypes
  <2>4. held' = new /\ issued' \in Nat
    BY <1>1 DEF Join, TypeOK
  <2> HIDE DEF new
  <2> QED BY <1>1, <2>1, <2>2, <2>3, <2>4 DEF Join, TypeOK, Messages, Orders
<1>2. CASE JoinRefused
  <2>1. inbox' \in Seq(Orders)
    BY <1>2, NextOrderIsTyped DEF JoinRefused, Kinds
  <2> QED BY <1>2, <2>1 DEF JoinRefused, device, TypeOK, Orders
<1>3. ASSUME Released, inbox' \in Seq(Orders)
      PROVE  TypeOK'
  <2>1. deviceOut' \in Seq(Messages)
    BY <1>3, SendIsTyped DEF Released, MsgTypes
  <2> QED BY <1>3, <2>1 DEF Released, TypeOK, Messages, Orders
<1>4. CASE Leave
  <2>1. inbox' \in Seq(Orders)
    BY <1>4, NextOrderIsTyped DEF Leave, Kinds
  <2> QED BY <1>3, <1>4, <2>1 DEF Leave
<1>5. CASE LeaveRefused
  <2>1. inbox' \in Seq(Orders)
    BY <1>5, NextOrderIsTyped DEF LeaveRefused, Kinds
  <2> QED BY <1>5, <2>1 DEF LeaveRefused, device, TypeOK, Orders
<1>6. CASE LeaveUnasked
  BY <1>3, <1>6 DEF LeaveUnasked, TypeOK, Orders
<1>7. CASE Lost
  <2>1. inbox \in Seq(Orders) /\ inbox # <<>>
    BY <1>7 DEF Lost, TypeOK, Orders
  <2>2. Tail(inbox) \in Seq(Orders)
    BY <2>1
  <2> QED BY <1>7, <2>2 DEF Lost, device, TypeOK, Orders
<1> QED BY <1>1, <1>2, <1>4, <1>5, <1>6, <1>7 DEF Work

LEMMA HeadIsTyped ==
    ASSUME TypeOK, NEW p \in Processors, writes[p] # <<>>
    PROVE  /\ writes[p] \in Seq(Writes)
           /\ Head(writes[p]) \in Writes
           /\ Tail(writes[p]) \in Seq(Writes)
<1>1. writes[p] \in Seq(Writes)
  BY DEF TypeOK, Writes
<1> QED BY <1>1

\* One processor's writes change, to writes.
LEMMA WritesStayTyped ==
    ASSUME TypeOK, NEW p \in Processors, NEW s \in Seq(Writes),
           writes' = [writes EXCEPT ![p] = s]
    PROVE  writes' \in [Processors -> Seq(Writes)]
<1>1. writes \in [Processors -> Seq(Writes)]
  BY DEF TypeOK, Writes
<1> QED BY <1>1

LEMMA RowIsTyped == ASSUME TypeOK PROVE row \in Rows
  BY DEF TypeOK, Rows

LEMMA ApplyKeepsTypes ==
    ASSUME TypeOK, NEW p \in Processors, Apply(p)
    PROVE  TypeOK'
<1>1. writes[p] # <<>> /\ Head(writes[p]).op # "settle"
  BY DEF Apply
<1>2. Head(writes[p]) \in Writes /\ Tail(writes[p]) \in Seq(Writes)
  BY <1>1, HeadIsTyped
<1>3. row' \in Rows
  BY <1>1, <1>2, RowIsTyped, WrittenIsTyped DEF Apply
<1> DEFINE more == IF Head(writes[p]).op = "ready" THEN AfterReady(row') ELSE <<>>
<1>4. more \in Seq(Writes)
  BY <1>3, AfterReadyIsTyped
<1>5. writes' = [writes EXCEPT ![p] = Tail(writes[p]) \o more]
  BY DEF Apply
<1> HIDE DEF more
<1>6. Tail(writes[p]) \o more \in Seq(Writes)
  BY <1>2, <1>4
<1>7. writes' \in [Processors -> Seq(Writes)]
  BY <1>5, <1>6, WritesStayTyped
<1> QED BY <1>3, <1>7 DEF Apply, device, TypeOK, Rows, Writes

LEMMA SettleKeepsTypes ==
    ASSUME TypeOK, NEW p \in Processors, Settle(p)
    PROVE  TypeOK'
<1>1. writes[p] # <<>>
  BY DEF Settle
<1>2. Head(writes[p]) \in Writes /\ Tail(writes[p]) \in Seq(Writes)
  BY <1>1, HeadIsTyped
<1>3. Head(writes[p]).user \in Users \cup {None}
  BY <1>2 DEF Writes
<1>4. Order("group", Head(writes[p]).user, 0) \in Orders
  BY <1>3, OrderIsTyped DEF Kinds
<1>5. Append(Tail(writes[p]), Plain("clear")) \in Seq(Writes)
  BY <1>2, PlainIsTyped DEF Ops
<1>6. inbox' \in Seq(Orders)
  BY <1>4, AskIsTyped DEF Settle, TypeOK, Orders
<1>7. \/ writes' = [writes EXCEPT ![p] = Tail(writes[p])]
      \/ writes' = [writes EXCEPT ![p] = Append(Tail(writes[p]), Plain("clear"))]
  BY DEF Settle
<1>8. writes' \in [Processors -> Seq(Writes)]
  BY <1>2, <1>5, <1>7, WritesStayTyped
<1> QED BY <1>6, <1>8 DEF Settle, device, TypeOK, Orders, Writes

LEMMA ProcessKeepsTypes ==
    ASSUME TypeOK, Process
    PROVE  TypeOK'
<1>1. ASSUME NEW p \in Processors, Dispatch(p)
      PROVE  TypeOK'
  <2>1. /\ deviceOut \in Seq(Messages)
        /\ writes[p] \in Seq(Writes)
    BY DEF TypeOK, Messages, Writes
  <2>2. Head(deviceOut) \in Messages /\ deviceOut' \in Seq(Messages)
    BY <1>1, <2>1 DEF Dispatch
  <2>3. writes[p] \o WritesOf(Head(deviceOut)) \in Seq(Writes)
    BY <2>1, <2>2, WritesOfIsTyped
  <2>4. writes' = [writes EXCEPT ![p] = writes[p] \o WritesOf(Head(deviceOut))]
    BY <1>1 DEF Dispatch
  <2>5. writes' \in [Processors -> Seq(Writes)]
    BY <2>3, <2>4, WritesStayTyped
  <2> QED BY <1>1, <2>2, <2>5 DEF Dispatch, device, TypeOK, Messages, Writes
<1>2. ASSUME ClaimExpires
      PROVE  TypeOK'
  <2>1. row' \in Rows
    BY <1>2, RowIsTyped DEF ClaimExpires, Rows, Claims
  <2> QED BY <1>2, <2>1 DEF ClaimExpires, device, TypeOK, Rows
<1> QED BY <1>1, <1>2, ApplyKeepsTypes, SettleKeepsTypes DEF Process

LEMMA ServeKeepsTypes ==
    ASSUME TypeOK, Serve
    PROVE  TypeOK'
<1>1. ASSUME NEW u \in Users, NEW conditional \in BOOLEAN,
             DeleteUserDevice(u, conditional)
      PROVE  TypeOK'
  <2> DEFINE id == IF conditional THEN row.owner.reservationId ELSE 0
  <2>1. id \in Nat
    BY DEF TypeOK, Groups
  <2>2. Order("ungroup", None, id) \in Orders
    BY <2>1, OrderIsTyped DEF Kinds
  <2>3. inbox' \in Seq(Orders)
    BY <1>1, <2>2, AskIsTyped DEF DeleteUserDevice
  <2> QED BY <1>1, <2>3 DEF DeleteUserDevice, device, TypeOK, Orders
<1>2. CASE RebootKeeping
  <2>1. row' \in Rows
    BY <1>2, RowIsTyped, ReservedIsTyped DEF RebootKeeping
  <2> QED BY <1>2, <2>1 DEF RebootKeeping, device, TypeOK, Rows
<1>3. ASSUME NEW u \in Users, Invite(u)
      PROVE  TypeOK'
  <2>1. Order("group", u, 0) \in Orders
    BY OrderIsTyped DEF Kinds
  <2>2. inbox' \in Seq(Orders)
    BY <1>3, <2>1, AskIsTyped DEF Invite
  <2> QED BY <1>3, <2>2 DEF Invite, device, TypeOK, Orders
<1>4. CASE Kick
  <2>1. Order("ungroup", None, 0) \in Orders
    BY OrderIsTyped DEF Kinds
  <2>2. inbox' \in Seq(Orders)
    BY <1>4, <2>1, AskIsTyped DEF Kick
  <2> QED BY <1>4, <2>2 DEF Kick, device, TypeOK, Orders
<1> QED BY <1>1, <1>2, <1>3, <1>4 DEF Serve

\* The types of the worker, the channels, the processors' writes and the row
\* hold in every state.
THEOREM TypeCorrect == Spec => []TypeOK
<1>1. Init => TypeOK
  BY TypeOKInit
<1>2. TypeOK /\ [Next]_vars => TypeOK'
  <2>1. TypeOK /\ Next => TypeOK'
    BY ProvideKeepsTypes, WorkKeepsTypes, ProcessKeepsTypes, ServeKeepsTypes
       DEF Next
  <2>2. TypeOK /\ UNCHANGED vars => TypeOK'
    BY DEF vars, TypeOK
  <2> QED BY <2>1, <2>2
<1> QED BY <1>1, <1>2, PTL DEF Spec
-----------------------------------------------------------------------------
(***************************************************************************)
(* Claims.                                                                 *)
(***************************************************************************)
\* The row keeps an owner's claim and nobody else's: ClaimIsTheOwners of a row.
OwnClaim(r) ==
    r.owner # NoGroup /\ r.restoreOwner # NoClaim =>
        r.restoreOwner.user = r.owner.group

\* Every write of dbapi keeps an owner's claim the owner's: one that sets an
\* owner drops the claim, one that sets a claim takes it from the owner.
LEMMA WrittenKeepsOwnClaim ==
    ASSUME NEW r \in Rows, OwnClaim(r), NEW w \in Writes, w.op # "settle"
    PROVE  OwnClaim(Written(w, r))
<1>1. w.op \in Ops
  BY DEF Writes
<1>2. CASE w.op = "reserve"
  BY <1>2 DEF Written, Reserved, OwnClaim, Rows, Claims
<1>3. CASE w.op \in {"initial", "ready", "disown"}
  BY <1>3 DEF Written, Readied, OwnClaim, Rows
<1>4. CASE w.op \in {"present", "absent"}
  BY <1>4 DEF Written, OwnClaim, Rows
<1>5. CASE w.op \in {"own", "clear"}
  BY <1>5 DEF Written, Owned, OwnClaim, Rows
<1> QED BY <1>1, <1>2, <1>3, <1>4, <1>5 DEF Ops

\* The row is written by a processor, by a reboot that keeps the device, and by
\* the clock that runs a claim out.
LEMMA RowIsWritten ==
    ASSUME [Next]_vars
    PROVE  \/ row' = row
           \/ \E p \in Processors : Apply(p)
           \/ RebootKeeping
           \/ ClaimExpires
<1>1. CASE Provide
  BY <1>1 DEF Provide, Plug, Boot, Unplug, GoOffline, Retire, Crash, Ended, Reap
<1>2. CASE Work
  BY <1>2 DEF Work, Join, JoinRefused, Leave, LeaveRefused, LeaveUnasked,
              Released, Lost
<1>3. CASE Process
  BY <1>3 DEF Process, Dispatch, Settle
<1>4. CASE Serve
  BY <1>4 DEF Serve, DeleteUserDevice, Invite, Kick
<1>5. CASE UNCHANGED vars
  BY <1>5 DEF vars
<1> QED BY <1>1, <1>2, <1>3, <1>4, <1>5 DEF Next

\* A claim on the row of an owned device is that owner's, for any number of
\* processors writing in any order: nobody gets a device back that somebody
\* else has taken since.
THEOREM ClaimIsOwners == Spec => []ClaimIsTheOwners
<1>1. Init => ClaimIsTheOwners
  BY DEF Init, ClaimIsTheOwners
<1>2. TypeOK /\ ClaimIsTheOwners /\ [Next]_vars => ClaimIsTheOwners'
  <2> SUFFICES ASSUME TypeOK, OwnClaim(row), [Next]_vars
               PROVE  OwnClaim(row')
    BY DEF ClaimIsTheOwners, OwnClaim
  <2>1. row \in Rows
    BY RowIsTyped
  <2>2. ASSUME NEW p \in Processors, Apply(p)
        PROVE  OwnClaim(row')
    <3>1. writes[p] # <<>> /\ Head(writes[p]).op # "settle"
      BY <2>2 DEF Apply
    <3>2. Head(writes[p]) \in Writes
      BY <3>1, HeadIsTyped
    <3> QED BY <2>1, <2>2, <3>1, <3>2, WrittenKeepsOwnClaim DEF Apply
  <2>3. CASE RebootKeeping
    BY <2>1, <2>3 DEF RebootKeeping, Reserved, OwnClaim, Rows, Claims
  <2>4. CASE ClaimExpires
    BY <2>1, <2>4 DEF ClaimExpires, OwnClaim, Rows, Claims, NoClaim
  <2> QED BY <2>2, <2>3, <2>4, RowIsWritten
<1> QED BY <1>1, <1>2, TypeCorrect, PTL DEF Spec
-----------------------------------------------------------------------------
(***************************************************************************)
(* The row of a device with one processor.                                 *)
(*                                                                         *)
(* What the worker says reaches the row through two queues: deviceOut and  *)
(* the writes of the processor.  A live worker's last word is in one of    *)
(* them, with nothing after it that contradicts it, or in the row.         *)
(***************************************************************************)
\* s holds nothing about a subject, or the last that it holds is right.
Free(s, about) == \A i \in DOMAIN s : s[i] \notin about

Ends(s, about, right) ==
    \E i \in DOMAIN s :
        /\ s[i] \in right
        /\ \A j \in DOMAIN s : j > i => s[j] \notin about

\* With s before t before the row: what the row will show in the end is right,
\* or is there already.
Arrives(s, sAbout, sRight, t, tAbout, tRight, there) ==
    \/ Ends(s, sAbout, sRight)
    \/ Free(s, sAbout) /\ Ends(t, tAbout, tRight)
    \/ Free(s, sAbout) /\ Free(t, tAbout) /\ there

\* What is about readiness, and what makes the row ready.
ReadyMessages == [type : {"introduction", "ready"}, owner : Groups]
ReadySaid     == [type : {"ready"}, owner : Groups]
ReadyWrites   == [op : {"initial", "ready"}, owner : Groups,
                  user : Users \cup {None}]
ReadyWritten  == [op : {"ready"}, owner : Groups, user : Users \cup {None}]

\* What is about the owner, and what makes the row show g.
OwnerMessages == [type : {"introduction", "ready", "join", "leave"},
                  owner : Groups]
OwnerSaid(g)  ==
    {m \in OwnerMessages : g = IF m.type = "join" THEN m.owner ELSE NoGroup}
OwnerWrites   == [op : {"initial", "ready", "own", "disown"}, owner : Groups,
                  user : Users \cup {None}]
OwnerWritten(g) ==
    {w \in OwnerWrites : g = IF w.op = "own" THEN w.owner ELSE NoGroup}

Shows(r, g) == r.owner = g

ReadyArrives(p) ==
    Arrives(deviceOut, ReadyMessages, ReadySaid,
            writes[p], ReadyWrites, ReadyWritten, row.ready)

OwnerArrives(p) ==
    Arrives(deviceOut, OwnerMessages, OwnerSaid(held),
            writes[p], OwnerWrites, OwnerWritten(held), Shows(row, held))

RowInv(p) ==
    /\ worker = "up" => plugged
    /\ worker = "down" => held = NoGroup
    /\ worker = "up" => ReadyArrives(p) /\ OwnerArrives(p)

\* The operators on queues.
LEMMA FreeTogether ==
    ASSUME NEW T, NEW s \in Seq(T), NEW t \in Seq(T), NEW about,
           Free(s, about), Free(t, about)
    PROVE  Free(s \o t, about)
BY ConcatProperties DEF Free

LEMMA LastIsKept ==
    ASSUME NEW T, NEW s \in Seq(T), NEW t \in Seq(T), NEW about, NEW right,
           Ends(s, about, right), Free(t, about)
    PROVE  Ends(s \o t, about, right)
<1>1. PICK i \in DOMAIN s :
          s[i] \in right /\ \A j \in DOMAIN s : j > i => s[j] \notin about
  BY DEF Ends
<1>2. i \in DOMAIN (s \o t) /\ (s \o t)[i] \in right
  BY <1>1, ConcatProperties
<1>3. \A j \in DOMAIN (s \o t) : j > i => (s \o t)[j] \notin about
  <2> SUFFICES ASSUME NEW j \in DOMAIN (s \o t), j > i
               PROVE  (s \o t)[j] \notin about
    OBVIOUS
  <2>1. CASE j <= Len(s)
    BY <1>1, <2>1, ConcatProperties
  <2>2. CASE j > Len(s)
    BY <2>2, ConcatProperties DEF Free
  <2> QED BY <2>1, <2>2, ConcatProperties
<1> QED BY <1>2, <1>3 DEF Ends

LEMMA LastIsNew ==
    ASSUME NEW T, NEW s \in Seq(T), NEW t \in Seq(T), NEW about, NEW right,
           Ends(t, about, right)
    PROVE  Ends(s \o t, about, right)
<1>1. PICK i \in DOMAIN t :
          t[i] \in right /\ \A j \in DOMAIN t : j > i => t[j] \notin about
  BY DEF Ends
<1> DEFINE k == Len(s) + i
<1>2. k \in DOMAIN (s \o t) /\ (s \o t)[k] = t[i]
  BY ConcatProperties
<1>3. \A j \in DOMAIN (s \o t) : j > k => (s \o t)[j] \notin about
  <2> SUFFICES ASSUME NEW j \in DOMAIN (s \o t), j > k
               PROVE  (s \o t)[j] \notin about
    OBVIOUS
  <2>1. (s \o t)[j] = t[j - Len(s)] /\ j - Len(s) \in DOMAIN t /\ j - Len(s) > i
    BY ConcatProperties
  <2> QED BY <1>1, <2>1
<1> HIDE DEF k
<1> QED BY <1>1, <1>2, <1>3 DEF Ends

\* What is taken from a queue was its last word or leaves that in it.
LEMMA FirstIsTaken ==
    ASSUME NEW T, NEW s \in Seq(T), s # <<>>, NEW about, NEW right
    PROVE  /\ Free(s, about) => Head(s) \notin about /\ Free(Tail(s), about)
           /\ Ends(s, about, right) =>
                \/ Ends(Tail(s), about, right)
                \/ Head(s) \in right /\ Free(Tail(s), about)
<1>1. /\ Len(s) \in Nat \ {0} /\ DOMAIN s = 1..Len(s) /\ Head(s) = s[1]
      /\ DOMAIN Tail(s) = 1..(Len(s) - 1)
      /\ \A i \in 1..(Len(s) - 1) : Tail(s)[i] = s[i + 1]
  BY HeadTailProperties, EmptySeq
<1>2. Free(s, about) => Head(s) \notin about /\ Free(Tail(s), about)
  BY <1>1 DEF Free
<1>3. ASSUME NEW i \in DOMAIN s, s[i] \in right,
             \A j \in DOMAIN s : j > i => s[j] \notin about
      PROVE  \/ Ends(Tail(s), about, right)
             \/ Head(s) \in right /\ Free(Tail(s), about)
  <2>1. CASE i = 1
    BY <1>1, <1>3, <2>1 DEF Free
  <2>2. CASE i # 1
    <3>1. i - 1 \in DOMAIN Tail(s) /\ Tail(s)[i - 1] = s[i]
      BY <1>1, <2>2
    <3>2. \A j \in DOMAIN Tail(s) : j > i - 1 => Tail(s)[j] \notin about
      BY <1>1, <1>3
    <3> QED BY <1>3, <3>1, <3>2 DEF Ends
  <2> QED BY <2>1, <2>2
<1> QED BY <1>2, <1>3 DEF Ends

LEMMA OneIsLast ==
    ASSUME NEW x, NEW about, NEW right
    PROVE  /\ Free(<<>>, about)
           /\ x \notin about => Free(<<x>>, about)
           /\ x \in right => Ends(<<x>>, about, right)
BY DEF Free, Ends

\* The last word stays the last when something else is said, ...
LEMMA ArrivesBehind ==
    ASSUME NEW S, NEW s \in Seq(S), NEW x \in S, NEW sAbout, NEW sRight,
           NEW t, NEW tAbout, NEW tRight, NEW there,
           Arrives(s, sAbout, sRight, t, tAbout, tRight, there),
           x \notin sAbout
    PROVE  Arrives(s \o <<x>>, sAbout, sRight, t, tAbout, tRight, there)
<1>1. <<x>> \in Seq(S) /\ Free(<<x>>, sAbout)
  BY OneIsLast
<1>2. Ends(s, sAbout, sRight) => Ends(s \o <<x>>, sAbout, sRight)
  BY <1>1, LastIsKept
<1>3. Free(s, sAbout) => Free(s \o <<x>>, sAbout)
  BY <1>1, FreeTogether
<1> QED BY <1>2, <1>3 DEF Arrives

\* ... there is a new one when it is said, ...
LEMMA ArrivesAtOnce ==
    ASSUME NEW S, NEW s \in Seq(S), NEW x \in S, NEW sAbout, NEW sRight,
           NEW t, NEW tAbout, NEW tRight, NEW there,
           x \in sRight
    PROVE  Arrives(s \o <<x>>, sAbout, sRight, t, tAbout, tRight, there)
<1>1. <<x>> \in Seq(S) /\ Ends(<<x>>, sAbout, sRight)
  BY OneIsLast
<1> QED BY <1>1, LastIsNew DEF Arrives

\* ... it moves from the first queue to the second, as w, ...
LEMMA ArrivesFurther ==
    ASSUME NEW S, NEW s \in Seq(S), s # <<>>, NEW sAbout, NEW sRight,
           NEW T, NEW t \in Seq(T), NEW w \in Seq(T), NEW tAbout, NEW tRight,
           NEW there,
           Arrives(s, sAbout, sRight, t, tAbout, tRight, there),
           Head(s) \in sRight => Ends(w, tAbout, tRight),
           Head(s) \notin sAbout => Free(w, tAbout)
    PROVE  Arrives(Tail(s), sAbout, sRight, t \o w, tAbout, tRight, there)
<1>1. CASE Ends(s, sAbout, sRight)
  <2>1. CASE Ends(Tail(s), sAbout, sRight)
    BY <2>1 DEF Arrives
  <2>2. CASE Head(s) \in sRight /\ Free(Tail(s), sAbout)
    BY <2>2, LastIsNew DEF Arrives
  <2> QED BY <1>1, <2>1, <2>2, FirstIsTaken
<1>2. CASE Free(s, sAbout)
  <2>1. Free(Tail(s), sAbout) /\ Free(w, tAbout)
    BY <1>2, FirstIsTaken
  <2>2. CASE Ends(t, tAbout, tRight)
    BY <2>1, <2>2, LastIsKept DEF Arrives
  <2>3. CASE Free(t, tAbout) /\ there
    BY <2>1, <2>3, FreeTogether DEF Arrives
  <2>4. CASE Ends(s, sAbout, sRight)
    BY <1>1, <2>4
  <2> QED BY <2>2, <2>3, <2>4 DEF Arrives
<1> QED BY <1>1, <1>2 DEF Arrives

\* ... and from the second one to the row, where it is seen from then on.
LEMMA ArrivesThere ==
    ASSUME NEW s, NEW sAbout, NEW sRight,
           NEW T, NEW t \in Seq(T), t # <<>>, NEW more \in Seq(T),
           NEW tAbout, NEW tRight, NEW there, NEW then,
           Arrives(s, sAbout, sRight, t, tAbout, tRight, there),
           Free(more, tAbout),
           Head(t) \in tRight => then,
           there /\ Head(t) \notin tAbout => then
    PROVE  Arrives(s, sAbout, sRight, Tail(t) \o more, tAbout, tRight, then)
<1>0. Tail(t) \in Seq(T)
  BY HeadTailProperties
<1>1. CASE Ends(s, sAbout, sRight)
  BY <1>1 DEF Arrives
<1>2. CASE Free(s, sAbout) /\ Ends(t, tAbout, tRight)
  <2>1. CASE Ends(Tail(t), tAbout, tRight)
    BY <1>0, <1>2, <2>1, LastIsKept DEF Arrives
  <2>2. CASE Head(t) \in tRight /\ Free(Tail(t), tAbout)
    BY <1>0, <1>2, <2>2, FreeTogether DEF Arrives
  <2> QED BY <1>2, <2>1, <2>2, FirstIsTaken
<1>3. CASE Free(s, sAbout) /\ Free(t, tAbout) /\ there
  <2>1. Head(t) \notin tAbout /\ Free(Tail(t), tAbout)
    BY <1>3, FirstIsTaken
  <2> QED BY <1>0, <1>3, <2>1, FreeTogether DEF Arrives
<1> QED BY <1>1, <1>2, <1>3 DEF Arrives

\* What a message is about, its writes are about, and to the same effect.
LEMMA WritesSaySo ==
    ASSUME NEW m \in Messages, NEW g
    PROVE  /\ m \in ReadySaid => Ends(WritesOf(m), ReadyWrites, ReadyWritten)
           /\ m \notin ReadyMessages => Free(WritesOf(m), ReadyWrites)
           /\ m \in OwnerSaid(g) =>
                Ends(WritesOf(m), OwnerWrites, OwnerWritten(g))
           /\ m \notin OwnerMessages => Free(WritesOf(m), OwnerWrites)
<1> USE DEF ReadySaid, ReadyMessages, OwnerSaid, OwnerMessages
<1>1. /\ m.type \in MsgTypes /\ m.owner \in Groups
      /\ m = [type |-> m.type, owner |-> m.owner]
  BY DEF Messages
<1>2. \A op \in Ops : Plain(op) \in Writes /\ Plain(op).op = op
  BY PlainIsTyped DEF Plain, Write
<1>3. \A w \in Writes :
        /\ w \in ReadyWrites <=> w.op \in {"initial", "ready"}
        /\ w \in ReadyWritten <=> w.op = "ready"
        /\ w \in OwnerWrites <=> w.op \in {"initial", "ready", "own", "disown"}
        /\ w \in OwnerWritten(g) <=>
             \/ w.op \in {"initial", "ready", "disown"} /\ g = NoGroup
             \/ w.op = "own" /\ g = w.owner
  BY DEF Writes, ReadyWrites, ReadyWritten, OwnerWrites, OwnerWritten
<1>4. CASE m.type \in {"introduction", "ready", "leave"}
  <2>1. PICK op \in {"initial", "ready", "disown"} :
            /\ WritesOf(m) = <<Plain(op)>>
            /\ op = "ready" <=> m.type = "ready"
            /\ op = "initial" <=> m.type = "introduction"
    BY <1>4 DEF WritesOf
  <2>2. op \in Ops
    BY DEF Ops
  <2> QED BY <1>1, <1>2, <1>3, <1>4, <2>1, <2>2, OneIsLast
<1>5. CASE m.type = "join"
  <2>1. WritesOf(m) = <<Write("own", m.owner, None)>>
    BY <1>5 DEF WritesOf
  <2> DEFINE w == Write("own", m.owner, None)
  <2>2. w \in Writes /\ w.op = "own" /\ w.owner = m.owner
    BY <1>1, WriteIsTyped DEF Write, Ops
  <2> HIDE DEF w
  <2> QED BY <1>1, <1>3, <1>5, <2>1, <2>2, OneIsLast DEF w
<1>6. CASE m.type \in {"present", "absent"}
  <2>1. ASSUME NEW op \in {"present", "reserve", "absent"}
        PROVE  /\ <<Plain(op)>> \in Seq(Writes)
               /\ Free(<<Plain(op)>>, ReadyWrites)
               /\ Free(<<Plain(op)>>, OwnerWrites)
    <3>1. /\ Plain(op) \in Writes
          /\ Plain(op) \notin ReadyWrites
          /\ Plain(op) \notin OwnerWrites
      BY <1>2, <1>3 DEF Ops
    <3> QED BY <3>1, OneIsLast
  <2>2. <<>> \in Seq(Writes) /\ \A about : Free(<<>>, about)
    BY DEF Free
  <2>3. \/ WritesOf(m) = <<Plain("present")>>
        \/ WritesOf(m) = <<Plain("reserve")>> \o <<Plain("absent")>>
        \/ WritesOf(m) = <<>> \o <<Plain("absent")>>
    <3>1. CASE m.type = "present"
      BY <3>1 DEF WritesOf
    <3>2. CASE m.type = "absent" /\ AutoRestoreOwner
      BY <3>2, Zenon DEF WritesOf
    <3>3. CASE m.type = "absent" /\ ~AutoRestoreOwner
      BY <3>3, Zenon DEF WritesOf
    <3> QED BY <1>6, <3>1, <3>2, <3>3
  <2>4. Free(WritesOf(m), ReadyWrites) /\ Free(WritesOf(m), OwnerWrites)
    <3>1. ASSUME NEW about, NEW s \in Seq(Writes), NEW t \in Seq(Writes),
                 Free(s, about), Free(t, about)
          PROVE  Free(s \o t, about)
      BY <3>1, FreeTogether
    <3> QED BY <2>1, <2>2, <2>3, <3>1
  <2> QED BY <1>6, <2>4
<1> QED BY <1>1, <1>4, <1>5, <1>6 DEF MsgTypes

\* A write that is about the row's readiness or owner has its effect, and
\* others leave them alone.
LEMMA WrittenSaysSo ==
    ASSUME NEW r \in Rows, NEW w \in Writes, w.op # "settle", NEW g
    PROVE  /\ w \in ReadyWritten => Written(w, r).ready
           /\ r.ready /\ w \notin ReadyWrites => Written(w, r).ready
           /\ w \in OwnerWritten(g) => Written(w, r).owner = g
           /\ r.owner = g /\ w \notin OwnerWrites => Written(w, r).owner = g
<1> USE DEF ReadyWrites, ReadyWritten, OwnerWrites, OwnerWritten
<1>1. /\ w.op \in Ops /\ w.owner \in Groups /\ w.user \in Users \cup {None}
      /\ w = [op |-> w.op, owner |-> w.owner, user |-> w.user]
  BY DEF Writes
<1>2. CASE w.op = "initial"
  BY <1>1, <1>2 DEF Written, Rows
<1>3. CASE w.op = "ready"
  BY <1>1, <1>3 DEF Written, Readied, Rows
<1>4. CASE w.op = "own"
  BY <1>1, <1>4 DEF Written, Owned, Rows
<1>5. CASE w.op = "disown"
  BY <1>1, <1>5 DEF Written, Rows
<1>6. CASE w.op \in {"present", "absent", "clear"}
  BY <1>1, <1>6 DEF Written, Rows
<1>7. CASE w.op = "reserve"
  BY <1>1, <1>7 DEF Written, Reserved, Rows
<1> QED BY <1>1, <1>2, <1>3, <1>4, <1>5, <1>6, <1>7 DEF Ops

\* What follows setDeviceReady is about neither.
LEMMA AfterReadySaysNothing ==
    ASSUME NEW r
    PROVE  /\ Free(AfterReady(r), ReadyWrites)
           /\ Free(AfterReady(r), OwnerWrites)
<1>1. \A g, u : Write("settle", g, u) \notin ReadyWrites \cup OwnerWrites
  BY DEF Write, ReadyWrites, OwnerWrites
<1>2. Plain("clear") \notin ReadyWrites \cup OwnerWrites
  BY DEF Plain, Write, ReadyWrites, OwnerWrites
<1> QED BY <1>1, <1>2, OneIsLast DEF AfterReady

\* Nothing that the invariant speaks of has moved.
LEMMA Unmoved ==
    ASSUME NEW p \in Processors, RowInv(p),
           UNCHANGED <<plugged, worker, held, deviceOut>>,
           writes'[p] = writes[p],
           row'.ready = row.ready, row'.owner = row.owner
    PROVE  RowInv(p)'
BY DEF RowInv, ReadyArrives, OwnerArrives, Shows

\* The device says something that is about neither.
LEMMA SaysMore ==
    ASSUME TypeOK, NEW p \in Processors, RowInv(p),
           NEW m \in Messages, deviceOut' = deviceOut \o <<m>>,
           m \notin OwnerMessages, m \notin ReadyMessages,
           UNCHANGED <<plugged, worker, held, writes, row>>
    PROVE  RowInv(p)'
<1>1. deviceOut \in Seq(Messages)
  BY DEF TypeOK, Messages
<1>2. ReadyArrives(p) => ReadyArrives(p)'
  BY <1>1, ArrivesBehind DEF ReadyArrives
<1>3. OwnerArrives(p) => OwnerArrives(p)'
  BY <1>1, ArrivesBehind DEF OwnerArrives
<1> QED BY <1>2, <1>3 DEF RowInv

\* The worker takes or leaves a group, and says so.
LEMMA SaysWhoHolds ==
    ASSUME TypeOK, NEW p \in Processors, RowInv(p),
           NEW m \in Messages, deviceOut' = deviceOut \o <<m>>,
           m \in OwnerSaid(held'), m \notin ReadyMessages,
           worker = "down" => held' = NoGroup,
           UNCHANGED <<plugged, worker, writes, row>>
    PROVE  RowInv(p)'
<1>1. deviceOut \in Seq(Messages)
  BY DEF TypeOK, Messages
<1>2. ReadyArrives(p) => ReadyArrives(p)'
  BY <1>1, ArrivesBehind DEF ReadyArrives
<1>3. OwnerArrives(p)'
  BY <1>1, ArrivesAtOnce DEF OwnerArrives
<1> QED BY <1>2, <1>3 DEF RowInv

LEMMA ProvideKeepsRow ==
    ASSUME TypeOK, NEW p \in Processors, RowInv(p), Provide
    PROVE  RowInv(p)'
<1>1. CASE Plug \/ Unplug \/ GoOffline \/ Crash \/ Retire
  BY <1>1 DEF Plug, Unplug, GoOffline, Crash, Retire, Ended, RowInv
<1>2. CASE Boot
  <2> DEFINE m == Msg("ready", NoGroup)
  <2>1. /\ deviceOut' = deviceOut \o <<m>>
        /\ held' = NoGroup /\ worker' = "up" /\ plugged'
    BY <1>2 DEF Boot, Send, RowInv
  <2>2. m \in Messages /\ m \in ReadySaid /\ m \in OwnerSaid(NoGroup)
    BY ConstantsAreTyped
       DEF Msg, Messages, MsgTypes, ReadySaid, OwnerSaid, OwnerMessages
  <2> HIDE DEF m
  <2>3. deviceOut \in Seq(Messages)
    BY DEF TypeOK, Messages
  <2>4. ReadyArrives(p)'
    BY <2>1, <2>2, <2>3, ArrivesAtOnce DEF ReadyArrives
  <2>5. OwnerArrives(p)'
    BY <2>1, <2>2, <2>3, ArrivesAtOnce DEF OwnerArrives
  <2> QED BY <2>1, <2>4, <2>5 DEF RowInv
<1>3. ASSUME NEW type \in {"absent", "present"}, Reap(type)
      PROVE  RowInv(p)'
  <2> DEFINE m == Msg(type, NoGroup)
  <2>1. m \in Messages /\ m \notin OwnerMessages /\ m \notin ReadyMessages
    BY ConstantsAreTyped
       DEF Msg, Messages, MsgTypes, OwnerMessages, ReadyMessages
  <2>2. deviceOut' = deviceOut \o <<m>>
    BY <1>3 DEF Reap, Send
  <2> HIDE DEF m
  <2> QED BY <1>3, <2>1, <2>2, SaysMore DEF Reap, device
<1> QED BY <1>1, <1>2, <1>3 DEF Provide

LEMMA WorkKeepsRow ==
    ASSUME TypeOK, NEW p \in Processors, RowInv(p), Work
    PROVE  RowInv(p)'
<1>1. CASE Join
  <2> DEFINE new == [group |-> Head(inbox).user, reservationId |-> issued + 1]
             m == Msg("join", new)
  <2>1. Head(inbox) \in Orders
    BY <1>1, NextOrderIsTyped DEF Join, Kinds
  <2>2. new \in Groups
    BY <2>1 DEF Orders, Groups, TypeOK
  <2>3. held' = new /\ deviceOut' = deviceOut \o <<m>> /\ worker # "down"
    BY <1>1 DEF Join, Send, NextOrder
  <2> HIDE DEF new
  <2>4. m \in Messages /\ m \in OwnerSaid(held') /\ m \notin ReadyMessages
    BY <2>2, <2>3
       DEF Msg, Messages, MsgTypes, OwnerSaid, OwnerMessages, ReadyMessages
  <2> HIDE DEF m
  <2> QED BY <1>1, <2>3, <2>4, SaysWhoHolds DEF Join
<1>2. ASSUME Released
      PROVE  RowInv(p)'
  <2> DEFINE m == Msg("leave", NoGroup)
  <2>1. held' = NoGroup /\ deviceOut' = deviceOut \o <<m>>
    BY <1>2 DEF Released, Send
  <2>2. m \in Messages /\ m \in OwnerSaid(NoGroup) /\ m \notin ReadyMessages
    BY ConstantsAreTyped
       DEF Msg, Messages, MsgTypes, OwnerSaid, OwnerMessages, ReadyMessages
  <2> HIDE DEF m
  <2> QED BY <1>2, <2>1, <2>2, SaysWhoHolds DEF Released
<1>3. CASE JoinRefused \/ LeaveRefused \/ Lost
  BY <1>3, Unmoved DEF JoinRefused, LeaveRefused, Lost, device
<1> QED BY <1>1, <1>2, <1>3 DEF Work, Leave, LeaveUnasked

LEMMA ProcessKeepsRow ==
    ASSUME TypeOK, NEW p \in Processors, Processors = {p}, RowInv(p), Process
    PROVE  RowInv(p)'
<1>1. /\ deviceOut \in Seq(Messages)
      /\ writes[p] \in Seq(Writes)
      /\ writes \in [Processors -> Seq(Writes)]
      /\ row \in Rows
  BY RowIsTyped DEF TypeOK, Messages, Writes
<1>2. CASE Dispatch(p)
  <2> DEFINE m == Head(deviceOut)
  <2>1. /\ deviceOut # <<>> /\ deviceOut' = Tail(deviceOut)
        /\ writes'[p] = writes[p] \o WritesOf(m)
        /\ UNCHANGED <<plugged, worker, held, row>>
    BY <1>1, <1>2 DEF Dispatch, device
  <2>2. m \in Messages /\ WritesOf(m) \in Seq(Writes)
    BY <1>1, <2>1, WritesOfIsTyped
  <2> DEFINE w == WritesOf(m)
  <2>3. ReadyArrives(p) => ReadyArrives(p)'
    <3>1. /\ m \in ReadySaid => Ends(w, ReadyWrites, ReadyWritten)
          /\ m \notin ReadyMessages => Free(w, ReadyWrites)
      BY <2>2, WritesSaySo
    <3> HIDE DEF w
    <3> QED BY <1>1, <2>1, <2>2, <3>1, ArrivesFurther DEF ReadyArrives, w
  <2>4. OwnerArrives(p) => OwnerArrives(p)'
    <3>1. /\ m \in OwnerSaid(held) => Ends(w, OwnerWrites, OwnerWritten(held))
          /\ m \notin OwnerMessages => Free(w, OwnerWrites)
      BY <2>2, WritesSaySo
    <3> HIDE DEF w
    <3> QED BY <1>1, <2>1, <2>2, <3>1, ArrivesFurther DEF OwnerArrives, w
  <2> QED BY <2>1, <2>3, <2>4 DEF RowInv
<1>3. CASE Apply(p)
  <2> DEFINE w == Head(writes[p])
             more == IF w.op = "ready" THEN AfterReady(row') ELSE <<>>
  <2>1. /\ writes[p] # <<>> /\ w.op # "settle" /\ row' = Written(w, row)
        /\ writes'[p] = Tail(writes[p]) \o more
        /\ UNCHANGED <<plugged, worker, held, deviceOut>>
    BY <1>1, <1>3 DEF Apply, device
  <2>2. w \in Writes
    BY <2>1, HeadIsTyped
  <2>3. row' \in Rows
    BY <1>1, <2>1, <2>2, WrittenIsTyped
  <2>4. more \in Seq(Writes)
    BY <2>3, AfterReadyIsTyped
  <2>5. Free(more, ReadyWrites) /\ Free(more, OwnerWrites)
    <3>1. \A about : Free(<<>>, about)
      BY DEF Free
    <3> QED BY <3>1, AfterReadySaysNothing
  <2> HIDE DEF more
  <2>6. ReadyArrives(p) => ReadyArrives(p)'
    <3>1. /\ w \in ReadyWritten => row'.ready
          /\ row.ready /\ w \notin ReadyWrites => row'.ready
      BY <1>1, <2>1, <2>2, WrittenSaysSo
    <3> QED BY <1>1, <2>1, <2>4, <2>5, <3>1, ArrivesThere DEF ReadyArrives
  <2>7. OwnerArrives(p) => OwnerArrives(p)'
    <3>1. /\ w \in OwnerWritten(held) => Shows(row', held)
          /\ Shows(row, held) /\ w \notin OwnerWrites => Shows(row', held)
      BY <1>1, <2>1, <2>2, WrittenSaysSo DEF Shows
    <3> QED BY <1>1, <2>1, <2>4, <2>5, <3>1, ArrivesThere DEF OwnerArrives
  <2> QED BY <2>1, <2>6, <2>7 DEF RowInv
<1>4. CASE Settle(p)
  <2> DEFINE w == Head(writes[p])
             c == Plain("clear")
  <2>1. /\ writes[p] # <<>> /\ w.op = "settle"
        /\ UNCHANGED <<plugged, worker, held, deviceOut, row>>
    BY <1>4 DEF Settle, device
  <2>2. PICK more \in {<<>>, <<c>>} : writes'[p] = Tail(writes[p]) \o more
    <3>1. Tail(writes[p]) \in Seq(Writes)
      BY <2>1, HeadIsTyped
    <3>2. Tail(writes[p]) \o <<>> = Tail(writes[p])
      BY <3>1, ConcatEmptySeq
    <3>3. Append(Tail(writes[p]), c) = Tail(writes[p]) \o <<c>>
      BY <3>1, PlainIsTyped, AppendIsConcat DEF Ops
    <3> QED BY <1>1, <1>4, <3>2, <3>3 DEF Settle
  <2>3. c \in Writes /\ c \notin ReadyWrites /\ c \notin OwnerWrites
    BY PlainIsTyped DEF Ops, Plain, Write, ReadyWrites, OwnerWrites
  <2>4. w \notin ReadyWritten /\ w \notin OwnerWrites
        /\ w \notin OwnerWritten(held) /\ w \notin ReadyWrites
    BY <2>1 DEF ReadyWritten, ReadyWrites, OwnerWrites, OwnerWritten
  <2> HIDE DEF c
  <2>5. /\ more \in Seq(Writes)
        /\ Free(more, ReadyWrites) /\ Free(more, OwnerWrites)
    <3>1. <<>> \in Seq(Writes) /\ \A about : Free(<<>>, about)
      BY DEF Free
    <3>2. Free(<<c>>, ReadyWrites) /\ Free(<<c>>, OwnerWrites)
      BY <2>3, OneIsLast
    <3>3. <<c>> \in Seq(Writes)
      BY <2>3
    <3> QED BY <2>2, <3>1, <3>2, <3>3
  <2>6. ReadyArrives(p) => ReadyArrives(p)'
    BY <1>1, <2>1, <2>2, <2>4, <2>5, ArrivesThere DEF ReadyArrives
  <2>7. OwnerArrives(p) => OwnerArrives(p)'
    BY <1>1, <2>1, <2>2, <2>4, <2>5, ArrivesThere DEF OwnerArrives
  <2> QED BY <2>1, <2>6, <2>7 DEF RowInv
<1>5. CASE ClaimExpires
  BY <1>1, <1>5, Unmoved DEF ClaimExpires, device, Rows
<1> QED BY <1>2, <1>3, <1>4, <1>5 DEF Process

LEMMA ServeKeepsRow ==
    ASSUME TypeOK, NEW p \in Processors, RowInv(p), Serve
    PROVE  RowInv(p)'
<1>1. row'.ready = row.ready /\ row'.owner = row.owner
  BY RowIsTyped
     DEF Serve, DeleteUserDevice, RebootKeeping, Invite, Kick, Reserved, Rows
<1>2. UNCHANGED <<plugged, worker, held, deviceOut>> /\ writes'[p] = writes[p]
  BY DEF Serve, DeleteUserDevice, RebootKeeping, Invite, Kick, device
<1> QED BY <1>1, <1>2, Unmoved

\* With one processor, the row tells the truth about a live worker as soon as
\* all it said is written, however its crashes and restarts, the reaper, the
\* replayed claims and the API overlap (processor/index.ts 337-348, db/api.ts
\* 1630-1643, 1775-1782).
THEOREM RowIsTrue ==
    ASSUME NEW p, Processors = {p}
    PROVE  Spec => []RowTellsTheTruth
<1>1. Init => RowInv(p)
  BY DEF Init, RowInv
<1>2. TypeOK /\ RowInv(p) /\ [Next]_vars => RowInv(p)'
  <2>1. TypeOK /\ RowInv(p) /\ Next => RowInv(p)'
    BY ProvideKeepsRow, WorkKeepsRow, ProcessKeepsRow, ServeKeepsRow DEF Next
  <2>2. RowInv(p) /\ UNCHANGED vars => RowInv(p)'
    BY Unmoved DEF vars
  <2> QED BY <2>1, <2>2
<1>3. RowInv(p) => RowTellsTheTruth
  <2> SUFFICES ASSUME RowInv(p), worker = "up", Quiet
               PROVE  row.ready /\ row.owner = held
    BY DEF RowTellsTheTruth
  <2>1. deviceOut = <<>> /\ writes[p] = <<>>
    BY DEF Quiet
  <2>2. \A about, right : ~Ends(<<>>, about, right)
    BY DEF Ends
  <2> QED BY <2>1, <2>2 DEF RowInv, ReadyArrives, OwnerArrives, Arrives, Shows
<1> QED BY <1>1, <1>2, <1>3, TypeCorrect, PTL DEF Spec
=============================================================================
