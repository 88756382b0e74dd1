---------------------------- MODULE PresenceProofs ----------------------------
(***************************************************************************)
(* What Presence promises for any number of restarts and messages: types,  *)
(* and that the reaper watches every device that is shown as present, if   *)
(* only heartbeats overlap with other messages.                            *)
(***************************************************************************)
EXTENDS Presence, SequenceTheorems, TLAPS

Has(s, m) == \E i \in 1 .. Len(s) : s[i] = m
Beats(s)  == \A m : Has(s, m) => m = "heartbeat"

LEMMA EmptyHas == \A m : ~Has(<<>>, m)
BY EmptySeq DEF Has

LEMMA TailHas ==
    ASSUME NEW S, NEW s \in Seq(S), s # <<>>
    PROVE  /\ Head(s) \in S /\ Tail(s) \in Seq(S)
           /\ \A m : Has(s, m) <=> m = Head(s) \/ Has(Tail(s), m)
<1>1. /\ Head(s) \in S /\ Tail(s) \in Seq(S)
      /\ Len(Tail(s)) = Len(s) - 1 /\ Len(s) \in Nat /\ Len(s) > 0 /\ Head(s) = s[1]
      /\ \A i \in 1 .. Len(Tail(s)) : Tail(s)[i] = s[i + 1]
  BY HeadTailProperties, LenProperties, EmptySeq
<1>2. ASSUME NEW m, Has(s, m) PROVE m = Head(s) \/ Has(Tail(s), m)
  <2>1. PICK i \in 1 .. Len(s) : s[i] = m
    BY <1>2 DEF Has
  <2>2. CASE i = 1
    BY <1>1, <2>1, <2>2
  <2>3. CASE i # 1
    <3>1. i - 1 \in 1 .. Len(Tail(s)) /\ Tail(s)[i - 1] = m
      BY <1>1, <2>1, <2>3
    <3> QED BY <3>1 DEF Has
  <2> QED BY <2>2, <2>3
<1>3. ASSUME NEW m, m = Head(s) PROVE Has(s, m)
  <2>1. 1 \in 1 .. Len(s) /\ s[1] = m
    BY <1>1, <1>3
  <2> QED BY <2>1 DEF Has
<1>4. ASSUME NEW m, Has(Tail(s), m) PROVE Has(s, m)
  <2>1. PICK i \in 1 .. Len(Tail(s)) : Tail(s)[i] = m
    BY <1>4 DEF Has
  <2>2. i + 1 \in 1 .. Len(s) /\ s[i + 1] = m
    BY <1>1, <2>1
  <2> QED BY <2>2 DEF Has
<1> QED BY <1>1, <1>2, <1>3, <1>4

LEMMA AppendHas ==
    ASSUME NEW S, NEW s \in Seq(S), NEW e \in S
    PROVE  /\ Append(s, e) \in Seq(S) /\ Append(s, e) # <<>>
           /\ \A m : Has(Append(s, e), m) <=> Has(s, m) \/ m = e
           /\ Head(Append(s, e)) = IF s = <<>> THEN e ELSE Head(s)
           /\ Tail(Append(s, e)) = IF s = <<>> THEN <<>> ELSE Append(Tail(s), e)
<1>1. /\ Append(s, e) \in Seq(S) /\ Append(s, e) # <<>>
      /\ Len(Append(s, e)) = Len(s) + 1 /\ Len(s) \in Nat
      /\ \A i \in 1 .. Len(s) : Append(s, e)[i] = s[i]
      /\ Append(s, e)[Len(s) + 1] = e
  BY AppendProperties, LenProperties
<1>2. ASSUME NEW m, Has(Append(s, e), m) PROVE Has(s, m) \/ m = e
  <2>1. PICK i \in 1 .. Len(s) + 1 : Append(s, e)[i] = m
    BY <1>1, <1>2 DEF Has
  <2>2. CASE i = Len(s) + 1
    BY <1>1, <2>1, <2>2
  <2>3. CASE i # Len(s) + 1
    <3>1. i \in 1 .. Len(s) /\ s[i] = m
      BY <1>1, <2>1, <2>3
    <3> QED BY <3>1 DEF Has
  <2> QED BY <2>2, <2>3
<1>3. ASSUME NEW m, Has(s, m) PROVE Has(Append(s, e), m)
  <2>1. PICK i \in 1 .. Len(s) : s[i] = m
    BY <1>3 DEF Has
  <2>2. i \in 1 .. Len(Append(s, e)) /\ Append(s, e)[i] = m
    BY <1>1, <2>1
  <2> QED BY <2>2 DEF Has
<1>4. Has(Append(s, e), e)
  <2>1. Len(s) + 1 \in 1 .. Len(Append(s, e))
    BY <1>1
  <2> QED BY <1>1, <2>1 DEF Has
<1> QED BY <1>1, <1>2, <1>3, <1>4, HeadTailAppend

LEMMA OneHas ==
    /\ \A m : Has(<<"absent">>, m) <=> m = "absent"
    /\ Head(<<"absent">>) = "absent" /\ Tail(<<"absent">>) = <<>>
<1>1. /\ <<>> \in Seq({"absent"}) /\ "absent" \in {"absent"}
      /\ Append(<<>>, "absent") = <<"absent">>
  BY EmptySeq
<1> DEFINE one == Append(<<>>, "absent")
<1>2. /\ \A m : Has(one, m) <=> Has(<<>>, m) \/ m = "absent"
      /\ Head(one) = "absent" /\ Tail(one) = <<>>
  <2> HIDE DEF one
  <2> QED BY <1>1, AppendHas DEF one
<1>3. \A m : Has(one, m) <=> m = "absent"
  BY <1>2, EmptyHas
<1>4. one = <<"absent">>
  BY <1>1
<1> HIDE DEF one
<1> QED BY <1>2, <1>3, <1>4

LEMMA BeatsAppend ==
    ASSUME NEW s \in Seq(Reports), Beats(s)
    PROVE  Beats(Append(s, "heartbeat"))
<1>1. "heartbeat" \in Reports
  BY DEF Reports
<1> QED BY <1>1, AppendHas DEF Beats

\* What a processor adds to its writes and to the application side.
LEMMA AddOneOrNone ==
    ASSUME NEW S, NEW s \in Seq(S), NEW e \in S
    PROVE  s \o <<e>> = Append(s, e) /\ s \o <<>> = s
BY AppendIsConcat, ConcatEmptySeq
-----------------------------------------------------------------------------
LEMMA InitIsTyped == Init => TypeOK
<1> SUFFICES ASSUME Init PROVE TypeOK
  OBVIOUS
<1>1. 0 \in 0 .. MaxRestarts /\ 0 \in 0 .. MaxStrays
  BY RestartsAreNumber, StraysAreNumber
<1> QED BY <1>1, EmptySeq DEF Init, TypeOK

LEMMA HearingIsTyped ==
    ASSUME TypeOK, NEW m, Hear(m)
    PROVE  /\ m \in Reports /\ toReaper' \in Seq(Reports)
           /\ UNCHANGED <<tracked, worker, retiring, orphans, writes, present, reaper,
                        restarts>>
BY HeadTailProperties DEF TypeOK, Hear, device, strays, processor

LEMMA PushingIsTyped ==
    ASSUME TypeOK, NEW m \in Reports, Push(m)
    PROVE  toProcessor' \in Seq(Reports)
BY AppendProperties DEF TypeOK, Push

LEMMA TypeStays == TypeOK /\ [Next]_vars => TypeOK'
<1> SUFFICES ASSUME TypeOK, [Next]_vars PROVE TypeOK'
  OBVIOUS
<1> USE DEF device, strays, processor, reaping
<1>0. {"introduction", "heartbeat", "present", "absent"} \subseteq Reports
  BY DEF Reports
<1>1. CASE Introduce
  BY <1>0, <1>1, PushingIsTyped DEF Introduce, TypeOK
<1>2. CASE Boot
  BY <1>2 DEF Boot, TypeOK
<1>3. CASE Beat
  BY <1>0, <1>3, PushingIsTyped DEF Beat, TypeOK
<1>4. CASE Removed
  <2>1. /\ retiring' = retiring + (IF worker = "up" THEN 1 ELSE 0)
        /\ orphans' = orphans + (IF worker = "crashed" THEN 1 ELSE 0)
        /\ worker = "none" \/ retiring + orphans < MaxStrays
    BY <1>4 DEF Removed
  <2>2. retiring' \in 0 .. MaxStrays /\ orphans' \in 0 .. MaxStrays
    BY <2>1, StraysAreNumber DEF TypeOK
  <2> QED BY <1>0, <1>4, <2>2, PushingIsTyped DEF Removed, TypeOK
<1>5. CASE Vanish
  <2>1. 0 \in 0 .. MaxStrays
    BY StraysAreNumber
  <2> QED BY <1>5, <2>1 DEF Vanish, TypeOK
<1>18. CASE Retire
  <2>1. retiring' \in 0 .. MaxStrays /\ orphans' \in 0 .. MaxStrays
    BY <1>18, StraysAreNumber DEF Retire, TypeOK
  <2>2. worker' \in {"none", "up", "crashed"}
    BY <1>18 DEF Retire, TypeOK
  <2> QED BY <1>0, <1>18, <2>1, <2>2, PushingIsTyped DEF Retire, TypeOK
<1>19. CASE Crash
  BY <1>19 DEF Crash, TypeOK
<1>20. CASE Perish
  BY <1>20, StraysAreNumber DEF Perish, TypeOK
<1>6. CASE Process
  <2> DEFINE m == Head(toProcessor)
  <2>1. m \in Reports /\ Tail(toProcessor) \in Seq(Reports)
    BY <1>6, HeadTailProperties DEF Process, TypeOK
  <2>2. Write(m) \in Seq(Ops)
    <3>1. {"initial", "present", "absent"} \subseteq Ops
      BY DEF Ops
    <3>2. CASE m = "introduction"
      BY <3>1, <3>2 DEF Write
    <3>3. CASE m = "heartbeat"
      BY <3>3, EmptySeq DEF Write
    <3>4. CASE m = "present"
      BY <3>1, <3>4 DEF Write
    <3>5. CASE m = "absent"
      BY <3>1, <3>5 DEF Write
    <3> QED BY <2>1, <3>2, <3>3, <3>4, <3>5 DEF Reports
  <2>3. Relay(m) \in Seq(Reports)
    BY <2>1 DEF Relay
  <2>4. writes \o Write(m) \in Seq(Ops) /\ toReaper \o Relay(m) \in Seq(Reports)
    BY <2>2, <2>3, ConcatProperties DEF TypeOK
  <2> QED BY <1>6, <2>1, <2>4 DEF Process, TypeOK
<1>7. CASE Apply
  <2>1. Tail(writes) \in Seq(Ops)
    BY <1>7, HeadTailProperties DEF Apply, TypeOK
  <2>2. Append(toReaper, "introduction") \in Seq(Reports)
    BY <1>0, AppendProperties DEF TypeOK
  <2> QED BY <1>7, <2>1, <2>2 DEF Apply, Applied, TypeOK
<1>8. CASE Restart
  <2>1. restarts \in 0 .. MaxRestarts /\ restarts < MaxRestarts /\ restarts' = restarts + 1
    BY <1>8 DEF Restart, TypeOK
  <2>2. restarts' \in 0 .. MaxRestarts
    BY <2>1, RestartsAreNumber
  <2> QED BY <1>8, <2>2 DEF Restart, TypeOK
<1>9. CASE Load
  BY <1>9 DEF Load, TypeOK
<1>10. CASE Listen
  BY <1>10 DEF Listen, TypeOK
<1>11. CASE Miss
  BY <1>11, HeadTailProperties DEF Miss, TypeOK
<1>12. CASE HearIntroduction
  BY <1>0, <1>12, HearingIsTyped, PushingIsTyped DEF HearIntroduction, TypeOK
<1>13. CASE HearHeartbeat
  <2>1. toProcessor' \in Seq(Reports)
    BY <1>0, <1>13, PushingIsTyped DEF HearHeartbeat, TypeOK
  <2> QED BY <1>13, <2>1, HearingIsTyped DEF HearHeartbeat, TypeOK
<1>14. CASE HearAbsent
  BY <1>14, HearingIsTyped DEF HearAbsent, TypeOK
<1>15. CASE HearPresent
  BY <1>15, HearingIsTyped DEF HearPresent, TypeOK
<1>16. CASE Reap
  BY <1>0, <1>16, PushingIsTyped DEF Reap, TypeOK
<1>17. CASE UNCHANGED vars
  BY <1>17 DEF vars, TypeOK
<1> QED
  BY <1>1, <1>2, <1>3, <1>4, <1>5, <1>6, <1>7, <1>8, <1>9, <1>10, <1>11, <1>12,
     <1>13, <1>14, <1>15, <1>16, <1>17, <1>18, <1>19, <1>20 DEF Next

\* Every variable keeps its type.
THEOREM TypeCorrect == Spec => []TypeOK
<1> QED BY InitIsTyped, TypeStays, PTL DEF Spec
-----------------------------------------------------------------------------
(***************************************************************************)
(* The inductive invariant.  An absent report starts when nothing else is  *)
(* under way, so only heartbeats follow it until the reaper has heard it.  *)
(***************************************************************************)
ReportedIsAlone ==
    Has(toProcessor, "absent") =>
        /\ Head(toProcessor) = "absent" /\ Beats(Tail(toProcessor))
        /\ writes = <<>> /\ toReaper = <<>>

RelayedIsAlone ==
    Has(toReaper, "absent") =>
        /\ Head(toReaper) = "absent" /\ Beats(Tail(toReaper))
        /\ Beats(toProcessor)
        /\ writes = <<"absent">> \/ (writes = <<>> /\ ~present)

\* What the reaper said to be present, it knows.
PresentIsKnown ==
    Has(toProcessor, "present") \/ Has(writes, "present") =>
        known /\ reaper = "listening"

StartsQuietly ==
    reaper # "listening" =>
        /\ Beats(toProcessor) /\ Beats(toReaper) /\ writes = <<>>
        /\ reaper = "loaded" => known = present

\* A device that is present and not known is about to change that.
UnknownIsTemporary ==
    reaper = "listening" /\ present /\ ~known =>
        \/ Has(toProcessor, "absent") \/ Has(writes, "absent")
        \/ Has(toReaper, "introduction")

PromptInv ==
    /\ ReportedIsAlone
    /\ RelayedIsAlone
    /\ PresentIsKnown
    /\ StartsQuietly
    /\ UnknownIsTemporary

Inv == TypeOK /\ (Prompt => PromptInv)

LEMMA InitInv == Init => Inv
BY InitIsTyped, EmptyHas
   DEF Init, Inv, PromptInv, ReportedIsAlone, RelayedIsAlone, PresentIsKnown,
       StartsQuietly, UnknownIsTemporary

\* If the behaviour is prompt, what is no heartbeat starts from quiet.
LEMMA StartsFromQuiet ==
    ASSUME Prompt, NEW kind, kind # "beat", MayStart(kind)
    PROVE  Quiet /\ reaper = "listening"
BY DEF Prompt, MayStart

\* A message that is started from quiet.
LEMMA StartKeeps ==
    ASSUME TypeOK, PromptInv, Quiet, reaper = "listening", NEW m \in Reports, Push(m),
           m # "present", UNCHANGED <<writes, present, toReaper, reaper>>,
           UNCHANGED known \/ m = "absent"
    PROVE  PromptInv'
<1>1. toProcessor' = Append(<<>>, m)
  BY DEF Push, Quiet
<1>2. <<>> \in Seq(Reports)
  BY EmptySeq
<1>3. /\ \A x : Has(toProcessor', x) <=> x = m
      /\ Head(toProcessor') = m /\ Tail(toProcessor') = <<>>
  <2> DEFINE q == Append(<<>>, m)
  <2>1. /\ \A x : Has(q, x) <=> Has(<<>>, x) \/ x = m
        /\ Head(q) = m /\ Tail(q) = <<>>
    <3> HIDE DEF q
    <3> QED BY <1>2, AppendHas DEF q
  <2> HIDE DEF q
  <2>2. \A x : Has(q, x) <=> x = m
    BY <2>1, EmptyHas
  <2> QED BY <1>1, <2>1, <2>2 DEF q
<1>4. writes' = <<>> /\ toReaper' = <<>>
  BY DEF Quiet
<1> QED
  BY <1>3, <1>4, EmptyHas
     DEF PromptInv, ReportedIsAlone, RelayedIsAlone, PresentIsKnown, StartsQuietly,
         UnknownIsTemporary, Beats, Quiet

LEMMA BeatKeeps == TypeOK /\ PromptInv /\ Beat => PromptInv'
<1> SUFFICES ASSUME TypeOK, PromptInv, Beat PROVE PromptInv'
  OBVIOUS
<1>1. /\ toProcessor' = Append(toProcessor, "heartbeat")
      /\ UNCHANGED <<writes, present, toReaper, reaper, known>>
  BY DEF Beat, Push, processor, reaping
<1>2. toProcessor \in Seq(Reports) /\ "heartbeat" \in Reports
  BY DEF TypeOK, Reports
<1>3. \A m : Has(toProcessor', m) <=> Has(toProcessor, m) \/ m = "heartbeat"
  BY <1>1, <1>2, AppendHas
<1>4. ReportedIsAlone'
  <2> SUFFICES ASSUME Has(toProcessor', "absent") PROVE ReportedIsAlone'
    BY DEF ReportedIsAlone
  <2>1. Has(toProcessor, "absent")
    BY <1>3
  <2>2. toProcessor # <<>>
    BY <2>1, EmptyHas
  <2>3. Tail(toProcessor) \in Seq(Reports)
    BY <1>2, <2>2, TailHas
  <2>4. /\ Head(toProcessor') = Head(toProcessor)
        /\ Tail(toProcessor') = Append(Tail(toProcessor), "heartbeat")
    BY <1>1, <1>2, <2>2, AppendHas
  <2>5. Beats(Tail(toProcessor'))
    BY <2>1, <2>3, <2>4, BeatsAppend DEF PromptInv, ReportedIsAlone
  <2> QED BY <1>1, <2>1, <2>4, <2>5 DEF PromptInv, ReportedIsAlone
<1> QED
  BY <1>1, <1>3, <1>4
     DEF PromptInv, RelayedIsAlone, PresentIsKnown, StartsQuietly,
         UnknownIsTemporary, Beats

LEMMA ProcessKeeps == TypeOK /\ PromptInv /\ Process => PromptInv'
<1> SUFFICES ASSUME TypeOK, PromptInv, Process PROVE PromptInv'
  OBVIOUS
<1> DEFINE m == Head(toProcessor)
<1>1. /\ toProcessor # <<>> /\ toProcessor' = Tail(toProcessor)
      /\ writes' = writes \o Write(m) /\ toReaper' = toReaper \o Relay(m)
      /\ UNCHANGED <<present, reaper, known>>
  BY DEF Process, reaping
<1>2. /\ toProcessor \in Seq(Reports) /\ writes \in Seq(Ops) /\ toReaper \in Seq(Reports)
      /\ {"initial", "present", "absent"} \subseteq Ops
  BY DEF TypeOK, Ops
<1>3. m \in Reports /\ \A x : Has(toProcessor, x) <=> x = m \/ Has(toProcessor', x)
  BY <1>1, <1>2, TailHas
<1> USE DEF PromptInv
<1>4. CASE m = "introduction"
  <2>1. writes' = Append(writes, "initial") /\ toReaper' = toReaper
    BY <1>1, <1>2, <1>4, AddOneOrNone DEF Write, Relay
  <2>2. \A x : Has(writes', x) <=> Has(writes, x) \/ x = "initial"
    BY <1>2, <2>1, AppendHas
  <2> QED
    BY <1>1, <1>3, <1>4, <2>1, <2>2
       DEF ReportedIsAlone, RelayedIsAlone, PresentIsKnown, StartsQuietly,
           UnknownIsTemporary, Beats
<1>5. CASE m = "heartbeat"
  <2>1. writes' = writes /\ toReaper' = Append(toReaper, "heartbeat")
    BY <1>1, <1>2, <1>3, <1>5, AddOneOrNone DEF Write, Relay
  <2>2. \A x : Has(toReaper', x) <=> Has(toReaper, x) \/ x = "heartbeat"
    BY <1>2, <1>3, <1>5, <2>1, AppendHas
  <2>3. RelayedIsAlone'
    <3> SUFFICES ASSUME Has(toReaper', "absent") PROVE RelayedIsAlone'
      BY DEF RelayedIsAlone
    <3>1. Has(toReaper, "absent") /\ toReaper # <<>>
      BY <2>2, EmptyHas
    <3>2. Tail(toReaper) \in Seq(Reports)
      BY <1>2, <3>1, TailHas
    <3>3. /\ Head(toReaper') = Head(toReaper)
          /\ Tail(toReaper') = Append(Tail(toReaper), "heartbeat")
      BY <1>2, <1>3, <1>5, <2>1, <3>1, AppendHas
    <3>4. Beats(Tail(toReaper'))
      BY <3>1, <3>2, <3>3, BeatsAppend DEF RelayedIsAlone
    <3> QED BY <1>1, <1>3, <2>1, <3>1, <3>3, <3>4 DEF RelayedIsAlone, Beats
  <2> QED
    BY <1>1, <1>3, <1>5, <2>1, <2>2, <2>3
       DEF ReportedIsAlone, PresentIsKnown, StartsQuietly, UnknownIsTemporary, Beats
<1>6. CASE m = "present"
  <2>1. writes' = Append(writes, "present") /\ toReaper' = Append(toReaper, "present")
    BY <1>1, <1>2, <1>3, <1>6, AddOneOrNone DEF Write, Relay
  <2>2. /\ \A x : Has(writes', x) <=> Has(writes, x) \/ x = "present"
        /\ \A x : Has(toReaper', x) <=> Has(toReaper, x) \/ x = "present"
    BY <1>2, <1>3, <1>6, <2>1, AppendHas
  <2>3. ~Has(toReaper, "absent")
    BY <1>3, <1>6 DEF RelayedIsAlone, Beats
  <2> QED
    BY <1>1, <1>3, <1>6, <2>1, <2>2, <2>3
       DEF ReportedIsAlone, RelayedIsAlone, PresentIsKnown, StartsQuietly,
           UnknownIsTemporary, Beats
<1>7. CASE m = "absent"
  <2>1. Has(toProcessor, "absent")
    BY <1>3, <1>7
  <2>2. writes = <<>> /\ toReaper = <<>> /\ Beats(toProcessor')
    BY <1>1, <2>1 DEF ReportedIsAlone
  <2>3. writes' = <<"absent">> /\ toReaper' = <<"absent">>
    BY <1>1, <1>2, <1>3, <1>7, <2>2, ConcatEmptySeq DEF Write, Relay
  <2>5. reaper = "listening"
    BY <2>1 DEF StartsQuietly, Beats
  <2> QED
    BY <1>1, <2>2, <2>3, <2>5, OneHas, EmptyHas
       DEF ReportedIsAlone, RelayedIsAlone, PresentIsKnown, StartsQuietly,
           UnknownIsTemporary, Beats
<1> QED BY <1>3, <1>4, <1>5, <1>6, <1>7 DEF Reports

LEMMA ApplyKeeps == TypeOK /\ PromptInv /\ Apply => PromptInv'
<1> SUFFICES ASSUME TypeOK, PromptInv, Apply PROVE PromptInv'
  OBVIOUS
<1> USE DEF PromptInv
<1>1. /\ writes # <<>> /\ writes' = Tail(writes)
      /\ present' = (Head(writes) # "absent")
      /\ UNCHANGED <<toProcessor, reaper, known>>
  BY DEF Apply, Applied, reaping
<1>2. writes \in Seq(Ops) /\ toReaper \in Seq(Reports) /\ "introduction" \in Reports
  BY DEF TypeOK, Reports
<1>3. Head(writes) \in Ops /\ \A x : Has(writes, x) <=> x = Head(writes) \/ Has(writes', x)
  BY <1>1, <1>2, TailHas
<1>4. ~Has(toProcessor, "absent") /\ reaper = "listening"
  BY <1>1 DEF ReportedIsAlone, StartsQuietly
<1>5. CASE Head(writes) = "initial"
  <2>1. \A x : Has(toReaper', x) <=> Has(toReaper, x) \/ x = "introduction"
    BY <1>2, <1>5, AppendHas DEF Apply
  <2>2. ~Has(toReaper, "absent")
    <3>1. ASSUME writes = <<"absent">> PROVE FALSE
      BY <1>5, <3>1
    <3> QED BY <1>1, <3>1 DEF RelayedIsAlone
  <2> QED
    BY <1>1, <1>3, <1>4, <2>1, <2>2
       DEF ReportedIsAlone, RelayedIsAlone, PresentIsKnown, StartsQuietly,
           UnknownIsTemporary
<1>6. CASE Head(writes) # "initial"
  <2>1. toReaper' = toReaper
    BY <1>6 DEF Apply
  <2>2. Has(toReaper, "absent") => writes' = <<>> /\ ~present'
    BY <1>1, OneHas DEF RelayedIsAlone
  <2>3. RelayedIsAlone'
    BY <1>1, <2>1, <2>2 DEF RelayedIsAlone
  <2>4. PresentIsKnown'
    BY <1>1, <1>3 DEF PresentIsKnown
  <2>5. UnknownIsTemporary'
    <3>1. Head(writes) = "present" => known
      BY <1>3 DEF PresentIsKnown
    <3> QED BY <1>1, <1>3, <1>6, <3>1 DEF UnknownIsTemporary, Ops
  <2> QED BY <1>1, <1>4, <2>3, <2>4, <2>5 DEF ReportedIsAlone, StartsQuietly
<1> QED BY <1>5, <1>6

LEMMA MissKeeps == TypeOK /\ PromptInv /\ Miss => PromptInv'
<1> SUFFICES ASSUME TypeOK, PromptInv, Miss PROVE PromptInv'
  OBVIOUS
<1>1. /\ reaper # "listening" /\ toReaper # <<>> /\ toReaper' = Tail(toReaper)
      /\ UNCHANGED <<toProcessor, writes, present, reaper, known>>
  BY DEF Miss, processor, reaping
<1>2. \A x : Has(toReaper, x) <=> x = Head(toReaper) \/ Has(toReaper', x)
  BY <1>1, TailHas DEF TypeOK
<1> QED
  BY <1>1, <1>2
     DEF PromptInv, ReportedIsAlone, RelayedIsAlone, PresentIsKnown, StartsQuietly,
         UnknownIsTemporary, Beats

\* What the reaper hears, and may answer with the device's presence.
LEMMA HearKeeps ==
    ASSUME TypeOK, PromptInv, NEW m, m \in {"introduction", "heartbeat", "present"}, Hear(m),
           \/ known' /\ Push("present")
           \/ known' = known /\ UNCHANGED toProcessor /\ (m = "introduction" => known)
    PROVE  PromptInv'
<1> USE DEF PromptInv
<1>1. /\ reaper = "listening" /\ toReaper # <<>> /\ toReaper' = Tail(toReaper)
      /\ Head(toReaper) = m /\ UNCHANGED <<writes, present, reaper>>
  BY DEF Hear, processor
<1>2. \A x : Has(toReaper, x) <=> x = m \/ Has(toReaper', x)
  BY <1>1, TailHas DEF TypeOK
<1>3. ~Has(toReaper, "absent") /\ ~Has(toProcessor, "absent")
  BY <1>1 DEF RelayedIsAlone, ReportedIsAlone
<1>4. CASE known' /\ Push("present")
  <2>1. \A x : Has(toProcessor', x) <=> Has(toProcessor, x) \/ x = "present"
    BY <1>4, AppendHas DEF Push, TypeOK, Reports
  <2> QED
    BY <1>1, <1>2, <1>3, <1>4, <2>1
       DEF ReportedIsAlone, RelayedIsAlone, PresentIsKnown, StartsQuietly,
           UnknownIsTemporary
<1>5. CASE known' = known /\ UNCHANGED toProcessor /\ (m = "introduction" => known)
  BY <1>1, <1>2, <1>3, <1>5
     DEF ReportedIsAlone, RelayedIsAlone, PresentIsKnown, StartsQuietly,
         UnknownIsTemporary
<1> QED BY <1>4, <1>5

LEMMA HearAbsentKeeps == TypeOK /\ PromptInv /\ HearAbsent => PromptInv'
<1> SUFFICES ASSUME TypeOK, PromptInv, HearAbsent PROVE PromptInv'
  OBVIOUS
<1> USE DEF PromptInv
<1>1. /\ reaper = "listening" /\ toReaper # <<>> /\ toReaper' = Tail(toReaper)
      /\ Head(toReaper) = "absent" /\ known' = FALSE
      /\ UNCHANGED <<toProcessor, writes, present, reaper>>
  BY DEF HearAbsent, Hear, processor
<1>2. Has(toReaper, "absent")
  BY <1>1, TailHas DEF TypeOK
<1>3. /\ Beats(toReaper') /\ Beats(toProcessor)
      /\ writes = <<"absent">> \/ (writes = <<>> /\ ~present)
  BY <1>1, <1>2 DEF RelayedIsAlone
<1> QED
  BY <1>1, <1>3, OneHas, EmptyHas
     DEF ReportedIsAlone, RelayedIsAlone, PresentIsKnown, StartsQuietly,
         UnknownIsTemporary, Beats

LEMMA PromptStays ==
    TypeOK /\ Prompt /\ PromptInv /\ [Next]_vars => Prompt' /\ PromptInv'
<1> SUFFICES ASSUME TypeOK, Prompt, PromptInv, [Next]_vars PROVE Prompt' /\ PromptInv'
  OBVIOUS
<1>0. Prompt'
  BY DEF Prompt, Next, vars, processor, Introduce, Boot, Beat, Crash, Removed, Retire,
         Perish, Vanish, Process,
         Apply, Restart, Load, Listen, Miss, HearIntroduction, HearHeartbeat, HearAbsent,
         HearPresent, Hear, Reap
<1>1. CASE Introduce
  BY <1>0, <1>1, StartsFromQuiet, StartKeeps DEF Introduce, Reports, processor, reaping
<1>2. CASE Boot \/ Crash \/ Perish \/ Vanish \/ UNCHANGED vars
  <2>1. UNCHANGED <<toProcessor, writes, present, toReaper, reaper, known>>
    BY <1>2 DEF Boot, Crash, Perish, Vanish, vars, processor, reaping
  <2> QED
    BY <1>0, <2>1
       DEF PromptInv, ReportedIsAlone, RelayedIsAlone, PresentIsKnown, StartsQuietly,
           UnknownIsTemporary, Beats
<1>3. CASE Beat
  BY <1>0, <1>3, BeatKeeps
<1>4. CASE Removed \/ Retire
  BY <1>0, <1>4, StartsFromQuiet, StartKeeps
  DEF Removed, Retire, Reports, processor, reaping
<1>5. CASE Process
  BY <1>0, <1>5, ProcessKeeps
<1>6. CASE Apply
  BY <1>0, <1>6, ApplyKeeps
<1>7. CASE Restart
  <2>1. Quiet
    BY <1>7, StartsFromQuiet DEF Restart
  <2>2. /\ toProcessor' = <<>> /\ writes' = <<>> /\ toReaper' = <<>>
        /\ reaper' = "loading"
    BY <1>7, <2>1 DEF Restart, Quiet, processor
  <2> QED
    BY <1>0, <2>2, EmptyHas
       DEF PromptInv, ReportedIsAlone, RelayedIsAlone, PresentIsKnown, StartsQuietly,
           UnknownIsTemporary, Beats
<1>8. CASE Load
  <2>1. /\ reaper = "loading" /\ reaper' = "loaded" /\ known' = present
        /\ UNCHANGED <<toProcessor, writes, present, toReaper>>
    BY <1>8 DEF Load, processor
  <2> QED
    BY <1>0, <2>1, EmptyHas
       DEF PromptInv, ReportedIsAlone, RelayedIsAlone, PresentIsKnown, StartsQuietly,
           UnknownIsTemporary, Beats
<1>9. CASE Listen
  <2>1. /\ reaper = "loaded" /\ reaper' = "listening"
        /\ UNCHANGED <<toProcessor, writes, present, toReaper, known>>
    BY <1>9 DEF Listen, processor
  <2> QED
    BY <1>0, <2>1, EmptyHas
       DEF PromptInv, ReportedIsAlone, RelayedIsAlone, PresentIsKnown, StartsQuietly,
           UnknownIsTemporary, Beats
<1>10. CASE Miss
  BY <1>0, <1>10, MissKeeps
<1>11. CASE HearIntroduction
  <2>1. Hear("introduction") /\ known' /\ Push("present")
    BY <1>11 DEF HearIntroduction
  <2> DEFINE m == "introduction"
  <2>2. /\ m \in {"introduction", "heartbeat", "present"} /\ Hear(m)
        /\ \/ known' /\ Push("present")
           \/ known' = known /\ UNCHANGED toProcessor /\ (m = "introduction" => known)
    <3>1. m \in {"introduction", "heartbeat", "present"}
      OBVIOUS
    <3> QED BY <2>1, <3>1, Zenon
  <2> HIDE DEF m
  <2>3. PromptInv'
    BY <2>2, HearKeeps, Zenon
  <2> QED BY <1>0, <2>3
<1>12. CASE HearHeartbeat
  BY <1>0, <1>12, HearKeeps DEF HearHeartbeat, TypeOK
<1>13. CASE HearAbsent
  BY <1>0, <1>13, HearAbsentKeeps
<1>14. CASE HearPresent
  BY <1>0, <1>14, HearKeeps DEF HearPresent
<1>15. CASE Reap
  <2>1. /\ MayStart("reap") /\ Push("absent")
        /\ UNCHANGED <<writes, present, toReaper, reaper>>
    BY <1>15 DEF Reap, processor
  <2>2. Quiet /\ reaper = "listening"
    BY <2>1, StartsFromQuiet
  <2>3. "absent" \in Reports
    BY DEF Reports
  <2>4. PromptInv'
    BY <2>1, <2>2, <2>3, StartKeeps
  <2> QED BY <1>0, <2>4
<1> QED
  BY <1>0, <1>1, <1>2, <1>3, <1>4, <1>5, <1>6, <1>7, <1>8, <1>9, <1>10, <1>11, <1>12,
     <1>13, <1>14, <1>15 DEF Next

LEMMA NotPromptStays == ~Prompt /\ [Next]_vars => ~Prompt'
BY DEF Prompt, Next, vars, processor, Introduce, Boot, Beat, Crash, Removed, Retire,
         Perish, Vanish, Process,
       Apply, Restart, Load, Listen, Miss, HearIntroduction, HearHeartbeat, HearAbsent,
       HearPresent, Hear, Reap

LEMMA InvWatches == Inv => PresentIsWatched
BY EmptyHas DEF Inv, PromptInv, UnknownIsTemporary, PresentIsWatched, Quiet

\* When nothing is under way, the reaper watches every device that is shown as
\* present, if only heartbeats overlap with other messages: those of workers
\* that are being stopped, and the second report of the device's absence, after
\* it is back, included.
THEOREM Watching == Spec => []PresentIsWatched
<1>1. Inv /\ [Next]_vars => Inv'
  BY TypeStays, PromptStays, NotPromptStays DEF Inv
<1> QED BY InitInv, <1>1, InvWatches, PTL DEF Spec
=============================================================================
