---------------------------- MODULE ProviderProofs ----------------------------
(***************************************************************************)
(* What Provider promises for any number of devices, port groups, scopes   *)
(* and workers: types, that no group of ports is lost or shared, and, if   *)
(* tracker events wait until a device has settled, that a device has one   *)
(* worker at a time and no worker goes without ports.                      *)
(***************************************************************************)
EXTENDS Provider, SequenceTheorems, FiniteSetTheorems, TLAPS

Events == Types \cup {"check", "remove"}
States == {"up", "stopping", "stopped", "retired", "crashed"}

AllScopes ==
    [serial : Serials, type : Types, present : BOOLEAN, registered : BOOLEAN,
     todo : Seq(Events), willStop : BOOLEAN, timer : {"none", "work", "stop"},
     worker : Nat, delays : Nat]

AllWorkers == [scope : DOMAIN scopes, state : States, ports : PortGroups \cup {NoPorts}]

LEMMA TypeOKMeans ==
    TypeOK <=> /\ listed \in [Serials -> Types \cup {"none"}]
               /\ scopes \in Seq(AllScopes)
               /\ workers \in Seq(AllWorkers)
               /\ ports \in Seq(PortGroups)
               /\ calm \in Calms
BY DEF TypeOK, AllScopes, AllWorkers, Events, States

\* What a map of a sequence's elements is.
LEMMA Mapped ==
    ASSUME NEW S, NEW T, NEW s \in Seq(S), NEW f \in [DOMAIN s -> T]
    PROVE  f \in Seq(T) /\ DOMAIN f = DOMAIN s
<1>1. DOMAIN s = 1 .. Len(s) /\ Len(s) \in Nat
  BY LenProperties
<1> QED BY <1>1, SeqDef

LEMMA OneReplaced ==
    ASSUME NEW S, NEW s \in Seq(S), NEW i \in DOMAIN s, NEW x \in S
    PROVE  /\ [s EXCEPT ![i] = x] \in Seq(S)
           /\ DOMAIN [s EXCEPT ![i] = x] = DOMAIN s
           /\ \A j \in DOMAIN s : [s EXCEPT ![i] = x][j] = IF j = i THEN x ELSE s[j]
<1>1. \A j \in DOMAIN s : s[j] \in S
  BY LenProperties
<1>2. [s EXCEPT ![i] = x] \in [DOMAIN s -> S]
  BY <1>1
<1> QED BY <1>2, Mapped

LEMMA OneAppended ==
    ASSUME NEW S, NEW s \in Seq(S), NEW x \in S
    PROVE  /\ Append(s, x) \in Seq(S)
           /\ DOMAIN Append(s, x) = DOMAIN s \cup {Len(s) + 1}
           /\ Len(s) + 1 \notin DOMAIN s /\ Len(s) + 1 \in Nat \ {0}
           /\ DOMAIN s \subseteq DOMAIN Append(s, x)
           /\ \A j \in DOMAIN s : Append(s, x)[j] = s[j]
           /\ Append(s, x)[Len(s) + 1] = x
<1>1. DOMAIN s = 1 .. Len(s) /\ Len(s) \in Nat
  BY LenProperties
<1>2. /\ Append(s, x) \in Seq(S) /\ Len(Append(s, x)) = Len(s) + 1
      /\ \A j \in 1 .. Len(s) : Append(s, x)[j] = s[j]
      /\ Append(s, x)[Len(s) + 1] = x
  BY AppendProperties
<1>3. DOMAIN Append(s, x) = 1 .. Len(s) + 1
  BY <1>2, LenProperties
<1> QED BY <1>1, <1>2, <1>3

LEMMA HeadDropped ==
    ASSUME NEW S, NEW s \in Seq(S), s # <<>>
    PROVE  /\ Tail(s) \in Seq(S) /\ Head(s) \in S /\ 1 \in DOMAIN s /\ Head(s) = s[1]
           /\ \A j \in DOMAIN Tail(s) : j + 1 \in DOMAIN s /\ Tail(s)[j] = s[j + 1]
           /\ \A j \in DOMAIN s : j # 1 => j - 1 \in DOMAIN Tail(s)
           /\ DOMAIN Tail(s) \subseteq Nat \ {0} /\ DOMAIN s \subseteq Nat \ {0}
<1>1. /\ DOMAIN s = 1 .. Len(s) /\ Len(s) \in Nat /\ Len(s) # 0
      /\ Head(s) = s[1]
  BY LenProperties, EmptySeq
<1>2. /\ Head(s) \in S /\ Tail(s) \in Seq(S) /\ Len(Tail(s)) = Len(s) - 1
      /\ \A j \in 1 .. Len(Tail(s)) : Tail(s)[j] = s[j + 1]
  BY HeadTailProperties
<1>3. DOMAIN Tail(s) = 1 .. Len(s) - 1
  BY <1>2, LenProperties
<1> QED BY <1>1, <1>2, <1>3
-----------------------------------------------------------------------------
(***************************************************************************)
(* The effect of each kind of step, scope by scope and worker by worker.   *)
(***************************************************************************)
\* Scopes that are replaced one by one keep the workers' types.
LEMMA ScopesReplaced ==
    ASSUME TypeOK, NEW f \in [DOMAIN scopes -> AllScopes], scopes' = f
    PROVE  /\ scopes' \in Seq(AllScopes) /\ DOMAIN scopes' = DOMAIN scopes
           /\ AllWorkers' = AllWorkers
BY TypeOKMeans, Mapped DEF AllWorkers

LEMMA ScopeReplaced ==
    ASSUME TypeOK, NEW s \in DOMAIN scopes, NEW x \in AllScopes,
           scopes' = [scopes EXCEPT ![s] = x]
    PROVE  /\ scopes' \in Seq(AllScopes) /\ DOMAIN scopes' = DOMAIN scopes
           /\ AllWorkers' = AllWorkers
           /\ \A t \in DOMAIN scopes : scopes'[t] = IF t = s THEN x ELSE scopes[t]
BY TypeOKMeans, OneReplaced DEF AllWorkers

LEMMA ScopeIsTyped == TypeOK => \A s \in DOMAIN scopes : scopes[s] \in AllScopes
BY TypeOKMeans, LenProperties

LEMMA WorkerIsTyped == TypeOK => \A w \in DOMAIN workers : workers[w] \in AllWorkers
BY TypeOKMeans, LenProperties

\* check.
LEMMA CheckedIsTyped ==
    ASSUME NEW x \in AllScopes, x.todo # <<>>
    PROVE  /\ Checked(x) \in AllScopes
           /\ Checked(x).serial = x.serial /\ Checked(x).type = x.type
           /\ Checked(x).present = x.present /\ Checked(x).registered = x.registered
           /\ Checked(x).worker = x.worker /\ Checked(x).delays = x.delays
           /\ Checked(x).todo = Tail(x.todo)
           /\ Checked(x).willStop = (~x.present \/ x.type # "device")
           /\ ~x.present => Checked(x).timer = "none"
           /\ x.present /\ x.type = "device" => Checked(x).timer = "work"
           /\ x.present /\ x.type = "offline" => Checked(x).timer = "stop"
<1>1. Tail(x.todo) \in Seq(Events)
  BY HeadTailProperties DEF AllScopes
<1>2. x.type \in {"device", "offline"}
  BY DEF AllScopes, Types
<1> QED BY <1>1, <1>2 DEF Checked, AllScopes

\* promise.stop.
LEMMA StoppedIsTyped ==
    ASSUME TypeOK, NEW k \in Nat, workers' = Stopped(k)
    PROVE  /\ workers' \in Seq(AllWorkers) /\ DOMAIN workers' = DOMAIN workers
           /\ \A w \in DOMAIN workers :
                  /\ workers'[w].scope = workers[w].scope
                  /\ workers'[w].ports = workers[w].ports
                  /\ workers'[w].state = IF w = k /\ w # None /\ workers[w].state = "up"
                                         THEN "stopping" ELSE workers[w].state
<1>1. \A w \in DOMAIN workers : workers[w] \in AllWorkers
  BY WorkerIsTyped
<1>2. CASE k # None /\ workers[k].state = "up"
  <2>1. workers' = [workers EXCEPT ![k].state = "stopping"]
    BY <1>2 DEF Stopped
  <2>2. workers' \in [DOMAIN workers -> AllWorkers]
    <3>1. DOMAIN workers' = DOMAIN workers
      BY <2>1
    <3>2. ASSUME NEW w \in DOMAIN workers PROVE workers'[w] \in AllWorkers
      <4>1. workers[w] \in AllWorkers
        BY <1>1
      <4>2. workers'[w] = IF w = k THEN [workers[w] EXCEPT !.state = "stopping"]
                                   ELSE workers[w]
        BY <2>1
      <4> QED BY <4>1, <4>2 DEF AllWorkers, States
    <3>3. workers' = [w \in DOMAIN workers |-> workers'[w]]
      BY <2>1
    <3> QED BY <3>1, <3>2, <3>3
  <2>3. workers' \in Seq(AllWorkers)
    BY <2>2, TypeOKMeans, Mapped
  <2> QED BY <1>1, <1>2, <2>1, <2>3 DEF AllWorkers
<1>3. CASE ~(k # None /\ workers[k].state = "up")
  BY <1>3, TypeOKMeans DEF Stopped
<1> QED BY <1>2, <1>3

\* spawn: worker n, with the ports g.
SpawnedAs(s, x, n, g) ==
    /\ n \notin DOMAIN workers
    /\ workers' \in Seq(AllWorkers) /\ AllWorkers' = AllWorkers
    /\ DOMAIN workers' = DOMAIN workers \cup {n}
    /\ \A w \in DOMAIN workers : workers'[w] = workers[w]
    /\ workers'[n].scope = s /\ workers'[n].state = "up" /\ workers'[n].ports = g
    /\ ports' \in Seq(PortGroups)
    /\ IF ports = <<>> THEN g = NoPorts /\ ports' = ports
                       ELSE g = Head(ports) /\ ports' = Tail(ports)
    /\ scopes' \in Seq(AllScopes) /\ DOMAIN scopes' = DOMAIN scopes
    /\ \A t \in DOMAIN scopes :
           scopes'[t] = IF t = s THEN [x EXCEPT !.worker = n] ELSE scopes[t]
    /\ UNCHANGED <<listed, calm>>

LEMMA Spawned ==
    ASSUME TypeOK, NEW s \in DOMAIN scopes, NEW x \in AllScopes, Spawn(s, x)
    PROVE  \E n \in Nat \ {0}, g \in PortGroups \cup {NoPorts} : SpawnedAs(s, x, n, g)
<1> DEFINE n == Len(workers) + 1
           g == IF ports = <<>> THEN NoPorts ELSE Head(ports)
           new == [scope |-> s, state |-> "up", ports |-> g]
<1>1. g \in PortGroups \cup {NoPorts} /\ ports' \in Seq(PortGroups)
  BY TypeOKMeans, HeadTailProperties DEF Spawn
<1>2. new \in AllWorkers /\ workers \in Seq(AllWorkers)
  BY <1>1, TypeOKMeans DEF AllWorkers, States
<1>3. workers' = Append(workers, new)
  BY DEF Spawn
<1>4. /\ workers' \in Seq(AllWorkers) /\ n \notin DOMAIN workers /\ n \in Nat \ {0}
      /\ DOMAIN workers' = DOMAIN workers \cup {n}
      /\ \A w \in DOMAIN workers : workers'[w] = workers[w]
      /\ workers'[n] = new
  <2> HIDE DEF new
  <2> QED BY <1>2, <1>3, OneAppended
<1>5. [x EXCEPT !.worker = n] \in AllScopes
  BY <1>4 DEF AllScopes
<1>6. scopes' = [scopes EXCEPT ![s] = [x EXCEPT !.worker = n]]
  BY DEF Spawn
<1>7. /\ scopes' \in Seq(AllScopes) /\ DOMAIN scopes' = DOMAIN scopes
      /\ AllWorkers' = AllWorkers
      /\ \A t \in DOMAIN scopes :
             scopes'[t] = IF t = s THEN [x EXCEPT !.worker = n] ELSE scopes[t]
  <2> DEFINE y == [x EXCEPT !.worker = n]
  <2>1. y \in AllScopes /\ scopes' = [scopes EXCEPT ![s] = y]
    BY <1>5, <1>6
  <2> HIDE DEF y
  <2>2. /\ scopes' \in Seq(AllScopes) /\ DOMAIN scopes' = DOMAIN scopes
        /\ AllWorkers' = AllWorkers
        /\ \A t \in DOMAIN scopes : scopes'[t] = IF t = s THEN y ELSE scopes[t]
    BY <2>1, ScopeReplaced
  <2> QED BY <2>2 DEF y
<1>8. /\ IF ports = <<>> THEN g = NoPorts /\ ports' = ports
                         ELSE g = Head(ports) /\ ports' = Tail(ports)
      /\ UNCHANGED <<listed, calm>>
  BY DEF Spawn
<1>9. workers'[n].scope = s /\ workers'[n].state = "up" /\ workers'[n].ports = g
  BY <1>4
<1> HIDE DEF n, g, new
<1> QED BY <1>1, <1>4, <1>7, <1>8, <1>9 DEF SpawnedAs

\* The cleanup of a worker.
LEMMA EndedIsTyped ==
    ASSUME TypeOK, NEW w \in DOMAIN workers, NEW state \in States, Ended(w, state),
           AllWorkers' = AllWorkers
    PROVE  /\ workers' \in Seq(AllWorkers) /\ DOMAIN workers' = DOMAIN workers
           /\ \A v \in DOMAIN workers :
                  /\ workers'[v].scope = workers[v].scope
                  /\ workers'[v].ports = workers[v].ports
                  /\ workers'[v].state = IF v = w THEN state ELSE workers[v].state
           /\ ports' \in Seq(PortGroups)
           /\ ports' = IF workers[w].ports = NoPorts THEN ports
                       ELSE Append(ports, workers[w].ports)
           /\ workers[w].ports # NoPorts => workers[w].ports \in PortGroups
           /\ UNCHANGED <<listed, calm>>
<1>1. \A v \in DOMAIN workers : workers[v] \in AllWorkers
  BY WorkerIsTyped
<1>2. workers' = [workers EXCEPT ![w].state = state]
  BY DEF Ended
<1>3. workers' \in [DOMAIN workers -> AllWorkers]
  BY <1>1, <1>2 DEF AllWorkers
<1>4. workers' \in Seq(AllWorkers)
  BY <1>3, TypeOKMeans, Mapped
<1>5. workers[w].ports \in PortGroups \cup {NoPorts}
  BY <1>1 DEF AllWorkers
<1>6. ports' = IF workers[w].ports = NoPorts THEN ports ELSE Append(ports, workers[w].ports)
  BY DEF Ended
<1>7. ports' \in Seq(PortGroups)
  BY <1>5, <1>6, TypeOKMeans, AppendProperties
<1>8. UNCHANGED <<listed, calm>>
  BY DEF Ended
<1> QED BY <1>1, <1>2, <1>4, <1>5, <1>6, <1>7, <1>8 DEF AllWorkers
-----------------------------------------------------------------------------
(***************************************************************************)
(* Types.                                                                  *)
(***************************************************************************)
\* The pool holds every group of ports once.
LEMMA InitialPool ==
    ASSUME Init
    PROVE  /\ ports \in Seq(PortGroups) /\ IsInjective(ports)
           /\ \A g \in PortGroups : \E i \in DOMAIN ports : ports[i] = g
<1> DEFINE n == Cardinality(PortGroups)
<1>1. n \in Nat /\ ExistsBijection(1 .. n, PortGroups)
  BY DevicesAndPortsAreFinite, FS_CardinalityType
<1>2. PICK b \in [1 .. n -> PortGroups] : IsInjective(b)
  BY <1>1 DEF ExistsBijection, Bijection, Injection
<1>3. ports \in [1 .. n -> PortGroups] /\ IsInjective(ports)
  BY <1>2 DEF Init, SetToSeq
<1>4. ports \in Injection(1 .. n, PortGroups)
  BY <1>3 DEF Injection
<1>5. IsFiniteSet(1 .. n) /\ Cardinality(1 .. n) = n
  BY <1>1, FS_Interval
<1>6. ports \in Surjection(1 .. n, PortGroups)
  BY <1>4, <1>5, DevicesAndPortsAreFinite, FS_Injection
<1>7. ports \in Seq(PortGroups)
  BY <1>1, <1>3, SeqDef
<1> QED BY <1>3, <1>6, <1>7 DEF Surjection

LEMMA InitIsTyped == Init => TypeOK
<1> SUFFICES ASSUME Init PROVE TypeOK
  OBVIOUS
<1>1. ports \in Seq(PortGroups)
  BY InitialPool
<1>2. scopes \in Seq(AllScopes) /\ workers \in Seq(AllWorkers)
  BY EmptySeq DEF Init
<1>3. listed \in [Serials -> Types \cup {"none"}] /\ calm \in Calms
  BY DEF Init
<1> QED BY <1>1, <1>2, <1>3, TypeOKMeans

\* An event is passed on to the device's scopes.
LEMMA ToldIsTyped ==
    ASSUME TypeOK, NEW d \in Serials, NEW e \in Events, scopes' = Told(d, e)
    PROVE  /\ scopes' \in Seq(AllScopes) /\ DOMAIN scopes' = DOMAIN scopes
           /\ AllWorkers' = AllWorkers
           /\ \A s \in DOMAIN scopes :
                  scopes'[s] = IF scopes[s].serial = d /\ scopes[s].present
                               THEN [scopes[s] EXCEPT !.todo = Append(@, e)]
                               ELSE scopes[s]
<1>1. ASSUME NEW s \in DOMAIN scopes
      PROVE  Told(d, e)[s] \in AllScopes
  <2>1. scopes[s] \in AllScopes
    BY ScopeIsTyped
  <2>2. Append(scopes[s].todo, e) \in Seq(Events)
    BY <2>1, AppendProperties DEF AllScopes
  <2> QED BY <2>1, <2>2 DEF Told, AllScopes
<1>2. Told(d, e) \in [DOMAIN scopes -> AllScopes]
  BY <1>1 DEF Told
<1>3. /\ scopes' \in Seq(AllScopes) /\ DOMAIN scopes' = DOMAIN scopes
      /\ AllWorkers' = AllWorkers
  BY <1>2, ScopesReplaced
<1> QED BY <1>3 DEF Told

\* The registration of every scope of a device.
LEMMA RegisterIsTyped ==
    ASSUME TypeOK, NEW d \in Serials, Register(d)
    PROVE  /\ scopes' \in Seq(AllScopes) /\ DOMAIN scopes' = DOMAIN scopes
           /\ AllWorkers' = AllWorkers
           /\ \A s \in DOMAIN scopes :
                  scopes'[s] = IF scopes[s].serial = d
                               THEN [scopes[s] EXCEPT !.registered = TRUE]
                               ELSE scopes[s]
<1> DEFINE f == [s \in DOMAIN scopes |->
                    IF scopes[s].serial = d THEN [scopes[s] EXCEPT !.registered = TRUE]
                                            ELSE scopes[s]]
<1>1. scopes' = f
  BY DEF Register
<1>2. ASSUME NEW s \in DOMAIN scopes PROVE f[s] \in AllScopes
  BY ScopeIsTyped DEF AllScopes
<1>3. f \in [DOMAIN scopes -> AllScopes]
  BY <1>2
<1>4. /\ scopes' \in Seq(AllScopes) /\ DOMAIN scopes' = DOMAIN scopes
      /\ AllWorkers' = AllWorkers
  BY <1>1, <1>3, ScopesReplaced
<1> QED BY <1>1, <1>4

\* A new scope.
LEMMA AddIsTyped ==
    ASSUME TypeOK, NEW d \in Serials, NEW type \in Types, Add(d, type)
    PROVE  \E n \in Nat \ {0} :
               /\ n \notin DOMAIN scopes
               /\ scopes' \in Seq(AllScopes) /\ DOMAIN scopes' = DOMAIN scopes \cup {n}
               /\ scopes'[n] = Scope(d, type)
               /\ \A s \in DOMAIN scopes : scopes'[s] = scopes[s] /\ s # n
               /\ workers' \in Seq(AllWorkers') /\ UNCHANGED <<workers, ports, calm>>
               /\ listed' = [listed EXCEPT ![d] = type]
<1> DEFINE x == Scope(d, type)
           n == Len(scopes) + 1
<1>1. <<"check">> \in Seq(Events)
  BY DEF Events
<1>2. x \in AllScopes
  BY <1>1 DEF Scope, AllScopes, None, Types
<1>3. scopes' = Append(scopes, x)
  BY DEF Add
<1>4. scopes \in Seq(AllScopes) /\ workers \in Seq(AllWorkers)
  BY TypeOKMeans
<1>5. /\ scopes' \in Seq(AllScopes) /\ n \notin DOMAIN scopes /\ n \in Nat \ {0}
      /\ DOMAIN scopes' = DOMAIN scopes \cup {n}
      /\ \A s \in DOMAIN scopes : scopes'[s] = scopes[s]
      /\ scopes'[n] = x
  <2> HIDE DEF x
  <2> QED BY <1>2, <1>3, <1>4, OneAppended
<1>6. \A w \in DOMAIN workers : workers[w] \in AllWorkers'
  BY <1>5, WorkerIsTyped DEF AllWorkers
<1>7. workers \in Seq(AllWorkers')
  <2>1. workers \in [DOMAIN workers -> AllWorkers']
    BY <1>4, <1>6, LenProperties
  <2> QED BY <1>4, <2>1, Mapped
<1>8. UNCHANGED <<workers, ports, calm>> /\ listed' = [listed EXCEPT ![d] = type]
  BY DEF Add
<1> HIDE DEF n
<1> QED BY <1>5, <1>7, <1>8

\* A callback that checks the device.
LEMMA CheckIsTyped ==
    ASSUME TypeOK, NEW s \in DOMAIN scopes, NEW x \in AllScopes, x.todo # <<>>,
           scopes' = [scopes EXCEPT ![s] = Checked(x)]
    PROVE  /\ scopes' \in Seq(AllScopes) /\ DOMAIN scopes' = DOMAIN scopes
           /\ AllWorkers' = AllWorkers
           /\ \A t \in DOMAIN scopes : scopes'[t] = IF t = s THEN Checked(x) ELSE scopes[t]
<1>1. Checked(x) \in AllScopes
  BY CheckedIsTyped
<1> DEFINE y == Checked(x)
<1>2. y \in AllScopes /\ scopes' = [scopes EXCEPT ![s] = y]
  BY <1>1
<1> HIDE DEF y
<1>3. /\ scopes' \in Seq(AllScopes) /\ DOMAIN scopes' = DOMAIN scopes
      /\ AllWorkers' = AllWorkers
      /\ \A t \in DOMAIN scopes : scopes'[t] = IF t = s THEN y ELSE scopes[t]
  BY <1>2, ScopeReplaced
<1> QED BY <1>3 DEF y

LEMMA Typed ==
    ASSUME TypeOK, scopes' \in Seq(AllScopes), workers' \in Seq(AllWorkers'),
           ports' \in Seq(PortGroups), calm' = calm,
           listed' \in [Serials -> Types \cup {"none"}]
    PROVE  TypeOK'
BY TypeOKMeans DEF TypeOK, AllScopes, AllWorkers, Events, States

LEMMA TypeStays == TypeOK /\ [Next]_vars => TypeOK'
<1> SUFFICES ASSUME TypeOK, [Next]_vars PROVE TypeOK'
  OBVIOUS
<1>0. /\ listed \in [Serials -> Types \cup {"none"}] /\ scopes \in Seq(AllScopes)
      /\ workers \in Seq(AllWorkers) /\ ports \in Seq(PortGroups)
      /\ \A s \in DOMAIN scopes : scopes[s] \in AllScopes
      /\ \A w \in DOMAIN workers : workers[w] \in AllWorkers
  BY TypeOKMeans, ScopeIsTyped, WorkerIsTyped
<1>1. ASSUME NEW d \in Serials, NEW type \in Types, Add(d, type) PROVE TypeOK'
  <2>1. listed' \in [Serials -> Types \cup {"none"}] /\ calm' = calm
    BY <1>0, <1>1 DEF Add
  <2>2. scopes' \in Seq(AllScopes) /\ workers' \in Seq(AllWorkers') /\ ports' = ports
    BY <1>1, AddIsTyped
  <2> QED BY <1>0, <2>1, <2>2, Typed
<1>2. ASSUME NEW d \in Serials, NEW type \in Types, Change(d, type) PROVE TypeOK'
  <2>1. listed' \in [Serials -> Types \cup {"none"}] /\ UNCHANGED <<workers, ports, calm>>
    BY <1>0, <1>2 DEF Change
  <2>2. scopes' \in Seq(AllScopes) /\ AllWorkers' = AllWorkers
    BY <1>2, ToldIsTyped DEF Change, Events
  <2> QED BY <1>0, <2>1, <2>2, Typed
<1>3. ASSUME NEW d \in Serials, Unlist(d) PROVE TypeOK'
  <2>1. listed' \in [Serials -> Types \cup {"none"}] /\ UNCHANGED <<workers, ports, calm>>
    BY <1>0, <1>3 DEF Unlist
  <2>2. scopes' \in Seq(AllScopes) /\ AllWorkers' = AllWorkers
    BY <1>3, ToldIsTyped DEF Unlist, Events
  <2> QED BY <1>0, <2>1, <2>2, Typed
<1>4. ASSUME NEW d \in Serials, Register(d) PROVE TypeOK'
  <2>1. UNCHANGED <<listed, workers, ports, calm>>
    BY <1>4 DEF Register
  <2>2. scopes' \in Seq(AllScopes) /\ AllWorkers' = AllWorkers
    BY <1>4, RegisterIsTyped
  <2> QED BY <1>0, <2>1, <2>2, Typed
<1>5. ASSUME NEW s \in DOMAIN scopes, RegisterTimeout(s) PROVE TypeOK'
  <2>1. [scopes[s] EXCEPT !.registered = TRUE] \in AllScopes
    BY <1>0 DEF AllScopes
  <2>2. /\ scopes' = [scopes EXCEPT ![s] = [scopes[s] EXCEPT !.registered = TRUE]]
        /\ UNCHANGED <<listed, workers, ports, calm>>
    BY <1>5 DEF RegisterTimeout
  <2>3. scopes' \in Seq(AllScopes) /\ AllWorkers' = AllWorkers
    BY <2>1, <2>2, ScopeReplaced
  <2> QED BY <1>0, <2>2, <2>3, Typed
<1>6. ASSUME NEW s \in DOMAIN scopes, Check(s) PROVE TypeOK'
  <2>1. scopes' = [scopes EXCEPT ![s] = Checked(scopes[s])] /\ scopes[s].todo # <<>>
    BY <1>6 DEF Check, Todo
  <2>2. scopes' \in Seq(AllScopes) /\ AllWorkers' = AllWorkers
    BY <1>0, <2>1, CheckIsTyped
  <2>3. UNCHANGED <<listed, workers, ports, calm>>
    BY <1>6 DEF Check
  <2> QED BY <1>0, <2>2, <2>3, Typed
<1>7. ASSUME NEW s \in DOMAIN scopes, NEW type \in Types, Changed(s, type) PROVE TypeOK'
  <2> DEFINE x == [scopes[s] EXCEPT !.type = type]
  <2>1. scopes' = [scopes EXCEPT ![s] = Checked(x)] /\ x.todo # <<>> /\ x \in AllScopes
    BY <1>0, <1>7 DEF Changed, Todo, AllScopes
  <2> HIDE DEF x
  <2>2. scopes' \in Seq(AllScopes) /\ AllWorkers' = AllWorkers
    BY <2>1, CheckIsTyped
  <2>3. UNCHANGED <<listed, workers, ports, calm>>
    BY <1>7 DEF Changed
  <2> QED BY <1>0, <2>2, <2>3, Typed
<1>8. ASSUME NEW s \in DOMAIN scopes, Removed(s) PROVE TypeOK'
  <2> DEFINE x == [scopes[s] EXCEPT !.present = FALSE]
  <2>1. scopes' = [scopes EXCEPT ![s] = Checked(x)] /\ x.todo # <<>> /\ x \in AllScopes
    BY <1>0, <1>8 DEF Removed, Todo, AllScopes
  <2> HIDE DEF x
  <2>2. scopes' \in Seq(AllScopes) /\ AllWorkers' = AllWorkers
    BY <2>1, CheckIsTyped
  <2>3. workers' = Stopped(scopes[s].worker) /\ UNCHANGED <<listed, ports, calm>>
    BY <1>8 DEF Removed
  <2>4. scopes[s].worker \in Nat
    BY <1>0 DEF AllScopes
  <2>5. workers' \in Seq(AllWorkers)
    BY <2>3, <2>4, StoppedIsTyped
  <2> QED BY <1>0, <2>2, <2>3, <2>5, Typed
<1>9. ASSUME NEW s \in DOMAIN scopes, StopTimer(s) PROVE TypeOK'
  <2>1. [scopes[s] EXCEPT !.timer = "none"] \in AllScopes /\ scopes[s].worker \in Nat
    BY <1>0 DEF AllScopes
  <2>2. /\ scopes' = [scopes EXCEPT ![s] = [scopes[s] EXCEPT !.timer = "none"]]
        /\ workers' = Stopped(scopes[s].worker) /\ UNCHANGED <<listed, ports, calm>>
    BY <1>9 DEF StopTimer
  <2>3. scopes' \in Seq(AllScopes) /\ AllWorkers' = AllWorkers
    BY <2>1, <2>2, ScopeReplaced
  <2>4. workers' \in Seq(AllWorkers)
    BY <2>1, <2>2, StoppedIsTyped
  <2> QED BY <1>0, <2>2, <2>3, <2>4, Typed
<1>10. ASSUME NEW s \in DOMAIN scopes, NEW x \in AllScopes, Spawn(s, x) PROVE TypeOK'
  <2>1. /\ workers' \in Seq(AllWorkers) /\ AllWorkers' = AllWorkers
        /\ ports' \in Seq(PortGroups) /\ scopes' \in Seq(AllScopes)
        /\ UNCHANGED <<listed, calm>>
    BY <1>10, Spawned DEF SpawnedAs
  <2> QED BY <1>0, <2>1, Typed
<1>11. ASSUME NEW s \in DOMAIN scopes, WorkTimer(s) PROVE TypeOK'
  <2>1. [scopes[s] EXCEPT !.timer = "none"] \in AllScopes
    BY <1>0 DEF AllScopes
  <2> QED BY <1>10, <1>11, <2>1 DEF WorkTimer
<1>12. ASSUME NEW s \in DOMAIN scopes, Respawn(s) PROVE TypeOK'
  <2>1. [scopes[s] EXCEPT !.delays = @ - 1] \in AllScopes
    <3>1. scopes[s] \in AllScopes /\ scopes[s].delays - 1 \in Nat
      BY <1>0, <1>12 DEF AllScopes, Respawn
    <3> QED BY <3>1 DEF AllScopes
  <2> QED BY <1>10, <1>12, <2>1 DEF Respawn
<1>13. ASSUME NEW w \in DOMAIN workers, NEW state \in States, Ended(w, state),
              NEW x \in AllScopes, scopes' = [scopes EXCEPT ![workers[w].scope] = x]
       PROVE  TypeOK'
  <2>1. workers[w].scope \in DOMAIN scopes
    BY <1>0 DEF AllWorkers
  <2>2. scopes' \in Seq(AllScopes) /\ AllWorkers' = AllWorkers
    BY <1>13, <2>1, ScopeReplaced
  <2>3. /\ workers' \in Seq(AllWorkers) /\ ports' \in Seq(PortGroups)
        /\ UNCHANGED <<listed, calm>>
    BY <1>13, <2>2, EndedIsTyped
  <2> QED BY <1>0, <2>2, <2>3, Typed
<1>14. ASSUME NEW w \in DOMAIN workers, Retire(w) PROVE TypeOK'
  <2> DEFINE s == workers[w].scope
             x == [scopes[s] EXCEPT !.worker = None]
  <2>1. x \in AllScopes
    <3>1. scopes[s] \in AllScopes /\ None \in Nat
      BY <1>0 DEF AllWorkers, None
    <3> QED BY <3>1 DEF AllScopes
  <2>2. scopes' = [scopes EXCEPT ![s] = x]
    BY <1>14 DEF Retire
  <2>3. PICK state \in States : Ended(w, state)
    BY <1>14 DEF Retire, States
  <2> HIDE DEF x
  <2> QED BY <1>13, <2>1, <2>2, <2>3
<1>15. ASSUME NEW w \in DOMAIN workers, Crash(w) PROVE TypeOK'
  <2> DEFINE s == workers[w].scope
             n == IF scopes[s].willStop THEN scopes[s].delays ELSE scopes[s].delays + 1
             x == [scopes[s] EXCEPT !.delays = n]
  <2>1. x \in AllScopes
    <3>1. scopes[s] \in AllScopes
      BY <1>0 DEF AllWorkers
    <3>2. n \in Nat
      BY <3>1 DEF AllScopes
    <3> HIDE DEF n
    <3> QED BY <3>1, <3>2 DEF AllScopes
  <2>2. scopes' = [scopes EXCEPT ![s] = x]
    BY <1>15 DEF Crash
  <2>3. Ended(w, "crashed") /\ "crashed" \in States
    BY <1>15 DEF Crash, States
  <2> HIDE DEF x
  <2> QED BY <1>13, <2>1, <2>2, <2>3
<1>16. CASE UNCHANGED vars
  BY <1>16 DEF vars, TypeOK
<1> QED
  BY <1>1, <1>2, <1>3, <1>4, <1>5, <1>6, <1>7, <1>8, <1>9, <1>11, <1>12, <1>14, <1>15, <1>16 DEF Next

\* The type invariant holds for any numbers of devices and groups of ports.
THEOREM TypeCorrect == Spec => []TypeOK
BY InitIsTyped, TypeStays, PTL DEF Spec
-----------------------------------------------------------------------------
(***************************************************************************)
(* The ports.  A group of ports is at one place of the pool or with one    *)
(* live worker.  PortsAreConserved counts the places; the invariant says   *)
(* that there is one, and that two are equal, which needs no counting.     *)
(***************************************************************************)
PortsInv ==
    /\ \A i, j \in DOMAIN ports : ports[i] = ports[j] => i = j
    /\ \A v, w \in DOMAIN workers :
           Alive(v) /\ Alive(w) /\ workers[v].ports = workers[w].ports
           /\ workers[v].ports \in PortGroups => v = w
    /\ \A i \in DOMAIN ports, w \in DOMAIN workers :
           Alive(w) => ports[i] # workers[w].ports
    /\ \A g \in PortGroups :
           \/ \E i \in DOMAIN ports : ports[i] = g
           \/ \E w \in DOMAIN workers : Alive(w) /\ workers[w].ports = g

LEMMA PortsAreWhole == Init => PortsInv
<1> SUFFICES ASSUME Init PROVE PortsInv
  OBVIOUS
<1>1. DOMAIN workers = {}
  BY EmptySeq DEF Init
<1>2. \A i, j \in DOMAIN ports : ports[i] = ports[j] => i = j
  BY InitialPool DEF IsInjective
<1> QED BY <1>1, <1>2, InitialPool DEF PortsInv

\* No worker starts or ends.
LEMMA PortsRest ==
    ASSUME PortsInv, ports' = ports, DOMAIN workers' = DOMAIN workers,
           \A w \in DOMAIN workers :
               Alive(w)' = Alive(w) /\ workers'[w].ports = workers[w].ports
    PROVE  PortsInv'
BY DEF PortsInv

\* A worker takes the first group of the pool, if there is one.
LEMMA PortsTaken ==
    ASSUME TypeOK, PortsInv, NEW s \in DOMAIN scopes, NEW x \in AllScopes, Spawn(s, x)
    PROVE  PortsInv'
<1>0. PICK n \in Nat \ {0}, g \in PortGroups \cup {NoPorts} : SpawnedAs(s, x, n, g)
  BY Spawned
<1>1. /\ n \notin DOMAIN workers
      /\ DOMAIN workers' = DOMAIN workers \cup {n}
      /\ \A w \in DOMAIN workers : workers'[w] = workers[w]
      /\ workers'[n].state = "up" /\ workers'[n].ports = g
      /\ IF ports = <<>> THEN g = NoPorts /\ ports' = ports
                         ELSE g = Head(ports) /\ ports' = Tail(ports)
  BY <1>0 DEF SpawnedAs
<1>2. Alive(n)' /\ \A w \in DOMAIN workers : Alive(w)' = Alive(w)
  BY <1>1 DEF Alive
<1>3. ports \in Seq(PortGroups)
  BY TypeOKMeans
<1>4. CASE ports = <<>>
  <2>1. DOMAIN ports = {} /\ g \notin PortGroups
    BY <1>1, <1>4, EmptySeq, NoPortsIsNone
  <2> QED BY <1>1, <1>2, <1>4, <2>1 DEF PortsInv
<1>5. CASE ports # <<>>
  <2>1. /\ g = ports[1] /\ 1 \in DOMAIN ports
        /\ \A j \in DOMAIN ports' : j + 1 \in DOMAIN ports /\ ports'[j] = ports[j + 1] /\ j \in Nat \ {0}
        /\ \A j \in DOMAIN ports : j # 1 => j - 1 \in DOMAIN ports' /\ j \in Nat \ {0}
    BY <1>1, <1>3, <1>5, HeadDropped
  <2>2. \A i, j \in DOMAIN ports' : ports'[i] = ports'[j] => i = j
    BY <2>1 DEF PortsInv
  <2>3. ASSUME NEW i \in DOMAIN ports', NEW w \in DOMAIN workers', Alive(w)'
        PROVE  ports'[i] # workers'[w].ports
    BY <1>1, <1>2, <2>1, <2>3 DEF PortsInv
  <2>4. ASSUME NEW v \in DOMAIN workers', NEW w \in DOMAIN workers', Alive(v)', Alive(w)',
               workers'[v].ports = workers'[w].ports, workers'[v].ports \in PortGroups
        PROVE  v = w
    BY <1>1, <1>2, <2>1, <2>4 DEF PortsInv
  <2>5. ASSUME NEW h \in PortGroups
        PROVE  \/ \E i \in DOMAIN ports' : ports'[i] = h
               \/ \E w \in DOMAIN workers' : Alive(w)' /\ workers'[w].ports = h
    <3>1. CASE \E w \in DOMAIN workers : Alive(w) /\ workers[w].ports = h
      BY <1>1, <1>2, <3>1
    <3>2. ASSUME NEW i \in DOMAIN ports, ports[i] = h
          PROVE  <2>5!2
      <4>1. CASE i = 1
        BY <1>1, <1>2, <2>1, <3>2, <4>1
      <4>2. CASE i # 1
        <5>1. i - 1 \in DOMAIN ports' /\ ports'[i - 1] = ports[(i - 1) + 1] /\ i \in Nat \ {0}
          BY <2>1, <4>2
        <5>2. ports'[i - 1] = h
          BY <3>2, <5>1
        <5> QED BY <5>1, <5>2
      <4> QED BY <4>1, <4>2
    <3> QED BY <3>1, <3>2 DEF PortsInv
  <2> QED BY <2>2, <2>3, <2>4, <2>5 DEF PortsInv
<1> QED BY <1>4, <1>5

\* A worker that ends gives its group back.
LEMMA PortsReturned ==
    ASSUME TypeOK, PortsInv, NEW w \in DOMAIN workers, Alive(w),
           NEW state \in States \ {"up", "stopping"}, Ended(w, state),
           AllWorkers' = AllWorkers
    PROVE  PortsInv'
<1> DEFINE g == workers[w].ports
<1>1. /\ DOMAIN workers' = DOMAIN workers
      /\ \A v \in DOMAIN workers :
             /\ workers'[v].ports = workers[v].ports
             /\ workers'[v].state = IF v = w THEN state ELSE workers[v].state
      /\ ports' = IF g = NoPorts THEN ports ELSE Append(ports, g)
      /\ g # NoPorts => g \in PortGroups
  BY EndedIsTyped
<1>2. ~Alive(w)' /\ \A v \in DOMAIN workers : v # w => Alive(v)' = Alive(v)
  BY <1>1 DEF Alive, States
<1>3. CASE g = NoPorts
  BY <1>1, <1>2, <1>3, NoPortsIsNone DEF PortsInv
<1>4. CASE g # NoPorts
  <2> DEFINE n == Len(ports) + 1
  <2>1. /\ DOMAIN ports' = DOMAIN ports \cup {n} /\ n \notin DOMAIN ports
        /\ \A i \in DOMAIN ports : ports'[i] = ports[i]
        /\ ports'[n] = g
    BY <1>1, <1>4, TypeOKMeans, OneAppended
  <2> HIDE DEF n, g
  <2>2. g = workers[w].ports
    BY DEF g
  <2>3. \A i, j \in DOMAIN ports' : ports'[i] = ports'[j] => i = j
    BY <2>1, <2>2 DEF PortsInv
  <2>4. ASSUME NEW i \in DOMAIN ports', NEW v \in DOMAIN workers', Alive(v)'
        PROVE  ports'[i] # workers'[v].ports
    BY <1>1, <1>2, <1>4, <2>1, <2>2, <2>4 DEF PortsInv
  <2>5. ASSUME NEW u \in DOMAIN workers', NEW v \in DOMAIN workers', Alive(u)', Alive(v)',
               workers'[u].ports = workers'[v].ports, workers'[u].ports \in PortGroups
        PROVE  u = v
    BY <1>1, <1>2, <2>5 DEF PortsInv
  <2>6. ASSUME NEW h \in PortGroups
        PROVE  \/ \E i \in DOMAIN ports' : ports'[i] = h
               \/ \E v \in DOMAIN workers' : Alive(v)' /\ workers'[v].ports = h
    <3>1. CASE h = g
      BY <2>1, <3>1
    <3>2. CASE h # g
      BY <1>1, <1>2, <2>1, <2>2, <3>2 DEF PortsInv
    <3> QED BY <3>1, <3>2
  <2> QED BY <2>3, <2>4, <2>5, <2>6 DEF PortsInv
<1> QED BY <1>3, <1>4

LEMMA PortsStay == TypeOK /\ PortsInv /\ [Next]_vars => PortsInv'
<1> SUFFICES ASSUME TypeOK, PortsInv, [Next]_vars PROVE PortsInv'
  OBVIOUS
<1>0. /\ \A s \in DOMAIN scopes : scopes[s] \in AllScopes
      /\ \A w \in DOMAIN workers : workers[w] \in AllWorkers
  BY ScopeIsTyped, WorkerIsTyped
<1>1. ASSUME workers' = workers, ports' = ports PROVE PortsInv'
  BY <1>1 DEF PortsInv, Alive
<1>2. ASSUME NEW s \in DOMAIN scopes, workers' = Stopped(scopes[s].worker), ports' = ports
      PROVE  PortsInv'
  <2>1. scopes[s].worker \in Nat
    BY <1>0 DEF AllScopes
  <2>2. /\ DOMAIN workers' = DOMAIN workers
        /\ \A w \in DOMAIN workers :
               Alive(w)' = Alive(w) /\ workers'[w].ports = workers[w].ports
    BY <1>2, <2>1, StoppedIsTyped DEF Alive
  <2> QED BY <1>2, <2>2, PortsRest
<1>3. ASSUME NEW w \in DOMAIN workers, NEW state \in States \ {"up", "stopping"}, Alive(w),
             Ended(w, state), NEW x \in AllScopes,
             scopes' = [scopes EXCEPT ![workers[w].scope] = x]
      PROVE  PortsInv'
  <2>1. workers[w].scope \in DOMAIN scopes
    BY <1>0 DEF AllWorkers
  <2>2. AllWorkers' = AllWorkers
    BY <1>3, <2>1, ScopeReplaced
  <2> QED BY <1>3, <2>2, PortsReturned
<1>4. ASSUME NEW d \in Serials, NEW type \in Types, Add(d, type) \/ Change(d, type)
      PROVE  PortsInv'
  BY <1>1, <1>4 DEF Add, Change
<1>5. ASSUME NEW d \in Serials, Unlist(d) \/ Register(d) PROVE PortsInv'
  BY <1>1, <1>5 DEF Unlist, Register
<1>6. ASSUME NEW s \in DOMAIN scopes, RegisterTimeout(s) \/ Check(s) PROVE PortsInv'
  BY <1>1, <1>6 DEF RegisterTimeout, Check
<1>7. ASSUME NEW s \in DOMAIN scopes, NEW type \in Types, Changed(s, type) PROVE PortsInv'
  BY <1>1, <1>7 DEF Changed
<1>8. ASSUME NEW s \in DOMAIN scopes, Removed(s) \/ StopTimer(s) PROVE PortsInv'
  BY <1>2, <1>8 DEF Removed, StopTimer
<1>9. ASSUME NEW s \in DOMAIN scopes, WorkTimer(s) PROVE PortsInv'
  <2>1. [scopes[s] EXCEPT !.timer = "none"] \in AllScopes
    BY <1>0 DEF AllScopes
  <2> QED BY <1>9, <2>1, PortsTaken DEF WorkTimer
<1>10. ASSUME NEW s \in DOMAIN scopes, Respawn(s) PROVE PortsInv'
  <2>1. scopes[s] \in AllScopes /\ scopes[s].delays - 1 \in Nat
    BY <1>0, <1>10 DEF AllScopes, Respawn
  <2>2. [scopes[s] EXCEPT !.delays = @ - 1] \in AllScopes
    BY <2>1 DEF AllScopes
  <2> QED BY <1>10, <2>2, PortsTaken DEF Respawn
<1>11. ASSUME NEW w \in DOMAIN workers, Retire(w) PROVE PortsInv'
  <2> DEFINE x == [scopes[workers[w].scope] EXCEPT !.worker = None]
  <2>1. scopes[workers[w].scope] \in AllScopes /\ None \in Nat
    BY <1>0 DEF AllWorkers, None
  <2>2. x \in AllScopes
    BY <2>1 DEF AllScopes
  <2>3. scopes' = [scopes EXCEPT ![workers[w].scope] = x] /\ Alive(w)
    BY <1>11 DEF Retire
  <2>4. PICK state \in States \ {"up", "stopping"} : Ended(w, state)
    BY <1>11 DEF Retire, States
  <2> HIDE DEF x
  <2> QED BY <1>3, <2>2, <2>3, <2>4
<1>12. ASSUME NEW w \in DOMAIN workers, Crash(w) PROVE PortsInv'
  <2> DEFINE t == workers[w].scope
             n == IF scopes[t].willStop THEN scopes[t].delays ELSE scopes[t].delays + 1
             x == [scopes[t] EXCEPT !.delays = n]
  <2>1. scopes[t] \in AllScopes
    BY <1>0 DEF AllWorkers
  <2>2. n \in Nat
    BY <2>1 DEF AllScopes
  <2>3. x \in AllScopes
    <3> HIDE DEF n
    <3> QED BY <2>1, <2>2 DEF AllScopes
  <2>4. scopes' = [scopes EXCEPT ![workers[w].scope] = x]
    BY <1>12 DEF Crash
  <2>5. Ended(w, "crashed") /\ "crashed" \in States \ {"up", "stopping"} /\ Alive(w)
    BY <1>12 DEF Crash, States, Alive
  <2> HIDE DEF x
  <2> QED BY <1>3, <2>3, <2>4, <2>5
<1>13. CASE UNCHANGED vars
  BY <1>1, <1>13 DEF vars
<1> QED
  BY <1>4, <1>5, <1>6, <1>7, <1>8, <1>9, <1>10, <1>11, <1>12, <1>13 DEF Next

\* One place, counted.
LEMMA PortsCounted == TypeOK /\ PortsInv => PortsAreConserved
<1> SUFFICES ASSUME TypeOK, PortsInv, NEW g \in PortGroups
             PROVE  Cardinality({i \in DOMAIN ports : ports[i] = g})
                    + Cardinality({w \in DOMAIN workers : Alive(w) /\ workers[w].ports = g})
                    = 1
  BY DEF PortsAreConserved
<1> DEFINE I == {i \in DOMAIN ports : ports[i] = g}
           W == {w \in DOMAIN workers : Alive(w) /\ workers[w].ports = g}
<1>1. CASE \E i \in DOMAIN ports : ports[i] = g
  <2>1. PICK i \in DOMAIN ports : ports[i] = g
    BY <1>1
  <2>2. I = {i} /\ W = {}
    BY <2>1 DEF PortsInv
  <2>3. Cardinality(I) = 1 /\ Cardinality(W) = 0
    BY <2>2, FS_EmptySet, FS_Singleton
  <2> QED BY <2>3
<1>2. CASE \E w \in DOMAIN workers : Alive(w) /\ workers[w].ports = g
  <2>1. PICK w \in DOMAIN workers : Alive(w) /\ workers[w].ports = g
    BY <1>2
  <2>2. W = {w} /\ I = {}
    BY <2>1 DEF PortsInv
  <2>3. Cardinality(W) = 1 /\ Cardinality(I) = 0
    BY <2>2, FS_EmptySet, FS_Singleton
  <2> QED BY <2>3
<1> QED BY <1>1, <1>2 DEF PortsInv

\* A group of ports is in the pool or with one live worker, whatever spawns,
\* stops and crashes overlap, for any numbers of devices and groups.
THEOREM PortsConserved == Spec => []PortsAreConserved
<1>1. Init => TypeOK /\ PortsInv
  BY InitIsTyped, PortsAreWhole
<1>2. TypeOK /\ PortsInv /\ [Next]_vars => (TypeOK /\ PortsInv)'
  BY TypeStays, PortsStay
<1> QED BY <1>1, <1>2, PortsCounted, PTL DEF Spec
-----------------------------------------------------------------------------
(***************************************************************************)
(* Calm behaviours: what an event of the tracker finds.                    *)
(*                                                                         *)
(* That a device has one worker is not inductive: it takes that the scopes *)
(* of its earlier stays are gone, and that the last one spawns a worker    *)
(* only when it has none, and holds the one that it has.                   *)
(***************************************************************************)
Live(s) == \E w \in DOMAIN workers : workers[w].scope = s /\ Alive(w)
Up(s)   == \E w \in DOMAIN workers : workers[w].scope = s /\ workers[w].state = "up"
Stopping(s) == \E w \in DOMAIN workers : workers[w].scope = s /\ workers[w].state = "stopping"

\* A scope whose device was removed and that has nothing left to do.
Gone(s) ==
    /\ ~scopes[s].present /\ scopes[s].registered /\ scopes[s].todo = <<>>
    /\ scopes[s].timer = "none" /\ scopes[s].delays = 0
    /\ ~Live(s)

\* A scope knows what ADB lists, but for the one event that waits for it.
Informed(s) ==
    LET x == scopes[s]
    IN  /\ x.todo \in {<<>>, <<"check">>, <<"device">>, <<"offline">>, <<"remove">>}
        /\ ~x.registered => x.todo = <<"check">>
        /\ x.present /\ x.todo \in {<<>>, <<"check">>} => listed[x.serial] = x.type
        /\ \A type \in Types :
               x.todo = <<type>> => listed[x.serial] = type /\ x.type # type
        /\ x.todo = <<"remove">> => listed[x.serial] = "none"
        /\ x.todo # <<"check">> => x.willStop = (~x.present \/ x.type # "device")

\* Nothing is under way when an event waits, or once the device is removed.
Still(s) ==
    LET x == scopes[s]
    IN  /\ x.todo # <<>> => x.present /\ ~Stopping(s)
        /\ x.todo = <<"check">> => ~Live(s)
        /\ x.todo # <<>> \/ ~x.present => x.timer = "none" /\ x.delays = 0
        /\ ~x.present => ~Up(s)

\* A worker is about to be spawned only for a usable device that has none.
Sparing(s) ==
    LET x == scopes[s]
    IN  /\ x.timer = "work" => x.type = "device" /\ x.delays = 0 /\ ~Live(s)
        /\ x.delays # 0 => x.type = "device" /\ x.delays = 1 /\ ~Live(s)
        /\ x.timer = "stop" => x.type = "offline"
        /\ x.type = "offline" /\ x.timer # "stop" => ~Up(s)

\* The scope's worker is its own, and the one that is up, if there is one.
Holding(s) ==
    /\ scopes[s].worker # None =>
           scopes[s].worker \in DOMAIN workers /\ workers[scopes[s].worker].scope = s
    /\ \A w \in DOMAIN workers :
           workers[w].scope = s /\ workers[w].state = "up" => scopes[s].worker = w

Good(s) == Informed(s) /\ Still(s) /\ Sparing(s) /\ Holding(s)

OlderAreGone ==
    \A s, t \in DOMAIN scopes : s < t /\ scopes[s].serial = scopes[t].serial => Gone(s)

OnePerScope ==
    \A v, w \in DOMAIN workers :
        Alive(v) /\ Alive(w) /\ workers[v].scope = workers[w].scope => v = w

AllGood == OlderAreGone /\ OnePerScope /\ \A s \in DOMAIN scopes : Good(s)

\* A scope's workers are what they were.
SameWorkers(s) ==
    /\ \A w \in DOMAIN workers' : workers'[w].scope = s =>
           w \in DOMAIN workers /\ workers[w].scope = s
    /\ \A w \in DOMAIN workers : workers[w].scope = s =>
           /\ w \in DOMAIN workers' /\ workers'[w].scope = s
           /\ workers'[w].state = workers[w].state

LEMMA SameWorkersMeans ==
    ASSUME NEW s, SameWorkers(s)
    PROVE  Live(s)' = Live(s) /\ Up(s)' = Up(s) /\ Stopping(s)' = Stopping(s)
BY DEF SameWorkers, Live, Up, Stopping, Alive

LEMMA LiveMeans ==
    ASSUME NEW s
    PROVE  Live(s) <=> Up(s) \/ Stopping(s)
BY DEF Live, Up, Stopping, Alive

\* What holds of a scope holds after a step that does not touch it.
LEMMA Untouched ==
    ASSUME NEW s, SameWorkers(s), scopes'[s] = scopes[s]
    PROVE  /\ Gone(s)' = Gone(s) /\ Still(s)' = Still(s) /\ Sparing(s)' = Sparing(s)
           /\ Holding(s) => Holding(s)'
           /\ Gone(s) /\ Informed(s) => Informed(s)'
           /\ listed'[scopes[s].serial] = listed[scopes[s].serial] =>
                  Informed(s)' = Informed(s)
<1>1. Live(s)' = Live(s) /\ Up(s)' = Up(s) /\ Stopping(s)' = Stopping(s)
  BY SameWorkersMeans
<1>2. Gone(s)' = Gone(s) /\ Still(s)' = Still(s)
  BY <1>1 DEF Gone, Still
<1>3. Holding(s) => Holding(s)'
  BY DEF SameWorkers, Holding
<1>4. Sparing(s)' = Sparing(s)
  BY <1>1 DEF Sparing
<1>5. Gone(s) /\ Informed(s) => Informed(s)'
  BY DEF Gone, Informed
<1>6. listed'[scopes[s].serial] = listed[scopes[s].serial] => Informed(s)' = Informed(s)
  BY DEF Informed
<1> QED BY <1>2, <1>3, <1>4, <1>5, <1>6

\* A step of one scope that has work to do.
LEMMA OneScopeStep ==
    ASSUME AllGood, NEW s \in DOMAIN scopes, ~Gone(s), TypeOK,
           DOMAIN scopes' = DOMAIN scopes, scopes'[s].serial = scopes[s].serial,
           \A t \in DOMAIN scopes \ {s} : scopes'[t] = scopes[t] /\ SameWorkers(t),
           \A d \in Serials \ {scopes[s].serial} : listed'[d] = listed[d],
           \A w \in DOMAIN workers' : workers'[w].scope \in DOMAIN scopes,
           Good(s)',
           \A v, w \in DOMAIN workers' :
               Alive(v)' /\ Alive(w)' /\ workers'[v].scope = s /\ workers'[w].scope = s => v = w
    PROVE  AllGood'
<1>0. \A t \in DOMAIN scopes : scopes[t].serial \in Serials /\ t \in Nat
  BY ScopeIsTyped, TypeOKMeans, LenProperties DEF AllScopes
<1>1. \A t \in DOMAIN scopes \ {s} : Gone(t)' = Gone(t)
  BY Untouched
<1>2. \A t \in DOMAIN scopes \ {s} : scopes[t].serial = scopes[s].serial => Gone(t)
  BY <1>0 DEF AllGood, OlderAreGone
<1>3. ASSUME NEW t \in DOMAIN scopes \ {s} PROVE Good(t)'
  <2>1. scopes'[t] = scopes[t] /\ SameWorkers(t) /\ Good(t)
    BY DEF AllGood
  <2>2. Still(t)' /\ Sparing(t)' /\ Holding(t)'
    BY <2>1, Untouched DEF Good
  <2>3. Informed(t)'
    <3>1. CASE scopes[t].serial = scopes[s].serial
      BY <1>2, <2>1, <3>1, Untouched DEF Good
    <3>2. CASE scopes[t].serial # scopes[s].serial
      BY <1>0, <2>1, <3>2, Untouched DEF Good
    <3> QED BY <3>1, <3>2
  <2> QED BY <2>2, <2>3 DEF Good
<1>4. OlderAreGone'
  <2> SUFFICES ASSUME NEW t \in DOMAIN scopes, NEW u \in DOMAIN scopes, t < u,
                      scopes'[t].serial = scopes'[u].serial
               PROVE  Gone(t)'
    BY DEF OlderAreGone
  <2>1. scopes[t].serial = scopes[u].serial
    OBVIOUS
  <2>2. Gone(t)
    BY <2>1 DEF AllGood, OlderAreGone
  <2> QED BY <1>1, <2>2
<1>5. OnePerScope'
  <2> SUFFICES ASSUME NEW v \in DOMAIN workers', NEW w \in DOMAIN workers',
                      Alive(v)', Alive(w)', workers'[v].scope = workers'[w].scope
               PROVE  v = w
    BY DEF OnePerScope
  <2>1. CASE workers'[v].scope # s
    <3>1. SameWorkers(workers'[v].scope)
      BY <2>1
    <3>2. /\ v \in DOMAIN workers /\ w \in DOMAIN workers /\ Alive(v) /\ Alive(w)
          /\ workers[v].scope = workers[w].scope
      BY <3>1 DEF SameWorkers, Alive
    <3> QED BY <3>2 DEF AllGood, OnePerScope
  <2> QED BY <2>1
<1> QED BY <1>3, <1>4, <1>5 DEF AllGood

\* A scope with work to do is the only one of its device that has.
LEMMA Others ==
    ASSUME AllGood, TypeOK, NEW s \in DOMAIN scopes, ~Gone(s),
           NEW t \in DOMAIN scopes \ {s}, scopes[t].serial = scopes[s].serial
    PROVE  Gone(t)
<1>1. s \in Nat /\ t \in Nat
  BY TypeOKMeans, LenProperties
<1> QED BY <1>1 DEF AllGood, OlderAreGone

LEMMA OneEvent ==
    ASSUME NEW q \in {<<>>, <<"check">>, <<"device">>, <<"offline">>, <<"remove">>}, q # <<>>
    PROVE  q = <<Head(q)>> /\ Tail(q) = <<>>
<1>1. ASSUME NEW e \in Events PROVE Head(<<e>>) = e /\ Tail(<<e>>) = <<>>
  <2> DEFINE r == <<e>>
  <2>1. r \in Seq(Events) /\ Len(r) = 1 /\ r[1] = e /\ r # <<>>
    OBVIOUS
  <2>2. Head(r) = r[1] /\ Tail(r) \in Seq(Events) /\ Len(Tail(r)) = 0
    <3> HIDE DEF r
    <3> QED BY <2>1, HeadTailProperties
  <2>3. Tail(r) = <<>>
    <3> HIDE DEF r
    <3> QED BY <2>2, EmptySeq
  <2> QED BY <2>1, <2>2, <2>3
<1>2. PICK e \in Events : q = <<e>>
  BY DEF Events, Types
<1> QED BY <1>1, <1>2

LEMMA ScopeOnlyStep ==
    ASSUME AllGood, TypeOK, NEW s \in DOMAIN scopes, ~Gone(s), workers' = workers,
           DOMAIN scopes' = DOMAIN scopes, scopes'[s].serial = scopes[s].serial,
           \A t \in DOMAIN scopes \ {s} : scopes'[t] = scopes[t],
           \A d \in Serials \ {scopes[s].serial} : listed'[d] = listed[d],
           Good(s)'
    PROVE  AllGood'
<1>1. \A t : SameWorkers(t)
  BY DEF SameWorkers
<1>2. \A w \in DOMAIN workers' : workers'[w].scope \in DOMAIN scopes
  BY WorkerIsTyped DEF AllWorkers
<1>3. \A v, w \in DOMAIN workers' :
          Alive(v)' /\ Alive(w)' /\ workers'[v].scope = s /\ workers'[w].scope = s => v = w
  BY DEF AllGood, OnePerScope, Alive
<1> QED BY <1>1, <1>2, <1>3, OneScopeStep

\* The device has settled: its scopes have nothing to do, but for a worker.
LEMMA SettledMeans ==
    ASSUME TypeOK, AllGood, NEW d \in Serials, Settled(d),
           NEW s \in DOMAIN scopes, scopes[s].serial = d
    PROVE  /\ scopes[s].registered /\ scopes[s].todo = <<>>
           /\ scopes[s].timer = "none" /\ scopes[s].delays = 0 /\ ~Stopping(s)
           /\ scopes[s].present => listed[d] = scopes[s].type
           /\ ~scopes[s].present => Gone(s)
<1>1. /\ scopes[s].registered /\ scopes[s].todo = <<>>
      /\ scopes[s].timer = "none" /\ scopes[s].delays = 0
  BY DEF Settled
<1>2. ~Stopping(s)
  BY DEF Settled, WorkersOf, Stopping
<1>3. scopes[s].present => listed[d] = scopes[s].type
  BY <1>1 DEF AllGood, Good, Informed
<1>4. ~scopes[s].present => Gone(s)
  BY <1>1, <1>2, LiveMeans DEF AllGood, Good, Still, Gone
<1> QED BY <1>1, <1>2, <1>3, <1>4

LEMMA ToldGood ==
    ASSUME TypeOK, AllGood, NEW d \in Serials, Settled(d),
           NEW e \in {"device", "offline", "remove"}, NEW type \in Types \cup {"none"},
           listed' = [listed EXCEPT ![d] = type], listed[d] # type,
           IF e = "remove" THEN type = "none" ELSE type = e,
           scopes' = Told(d, e), workers' = workers
    PROVE  AllGood'
<1>0. /\ DOMAIN scopes' = DOMAIN scopes
      /\ \A s \in DOMAIN scopes :
             scopes'[s] = IF scopes[s].serial = d /\ scopes[s].present
                          THEN [scopes[s] EXCEPT !.todo = Append(@, e)]
                          ELSE scopes[s]
  BY ToldIsTyped DEF Events, Types
<1>1. listed'[d] = type /\ \A c \in Serials \ {d} : listed'[c] = listed[c]
  BY TypeOKMeans
<1>2. ASSUME NEW s \in DOMAIN scopes, scopes[s].serial = d, scopes[s].present
      PROVE  AllGood'
  <2>1. ~Gone(s)
    BY <1>2 DEF Gone
  <2>2. \A t \in DOMAIN scopes \ {s} : scopes'[t] = scopes[t]
    BY <1>0, <1>2, <2>1, Others DEF Gone
  <2>3. /\ scopes[s].registered /\ scopes[s].todo = <<>> /\ scopes[s].timer = "none"
        /\ scopes[s].delays = 0 /\ ~Stopping(s) /\ listed[d] = scopes[s].type
    BY <1>2, SettledMeans
  <2>4. scopes[s] \in AllScopes
    BY ScopeIsTyped
  <2>5. Append(<<>>, e) = <<e>>
    OBVIOUS
  <2>6. scopes'[s] = [scopes[s] EXCEPT !.todo = <<e>>]
    BY <1>0, <1>2, <2>3, <2>5
  <2>7. /\ scopes'[s].todo = <<e>> /\ scopes'[s].serial = d /\ scopes'[s].present
        /\ scopes'[s].type = scopes[s].type /\ scopes'[s].registered
        /\ scopes'[s].timer = "none" /\ scopes'[s].delays = 0
        /\ scopes'[s].willStop = scopes[s].willStop
        /\ scopes'[s].worker = scopes[s].worker
    BY <1>2, <2>3, <2>4, <2>6 DEF AllScopes
  <2>8. SameWorkers(s)
    BY DEF SameWorkers
  <2>9. Live(s)' = Live(s) /\ Up(s)' = Up(s) /\ Stopping(s)' = Stopping(s)
    BY <2>8, SameWorkersMeans
  <2>10. /\ <<e>> \in {<<>>, <<"check">>, <<"device">>, <<"offline">>, <<"remove">>}
         /\ <<e>> # <<>> /\ <<e>> # <<"check">>
         /\ \A f \in Types \cup {"remove"} : <<e>> = <<f>> => e = f
    OBVIOUS
  <2>11. scopes[s].willStop = (scopes[s].type # "device")
    <3>1. Informed(s)
      BY DEF AllGood, Good
    <3>2. <<>> # <<"check">>
      OBVIOUS
    <3>3. scopes[s].willStop = (~scopes[s].present \/ scopes[s].type # "device")
      BY <2>3, <3>1, <3>2, Zenon DEF Informed
    <3> QED BY <1>2, <3>3, Zenon
  <2>12. Informed(s)'
    BY <1>1, <2>3, <2>7, <2>10, <2>11 DEF Informed, Types
  <2>13. Still(s)'
    BY <2>3, <2>7, <2>9, <2>10 DEF Still
  <2>14. Sparing(s)'
    BY <2>3, <2>7, <2>9 DEF AllGood, Good, Sparing
  <2>15. Good(s)'
    <3>1. Holding(s)'
      BY <2>7 DEF AllGood, Good, Holding
    <3> QED BY <2>12, <2>13, <2>14, <3>1 DEF Good
  <2> QED BY <1>0, <1>1, <1>2, <2>1, <2>2, <2>7, <2>15, ScopeOnlyStep
<1>3. ASSUME \A s \in DOMAIN scopes : scopes[s].serial = d => ~scopes[s].present
      PROVE  AllGood'
  <2>1. \A s \in DOMAIN scopes : scopes'[s] = scopes[s] /\ SameWorkers(s)
    BY <1>0, <1>3 DEF SameWorkers
  <2>2. \A s \in DOMAIN scopes : scopes[s].serial = d => Gone(s)
    BY <1>3, SettledMeans
  <2>3. \A s \in DOMAIN scopes : scopes[s].serial \in Serials
    BY ScopeIsTyped DEF AllScopes
  <2>4. \A s \in DOMAIN scopes : Good(s)' /\ Gone(s)' = Gone(s)
    BY <1>1, <2>1, <2>2, <2>3, Untouched DEF AllGood, Good
  <2>5. OlderAreGone'
    BY <1>0, <2>1, <2>4 DEF AllGood, OlderAreGone
  <2>6. OnePerScope'
    BY DEF AllGood, OnePerScope, Alive
  <2> QED BY <1>0, <2>4, <2>5, <2>6 DEF AllGood
<1> QED BY <1>2, <1>3

LEMMA AddGood ==
    ASSUME TypeOK, AllGood, NEW d \in Serials, NEW type \in Types, Settled(d), Add(d, type)
    PROVE  AllGood'
<1>1. PICK n \in Nat \ {0} :
          /\ n \notin DOMAIN scopes
          /\ scopes' \in Seq(AllScopes) /\ DOMAIN scopes' = DOMAIN scopes \cup {n}
          /\ scopes'[n] = Scope(d, type)
          /\ \A s \in DOMAIN scopes : scopes'[s] = scopes[s] /\ s # n
          /\ workers' \in Seq(AllWorkers') /\ UNCHANGED <<workers, ports, calm>>
          /\ listed' = [listed EXCEPT ![d] = type]
  BY AddIsTyped
<1>2. listed[d] = "none" /\ listed'[d] = type /\ \A c \in Serials \ {d} : listed'[c] = listed[c]
  BY <1>1, TypeOKMeans DEF Add
<1>3. \A s \in DOMAIN scopes : scopes[s].serial \in Serials /\ scopes[s].type \in Types
  BY ScopeIsTyped DEF AllScopes
<1>4. \A s \in DOMAIN scopes : scopes[s].serial = d => Gone(s)
  BY <1>2, <1>3, SettledMeans DEF Types
<1>5. \A s : SameWorkers(s)
  BY <1>1 DEF SameWorkers
<1>6. \A s \in DOMAIN scopes : Good(s)' /\ Gone(s)' = Gone(s)
  BY <1>1, <1>2, <1>3, <1>4, <1>5, Untouched DEF AllGood, Good
<1>7. \A w \in DOMAIN workers' : workers'[w].scope # n
  BY <1>1, WorkerIsTyped DEF AllWorkers
<1>8. Good(n)'
  <2>1. ~Live(n)' /\ ~Up(n)' /\ ~Stopping(n)'
    BY <1>7 DEF Live, Up, Stopping
  <2>2. /\ scopes'[n].todo = <<"check">> /\ scopes'[n].serial = d /\ scopes'[n].present
        /\ scopes'[n].type = type /\ scopes'[n].timer = "none" /\ scopes'[n].delays = 0
    BY <1>1 DEF Scope
  <2>3. <<"check">> # <<>> /\ <<"check">> # <<"remove">> /\ \A f \in Types : <<"check">> # <<f>>
    BY DEF Types
  <2>4. Informed(n)'
    BY <1>2, <2>2, <2>3 DEF Informed
  <2>5. Holding(n)'
    BY <1>1, <1>7 DEF Scope, Holding
  <2> QED BY <2>1, <2>2, <2>4, <2>5 DEF Good, Still, Sparing
<1>9. OlderAreGone'
  <2> SUFFICES ASSUME NEW s \in DOMAIN scopes', NEW t \in DOMAIN scopes', s < t,
                      scopes'[s].serial = scopes'[t].serial
               PROVE  Gone(s)'
    BY DEF OlderAreGone
  <2>1. \A u \in DOMAIN scopes' : u <= n /\ u \in Nat
    <3>1. DOMAIN scopes' = 1 .. Len(scopes') /\ DOMAIN scopes = 1 .. Len(scopes)
          /\ Len(scopes') \in Nat /\ Len(scopes) \in Nat
      BY <1>1, TypeOKMeans, LenProperties
    <3>2. n \in 1 .. Len(scopes') /\ n \notin 1 .. Len(scopes)
      BY <1>1, <3>1
    <3>3. Len(scopes') <= n
      <4>1. SUFFICES ASSUME Len(scopes') > n PROVE FALSE
        BY <3>1
      <4>2. n + 1 \in 1 .. Len(scopes')
        BY <3>1, <4>1
      <4>3. n + 1 \in 1 .. Len(scopes)
        BY <1>1, <3>1, <4>2
      <4> QED BY <3>1, <3>2, <4>3
    <3> QED BY <3>1, <3>3
  <2>2. s # n /\ s \in DOMAIN scopes
    BY <1>1, <2>1
  <2>3. CASE t = n
    BY <1>1, <1>4, <1>6, <2>2, <2>3 DEF Scope
  <2>4. CASE t # n
    BY <1>1, <1>6, <2>2, <2>4 DEF AllGood, OlderAreGone
  <2> QED BY <2>3, <2>4
<1>10. OnePerScope'
  BY <1>1 DEF AllGood, OnePerScope, Alive
<1> QED BY <1>1, <1>6, <1>8, <1>9, <1>10 DEF AllGood

LEMMA RegisteredGood ==
    ASSUME TypeOK, AllGood, NEW s \in DOMAIN scopes, ~scopes[s].registered,
           DOMAIN scopes' = DOMAIN scopes,
           scopes'[s] = [scopes[s] EXCEPT !.registered = TRUE],
           \A t \in DOMAIN scopes \ {s} : scopes'[t] = scopes[t],
           UNCHANGED <<listed, workers>>
    PROVE  AllGood'
<1>1. ~Gone(s)
  BY DEF Gone
<1>2. scopes[s] \in AllScopes
  BY ScopeIsTyped
<1>3. /\ scopes'[s].registered /\ scopes'[s].serial = scopes[s].serial
      /\ scopes'[s].type = scopes[s].type /\ scopes'[s].present = scopes[s].present
      /\ scopes'[s].todo = scopes[s].todo /\ scopes'[s].willStop = scopes[s].willStop
      /\ scopes'[s].timer = scopes[s].timer /\ scopes'[s].delays = scopes[s].delays
      /\ scopes'[s].worker = scopes[s].worker
  BY <1>2 DEF AllScopes
<1>4. SameWorkers(s)
  BY DEF SameWorkers
<1>5. Live(s)' = Live(s) /\ Up(s)' = Up(s) /\ Stopping(s)' = Stopping(s)
  BY <1>4, SameWorkersMeans
<1>6. Informed(s)'
  BY <1>3 DEF AllGood, Good, Informed
<1>7. Still(s)' /\ Sparing(s)'
  BY <1>3, <1>5 DEF AllGood, Good, Still, Sparing
<1>8. Holding(s)'
  BY <1>3 DEF AllGood, Good, Holding
<1> QED BY <1>1, <1>3, <1>6, <1>7, <1>8, ScopeOnlyStep DEF Good

LEMMA RegisterGood ==
    ASSUME TypeOK, AllGood, NEW d \in Serials, Register(d)
    PROVE  AllGood'
<1>0. /\ DOMAIN scopes' = DOMAIN scopes
      /\ \A t \in DOMAIN scopes :
             scopes'[t] = IF scopes[t].serial = d
                          THEN [scopes[t] EXCEPT !.registered = TRUE]
                          ELSE scopes[t]
  BY RegisterIsTyped
<1>1. PICK s \in DOMAIN scopes : scopes[s].serial = d /\ ~scopes[s].registered
  BY DEF Register
<1>2. ~Gone(s)
  BY <1>1 DEF Gone
<1>3. ASSUME NEW t \in DOMAIN scopes \ {s} PROVE scopes'[t] = scopes[t]
  <2>1. CASE scopes[t].serial = d
    <3>1. scopes[t].registered /\ scopes[t] \in AllScopes
      BY <1>1, <1>2, <2>1, Others, ScopeIsTyped DEF Gone
    <3>2. [scopes[t] EXCEPT !.registered = TRUE] = scopes[t]
      BY <3>1 DEF AllScopes
    <3> QED BY <1>0, <2>1, <3>2
  <2>2. CASE scopes[t].serial # d
    BY <1>0, <2>2
  <2> QED BY <2>1, <2>2
<1>4. UNCHANGED <<listed, workers>>
  BY DEF Register
<1> QED BY <1>0, <1>1, <1>3, <1>4, RegisteredGood

\* check, of a scope that is registered: what its one event told.
LEMMA CheckGood ==
    ASSUME TypeOK, AllGood, NEW s \in DOMAIN scopes, NEW type \in Types,
           scopes[s].registered, scopes[s].present,
           \/ scopes[s].todo = <<"check">> /\ type = scopes[s].type
           \/ scopes[s].todo = <<type>>,
           scopes' = [scopes EXCEPT ![s] = Checked([scopes[s] EXCEPT !.type = type])],
           UNCHANGED <<listed, workers>>
    PROVE  AllGood'
<1> DEFINE x == [scopes[s] EXCEPT !.type = type]
<1>1. scopes[s] \in AllScopes /\ scopes[s].todo # <<>>
  BY ScopeIsTyped
<1>2. /\ x \in AllScopes /\ x.todo = scopes[s].todo /\ x.type = type /\ x.present
      /\ x.registered /\ x.delays = scopes[s].delays /\ x.serial = scopes[s].serial
      /\ x.worker = scopes[s].worker
  BY <1>1 DEF AllScopes
<1> HIDE DEF x
<1>3. Tail(scopes[s].todo) = <<>>
  BY <1>1, OneEvent DEF AllGood, Good, Informed
<1>4. /\ DOMAIN scopes' = DOMAIN scopes
      /\ \A t \in DOMAIN scopes : scopes'[t] = IF t = s THEN Checked(x) ELSE scopes[t]
  BY <1>1, <1>2, CheckIsTyped DEF x
<1>5. /\ scopes'[s].registered /\ scopes'[s].serial = scopes[s].serial
      /\ scopes'[s].type = type /\ scopes'[s].present /\ scopes'[s].todo = <<>>
      /\ scopes'[s].willStop = (type # "device") /\ scopes'[s].delays = scopes[s].delays
      /\ scopes'[s].worker = scopes[s].worker
      /\ type = "device" => scopes'[s].timer = "work"
      /\ type = "offline" => scopes'[s].timer = "stop"
  <2> DEFINE y == Checked(x)
  <2>1. /\ y.serial = x.serial /\ y.type = x.type /\ y.present = x.present
        /\ y.registered = x.registered /\ y.worker = x.worker /\ y.delays = x.delays
        /\ y.todo = Tail(x.todo) /\ y.willStop = (~x.present \/ x.type # "device")
        /\ x.present /\ x.type = "device" => y.timer = "work"
        /\ x.present /\ x.type = "offline" => y.timer = "stop"
    BY <1>1, <1>2, CheckedIsTyped
  <2>2. scopes'[s] = y
    BY <1>4
  <2> HIDE DEF y
  <2>3. y.willStop = (type # "device")
    BY <1>2, <2>1, Zenon
  <2> QED BY <1>2, <1>3, <2>1, <2>2, <2>3
<1>6. ~Gone(s) /\ SameWorkers(s)
  BY <1>1 DEF Gone, SameWorkers
<1>7. Live(s)' = Live(s) /\ Up(s)' = Up(s) /\ Stopping(s)' = Stopping(s)
  BY <1>6, SameWorkersMeans
<1>8. listed[scopes[s].serial] = type /\ scopes[s].delays = 0 /\ ~Stopping(s)
  BY <1>1 DEF AllGood, Good, Informed, Still
<1>9. type = "device" => ~Live(s)
  <2>1. scopes[s].todo = <<"check">> => ~Live(s)
    BY DEF AllGood, Good, Still
  <2>2. ASSUME scopes[s].todo = <<type>>, type = "device" PROVE ~Live(s)
    <3>1. scopes[s].type = "offline"
      BY <1>1, <2>2 DEF AllGood, Good, Informed, AllScopes, Types
    <3>2. scopes[s].timer = "none"
      BY <1>1 DEF AllGood, Good, Still
    <3>3. ~Up(s)
      BY <3>1, <3>2 DEF AllGood, Good, Sparing
    <3> QED BY <1>8, <3>3, LiveMeans
  <2> QED BY <2>1, <2>2
<1>10. Informed(s)'
  <2>1. <<>> # <<"check">> /\ <<>> # <<"remove">> /\ \A e \in Types : <<>> # <<e>>
    OBVIOUS
  <2>2. scopes'[s].willStop = (~scopes'[s].present \/ scopes'[s].type # "device")
    BY <1>5, Zenon
  <2>3. listed'[scopes'[s].serial] = scopes'[s].type
    BY <1>5, <1>8
  <2> QED BY <1>5, <2>1, <2>2, <2>3 DEF Informed
<1>11. Still(s)'
  <2>1. <<>> # <<"check">>
    OBVIOUS
  <2> QED BY <1>5, <2>1 DEF Still
<1>12. Sparing(s)'
  BY <1>5, <1>7, <1>8, <1>9 DEF AllGood, Good, Sparing, Types
<1>13. Holding(s)'
  BY <1>5 DEF AllGood, Good, Holding
<1> QED BY <1>4, <1>5, <1>6, <1>10, <1>11, <1>12, <1>13, ScopeOnlyStep DEF Good

\* promise.stop, for a scope's worker.
LEMMA StoppedMeans ==
    ASSUME TypeOK, AllGood, NEW s \in DOMAIN scopes, workers' = Stopped(scopes[s].worker)
    PROVE  /\ ~Up(s)' /\ Live(s)' = Live(s) /\ Holding(s) /\ DOMAIN workers' = DOMAIN workers
           /\ \A w \in DOMAIN workers :
                  workers'[w].scope = workers[w].scope /\ Alive(w)' = Alive(w)
           /\ \A t \in DOMAIN scopes \ {s} : SameWorkers(t)
<1>1. scopes[s].worker \in Nat
  BY ScopeIsTyped DEF AllScopes
<1>2. /\ DOMAIN workers' = DOMAIN workers
      /\ \A w \in DOMAIN workers :
             /\ workers'[w].scope = workers[w].scope
             /\ workers'[w].state = IF w = scopes[s].worker /\ w # None /\ workers[w].state = "up"
                                    THEN "stopping" ELSE workers[w].state
  BY <1>1, StoppedIsTyped
<1>3. Holding(s)
  BY DEF AllGood, Good
<1>4. \A w \in DOMAIN workers : w # None
  BY TypeOKMeans, LenProperties DEF None
<1>5. ~Up(s)'
  BY <1>2, <1>3, <1>4 DEF Holding, Up
<1>6. \A w \in DOMAIN workers : Alive(w)' = Alive(w)
  BY <1>2 DEF Alive
<1>7. Live(s)' = Live(s)
  BY <1>2, <1>6 DEF Live
<1>8. \A t \in DOMAIN scopes \ {s} : SameWorkers(t)
  BY <1>2, <1>3 DEF SameWorkers, Holding
<1> QED BY <1>2, <1>3, <1>5, <1>6, <1>7, <1>8

LEMMA StopStep ==
    ASSUME TypeOK, AllGood, NEW s \in DOMAIN scopes, workers' = Stopped(scopes[s].worker),
           DOMAIN scopes' = DOMAIN scopes, scopes'[s].serial = scopes[s].serial,
           scopes'[s].worker = scopes[s].worker, ~Gone(s), listed' = listed,
           \A t \in DOMAIN scopes \ {s} : scopes'[t] = scopes[t],
           Informed(s)', Still(s)', Sparing(s)'
    PROVE  AllGood'
<1>1. /\ ~Up(s)' /\ Holding(s) /\ DOMAIN workers' = DOMAIN workers
      /\ \A w \in DOMAIN workers :
             workers'[w].scope = workers[w].scope /\ Alive(w)' = Alive(w)
      /\ \A t \in DOMAIN scopes \ {s} : SameWorkers(t)
  BY StoppedMeans
<1>2. Holding(s)'
  BY <1>1 DEF Holding, Up
<1>3. \A w \in DOMAIN workers' : workers'[w].scope \in DOMAIN scopes
  BY <1>1, WorkerIsTyped DEF AllWorkers
<1>4. \A v, w \in DOMAIN workers' :
          Alive(v)' /\ Alive(w)' /\ workers'[v].scope = s /\ workers'[w].scope = s => v = w
  BY <1>1 DEF AllGood, OnePerScope
<1> QED BY <1>1, <1>2, <1>3, <1>4, OneScopeStep DEF Good

LEMMA RemovedGood ==
    ASSUME TypeOK, AllGood, NEW s \in DOMAIN scopes, Removed(s)
    PROVE  AllGood'
<1> DEFINE x == [scopes[s] EXCEPT !.present = FALSE]
<1>1. scopes[s] \in AllScopes /\ scopes[s].registered /\ scopes[s].todo # <<>>
      /\ Head(scopes[s].todo) = "remove"
  BY ScopeIsTyped DEF Removed, Todo
<1>2. scopes[s].todo = <<"remove">> /\ Tail(scopes[s].todo) = <<>>
  BY <1>1, OneEvent DEF AllGood, Good, Informed
<1>3. scopes' = [scopes EXCEPT ![s] = Checked(x)]
  BY DEF Removed
<1>4. /\ x \in AllScopes /\ x.todo = scopes[s].todo /\ ~x.present /\ x.type = scopes[s].type
      /\ x.registered /\ x.delays = scopes[s].delays /\ x.serial = scopes[s].serial
      /\ x.worker = scopes[s].worker
  BY <1>1 DEF AllScopes
<1> HIDE DEF x
<1>5. /\ DOMAIN scopes' = DOMAIN scopes
      /\ \A t \in DOMAIN scopes : scopes'[t] = IF t = s THEN Checked(x) ELSE scopes[t]
  BY <1>1, <1>3, <1>4, CheckIsTyped
<1>6. /\ scopes'[s].registered /\ scopes'[s].serial = scopes[s].serial
      /\ ~scopes'[s].present /\ scopes'[s].todo = <<>> /\ scopes'[s].willStop = TRUE
      /\ scopes'[s].delays = scopes[s].delays /\ scopes'[s].worker = scopes[s].worker
      /\ scopes'[s].timer = "none"
  <2> DEFINE y == Checked(x)
  <2>1. /\ y.serial = x.serial /\ y.present = x.present
        /\ y.registered = x.registered /\ y.worker = x.worker /\ y.delays = x.delays
        /\ y.todo = Tail(x.todo) /\ y.willStop = (~x.present \/ x.type # "device")
        /\ ~x.present => y.timer = "none"
    BY <1>1, <1>4, CheckedIsTyped
  <2>2. scopes'[s] = y
    BY <1>5
  <2> HIDE DEF y
  <2>3. y.willStop = TRUE
    BY <1>4, <2>1, Zenon
  <2> QED BY <1>2, <1>4, <2>1, <2>2, <2>3
<1>7. workers' = Stopped(scopes[s].worker) /\ UNCHANGED <<listed, ports, calm>>
  BY DEF Removed
<1>8. ~Gone(s) /\ scopes[s].delays = 0 /\ ~Up(s)' /\ <<>> # <<"check">>
  BY <1>1, <1>7, StoppedMeans DEF Gone, AllGood, Good, Still
<1>9. Informed(s)'
  <2>1. <<>> # <<"check">> /\ <<>> # <<"remove">> /\ \A e \in Types : <<>> # <<e>>
    OBVIOUS
  <2>2. scopes'[s].willStop = (~scopes'[s].present \/ scopes'[s].type # "device")
    BY <1>6, Zenon
  <2> QED BY <1>6, <2>1, <2>2 DEF Informed
<1>10. Still(s)' /\ Sparing(s)'
  BY <1>6, <1>8 DEF Still, Sparing
<1> QED BY <1>5, <1>6, <1>7, <1>8, <1>9, <1>10, StopStep

LEMMA StopTimerGood ==
    ASSUME TypeOK, AllGood, NEW s \in DOMAIN scopes, StopTimer(s)
    PROVE  AllGood'
<1> DEFINE x == [scopes[s] EXCEPT !.timer = "none"]
<1>1. scopes[s] \in AllScopes /\ scopes[s].timer = "stop"
  BY ScopeIsTyped DEF StopTimer
<1>2. x \in AllScopes
  BY <1>1 DEF AllScopes
<1>3. /\ DOMAIN scopes' = DOMAIN scopes
      /\ \A t \in DOMAIN scopes : scopes'[t] = IF t = s THEN x ELSE scopes[t]
  <2>1. scopes' = [scopes EXCEPT ![s] = x]
    BY DEF StopTimer
  <2> HIDE DEF x
  <2> QED BY <1>2, <2>1, ScopeReplaced
<1>4. /\ scopes'[s].registered = scopes[s].registered /\ scopes'[s].serial = scopes[s].serial
      /\ scopes'[s].type = scopes[s].type /\ scopes'[s].present = scopes[s].present
      /\ scopes'[s].todo = scopes[s].todo /\ scopes'[s].willStop = scopes[s].willStop
      /\ scopes'[s].timer = "none" /\ scopes'[s].delays = scopes[s].delays
      /\ scopes'[s].worker = scopes[s].worker
  BY <1>1, <1>3 DEF AllScopes
<1>5. workers' = Stopped(scopes[s].worker) /\ UNCHANGED <<listed, ports, calm>>
  BY DEF StopTimer
<1>6. ~Gone(s) /\ scopes[s].todo = <<>> /\ scopes[s].present /\ ~Up(s)'
      /\ Live(s)' = Live(s)
  BY <1>1, <1>5, StoppedMeans DEF Gone, AllGood, Good, Still
<1>7. Informed(s)'
  BY <1>4, <1>5 DEF AllGood, Good, Informed
<1>8. Still(s)' /\ Sparing(s)'
  <2>1. <<>> # <<"check">>
    OBVIOUS
  <2> QED BY <1>4, <1>6, <2>1 DEF AllGood, Good, Still, Sparing
<1> QED BY <1>3, <1>4, <1>5, <1>6, <1>7, <1>8, StopStep

\* The device of a scope that is about to spawn has no other live worker.
LEMMA SpawnGood ==
    ASSUME TypeOK, AllGood, NEW s \in DOMAIN scopes, NEW x \in AllScopes, Spawn(s, x),
           ~Live(s), scopes[s].type = "device", scopes[s].todo = <<>>, scopes[s].present,
           x.registered = scopes[s].registered, x.serial = scopes[s].serial,
           x.type = "device", x.present, x.todo = <<>>,
           x.willStop = scopes[s].willStop, x.timer = "none", x.delays = 0, ~Gone(s)
    PROVE  AllGood'
<1>0. PICK n \in Nat \ {0}, g \in PortGroups \cup {NoPorts} : SpawnedAs(s, x, n, g)
  BY Spawned
<1>1. /\ n \notin DOMAIN workers
      /\ DOMAIN workers' = DOMAIN workers \cup {n}
      /\ \A w \in DOMAIN workers : workers'[w] = workers[w]
      /\ workers'[n].state = "up" /\ workers'[n].scope = s
      /\ DOMAIN scopes' = DOMAIN scopes
      /\ \A t \in DOMAIN scopes :
             scopes'[t] = IF t = s THEN [x EXCEPT !.worker = n] ELSE scopes[t]
      /\ listed' = listed
  BY <1>0 DEF SpawnedAs
<1>2. /\ scopes'[s].registered = scopes[s].registered /\ scopes'[s].serial = scopes[s].serial
      /\ scopes'[s].type = "device" /\ scopes'[s].present /\ scopes'[s].todo = <<>>
      /\ scopes'[s].willStop = scopes[s].willStop /\ scopes'[s].timer = "none"
      /\ scopes'[s].delays = 0 /\ scopes'[s].worker = n
  BY <1>1 DEF AllScopes
<1>3. \A t \in DOMAIN scopes \ {s} : SameWorkers(t)
  BY <1>1 DEF SameWorkers
<1>4. \A w \in DOMAIN workers' : workers'[w].scope \in DOMAIN scopes
  BY <1>1, WorkerIsTyped DEF AllWorkers
<1>5. \A w \in DOMAIN workers' : Alive(w)' /\ workers'[w].scope = s => w = n
  BY <1>1 DEF Live, Alive
<1>6. Informed(s)'
  <2>1. <<>> # <<"check">> /\ <<>> # <<"remove">> /\ \A e \in Types : <<>> # <<e>>
    OBVIOUS
  <2>2. Informed(s)
    BY DEF AllGood, Good
  <2>3. scopes[s].willStop = (~scopes[s].present \/ scopes[s].type # "device")
    BY <2>1, <2>2, Zenon DEF Informed
  <2>4. scopes'[s].willStop = (~scopes'[s].present \/ scopes'[s].type # "device")
    BY <1>2, <2>3, Zenon
  <2>5. scopes'[s].registered /\ listed'[scopes'[s].serial] = "device"
    BY <1>1, <1>2, <2>1, <2>2 DEF Informed
  <2> QED BY <1>2, <2>1, <2>4, <2>5 DEF Informed
<1>7. Still(s)' /\ Sparing(s)'
  <2>1. <<>> # <<"check">>
    OBVIOUS
  <2> QED BY <1>2, <2>1 DEF Still, Sparing
<1>8. Holding(s)'
  BY <1>1, <1>2, <1>5 DEF Holding, Alive
<1> QED BY <1>1, <1>2, <1>3, <1>4, <1>5, <1>6, <1>7, <1>8, OneScopeStep DEF Good

\* What a scope is when one of its timers fires.
LEMMA SparingMeans ==
    ASSUME TypeOK, AllGood, Drained, NEW s \in DOMAIN scopes,
           scopes[s].timer = "work" \/ scopes[s].delays > 0
    PROVE  /\ scopes[s] \in AllScopes /\ ~Gone(s) /\ ~Live(s)
           /\ scopes[s].type = "device" /\ scopes[s].todo = <<>> /\ scopes[s].present
           /\ scopes[s].timer = "work" => scopes[s].delays = 0
           /\ scopes[s].delays > 0 => scopes[s].delays = 1 /\ scopes[s].timer = "none"
<1>1. scopes[s] \in AllScopes
  BY ScopeIsTyped
<1>2. scopes[s].delays \in Nat /\ scopes[s].timer \in {"none", "work", "stop"}
  BY <1>1 DEF AllScopes
<1> QED BY <1>1, <1>2 DEF AllGood, Good, Still, Sparing, Gone

LEMMA WorkTimerGood ==
    ASSUME TypeOK, AllGood, NEW s \in DOMAIN scopes, WorkTimer(s)
    PROVE  AllGood'
<1> DEFINE x == [scopes[s] EXCEPT !.timer = "none"]
<1>1. Drained /\ scopes[s].timer = "work" /\ Spawn(s, x)
  BY DEF WorkTimer
<1>2. /\ scopes[s] \in AllScopes /\ ~Gone(s) /\ ~Live(s) /\ scopes[s].delays = 0
      /\ scopes[s].type = "device" /\ scopes[s].todo = <<>> /\ scopes[s].present
  BY <1>1, SparingMeans
<1>3. /\ x \in AllScopes /\ x.registered = scopes[s].registered
      /\ x.serial = scopes[s].serial /\ x.type = "device" /\ x.present /\ x.todo = <<>>
      /\ x.willStop = scopes[s].willStop /\ x.timer = "none" /\ x.delays = 0
  BY <1>2 DEF AllScopes
<1> HIDE DEF x
<1> QED BY <1>1, <1>2, <1>3, SpawnGood

LEMMA RespawnGood ==
    ASSUME TypeOK, AllGood, NEW s \in DOMAIN scopes, Respawn(s)
    PROVE  AllGood'
<1> DEFINE x == [scopes[s] EXCEPT !.delays = @ - 1]
<1>1. Drained /\ scopes[s].delays > 0 /\ Spawn(s, x)
  BY DEF Respawn
<1>2. /\ scopes[s] \in AllScopes /\ ~Gone(s) /\ ~Live(s)
      /\ scopes[s].delays = 1 /\ scopes[s].timer = "none"
      /\ scopes[s].type = "device" /\ scopes[s].todo = <<>> /\ scopes[s].present
  BY <1>1, SparingMeans
<1>3. scopes[s].delays - 1 = 0
  BY <1>2
<1>4. x = [scopes[s] EXCEPT !.delays = 0]
  BY <1>3
<1> HIDE DEF x
<1>5. /\ x \in AllScopes /\ x.registered = scopes[s].registered
      /\ x.serial = scopes[s].serial /\ x.type = "device" /\ x.present /\ x.todo = <<>>
      /\ x.willStop = scopes[s].willStop /\ x.timer = "none" /\ x.delays = 0
  BY <1>2, <1>4 DEF AllScopes
<1> QED BY <1>1, <1>2, <1>5, SpawnGood

\* A live worker of a scope is the only one, and nothing waits for the scope.
LEMMA LiveHas ==
    ASSUME TypeOK, AllGood, Drained, NEW w \in DOMAIN workers, Alive(w),
           NEW s, s = workers[w].scope
    PROVE  /\ s \in DOMAIN scopes /\ scopes[s] \in AllScopes /\ ~Gone(s) /\ Live(s)
           /\ scopes[s].registered /\ scopes[s].todo = <<>>
           /\ scopes[s].timer # "work" /\ scopes[s].delays = 0
           /\ \A v \in DOMAIN workers : Alive(v) /\ workers[v].scope = s => v = w
<1>1. s \in DOMAIN scopes
  BY WorkerIsTyped DEF AllWorkers
<1>2. scopes[s] \in AllScopes
  BY <1>1, ScopeIsTyped
<1>3. Live(s)
  BY DEF Live
<1>4. Good(s)
  BY <1>1 DEF AllGood
<1>5. scopes[s].registered /\ scopes[s].todo = <<>>
  BY <1>1, <1>3, <1>4 DEF Drained, Good, Informed, Still
<1>6. scopes[s].timer # "work" /\ scopes[s].delays = 0
  BY <1>3, <1>4 DEF Good, Sparing
<1>7. \A v \in DOMAIN workers : Alive(v) /\ workers[v].scope = s => v = w
  BY DEF AllGood, OnePerScope
<1> QED BY <1>1, <1>2, <1>3, <1>5, <1>6, <1>7 DEF Gone

\* The only live worker of a scope ends.
LEMMA EndedGood ==
    ASSUME TypeOK, AllGood, Drained, NEW w \in DOMAIN workers, Alive(w),
           NEW s \in DOMAIN scopes, s = workers[w].scope, NEW x \in AllScopes,
           scopes' = [scopes EXCEPT ![s] = x],
           NEW state \in States \ {"up", "stopping"}, Ended(w, state),
           x.serial = scopes[s].serial, x.registered = scopes[s].registered,
           x.type = scopes[s].type, x.present = scopes[s].present,
           x.todo = scopes[s].todo, x.willStop = scopes[s].willStop,
           x.timer = scopes[s].timer, x.worker \in {None, scopes[s].worker},
           \/ x.delays = 0
           \/ x.delays = 1 /\ scopes[s].type = "device" /\ scopes[s].present
    PROVE  AllGood'
<1>1. /\ ~Gone(s) /\ Live(s) /\ scopes[s].registered /\ scopes[s].todo = <<>>
      /\ scopes[s].timer # "work" /\ scopes[s].delays = 0
      /\ \A v \in DOMAIN workers : Alive(v) /\ workers[v].scope = s => v = w
  BY LiveHas
<1>2. /\ DOMAIN scopes' = DOMAIN scopes /\ AllWorkers' = AllWorkers
      /\ \A t \in DOMAIN scopes : scopes'[t] = IF t = s THEN x ELSE scopes[t]
  BY ScopeReplaced
<1>3. /\ DOMAIN workers' = DOMAIN workers
      /\ \A v \in DOMAIN workers :
             /\ workers'[v].scope = workers[v].scope
             /\ workers'[v].state = IF v = w THEN state ELSE workers[v].state
      /\ UNCHANGED <<listed, calm>>
  BY <1>2, EndedIsTyped
<1>4. \A t \in DOMAIN scopes \ {s} : SameWorkers(t)
  BY <1>3 DEF SameWorkers
<1>5. \A v \in DOMAIN workers' : workers'[v].scope = s => ~Alive(v)'
  BY <1>1, <1>3 DEF Alive, States
<1>6. ~Live(s)' /\ ~Up(s)' /\ ~Stopping(s)'
  BY <1>5 DEF Live, Up, Stopping, Alive
<1>7. Informed(s)'
  BY <1>2, <1>3 DEF AllGood, Good, Informed
<1>8. Still(s)'
  <2>1. <<>> # <<"check">>
    OBVIOUS
  <2> QED BY <1>1, <1>2, <1>6, <2>1 DEF AllGood, Good, Still
<1>9. Sparing(s)'
  BY <1>1, <1>2, <1>6 DEF AllGood, Good, Sparing
<1>10. Holding(s)'
  BY <1>2, <1>3, <1>6 DEF AllGood, Good, Holding, Up
<1>11. \A v \in DOMAIN workers' : workers'[v].scope \in DOMAIN scopes
  BY <1>3, WorkerIsTyped DEF AllWorkers
<1> QED BY <1>1, <1>2, <1>3, <1>4, <1>5, <1>7, <1>8, <1>9, <1>10, <1>11, OneScopeStep DEF Good

LEMMA RetireGood ==
    ASSUME TypeOK, AllGood, NEW w \in DOMAIN workers, Retire(w)
    PROVE  AllGood'
<1> DEFINE s == workers[w].scope
           x == [scopes[s] EXCEPT !.worker = None]
<1>1. Drained /\ Alive(w) /\ scopes' = [scopes EXCEPT ![s] = x]
  BY DEF Retire
<1>2. PICK state \in States \ {"up", "stopping"} : Ended(w, state)
  BY DEF Retire, States
<1>3. s \in DOMAIN scopes /\ scopes[s] \in AllScopes /\ scopes[s].delays = 0
  BY <1>1, LiveHas
<1>4. /\ x \in AllScopes /\ x.serial = scopes[s].serial
      /\ x.registered = scopes[s].registered /\ x.type = scopes[s].type
      /\ x.present = scopes[s].present /\ x.todo = scopes[s].todo
      /\ x.willStop = scopes[s].willStop /\ x.timer = scopes[s].timer
      /\ x.worker = None /\ x.delays = 0
  BY <1>3 DEF AllScopes, None
<1> HIDE DEF x
<1> QED BY <1>1, <1>2, <1>3, <1>4, EndedGood

LEMMA CrashGood ==
    ASSUME TypeOK, AllGood, NEW w \in DOMAIN workers, Crash(w)
    PROVE  AllGood'
<1> DEFINE s == workers[w].scope
           n == IF scopes[s].willStop THEN scopes[s].delays ELSE scopes[s].delays + 1
           x == [scopes[s] EXCEPT !.delays = n]
<1>1. Drained /\ Alive(w) /\ workers[w].state = "up" /\ scopes' = [scopes EXCEPT ![s] = x]
  BY DEF Crash, Alive
<1>2. Ended(w, "crashed") /\ "crashed" \in States \ {"up", "stopping"}
  BY DEF Crash, States
<1>3. /\ s \in DOMAIN scopes /\ scopes[s] \in AllScopes /\ scopes[s].delays = 0
      /\ scopes[s].todo = <<>> /\ Good(s)
  BY <1>1, LiveHas DEF AllGood
<1>4. scopes[s].present
  <2>1. Up(s)
    BY <1>1 DEF Up
  <2> QED BY <1>3, <2>1 DEF Good, Still
<1>5. n = 0 \/ (n = 1 /\ scopes[s].type = "device")
  <2>1. <<>> # <<"check">>
    OBVIOUS
  <2>2. scopes[s].willStop = (~scopes[s].present \/ scopes[s].type # "device")
    BY <1>3, <2>1, Zenon DEF Good, Informed
  <2>3. scopes[s].willStop \/ scopes[s].type = "device"
    BY <1>4, <2>2, Zenon
  <2>4. CASE scopes[s].willStop
    BY <1>3, <2>4
  <2>5. CASE ~scopes[s].willStop
    <3>1. n = scopes[s].delays + 1
      BY <2>5
    <3>2. scopes[s].type = "device"
      BY <2>3, <2>5
    <3> HIDE DEF n
    <3> QED BY <1>3, <3>1, <3>2
  <2> QED BY <2>4, <2>5
<1> HIDE DEF n
<1>6. /\ x \in AllScopes /\ x.serial = scopes[s].serial
      /\ x.registered = scopes[s].registered /\ x.type = scopes[s].type
      /\ x.present = scopes[s].present /\ x.todo = scopes[s].todo
      /\ x.willStop = scopes[s].willStop /\ x.timer = scopes[s].timer
      /\ x.worker = scopes[s].worker /\ x.delays = n
  <2>1. n \in Nat
    BY <1>5
  <2> QED BY <1>3, <2>1 DEF AllScopes
<1> HIDE DEF x
<1> QED BY <1>1, <1>2, <1>3, <1>4, <1>5, <1>6, EndedGood

CalmInv == calm => AllGood

LEMMA CalmStays == TypeOK /\ CalmInv /\ [Next]_vars => CalmInv'
<1> SUFFICES ASSUME TypeOK, AllGood, [Next]_vars, calm, calm' PROVE AllGood'
  <2>1. [Next]_vars => calm' = calm
    BY DEF Next, vars, Add, Change, Unlist, Register, RegisterTimeout, Check, Changed,
           Removed, StopTimer, WorkTimer, Respawn, Retire, Crash, Spawn, Ended
  <2> QED BY <2>1 DEF CalmInv
<1>0. \A s \in DOMAIN scopes : scopes[s] \in AllScopes
  BY ScopeIsTyped
<1>1. ASSUME NEW d \in Serials, NEW type \in Types, Add(d, type) PROVE AllGood'
  BY <1>1, AddGood DEF Add, May
<1>2. ASSUME NEW d \in Serials, NEW type \in Types, Change(d, type) PROVE AllGood'
  <2>1. /\ Settled(d) /\ listed[d] # type /\ listed' = [listed EXCEPT ![d] = type]
        /\ scopes' = Told(d, type) /\ workers' = workers
    BY <1>2 DEF Change, May
  <2>2. type \in {"device", "offline", "remove"} /\ type # "remove"
    BY DEF Types
  <2> QED BY <2>1, <2>2, ToldGood
<1>3. ASSUME NEW d \in Serials, Unlist(d) PROVE AllGood'
  <2>1. /\ Settled(d) /\ listed[d] # "none" /\ listed' = [listed EXCEPT ![d] = "none"]
        /\ scopes' = Told(d, "remove") /\ workers' = workers
    BY <1>3 DEF Unlist, May
  <2> QED BY <2>1, ToldGood
<1>4. ASSUME NEW d \in Serials, Register(d) PROVE AllGood'
  BY <1>4, RegisterGood
<1>5. ASSUME NEW s \in DOMAIN scopes, RegisterTimeout(s) PROVE AllGood'
  <2> DEFINE x == [scopes[s] EXCEPT !.registered = TRUE]
  <2>1. x \in AllScopes
    BY <1>0 DEF AllScopes
  <2>2. /\ scopes' = [scopes EXCEPT ![s] = x]
        /\ UNCHANGED <<listed, workers>> /\ ~scopes[s].registered
    BY <1>5 DEF RegisterTimeout
  <2>3. /\ DOMAIN scopes' = DOMAIN scopes
        /\ \A t \in DOMAIN scopes : scopes'[t] = IF t = s THEN x ELSE scopes[t]
    <3> HIDE DEF x
    <3> QED BY <2>1, <2>2, ScopeReplaced
  <2> QED BY <2>2, <2>3, RegisteredGood
<1>6. ASSUME NEW s \in DOMAIN scopes, Check(s) PROVE AllGood'
  <2>1. /\ scopes[s].registered /\ scopes[s].todo # <<>> /\ Head(scopes[s].todo) = "check"
        /\ scopes' = [scopes EXCEPT ![s] = Checked(scopes[s])]
        /\ UNCHANGED <<listed, workers>>
    BY <1>6 DEF Check, Todo
  <2>2. scopes[s].todo = <<"check">> /\ scopes[s].present
    BY <2>1, OneEvent DEF AllGood, Good, Informed, Still
  <2>3. scopes[s].type \in Types /\ [scopes[s] EXCEPT !.type = scopes[s].type] = scopes[s]
    BY <1>0 DEF AllScopes
  <2> QED BY <2>1, <2>2, <2>3, CheckGood
<1>7. ASSUME NEW s \in DOMAIN scopes, NEW type \in Types, Changed(s, type) PROVE AllGood'
  <2>1. /\ scopes[s].registered /\ scopes[s].todo # <<>> /\ Head(scopes[s].todo) = type
        /\ scopes' = [scopes EXCEPT ![s] = Checked([scopes[s] EXCEPT !.type = type])]
        /\ UNCHANGED <<listed, workers>>
    BY <1>7 DEF Changed, Todo
  <2>2. scopes[s].todo = <<type>> /\ scopes[s].present
    BY <2>1, OneEvent DEF AllGood, Good, Informed, Still
  <2> QED BY <2>1, <2>2, CheckGood
<1>8. ASSUME NEW s \in DOMAIN scopes, Removed(s) PROVE AllGood'
  BY <1>8, RemovedGood
<1>9. ASSUME NEW s \in DOMAIN scopes, StopTimer(s) PROVE AllGood'
  BY <1>9, StopTimerGood
<1>10. ASSUME NEW s \in DOMAIN scopes, WorkTimer(s) PROVE AllGood'
  BY <1>10, WorkTimerGood
<1>11. ASSUME NEW s \in DOMAIN scopes, Respawn(s) PROVE AllGood'
  BY <1>11, RespawnGood
<1>12. ASSUME NEW w \in DOMAIN workers, Retire(w) PROVE AllGood'
  BY <1>12, RetireGood
<1>13. ASSUME NEW w \in DOMAIN workers, Crash(w) PROVE AllGood'
  BY <1>13, CrashGood
<1>14. CASE UNCHANGED vars
  <2>1. \A s \in DOMAIN scopes : SameWorkers(s) /\ scopes'[s] = scopes[s]
    BY <1>14 DEF vars, SameWorkers
  <2>2. \A s \in DOMAIN scopes : Good(s)' /\ Gone(s)' = Gone(s)
    BY <1>14, <2>1, Untouched DEF vars, AllGood, Good
  <2>3. OlderAreGone'
    BY <1>14, <2>2 DEF vars, AllGood, OlderAreGone
  <2>4. OnePerScope'
    BY <1>14 DEF vars, AllGood, OnePerScope, Alive
  <2> QED BY <1>14, <2>2, <2>3, <2>4 DEF vars, AllGood
<1> QED
  BY <1>1, <1>2, <1>3, <1>4, <1>5, <1>6, <1>7, <1>8, <1>9, <1>10, <1>11, <1>12, <1>13, <1>14
  DEF Next

LEMMA CalmStarts == Init => CalmInv
<1> SUFFICES ASSUME Init PROVE AllGood
  BY DEF CalmInv
<1>1. DOMAIN scopes = {} /\ DOMAIN workers = {}
  BY EmptySeq DEF Init
<1> QED BY <1>1 DEF AllGood, OlderAreGone, OnePerScope

\* Two live workers of a device are the same.
LEMMA OneLive ==
    ASSUME TypeOK, AllGood, NEW v \in DOMAIN workers, NEW w \in DOMAIN workers,
           Alive(v), Alive(w),
           scopes[workers[v].scope].serial = scopes[workers[w].scope].serial
    PROVE  v = w
<1> DEFINE s == workers[v].scope
           t == workers[w].scope
<1>1. s \in DOMAIN scopes /\ t \in DOMAIN scopes
  BY WorkerIsTyped DEF AllWorkers
<1>2. ~Gone(s) /\ ~Gone(t)
  BY DEF Gone, Live
<1>3. s = t
  BY <1>1, <1>2, Others
<1> QED BY <1>3 DEF AllGood, OnePerScope

LEMMA OneCounted == TypeOK /\ CalmInv => OneWorkerPerDevice
<1> SUFFICES ASSUME TypeOK, AllGood, NEW d \in Serials
             PROVE  Cardinality({w \in WorkersOf(d) : Alive(w)}) <= 1
  BY DEF CalmInv, OneWorkerPerDevice
<1> DEFINE W == {w \in WorkersOf(d) : Alive(w)}
<1>1. \A v, w \in W : v = w
  BY OneLive DEF WorkersOf
<1>2. W = {} \/ \E w : W = {w}
  BY <1>1
<1>3. Cardinality(W) = 0 \/ Cardinality(W) = 1
  BY <1>2, FS_EmptySet, FS_Singleton
<1> QED BY <1>3

\* A device has one worker at a time, if tracker events wait until the device
\* has settled, for any numbers of devices, scopes and workers.
THEOREM OneWorker == Spec => []OneWorkerPerDevice
<1>1. Init => TypeOK /\ CalmInv
  BY InitIsTyped, CalmStarts
<1>2. TypeOK /\ CalmInv /\ [Next]_vars => (TypeOK /\ CalmInv)'
  BY TypeStays, CalmStays
<1> QED BY <1>1, <1>2, OneCounted, PTL DEF Spec
-----------------------------------------------------------------------------
(***************************************************************************)
(* No worker goes without ports: at a spawn the device has no live worker, *)
(* so the live workers of the others cannot hold every group.              *)
(***************************************************************************)
HavePorts == \A w \in DOMAIN workers : workers[w].ports # NoPorts

PortsForAll ==
    calm /\ Cardinality(Serials) <= Cardinality(PortGroups) => HavePorts

LEMMA PoolIsLeft ==
    ASSUME TypeOK, AllGood, PortsInv, NEW s \in DOMAIN scopes, ~Live(s), ~Gone(s),
           Cardinality(Serials) <= Cardinality(PortGroups)
    PROVE  ports # <<>>
<1> SUFFICES ASSUME ports = <<>> PROVE FALSE
  OBVIOUS
<1> DEFINE d == scopes[s].serial
           Holds(w, g) == w \in DOMAIN workers /\ Alive(w) /\ workers[w].ports = g
           f == [g \in PortGroups |-> scopes[workers[CHOOSE w : Holds(w, g)].scope].serial]
<1>0. \A w \in DOMAIN workers : workers[w].scope \in DOMAIN scopes
  BY WorkerIsTyped DEF AllWorkers
<1>1. \A g \in PortGroups : \E w : Holds(w, g)
  BY EmptySeq DEF PortsInv
<1>2. \A g \in PortGroups : Holds(CHOOSE w : Holds(w, g), g)
  BY <1>1
<1>3. ASSUME NEW w \in DOMAIN workers, Alive(w)
      PROVE  scopes[workers[w].scope].serial \in Serials \ {d}
  <2>1. workers[w].scope \in DOMAIN scopes /\ ~Gone(workers[w].scope) /\ Live(workers[w].scope)
    BY <1>0, <1>3 DEF Gone, Live
  <2>2. workers[w].scope # s
    BY <2>1
  <2>3. scopes[workers[w].scope].serial # d
    BY <2>1, <2>2, Others
  <2> QED BY <2>1, <2>3, ScopeIsTyped DEF AllScopes
<1>4. f \in [PortGroups -> Serials \ {d}]
  <2>1. ASSUME NEW g \in PortGroups PROVE f[g] \in Serials \ {d}
    <3> DEFINE w == CHOOSE w : Holds(w, g)
    <3>1. w \in DOMAIN workers /\ Alive(w)
      BY <1>2
    <3>2. f[g] = scopes[workers[w].scope].serial
      OBVIOUS
    <3> HIDE DEF w, f
    <3> QED BY <1>3, <3>1, <3>2
  <2> QED BY <2>1
<1>5. IsInjective(f)
  <2> SUFFICES ASSUME NEW g \in PortGroups, NEW h \in PortGroups, f[g] = f[h] PROVE g = h
    BY DEF IsInjective
  <2> DEFINE v == CHOOSE w : Holds(w, g)
             w == CHOOSE w : Holds(w, h)
  <2>1. Holds(v, g) /\ Holds(w, h)
    BY <1>2
  <2>2. f[g] = scopes[workers[v].scope].serial /\ f[h] = scopes[workers[w].scope].serial
    OBVIOUS
  <2> HIDE DEF v, w, f
  <2>3. v = w
    BY <2>1, <2>2, OneLive
  <2> QED BY <2>1, <2>3
<1> HIDE DEF f, d
<1>6. f \in Injection(PortGroups, Serials \ {d})
  BY <1>4, <1>5 DEF Injection
<1>7. d \in Serials
  BY ScopeIsTyped DEF AllScopes, d
<1>8. IsFiniteSet(Serials \ {d}) /\ Cardinality(Serials \ {d}) = Cardinality(Serials) - 1
  BY <1>7, DevicesAndPortsAreFinite, FS_RemoveElement
<1>9. Cardinality(PortGroups) <= Cardinality(Serials \ {d})
  BY <1>6, <1>8, FS_Injection
<1>10. Cardinality(PortGroups) \in Nat /\ Cardinality(Serials) \in Nat
  BY DevicesAndPortsAreFinite, FS_CardinalityType
<1> QED BY <1>8, <1>9, <1>10

LEMMA PortsForAllStays ==
    TypeOK /\ CalmInv /\ PortsInv /\ PortsForAll /\ [Next]_vars => PortsForAll'
<1> SUFFICES ASSUME TypeOK, CalmInv, PortsInv, PortsForAll, [Next]_vars, calm',
                    Cardinality(Serials) <= Cardinality(PortGroups)
             PROVE  HavePorts'
  BY DEF PortsForAll
<1>0. calm' = calm
  BY DEF Next, vars, Add, Change, Unlist, Register, RegisterTimeout, Check, Changed,
         Removed, StopTimer, WorkTimer, Respawn, Retire, Crash, Spawn, Ended
<1>1. AllGood /\ HavePorts
  BY <1>0 DEF CalmInv, PortsForAll
<1>2. ASSUME workers' = workers PROVE HavePorts'
  BY <1>1, <1>2 DEF HavePorts
<1>3. ASSUME NEW s \in DOMAIN scopes, workers' = Stopped(scopes[s].worker) PROVE HavePorts'
  <2>1. scopes[s].worker \in Nat
    BY ScopeIsTyped DEF AllScopes
  <2> QED BY <1>1, <1>3, <2>1, StoppedIsTyped DEF HavePorts
<1>4. ASSUME NEW w \in DOMAIN workers, NEW state \in States, Ended(w, state) PROVE HavePorts'
  <2>1. workers' = [workers EXCEPT ![w].state = state]
    BY <1>4 DEF Ended
  <2>2. \A v \in DOMAIN workers : workers[v] \in AllWorkers
    BY WorkerIsTyped
  <2> QED BY <1>1, <2>1, <2>2 DEF AllWorkers, HavePorts
<1>5. ASSUME NEW s \in DOMAIN scopes, NEW x \in AllScopes, Spawn(s, x), Drained,
             scopes[s].timer = "work" \/ scopes[s].delays > 0
      PROVE  HavePorts'
  <2>1. ports # <<>>
    BY <1>1, <1>5, SparingMeans, PoolIsLeft
  <2>2. PICK n \in Nat \ {0}, g \in PortGroups \cup {NoPorts} : SpawnedAs(s, x, n, g)
    BY <1>5, Spawned
  <2>3. g = Head(ports) /\ Head(ports) \in PortGroups
    BY <2>1, <2>2, TypeOKMeans, HeadTailProperties DEF SpawnedAs
  <2> QED BY <1>1, <2>2, <2>3, NoPortsIsNone DEF SpawnedAs, HavePorts
<1>6. ASSUME NEW s \in DOMAIN scopes, WorkTimer(s) PROVE HavePorts'
  <2>1. [scopes[s] EXCEPT !.timer = "none"] \in AllScopes
    BY ScopeIsTyped DEF AllScopes
  <2> QED BY <1>5, <1>6, <2>1 DEF WorkTimer
<1>7. ASSUME NEW s \in DOMAIN scopes, Respawn(s) PROVE HavePorts'
  <2>1. scopes[s] \in AllScopes /\ scopes[s].delays - 1 \in Nat
    BY <1>7, ScopeIsTyped DEF AllScopes, Respawn
  <2>2. [scopes[s] EXCEPT !.delays = @ - 1] \in AllScopes
    BY <2>1 DEF AllScopes
  <2> QED BY <1>5, <1>7, <2>2 DEF Respawn
<1>8. ASSUME NEW w \in DOMAIN workers, Retire(w) \/ Crash(w) PROVE HavePorts'
  BY <1>4, <1>8 DEF Retire, Crash, States
<1>9. ASSUME NEW s \in DOMAIN scopes, Removed(s) \/ StopTimer(s) PROVE HavePorts'
  BY <1>3, <1>9 DEF Removed, StopTimer
<1>10. ASSUME NEW d \in Serials, NEW type \in Types, Add(d, type) \/ Change(d, type)
       PROVE  HavePorts'
  BY <1>2, <1>10 DEF Add, Change
<1>11. ASSUME NEW d \in Serials, Unlist(d) \/ Register(d) PROVE HavePorts'
  BY <1>2, <1>11 DEF Unlist, Register
<1>12. ASSUME NEW s \in DOMAIN scopes, RegisterTimeout(s) \/ Check(s) PROVE HavePorts'
  BY <1>2, <1>12 DEF RegisterTimeout, Check
<1>13. ASSUME NEW s \in DOMAIN scopes, NEW type \in Types, Changed(s, type) PROVE HavePorts'
  BY <1>2, <1>13 DEF Changed
<1>14. CASE UNCHANGED vars
  BY <1>2, <1>14 DEF vars
<1> QED
  BY <1>6, <1>7, <1>8, <1>9, <1>10, <1>11, <1>12, <1>13, <1>14 DEF Next

\* No worker goes without ports if there is a group for every device and
\* tracker events wait until the device has settled, for any numbers of them.
THEOREM PortsSuffice == Spec => []WorkersHavePorts
<1> DEFINE IInv == TypeOK /\ CalmInv /\ PortsInv /\ PortsForAll
<1>1. Init => IInv
  <2> SUFFICES ASSUME Init PROVE PortsForAll
    BY InitIsTyped, CalmStarts, PortsAreWhole
  <2>1. DOMAIN workers = {}
    BY EmptySeq DEF Init
  <2> QED BY <2>1 DEF PortsForAll, HavePorts
<1>2. IInv /\ [Next]_vars => IInv'
  BY TypeStays, CalmStays, PortsStay, PortsForAllStays
<1>3. IInv => WorkersHavePorts
  BY DEF PortsForAll, HavePorts, WorkersHavePorts
<1> QED BY <1>1, <1>2, <1>3, PTL DEF Spec
=============================================================================
