------------------------- MODULE MetricsStoreProofs -------------------------
(***************************************************************************)
(* The invariants of MetricsStore, for any number of calls and clients.    *)
(***************************************************************************)
EXTENDS MetricsStore, ListLemmas, FiniteSetTheorems

\* The list that takes the place of the old one has the connections of the old one
\* that are not gone, and each of them once when the old one has.
LEMMA WithoutProperties ==
    ASSUME NEW gone, subscribers \in Seq(Clients)
    PROVE  /\ Without(gone) \in Seq(Clients)
           /\ ToSet(Without(gone)) = ToSet(subscribers) \ gone
           /\ IsInjective(subscribers) => IsInjective(Without(gone))
<1> DEFINE kept[n \in 0 .. Len(subscribers)] ==
               IF n = 0 THEN <<>>
               ELSE IF subscribers[n] \in gone THEN kept[n - 1]
               ELSE Append(kept[n - 1], subscribers[n])
<1>1. Without(gone) = kept[Len(subscribers)]
    BY DEF Without
<1>2. IsKept(kept, subscribers, gone)
    <2>1. \E f : IsKept(f, subscribers, gone)
        BY KeptExists
    <2> QED BY <2>1, Zenon DEF IsKept
<1> HIDE DEF kept
<1> QED BY <1>1, <1>2, KeptProperties

-----------------------------------------------------------------------------
(* Types and counts.                                                       *)

Started == {t \in Tasks : pc[t] # "idle"}

\* Every increment so far is that of a call under way or done; a call that has not
\* begun is at the start of its loop.
CountInv ==
    /\ TypeOK
    /\ counters = Cardinality(Started)
    /\ \A t \in Tasks : pc[t] = "idle" => pos[t] = 1

LEMMA CountInit == Init => CountInv
<1> SUFFICES ASSUME Init
             PROVE  CountInv
    OBVIOUS
<1>1. Started = {}
    BY DEF Init, Started
<1>2. 0 \in Counts
    BY TasksAssumption, FS_CardinalityType DEF Counts
<1>3. \A t \in Tasks : over[t] = <<>> /\ pos[t] = 1
    BY DEF Init
<1> QED
    BY <1>1, <1>2, <1>3, FS_EmptySet DEF Init, CountInv, TypeOK

LEMMA CountStep == CountInv /\ [Next]_vars => CountInv'
<1> SUFFICES ASSUME CountInv, [Next]_vars
             PROVE  CountInv'
    OBVIOUS
<1>1. /\ TypeOK /\ counters = Cardinality(Started)
      /\ \A t \in Tasks : pc[t] = "idle" => pos[t] = 1
    BY DEF CountInv
<1>2. ASSUME NEW t \in Tasks, Increment(t)
      PROVE  CountInv'
    <2>1. Started' = Started \cup {t} /\ t \notin Started
        <3>1. pc[t] = "idle" /\ pc'[t] # "idle" /\ \A u \in Tasks \ {t} : pc'[u] = pc[u]
            BY <1>1, <1>2 DEF Increment, TypeOK
        <3> QED BY <3>1 DEF Started
    <2>2. /\ IsFiniteSet(Started) /\ IsFiniteSet(Started')
          /\ Cardinality(Started') <= Cardinality(Tasks)
          /\ Cardinality(Tasks) \in Nat
        <3>1. Started \subseteq Tasks /\ Started' \subseteq Tasks
            BY DEF Started
        <3> QED BY <3>1, TasksAssumption, FS_Subset, FS_CardinalityType
    <2>3. Cardinality(Started') = Cardinality(Started) + 1
        BY <2>1, <2>2, FS_AddElement
    <2>4. counters' = counters + 1
        BY <1>2 DEF Increment
    <2>5. counters' = Cardinality(Started')
        BY <1>1, <2>3, <2>4
    <2>6. counters' \in Counts
        BY <2>2, <2>5, FS_CardinalityType DEF Counts
    <2>7. /\ data' \in [Tasks -> Counts] /\ over' \in [Tasks -> Seq(Clients)]
          /\ pc' \in [Tasks -> {"idle", "sending", "done"}] /\ attached' \subseteq Tasks
          /\ UNCHANGED <<subscribers, pos, dead, link, greeting, got>>
        BY <1>1, <1>2, <2>4, <2>6 DEF Increment, TypeOK, clientVars
    <2>8. \A u \in Tasks : pos'[u] \in 1 .. Len(over'[u]) + 1
        <3>1. over'[t] = subscribers /\ \A u \in Tasks \ {t} : over'[u] = over[u]
            BY <1>1, <1>2 DEF Increment, TypeOK
        <3>2. Len(subscribers) \in Nat /\ pos[t] = 1
            BY <1>1, <1>2 DEF Increment, TypeOK
        <3>3. 1 \in 1 .. Len(subscribers) + 1
            BY <3>2
        <3> QED BY <1>1, <2>7, <3>1, <3>2, <3>3 DEF TypeOK
    <2>9. \A u \in Tasks : pc'[u] = "idle" => pos'[u] = 1
        BY <1>1, <1>2, <2>7 DEF Increment, TypeOK
    <2> QED BY <1>1, <2>5, <2>6, <2>7, <2>8, <2>9 DEF CountInv, TypeOK
<1>3. ASSUME Started' = Started, counters' = counters, TypeOK',
             \A t \in Tasks : pc'[t] = "idle" => pc[t] = "idle" /\ pos'[t] = pos[t]
      PROVE  CountInv'
    BY <1>1, <1>3 DEF CountInv
<1>4. ASSUME NEW t \in Tasks, Send(t)
      PROVE  CountInv'
    <2>1. /\ pc[t] = "sending" /\ pos[t] <= Len(over[t])
          /\ pos' = [pos EXCEPT ![t] = @ + 1]
          /\ UNCHANGED <<counters, subscribers, attached, pc, data, over, link, greeting>>
        BY <1>4 DEF Send, storeVars
    <2>2. over[t][pos[t]] \in Clients /\ Len(over[t]) \in Nat /\ pos[t] \in 1 .. Len(over[t]) + 1
        BY <1>1, <2>1 DEF TypeOK
    <2>3. pos'[t] = pos[t] + 1 /\ \A u \in Tasks \ {t} : pos'[u] = pos[u]
        BY <1>1, <2>1 DEF TypeOK
    <2>4. \A u \in Tasks : pos'[u] \in 1 .. Len(over'[u]) + 1
        BY <1>1, <2>1, <2>2, <2>3 DEF TypeOK
    <2>5. dead' \in [Tasks -> SUBSET Clients] /\ got' \in [Clients -> SUBSET Counts]
        <3> DEFINE c == over[t][pos[t]]
        <3>1. \/ got' = [got EXCEPT ![c] = @ \cup {data[t]}] /\ UNCHANGED dead
              \/ /\ dead' = [dead EXCEPT ![t] = @ \cup {c}] \/ UNCHANGED dead
                 /\ UNCHANGED got
            BY <1>4 DEF Send
        <3>2. c \in Clients /\ data[t] \in Counts
            BY <1>1, <2>2 DEF TypeOK
        <3> HIDE DEF c
        <3>3. /\ dead \in [Tasks -> SUBSET Clients]
              /\ [dead EXCEPT ![t] = @ \cup {c}] \in [Tasks -> SUBSET Clients]
            BY <1>1, <3>2 DEF TypeOK
        <3>4. /\ got \in [Clients -> SUBSET Counts]
              /\ [got EXCEPT ![c] = @ \cup {data[t]}] \in [Clients -> SUBSET Counts]
            BY <1>1, <3>2 DEF TypeOK
        <3> QED BY <3>1, <3>3, <3>4, Zenon
    <2>6. pos' \in [Tasks -> Nat]
        BY <1>1, <2>1 DEF TypeOK
    <2>7. TypeOK'
        BY <1>1, <2>1, <2>4, <2>5, <2>6 DEF TypeOK
    <2> QED BY <1>3, <2>1, <2>3, <2>7 DEF Started
<1>5. ASSUME NEW t \in Tasks, EndBroadcast(t)
      PROVE  CountInv'
    <2>1. /\ pc[t] = "sending" /\ pc' = [pc EXCEPT ![t] = "done"]
          /\ subscribers' = Without(dead[t])
          /\ attached' = (IF dead[t] = {} THEN attached \ {t} ELSE {})
          /\ dead' = [dead EXCEPT ![t] = {}]
          /\ UNCHANGED <<counters, data, over, pos, link, greeting, got>>
        BY <1>5 DEF EndBroadcast, clientVars
    <2>2. subscribers' \in Seq(Clients)
        BY <1>1, <2>1, WithoutProperties DEF TypeOK
    <2>3. TypeOK'
        BY <1>1, <2>1, <2>2 DEF TypeOK
    <2>4. Started' = Started
        BY <1>1, <2>1 DEF Started, TypeOK
    <2> QED BY <1>1, <1>3, <2>1, <2>3, <2>4 DEF TypeOK
<1>6. ASSUME NEW c \in Clients, Subscribe(c)
      PROVE  CountInv'
    <2>1. /\ subscribers' = Append(subscribers, c)
          /\ over' = [u \in Tasks |->
                        IF u \in attached THEN Append(over[u], c) ELSE over[u]]
          /\ link' = [link EXCEPT ![c] = "greeting"]
          /\ greeting' = [greeting EXCEPT ![c] = counters]
          /\ UNCHANGED <<counters, attached, pc, data, pos, dead, got>>
        BY <1>6 DEF Subscribe
    <2>2. ASSUME NEW u \in Tasks
          PROVE  over'[u] \in Seq(Clients) /\ pos'[u] \in 1 .. Len(over'[u]) + 1
        <3>1. /\ over[u] \in Seq(Clients) /\ Len(over[u]) \in Nat
              /\ pos[u] \in 1 .. Len(over[u]) + 1
            BY <1>1 DEF TypeOK
        <3>2. /\ Append(over[u], c) \in Seq(Clients)
              /\ Len(Append(over[u], c)) = Len(over[u]) + 1
            BY <3>1, AppendProperties
        <3>3. over'[u] = over[u] \/ over'[u] = Append(over[u], c)
            BY <2>1
        <3> QED BY <2>1, <3>1, <3>2, <3>3
    <2>3. subscribers' \in Seq(Clients)
        BY <1>1, <2>1, AppendProperties DEF TypeOK
    <2>4. over' \in [Tasks -> Seq(Clients)]
        BY <2>1, <2>2
    <2>5. TypeOK'
        BY <1>1, <2>1, <2>2, <2>3, <2>4 DEF TypeOK
    <2> QED BY <1>3, <2>1, <2>5 DEF Started
<1>7. ASSUME NEW c \in Clients, Greet(c) \/ Disconnect(c) \/ HandlerFails(c)
      PROVE  CountInv'
    <2>1. UNCHANGED <<counters, subscribers, attached, pc, data, over, pos, dead, greeting>>
        BY <1>7 DEF Greet, Disconnect, HandlerFails, storeVars, taskVars
    <2>2. /\ link' \in [Clients -> {"new", "greeting", "open", "lost", "ended", "failed"}]
          /\ got' \in [Clients -> SUBSET Counts]
        <3>1. CASE Greet(c)
            BY <1>1, <3>1 DEF Greet, TypeOK
        <3>2. CASE Disconnect(c)
            BY <1>1, <3>2 DEF Disconnect, TypeOK
        <3>3. CASE HandlerFails(c)
            BY <1>1, <3>3 DEF HandlerFails, TypeOK
        <3> QED BY <1>7, <3>1, <3>2, <3>3
    <2>3. TypeOK'
        BY <1>1, <2>1, <2>2 DEF TypeOK
    <2> QED BY <1>3, <2>1, <2>3 DEF Started
<1>8. ASSUME NEW c \in Clients, HandlerEnds(c)
      PROVE  CountInv'
    <2>1. /\ subscribers' = Without({c}) /\ attached' = {}
          /\ link' = [link EXCEPT ![c] = "ended"]
          /\ UNCHANGED <<counters, pc, data, over, pos, dead, greeting, got>>
        BY <1>8 DEF HandlerEnds, taskVars
    <2>2. subscribers' \in Seq(Clients)
        BY <1>1, <2>1, WithoutProperties DEF TypeOK
    <2>3. TypeOK'
        BY <1>1, <2>1, <2>2 DEF TypeOK
    <2> QED BY <1>3, <2>1, <2>3 DEF Started
<1>9. CASE UNCHANGED vars
    BY <1>1, <1>9 DEF vars, CountInv, Started, TypeOK
<1> QED
    BY <1>2, <1>4, <1>5, <1>6, <1>7, <1>8, <1>9 DEF Next, Broadcast, HandlerOver

\* No loop runs past the end of the list it iterates by more than one, whatever is
\* appended to the list meanwhile, and every snapshot is a count there was
\* (gateway/metrics/store.py 15-48).
THEOREM MetricsTyped == Safety => []TypeOK
<1>1. CountInv => TypeOK
    BY DEF CountInv
<1> QED BY <1>1, CountInit, CountStep, PTL DEF Safety

-----------------------------------------------------------------------------
(* The list of subscribers and the loops over it.                          *)

\* The connections a loop over over[t] is past were sent its snapshot or are gone.
Served(t) == \A i \in 1 .. Len(over[t]) :
    i < pos[t] /\ Connected(over[t][i]) => data[t] \in got[over[t][i]]

\* No connection comes back from these.
Gone == {"lost", "ended", "failed"}

\* Only a loop that is under way follows what is appended, no list has a connection
\* before it is accepted, and what raised is gone for good.
ListInv ==
    /\ LiveSubscribed
    /\ \A t \in attached : pc[t] = "sending"
    /\ \A t \in Tasks :
        /\ pc[t] = "idle" => over[t] = <<>>
        /\ \A i \in 1 .. Len(over[t]) : link[over[t][i]] # "new"
        /\ \A c \in dead[t] : link[c] \in Gone
        /\ pc[t] = "done" => pos[t] = Len(over[t]) + 1
        /\ Served(t)

LEMMA ListInit == Init => ListInv
<1> SUFFICES ASSUME Init
             PROVE  ListInv
    OBVIOUS
<1>1. subscribers = <<>> /\ attached = {} /\ \A c \in Clients : link[c] = "new"
    BY DEF Init
<1>2. \A t \in Tasks : over[t] = <<>> /\ dead[t] = {} /\ pc[t] = "idle"
    BY DEF Init
<1>3. ToSet(<<>>) = {} /\ IsInjective(<<>>) /\ Len(<<>>) = 0
    BY DEF ToSet, IsInjective
<1>4. LiveSubscribed
    BY <1>1, <1>3 DEF LiveSubscribed, Connected
<1> QED BY <1>1, <1>2, <1>3, <1>4 DEF ListInv, Served

LEMMA ListStep == CountInv /\ ListInv /\ [Next]_vars => ListInv'
<1> SUFFICES ASSUME CountInv, ListInv, [Next]_vars
             PROVE  ListInv'
    OBVIOUS
<1>1. /\ TypeOK
      /\ \A t \in Tasks : pc[t] = "idle" => pos[t] = 1
    BY DEF CountInv
<1>2. \A t \in Tasks : /\ over[t] \in Seq(Clients) /\ Len(over[t]) \in Nat
                       /\ \A i \in 1 .. Len(over[t]) : over[t][i] \in Clients
                       /\ pos[t] \in Nat
    BY <1>1 DEF TypeOK
<1>3. \A c \in Clients : c \in ToSet(subscribers) => link[c] # "new"
    BY DEF ListInv, LiveSubscribed
<1>4. ASSUME NEW t \in Tasks, Increment(t)
      PROVE  ListInv'
    <2>1. /\ pc[t] = "idle" /\ pos[t] = 1
          /\ over' = [over EXCEPT ![t] = subscribers]
          /\ data' = [data EXCEPT ![t] = counters + 1]
          /\ UNCHANGED <<subscribers, pos, dead, link, greeting, got>>
        BY <1>1, <1>4 DEF Increment, clientVars
    <2>2. LiveSubscribed'
        BY <2>1 DEF ListInv, LiveSubscribed, Connected
    <2>3. /\ \A u \in Tasks \ {t} : pc'[u] = pc[u] /\ over'[u] = over[u] /\ data'[u] = data[u]
          /\ over'[t] = subscribers
        BY <1>1, <1>4 DEF Increment, TypeOK
    <2>4. /\ pc'[t] = (IF subscribers = <<>> THEN "done" ELSE "sending")
          /\ attached' \subseteq attached \cup {t}
          /\ subscribers = <<>> => attached' = attached
        BY <1>1, <1>4 DEF Increment, TypeOK
    <2>5. t \notin attached
        BY <2>1 DEF ListInv
    <2>6. \A u \in attached' : pc'[u] = "sending"
        BY <1>1, <2>3, <2>4, <2>5 DEF ListInv, TypeOK
    <2>7. subscribers \in Seq(Clients) /\ \A i \in 1 .. Len(subscribers) : link[subscribers[i]] # "new"
        BY <1>1, <1>3 DEF TypeOK, ToSet
    <2>8. subscribers = <<>> => Len(subscribers) = 0
        OBVIOUS
    <2>9. ASSUME NEW u \in Tasks
          PROVE  /\ pc'[u] = "idle" => over'[u] = <<>>
                 /\ \A i \in 1 .. Len(over'[u]) : link'[over'[u][i]] # "new"
                 /\ \A c \in dead'[u] : link'[c] \in Gone
                 /\ pc'[u] = "done" => pos'[u] = Len(over'[u]) + 1
                 /\ Served(u)'
        <3>1. CASE u # t
            BY <2>1, <2>3, <3>1 DEF ListInv, Served, Connected
        <3>2. CASE u = t
            <4>1. Served(t)'
                BY <2>1 DEF Served
            <4>2. \A c \in dead'[t] : link'[c] \in Gone
                BY <2>1 DEF ListInv
            <4> QED BY <2>1, <2>3, <2>4, <2>7, <2>8, <3>2, <4>1, <4>2
        <3> QED BY <3>1, <3>2
    <2> QED BY <2>2, <2>6, <2>9 DEF ListInv
<1>5. ASSUME NEW t \in Tasks, Send(t)
      PROVE  ListInv'
    <2> DEFINE x == over[t][pos[t]]
    <2>1. /\ pc[t] = "sending" /\ pos[t] <= Len(over[t])
          /\ pos' = [pos EXCEPT ![t] = @ + 1]
          /\ UNCHANGED <<counters, subscribers, attached, pc, data, over, link, greeting>>
        BY <1>5 DEF Send, storeVars
    <2>2. x \in Clients /\ link[x] # "new"
        BY <1>1, <1>2, <2>1 DEF ListInv, TypeOK
    <2>3. /\ Connected(x) => data[t] \in got'[x]
          /\ \A c \in Clients : got[c] \subseteq got'[c]
          /\ \/ dead' = dead
             \/ ~Connected(x) /\ dead' = [dead EXCEPT ![t] = @ \cup {x}]
        <3>1. \/ /\ Connected(x)
                 /\ got' = [got EXCEPT ![x] = @ \cup {data[t]}]
                 /\ UNCHANGED dead
              \/ /\ ~Connected(x)
                 /\ dead' = [dead EXCEPT ![t] = @ \cup {x}] \/ UNCHANGED dead
                 /\ UNCHANGED got
            BY <1>5 DEF Send
        <3> HIDE DEF x
        <3>2. got \in [Clients -> SUBSET Counts] /\ x \in Clients
            BY <1>1, <2>2 DEF TypeOK
        <3>3. CASE Connected(x)
            <4>1. got' = [got EXCEPT ![x] = @ \cup {data[t]}] /\ dead' = dead
                BY <3>1, <3>3
            <4> QED BY <3>2, <3>3, <4>1
        <3>4. CASE ~Connected(x)
            BY <3>1, <3>4
        <3> QED BY <3>3, <3>4
    <2>4. pos'[t] = pos[t] + 1 /\ \A u \in Tasks \ {t} : pos'[u] = pos[u]
        BY <1>1, <2>1 DEF TypeOK
    <2>5. LiveSubscribed'
        BY <2>1 DEF ListInv, LiveSubscribed, Connected
    <2>6. ASSUME NEW u \in Tasks
          PROVE  \A c \in dead'[u] : link'[c] \in Gone
        <3>1. dead'[u] = dead[u] \/ (~Connected(x) /\ dead'[u] \subseteq dead[u] \cup {x})
            BY <1>1, <2>3 DEF TypeOK
        <3>2. ~Connected(x) => link[x] \in Gone
            BY <1>1, <2>2 DEF Connected, TypeOK, Gone
        <3> QED BY <2>1, <3>1, <3>2 DEF ListInv
    <2>7. ASSUME NEW u \in Tasks
          PROVE  Served(u)'
        <3> SUFFICES ASSUME NEW i \in 1 .. Len(over[u]), i < pos'[u], Connected(over[u][i])
                     PROVE  data[u] \in got'[over[u][i]]
            BY <2>1 DEF Served, Connected
        <3>1. CASE i < pos[u]
            BY <1>2, <2>3, <3>1 DEF ListInv, Served
        <3>2. CASE ~(i < pos[u])
            <4>1. u = t /\ i = pos[t]
                BY <1>2, <2>4, <3>2
            <4> QED BY <2>3, <4>1
        <3> QED BY <3>1, <3>2
    <2>8. \A u \in Tasks : pc'[u] = "done" => pos'[u] = Len(over'[u]) + 1
        BY <2>1, <2>4 DEF ListInv
    <2> QED BY <2>1, <2>5, <2>6, <2>7, <2>8 DEF ListInv
<1>6. ASSUME NEW t \in Tasks, EndBroadcast(t)
      PROVE  ListInv'
    <2>1. /\ pc[t] = "sending" /\ pc' = [pc EXCEPT ![t] = "done"]
          /\ pos[t] > Len(over[t])
          /\ subscribers' = Without(dead[t])
          /\ attached' \subseteq attached \ {t}
          /\ dead' = [dead EXCEPT ![t] = {}]
          /\ UNCHANGED <<counters, data, over, pos, link, greeting, got>>
        BY <1>6 DEF EndBroadcast, clientVars
    <2>2. /\ ToSet(subscribers') = ToSet(subscribers) \ dead[t]
          /\ IsInjective(subscribers) => IsInjective(subscribers')
        BY <1>1, <2>1, WithoutProperties DEF TypeOK
    <2>3. LiveSubscribed'
        BY <2>1, <2>2 DEF ListInv, LiveSubscribed, Connected, Gone
    <2>4. pos[t] = Len(over[t]) + 1
        BY <1>1, <1>2, <2>1 DEF TypeOK
    <2>5. /\ pc'[t] = "done" /\ dead'[t] = {}
          /\ \A u \in Tasks \ {t} : pc'[u] = pc[u] /\ dead'[u] = dead[u]
        BY <1>1, <2>1 DEF TypeOK
    <2>6. \A u \in Tasks : Served(u)'
        BY <2>1 DEF ListInv, Served, Connected
    <2>7. \A u \in attached' : pc'[u] = "sending"
        BY <1>1, <2>1, <2>5 DEF ListInv, TypeOK
    <2> QED BY <2>1, <2>3, <2>4, <2>5, <2>6, <2>7 DEF ListInv
<1>7. ASSUME NEW c \in Clients, Subscribe(c)
      PROVE  ListInv'
    <2>1. /\ link[c] = "new"
          /\ subscribers' = Append(subscribers, c)
          /\ over' = [u \in Tasks |->
                        IF u \in attached THEN Append(over[u], c) ELSE over[u]]
          /\ link' = [link EXCEPT ![c] = "greeting"]
          /\ UNCHANGED <<counters, attached, pc, data, pos, dead, got>>
        BY <1>7 DEF Subscribe
    <2>2. link'[c] = "greeting" /\ \A d \in Clients \ {c} : link'[d] = link[d]
        BY <1>1, <2>1 DEF TypeOK
    <2>3. c \notin ToSet(subscribers)
        BY <1>3, <2>1
    <2>4. ToSet(subscribers') = ToSet(subscribers) \cup {c} /\ IsInjective(subscribers')
        BY <1>1, <2>1, <2>3, AppendElements DEF TypeOK, ListInv, LiveSubscribed
    <2>5. LiveSubscribed'
        BY <2>2, <2>4 DEF ListInv, LiveSubscribed, Connected
    <2>6. ASSUME NEW u \in Tasks
          PROVE  /\ pc'[u] = "idle" => over'[u] = <<>>
                 /\ \A i \in 1 .. Len(over'[u]) : link'[over'[u][i]] # "new"
                 /\ \A d \in dead'[u] : link'[d] \in Gone
                 /\ pc'[u] = "done" => pos'[u] = Len(over'[u]) + 1
                 /\ Served(u)'
        <3>1. over'[u] = IF u \in attached THEN Append(over[u], c) ELSE over[u]
            BY <2>1
        <3>2. u \in attached => pc[u] = "sending"
            BY DEF ListInv
        <3>3. \A d \in dead'[u] : link'[d] \in Gone
            <4>1. dead'[u] = dead[u] /\ dead[u] \subseteq Clients
                BY <1>1, <2>1 DEF TypeOK
            <4> QED BY <2>1, <2>2, <4>1 DEF ListInv, Gone
        <3>4. \A i \in 1 .. Len(over[u]) : over[u][i] \in Clients \ {c} /\ link'[over[u][i]] = link[over[u][i]]
            BY <1>2, <2>1, <2>2 DEF ListInv
        <3>5. CASE u \notin attached
            <4>1. over'[u] = over[u]
                BY <3>1, <3>5
            <4>2. Served(u)'
                <5> SUFFICES ASSUME NEW i \in 1 .. Len(over[u]), i < pos[u],
                                    Connected(over[u][i])'
                             PROVE  data[u] \in got[over[u][i]]
                    BY <2>1, <4>1 DEF Served, Connected
                <5>1. Connected(over[u][i])
                    BY <2>1, <3>4, <4>1 DEF Connected
                <5> QED BY <5>1 DEF ListInv, Served
            <4>3. \A i \in 1 .. Len(over[u]) : link'[over[u][i]] # "new"
                BY <3>4 DEF ListInv
            <4>4. /\ pc[u] = "idle" => over[u] = <<>>
                  /\ pc[u] = "done" => pos[u] = Len(over[u]) + 1
                BY DEF ListInv
            <4> QED BY <2>1, <3>3, <4>1, <4>2, <4>3, <4>4
        <3>6. CASE u \in attached
            <4> DEFINE n == Len(over[u])
            <4>1. /\ n \in Nat /\ over'[u] \in Seq(Clients)
                  /\ Len(over'[u]) = n + 1
                  /\ \A i \in 1 .. n : over'[u][i] = over[u][i]
                  /\ over'[u][n + 1] = c
                BY <1>2, <3>1, <3>6, AppendProperties
            <4>2. pos[u] \in 1 .. n + 1
                BY <1>1 DEF TypeOK
            <4>3. pc'[u] = "sending"
                BY <2>1, <3>2, <3>6
            <4>4. \A i \in 1 .. n : link'[over[u][i]] = link[over[u][i]] /\ link[over[u][i]] # "new"
                BY <3>4 DEF ListInv
            <4>5. \A i \in 1 .. n : i < pos[u] /\ Connected(over[u][i]) => data[u] \in got[over[u][i]]
                BY DEF ListInv, Served
            <4> HIDE DEF n
            <4>6. \A i \in 1 .. n + 1 : i \in 1 .. n \/ i = n + 1
                BY <4>1
            <4>7. \A i \in 1 .. n + 1 : link'[over'[u][i]] # "new"
                BY <2>2, <4>1, <4>4, <4>6
            <4>8. Served(u)'
                <5> SUFFICES ASSUME NEW i \in 1 .. n + 1, i < pos[u],
                                    link'[over'[u][i]] \in {"greeting", "open"}
                             PROVE  data[u] \in got[over'[u][i]]
                    BY <2>1, <4>1 DEF Served, Connected
                <5>1. i \in 1 .. n
                    BY <4>1, <4>2
                <5> QED BY <4>1, <4>4, <4>5, <5>1 DEF Connected
            <4> QED BY <3>3, <4>1, <4>3, <4>7, <4>8
        <3> QED BY <3>5, <3>6
    <2> QED BY <2>1, <2>5, <2>6 DEF ListInv
<1>8. ASSUME NEW c \in Clients, Greet(c) \/ Disconnect(c) \/ HandlerFails(c)
      PROVE  ListInv'
    <2>1. /\ link[c] \in {"greeting", "open", "lost"}
          /\ link'[c] = "open" => Connected(c)
          /\ link[c] = "lost" => link'[c] = "failed"
          /\ link'[c] \in {"open", "lost", "failed"}
          /\ \A d \in Clients \ {c} : link'[d] = link[d]
          /\ \A d \in Clients : got[d] \subseteq got'[d]
          /\ UNCHANGED <<counters, subscribers, attached, pc, data, over, pos, dead>>
        <3>1. CASE Greet(c)
            BY <1>1, <3>1 DEF Greet, Connected, storeVars, taskVars, TypeOK
        <3>2. CASE Disconnect(c)
            BY <1>1, <3>2 DEF Disconnect, Connected, storeVars, taskVars, TypeOK
        <3>3. CASE HandlerFails(c)
            BY <1>1, <3>3 DEF HandlerFails, Connected, storeVars, taskVars, TypeOK
        <3> QED BY <1>8, <3>1, <3>2, <3>3
    <2>2. \A d \in Clients : Connected(d)' => Connected(d)
        BY <2>1 DEF Connected
    <2>3. LiveSubscribed'
        BY <2>1, <2>2 DEF ListInv, LiveSubscribed, Connected
    <2>4. ASSUME NEW u \in Tasks
          PROVE  Served(u)'
        BY <1>2, <2>1, <2>2 DEF ListInv, Served
    <2>5. ASSUME NEW u \in Tasks
          PROVE  \A d \in dead[u] : link'[d] \in Gone
        <3>1. \A d \in dead[u] : d \in Clients /\ link[d] \in Gone
            BY <1>1 DEF ListInv, TypeOK
        <3> QED BY <2>1, <3>1 DEF Gone
    <2>6. ASSUME NEW u \in Tasks
          PROVE  \A i \in 1 .. Len(over[u]) : link'[over[u][i]] # "new"
        BY <1>2, <2>1 DEF ListInv
    <2> QED BY <2>1, <2>3, <2>4, <2>5, <2>6 DEF ListInv
<1>9. ASSUME NEW c \in Clients, HandlerEnds(c)
      PROVE  ListInv'
    <2>1. /\ link[c] = "lost" /\ subscribers' = Without({c}) /\ attached' = {}
          /\ link' = [link EXCEPT ![c] = "ended"]
          /\ UNCHANGED <<counters, pc, data, over, pos, dead, greeting, got>>
        BY <1>9 DEF HandlerEnds, taskVars
    <2>2. link'[c] = "ended" /\ \A d \in Clients \ {c} : link'[d] = link[d]
        BY <1>1, <2>1 DEF TypeOK
    <2>3. /\ ToSet(subscribers') = ToSet(subscribers) \ {c}
          /\ IsInjective(subscribers) => IsInjective(subscribers')
        BY <1>1, <2>1, WithoutProperties DEF TypeOK
    <2>4. LiveSubscribed'
        BY <2>1, <2>2, <2>3 DEF ListInv, LiveSubscribed, Connected
    <2>5. ASSUME NEW u \in Tasks
          PROVE  Served(u)'
        BY <1>2, <2>1, <2>2 DEF ListInv, Served, Connected
    <2>6. ASSUME NEW u \in Tasks
          PROVE  /\ \A d \in dead[u] : link'[d] \in Gone
                 /\ \A i \in 1 .. Len(over[u]) : link'[over[u][i]] # "new"
        BY <1>1, <1>2, <2>2 DEF ListInv, Gone, TypeOK
    <2> QED BY <2>1, <2>4, <2>5, <2>6 DEF ListInv
<1>10. CASE UNCHANGED vars
    BY <1>10 DEF vars, ListInv, LiveSubscribed, Served, Connected
<1> QED
    BY <1>4, <1>5, <1>6, <1>7, <1>8, <1>9, <1>10 DEF Next, Broadcast, HandlerOver

LEMMA Lists == Safety => [](CountInv /\ ListInv)
BY CountInit, CountStep, ListInit, ListStep, PTL DEF Safety

\* The list of subscribers has every live connection once, and none that is not yet
\* accepted or that a WebSocketDisconnect has ended, for any number of calls and
\* connections (gateway/metrics/store.py 30-48, gateway/router.py 31-38).
THEOREM LiveConnectionsSubscribed == Safety => []LiveSubscribed
<1>1. CountInv /\ ListInv => LiveSubscribed
    BY DEF ListInv
<1> QED BY <1>1, Lists, PTL

\* A loop that is past a live connection has sent it its snapshot, though others are
\* removed and added while it is suspended (gateway/metrics/store.py 42-48).
THEOREM BroadcastsSkipNobody == Safety => []NobodySkipped
<1>1. CountInv /\ ListInv => NobodySkipped
    <2> SUFFICES ASSUME CountInv, ListInv, NEW t \in Tasks, NEW c \in Clients
                 PROVE  /\ pc[t] = "done" /\ Connected(c) /\ c \in ToSet(over[t])
                            => data[t] \in got[c]
                        /\ pc[t] = "sending" /\ Connected(c) /\ data[t] \notin got[c]
                            => c \notin ToSet(SubSeq(over[t], 1, pos[t] - 1))
        BY DEF NobodySkipped
    <2> DEFINE n == Len(over[t])
    <2>1. /\ over[t] \in Seq(Clients) /\ n \in Nat /\ DOMAIN over[t] = 1 .. n
          /\ pos[t] \in 1 .. n + 1
        BY DEF CountInv, TypeOK
    <2>2. \A i \in 1 .. n : i < pos[t] /\ Connected(over[t][i]) => data[t] \in got[over[t][i]]
        BY DEF ListInv, Served
    <2>3. pc[t] = "done" => pos[t] = n + 1
        BY DEF ListInv
    <2> HIDE DEF n
    <2>4. pc[t] = "done" /\ Connected(c) /\ c \in ToSet(over[t]) => data[t] \in got[c]
        BY <2>1, <2>2, <2>3 DEF ToSet
    <2>5. ASSUME Connected(c), c \in ToSet(SubSeq(over[t], 1, pos[t] - 1))
          PROVE  data[t] \in got[c]
        <3> DEFINE past == SubSeq(over[t], 1, pos[t] - 1)
        <3>1. /\ DOMAIN past = 1 .. pos[t] - 1
              /\ \A i \in 1 .. pos[t] - 1 : past[i] = over[t][i]
            BY <2>1
        <3> HIDE DEF past
        <3>2. PICK i \in 1 .. pos[t] - 1 : past[i] = c
            BY <2>5, <3>1 DEF ToSet, past
        <3>3. i \in 1 .. n /\ i < pos[t] /\ over[t][i] = c
            BY <2>1, <3>1, <3>2
        <3> QED BY <2>2, <2>5, <3>3
    <2> QED BY <2>4, <2>5
<1> QED BY <1>1, Lists, PTL
=============================================================================
