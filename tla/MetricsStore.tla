---------------------------- MODULE MetricsStore ----------------------------
(***************************************************************************)
(* MetricsStore (gateway/metrics/store.py) with the websocket handler that *)
(* uses it (gateway/router.py, metrics_ws): tasks increment the counters   *)
(* and send every subscriber a snapshot, one after the other, while        *)
(* subscribers come and go.  A task may be suspended at any send; the      *)
(* lock, under which nothing is awaited, is always free and suspends       *)
(* nobody.  A for loop over a Python list follows what is appended to that *)
(* list but not a new list: a broadcast is attached while the list it      *)
(* iterates still is the list of subscribers.                              *)
(***************************************************************************)
EXTENDS SequencesExt

CONSTANTS
    Tasks,          \* calls of increment
    Clients         \* websocket connections; a reconnecting client is another

ASSUME TasksAssumption == IsFiniteSet(Tasks)

VARIABLES
    counters,       \* increments so far, for all keys together
    subscribers,    \* _subscribers
    attached,       \* broadcasts iterating that very list
    pc,             \* where a call of increment is
    data,           \* the snapshot a call sends
    over,           \* the list its for loop iterates
    pos,            \* the index the loop is at
    dead,           \* connections that raised
    link,           \* the state of a connection, as its handler can know it
    greeting,       \* the snapshot the handler sends first
    got             \* the snapshots a client received, for observation only

storeVars == <<counters, subscribers, attached>>
taskVars == <<pc, data, over, pos, dead>>
clientVars == <<link, greeting, got>>
vars == <<counters, subscribers, attached, pc, data, over, pos, dead,
          link, greeting, got>>

Counts == 0 .. Cardinality(Tasks)

TypeOK ==
    /\ counters \in Counts
    /\ subscribers \in Seq(Clients)
    /\ attached \subseteq Tasks
    /\ pc \in [Tasks -> {"idle", "sending", "done"}]
    /\ data \in [Tasks -> Counts]
    /\ over \in [Tasks -> Seq(Clients)]
    /\ pos \in [Tasks -> Nat]
    /\ \A t \in Tasks : pos[t] \in 1 .. Len(over[t]) + 1
    /\ dead \in [Tasks -> SUBSET Clients]
    /\ link \in [Clients -> {"new", "greeting", "open", "lost", "ended", "failed"}]
    /\ greeting \in [Clients -> Counts]
    /\ got \in [Clients -> SUBSET Counts]

Init ==
    /\ counters = 0
    /\ subscribers = <<>>
    /\ attached = {}
    /\ pc = [t \in Tasks |-> "idle"]
    /\ data = [t \in Tasks |-> 0]
    /\ over = [t \in Tasks |-> <<>>]
    /\ pos = [t \in Tasks |-> 1]
    /\ dead = [t \in Tasks |-> {}]
    /\ link = [c \in Clients |-> "new"]
    /\ greeting = [c \in Clients |-> 0]
    /\ got = [c \in Clients |-> {}]

Connected(c) == link[c] \in {"greeting", "open"}

\* unsubscribe, for each connection of gone: a list without it takes the old
\* list's place, and no loop iterates the new list yet.
Without(gone) ==
    LET kept[n \in 0 .. Len(subscribers)] ==
            IF n = 0 THEN <<>>
            ELSE IF subscribers[n] \in gone THEN kept[n - 1]
            ELSE Append(kept[n - 1], subscribers[n])
    IN  kept[Len(subscribers)]

-----------------------------------------------------------------------------
(* A call of increment.                                                    *)

\* The counter is raised and the snapshot taken without a suspension; with no
\* subscriber that is all.
Increment(t) ==
    /\ pc[t] = "idle"
    /\ counters' = counters + 1
    /\ data' = [data EXCEPT ![t] = counters + 1]
    /\ over' = [over EXCEPT ![t] = subscribers]
    /\ IF subscribers = <<>>
       THEN pc' = [pc EXCEPT ![t] = "done"] /\ UNCHANGED attached
       ELSE pc' = [pc EXCEPT ![t] = "sending"] /\ attached' = attached \cup {t}
    /\ UNCHANGED <<subscribers, pos, dead, clientVars>>

\* The next connection of the list is sent the snapshot.  When the peer is gone
\* the send may go unnoticed or raise; when the handler is over the server has
\* closed the connection and the send raises.
Send(t) ==
    /\ pc[t] = "sending"
    /\ pos[t] <= Len(over[t])
    /\ LET c == over[t][pos[t]] IN
        \/ /\ Connected(c)
           /\ got' = [got EXCEPT ![c] = @ \cup {data[t]}]
           /\ UNCHANGED dead
        \/ /\ ~Connected(c)
           /\ \/ dead' = [dead EXCEPT ![t] = @ \cup {c}]
              \/ link[c] = "lost" /\ UNCHANGED dead
           /\ UNCHANGED got
    /\ pos' = [pos EXCEPT ![t] = @ + 1]
    /\ UNCHANGED <<storeVars, pc, data, over, link, greeting>>

\* A mistake to be caught: the list is replaced by what was iterated.
EndBroadcastStale(t) ==
    /\ pc[t] = "sending"
    /\ pos[t] > Len(over[t])
    /\ subscribers' = SelectSeq(over[t], LAMBDA c : c \notin dead[t])
    /\ attached' = {}
    /\ pc' = [pc EXCEPT ![t] = "done"]
    /\ dead' = [dead EXCEPT ![t] = {}]
    /\ UNCHANGED <<counters, data, over, pos, clientVars>>

\* The loop is over: the connections that raised are unsubscribed.
EndBroadcast(t) ==
    /\ pc[t] = "sending"
    /\ pos[t] > Len(over[t])
    /\ subscribers' = Without(dead[t])
    /\ attached' = IF dead[t] = {} THEN attached \ {t} ELSE {}
    /\ pc' = [pc EXCEPT ![t] = "done"]
    /\ dead' = [dead EXCEPT ![t] = {}]
    /\ UNCHANGED <<counters, data, over, pos, clientVars>>

-----------------------------------------------------------------------------
(* A connection and its handler.                                           *)

\* A mistake to be caught: the first snapshot is older than the subscription.
SubscribeLate(c) ==
    /\ link[c] = "new"
    /\ link' = [link EXCEPT ![c] = "greeting"]
    /\ subscribers' = Append(subscribers, c)
    /\ over' = [t \in Tasks |->
                  IF t \in attached THEN Append(over[t], c) ELSE over[t]]
    /\ \E n \in 0 .. counters : greeting' = [greeting EXCEPT ![c] = n]
    /\ UNCHANGED <<counters, attached, pc, data, pos, dead, got>>

\* The connection is accepted and appended to the list, which every attached
\* loop iterates; the first snapshot is taken right after.
Subscribe(c) ==
    /\ link[c] = "new"
    /\ link' = [link EXCEPT ![c] = "greeting"]
    /\ subscribers' = Append(subscribers, c)
    /\ over' = [t \in Tasks |->
                  IF t \in attached THEN Append(over[t], c) ELSE over[t]]
    /\ greeting' = [greeting EXCEPT ![c] = counters]
    /\ UNCHANGED <<counters, attached, pc, data, pos, dead, got>>

\* The first snapshot is sent, maybe after those of other tasks.
Greet(c) ==
    /\ link[c] = "greeting"
    /\ link' = [link EXCEPT ![c] = "open"]
    /\ got' = [got EXCEPT ![c] = @ \cup {greeting[c]}]
    /\ UNCHANGED <<storeVars, taskVars, greeting>>

\* The client goes away; nobody on the server knows yet.
Disconnect(c) ==
    /\ Connected(c)
    /\ link' = [link EXCEPT ![c] = "lost"]
    /\ UNCHANGED <<storeVars, taskVars, greeting, got>>

\* A mistake to be caught: the connection is removed from the list in place,
\* under the loops that iterate it.
HandlerEndsInPlace(c) ==
    /\ link[c] = "lost"
    /\ link' = [link EXCEPT ![c] = "ended"]
    /\ subscribers' = Remove(subscribers, c)
    /\ over' = [t \in Tasks |->
                  IF t \in attached THEN Remove(over[t], c) ELSE over[t]]
    /\ UNCHANGED <<counters, attached, pc, data, pos, dead, greeting, got>>

\* WebSocketDisconnect ends the handler, at its send or at its receive, and is the
\* only end that unsubscribes.
HandlerEnds(c) ==
    /\ link[c] = "lost"
    /\ link' = [link EXCEPT ![c] = "ended"]
    /\ subscribers' = Without({c})
    /\ attached' = {}
    /\ UNCHANGED <<counters, taskVars, greeting, got>>

\* Any other exception ends the handler and leaves the list as it is: a binary
\* frame, maybe one read after the peer went away, or a receive on a connection
\* that the send of a broadcast has found closed.
HandlerFails(c) ==
    /\ link[c] \in {"open", "lost"}
    /\ link' = [link EXCEPT ![c] = "failed"]
    /\ UNCHANGED <<storeVars, taskVars, greeting, got>>

HandlerOver(c) == HandlerEnds(c) \/ HandlerFails(c)

-----------------------------------------------------------------------------

Broadcast(t) == Send(t) \/ EndBroadcast(t)

Next ==
    \/ \E t \in Tasks : Increment(t) \/ Broadcast(t)
    \/ \E c \in Clients :
        Subscribe(c) \/ Greet(c) \/ Disconnect(c) \/ HandlerOver(c)

\* A send ends: the server closes a connection that does not answer pings.
Fairness ==
    /\ \A t \in Tasks : WF_vars(Broadcast(t))
    /\ \A c \in Clients : WF_vars(Greet(c))

Safety == Init /\ [][Next]_vars

Spec == Safety /\ Fairness

-----------------------------------------------------------------------------
(* Properties.                                                             *)

\* The list holds every live connection once, none before it is accepted and none
\* whose handler a WebSocketDisconnect ended, whatever broadcasts removed in the
\* meantime (store.py, subscribe and unsubscribe, and the removal of dead
\* connections after a broadcast; router.py 37).
LiveSubscribed ==
    /\ IsInjective(subscribers)
    /\ \A c \in Clients :
        /\ Connected(c) => c \in ToSet(subscribers)
        /\ link[c] \in {"new", "ended"} => c \notin ToSet(subscribers)

\* No live connection is skipped by a broadcast when others disconnect while
\* it is under way: once past it, the loop has sent it the snapshot
\* (store.py, the loop of _broadcast).
NobodySkipped ==
    \A t \in Tasks, c \in Clients :
        /\ pc[t] = "done" /\ Connected(c) /\ c \in ToSet(over[t])
            => data[t] \in got[c]
        /\ pc[t] = "sending" /\ Connected(c) /\ data[t] \notin got[c]
            => c \notin ToSet(SubSeq(over[t], 1, pos[t] - 1))

\* Every live client learns every count, or a later one: from the broadcast
\* when it was subscribed, from its first snapshot when it was not yet.
CountArrives ==
    \A c \in Clients : \A n \in Counts :
        Connected(c) /\ counters = n
            ~> ~Connected(c) \/ \E m \in got[c] : m >= n

\* A handler that failed leaves its connection in the list.  The first broadcast
\* that finds it there removes it for good, though others, begun when it was still
\* live, end later (store.py, the except clause and the removal after the loop).
FailedRemoved ==
    \A t \in Tasks, c \in Clients :
        pc[t] = "sending" /\ pos[t] = 1 /\ link[c] = "failed" /\ c \in ToSet(over[t])
            ~> [](c \notin ToSet(subscribers))
=============================================================================
