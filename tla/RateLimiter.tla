---------------------------- MODULE RateLimiter -----------------------------
(***************************************************************************)
(* The limiter of GET /audit/export (app/api/routes.py 24-35): the calls   *)
(* of each address within the last minute, in the memory of the process.   *)
(***************************************************************************)
EXTENDS Integers, FiniteSets

CONSTANTS
    Addresses,      \* clients
    MaxPerMin,      \* max_per_min
    Window          \* 60 seconds

ASSUME RateLimiterAssumption ==
    MaxPerMin \in Nat \ {0} /\ Window \in Nat \ {0}

VARIABLE exportCalls    \* _export_calls: by address, numbered calls with their time

NoCalls == [a \in Addresses |-> {}]

\* A mistake to be caught: a call counts for one tick less.
RecentShort(calls, now) == {c \in calls : now - c.at < Window - 1}

Recent(calls, now) == {c \in calls : now - c.at < Window}

\* A mistake to be caught: a call exactly a minute ago counts too.
FullLong(a, now) ==
    Cardinality({c \in exportCalls[a] : now - c.at <= Window}) >= MaxPerMin

Full(a, now) == Cardinality(Recent(exportCalls[a], now)) >= MaxPerMin

\* A call that is let through; the list is pruned and extended.
CountCall(a, n, now) ==
    exportCalls' = [exportCalls EXCEPT ![a] =
                        Recent(@, now) \cup {[n |-> n, at |-> now]}]
=============================================================================
