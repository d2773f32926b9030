------------------------------- MODULE Vault --------------------------------
(***************************************************************************)
(* The in-memory vault (app/engine/vault.py): which sessions hold a        *)
(* mapping, and which still have their call_later purge pending.  A        *)
(* session id is fresh (token_hex(16)), so it is named by its request.     *)
(***************************************************************************)
EXTENDS Shield

VARIABLES
    store,          \* sessions whose mapping is in _store
    timers          \* sessions whose TTL purge is scheduled on the loop

VaultTypeOK == store \subseteq Requests /\ timers \subseteq Requests

VaultInit == store = {} /\ timers = {}

\* A mistake to be caught: the purge is never scheduled.
SealOnly(s) ==
    /\ store' = store \cup {s}
    /\ UNCHANGED timers

\* seal_and_schedule
SealAndSchedule(s) ==
    /\ store' = store \cup {s}
    /\ timers' = timers \cup {s}

\* A mistake to be caught: open answers for a session that is gone.
OpensAlways(s) == s \in Requests

\* open finds the session; otherwise it raises KeyError.
Opens(s) == s \in store

\* purge called by the handler: it pops the entry, the timer stays scheduled.
Purge(s) ==
    /\ store' = store \ {s}
    /\ UNCHANGED timers

\* The TTL elapses and the loop runs the scheduled purge, a no-op when the
\* handler came first.
Expire(s) ==
    /\ s \in timers
    /\ timers' = timers \ {s}
    /\ store' = store \ {s}

\* A mistake to be caught: the mappings outlive the process.
VaultPersists == UNCHANGED store /\ timers' = {}

\* The process ends: mappings, keys and timers were only in its memory.
VaultLost == store' = {} /\ timers' = {}
=============================================================================
