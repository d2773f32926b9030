---------------------------- MODULE ChatService -----------------------------
(***************************************************************************)
(* What POST /v1/chat promises of one request, whatever happens inside:    *)
(* the mapping of its placeholders exists only from its arrival until it   *)
(* is erased and never comes back; an answer (200) follows a compliant     *)
(* row of the audit log and a refusal (451) a blocked one; there is at     *)
(* most one row; both erase the mapping; any request may fail (500) or be  *)
(* lost with the process.                                                  *)
(***************************************************************************)
CONSTANT Requests

VARIABLES
    mapping,    \* "absent", "held" or "erased"
    log,        \* "none", "answered" or "blocked": the audit row
    outcome     \* "none", "ok", "blocked", "error" or "lost"

vars == <<mapping, log, outcome>>

TypeOK ==
    /\ mapping \in [Requests -> {"absent", "held", "erased"}]
    /\ log \in [Requests -> {"none", "answered", "blocked"}]
    /\ outcome \in [Requests -> {"none", "ok", "blocked", "error", "lost"}]

Init ==
    /\ mapping = [r \in Requests |-> "absent"]
    /\ log = [r \in Requests |-> "none"]
    /\ outcome = [r \in Requests |-> "none"]

Pending(r) == mapping[r] # "absent" /\ outcome[r] = "none"

Accept(r) ==
    /\ mapping[r] = "absent"
    /\ mapping' = [mapping EXCEPT ![r] = "held"]
    /\ UNCHANGED <<log, outcome>>

\* The time to live is over.
Erase(r) ==
    /\ mapping[r] = "held"
    /\ mapping' = [mapping EXCEPT ![r] = "erased"]
    /\ UNCHANGED <<log, outcome>>

\* The row may still appear when the client was already told of an error.
Record(r) ==
    /\ mapping[r] # "absent"
    /\ outcome[r] \notin {"ok", "blocked"}
    /\ log[r] = "none"
    /\ \E kind \in {"answered", "blocked"} : log' = [log EXCEPT ![r] = kind]
    /\ UNCHANGED <<mapping, outcome>>

Conclude(r, code) ==
    /\ outcome' = [outcome EXCEPT ![r] = code]
    /\ mapping' = [mapping EXCEPT ![r] = "erased"]
    /\ UNCHANGED log

Deliver(r) == Pending(r) /\ log[r] = "answered" /\ Conclude(r, "ok")

Refuse(r) == Pending(r) /\ log[r] = "blocked" /\ Conclude(r, "blocked")

\* An internal error; the mapping may be left to its time to live.
Fail(r) ==
    /\ Pending(r)
    /\ outcome' = [outcome EXCEPT ![r] = "error"]
    /\ \/ mapping' = [mapping EXCEPT ![r] = "erased"]
       \/ UNCHANGED mapping
    /\ UNCHANGED log

\* The process ends and starts again: pending requests are lost and no
\* mapping survives, the rows do.
Restart ==
    /\ outcome' = [r \in Requests |->
                    IF Pending(r) THEN "lost" ELSE outcome[r]]
    /\ mapping' = [r \in Requests |->
                    IF mapping[r] = "held" THEN "erased" ELSE mapping[r]]
    /\ UNCHANGED log

Next ==
    \/ \E r \in Requests :
        Accept(r) \/ Erase(r) \/ Record(r) \/ Deliver(r) \/ Refuse(r) \/ Fail(r)
    \/ Restart

\* A pending request is concluded and a held mapping is erased.
Fairness ==
    \A r \in Requests :
        /\ WF_vars(Deliver(r) \/ Refuse(r) \/ Fail(r))
        /\ WF_vars(Erase(r))

Safety == Init /\ [][Next]_vars

Spec == Safety /\ Fairness
=============================================================================
