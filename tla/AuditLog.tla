------------------------------ MODULE AuditLog ------------------------------
(***************************************************************************)
(* The audit table (app/database/audit_log.py).  write hands one INSERT to *)
(* PostgreSQL and waits; the row may be there before the reply is, and a   *)
(* connection lost in between leaves an INSERT that the server may still   *)
(* carry out.  The rows survive a restart of the application.              *)
(***************************************************************************)
EXTENDS Shield, Sequences

CONSTANT Blocked        \* the response_hash of a refused request

ASSUME BlockedAssumption == Blocked \notin Texts /\ Blocked # None

VARIABLES
    sent,       \* sent[r]: the row of the INSERT under way for r, or None
    audit       \* audit[r]: the rows with request_id r, oldest first

\* The columns the properties tell apart; a hash is known by what it hashes.
Row == [hash: Texts \cup {Blocked}, compliant: BOOLEAN, cached: BOOLEAN]

ASSUME NoneRowAssumption == None \notin Row

AuditTypeOK ==
    /\ sent \in [Requests -> Row \cup {None}]
    /\ audit \in [Requests -> Seq(Row)]

AuditInit ==
    /\ sent = [r \in Requests |-> None]
    /\ audit = [r \in Requests |-> <<>>]

\* write is called: the INSERT is on its way.
Write(r, row) ==
    /\ sent' = [sent EXCEPT ![r] = row]
    /\ UNCHANGED audit

\* The server carries the INSERT out.
Insert(r) ==
    /\ sent[r] # None
    /\ audit' = [audit EXCEPT ![r] = Append(@, sent[r])]
    /\ sent' = [sent EXCEPT ![r] = None]

\* The INSERT never takes effect: no connection, or an error on the server.
Discard(r) ==
    /\ sent[r] # None
    /\ sent' = [sent EXCEPT ![r] = None]
    /\ UNCHANGED audit
=============================================================================
