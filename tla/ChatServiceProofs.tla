-------------------------- MODULE ChatServiceProofs -------------------------
(***************************************************************************)
(* ChatPipeline implements the safety part of ChatService: every step of   *)
(* the pipeline is a step of the service or leaves it as it is.            *)
(***************************************************************************)
EXTENDS ChatPipelineProofs

\* What the mapping to the service rests on.
Base == Inv /\ MappingLifetime

\* A request the vault knows has arrived, and what an open request is to the
\* service.
LEMMA BaseFacts ==
    ASSUME Base, NEW r \in Requests
    PROVE  /\ pc[r] = "idle" <=> ServiceMapping[r] = "absent"
           /\ r \in store <=> ServiceMapping[r] = "held"
           /\ Service!Pending(r) <=> Open(r)
           /\ audit[r] = <<>> <=> ServiceLog[r] = "none"
<1>1. PhaseInv /\ MappingLifetime
  BY DEF Base, Inv
<1>2. r \in store => pc[r] # "idle"
  BY <1>1 DEF PhaseInv, MappingLifetime, Open
<1>3. pc[r] = "idle" <=> ServiceMapping[r] = "absent"
  BY <1>2 DEF ServiceMapping
<1>4. status[r] = "none" <=> pc[r] # "done"
  BY <1>1 DEF PhaseInv
<1> QED BY <1>3, <1>4 DEF ServiceMapping, ServiceLog, Service!Pending, Open

\* A step that leaves store, audit and status alone and no handler idle that
\* was not, is none of the service's business.
LEMMA StutterStep ==
    ASSUME UNCHANGED <<store, audit, status>>,
           \A r \in Requests : pc'[r] = "idle" <=> pc[r] = "idle"
    PROVE  UNCHANGED Service!vars
BY DEF Service!vars, ServiceMapping, ServiceLog

LEMMA ServiceInit == Init => Service!Init
BY DEF Init, VaultInit, AuditInit, Service!Init, ServiceMapping, ServiceLog

\* A request arrives: its mapping is held from now on.
LEMMA AcceptStep ==
    ASSUME Base, NEW r \in Requests, pc[r] = "idle", TypeOK,
           SealAndSchedule(r), NEW label, label # "idle", Goto(r, label),
           UNCHANGED <<audit, status>>
    PROVE  Service!Accept(r)
<1>1. ServiceMapping[r] = "absent"
  BY BaseFacts
<1>2. ServiceMapping' = [ServiceMapping EXCEPT ![r] = "held"]
  BY DEF ServiceMapping, SealAndSchedule, Goto, TypeOK
<1>3. UNCHANGED <<ServiceLog, status>>
  BY DEF ServiceLog
<1> QED BY <1>1, <1>2, <1>3 DEF Service!Accept

\* An exception of an open handler, the mapping purged or not.
LEMMA FailStep ==
    ASSUME Base, NEW r \in Requests, TypeOK, Open(r), Conclude(r, "error"),
           store' \in {store, store \ {r}}, UNCHANGED audit
    PROVE  Service!Fail(r)
<1>1. Service!Pending(r)
  BY BaseFacts
<1>2. status' = [status EXCEPT ![r] = "error"]
  BY DEF Conclude
<1>3. UNCHANGED ServiceLog
  BY DEF ServiceLog
<1>4. CASE store' = store
  <2>1. UNCHANGED ServiceMapping
    BY <1>4 DEF ServiceMapping, Conclude, Goto, TypeOK, Open
  <2> QED BY <1>1, <1>2, <1>3, <2>1 DEF Service!Fail
<1>5. CASE store' = store \ {r}
  <2>1. ServiceMapping' = [ServiceMapping EXCEPT ![r] = "erased"]
    BY <1>5 DEF ServiceMapping, Conclude, Goto, TypeOK, Open
  <2> QED BY <1>1, <1>2, <1>3, <2>1 DEF Service!Fail
<1> QED BY <1>4, <1>5

\* The audit write returned: the service delivers or refuses.
LEMMA ConcludeStep ==
    ASSUME Base, NEW r \in Requests, AuditReturns(r)
    PROVE  Service!Deliver(r) \/ Service!Refuse(r)
<1>0. TypeOK /\ AuditInv
  BY DEF Base, Inv
<1>1. Service!Pending(r)
  BY BaseFacts DEF AuditReturns, Open
<1>2. UNCHANGED ServiceLog
  BY DEF ServiceLog, AuditReturns, auditVars
<1>3. ServiceMapping' = [ServiceMapping EXCEPT ![r] = "erased"]
  BY <1>0 DEF ServiceMapping, AuditReturns, Conclude, Goto, Purge, TypeOK
<1>4. audit[r] # <<>> /\ audit[r][1].compliant = (out[r] # Blocked)
  <2>1. audit[r] # <<>> /\ audit[r] = <<RowOf(r)>>
    BY <1>0 DEF AuditInv, AuditReturns
  <2>2. audit[r][1] = RowOf(r)
    BY <2>1
  <2> QED BY <2>1, <2>2 DEF RowOf
<1>5. CASE out[r] = Blocked
  <2>1. ServiceLog[r] = "blocked" /\ status' = [status EXCEPT ![r] = "blocked"]
    BY <1>4, <1>5 DEF ServiceLog, AuditReturns, Conclude
  <2> QED BY <1>1, <1>2, <1>3, <2>1 DEF Service!Refuse, Service!Conclude
<1>6. CASE out[r] # Blocked
  <2>1. ServiceLog[r] = "answered" /\ status' = [status EXCEPT ![r] = "ok"]
    BY <1>4, <1>6 DEF ServiceLog, AuditReturns, Conclude
  <2> QED BY <1>1, <1>2, <1>3, <2>1 DEF Service!Deliver, Service!Conclude
<1> QED BY <1>5, <1>6

\* The database carries out an INSERT: the service records.
LEMMA RecordStep ==
    ASSUME Base, NEW r \in Requests, InsertRow(r)
    PROVE  Service!Record(r)
<1>0. TypeOK /\ AuditInv /\ PhaseInv
  BY DEF Base, Inv
<1>1. sent[r] # None /\ sent[r] = RowOf(r) /\ audit[r] = <<>> /\ out[r] # None
  BY <1>0 DEF InsertRow, Insert, AuditInv
<1>2. ServiceMapping[r] # "absent" /\ status[r] \notin {"ok", "blocked"}
  BY <1>0, <1>1, BaseFacts DEF PhaseInv, AuditInv
<1>3. audit' = [audit EXCEPT ![r] = <<RowOf(r)>>]
  BY <1>0, <1>1 DEF InsertRow, Insert
<1>4. ServiceLog[r] = "none"
  BY <1>1 DEF ServiceLog
<1>5. \E kind \in {"answered", "blocked"} :
            ServiceLog' = [ServiceLog EXCEPT ![r] = kind]
  <2>1. ServiceLog' = [ServiceLog EXCEPT
                        ![r] = IF out[r] # Blocked THEN "answered" ELSE "blocked"]
    BY <1>0, <1>3 DEF ServiceLog, RowOf, TypeOK, AuditTypeOK
  <2> QED BY <2>1
<1>6. UNCHANGED <<ServiceMapping, status>>
  BY DEF InsertRow, ServiceMapping, vaultVars
<1> QED BY <1>2, <1>4, <1>5, <1>6 DEF Service!Record

\* The TTL is over: the service erases, if there is something left to erase.
LEMMA EraseStep ==
    ASSUME Base, NEW r \in Requests, TimerFires(r)
    PROVE  Service!Erase(r) \/ UNCHANGED Service!vars
<1>1. UNCHANGED <<audit, pc, status>> /\ store' = store \ {r}
  BY DEF TimerFires, Expire, auditVars
<1>2. CASE r \in store
  <2>1. ServiceMapping[r] = "held" /\ pc[r] # "idle"
    BY <1>2, BaseFacts DEF ServiceMapping
  <2>2. ServiceMapping' = [ServiceMapping EXCEPT ![r] = "erased"]
    BY <1>1, <1>2, <2>1 DEF ServiceMapping
  <2> QED BY <1>1, <2>1, <2>2 DEF Service!Erase, ServiceLog
<1>3. CASE r \notin store
  BY <1>1, <1>3, StutterStep
<1> QED BY <1>2, <1>3

\* The process restarts: so does the service.
LEMMA RestartStep ==
    ASSUME Base, Crash
    PROVE  Service!Restart
<1>1. /\ status' = [r \in Requests |-> IF Open(r) THEN "lost" ELSE status[r]]
      /\ UNCHANGED ServiceLog
      /\ store' = {}
  BY DEF Crash, VaultLost, auditVars, ServiceLog
<1>2. \A r \in Requests : pc'[r] = "idle" <=> pc[r] = "idle"
  BY DEF Crash, Open
<1>3. \A r \in Requests : Service!Pending(r) <=> Open(r)
  BY BaseFacts
<1>4. \A r \in Requests : ServiceMapping'[r] =
            IF ServiceMapping[r] = "held" THEN "erased" ELSE ServiceMapping[r]
  <2> SUFFICES ASSUME NEW r \in Requests
               PROVE  ServiceMapping'[r] = IF ServiceMapping[r] = "held"
                                           THEN "erased" ELSE ServiceMapping[r]
    OBVIOUS
  <2>1. /\ pc[r] = "idle" <=> ServiceMapping[r] = "absent"
        /\ r \in store <=> ServiceMapping[r] = "held"
    BY BaseFacts
  <2> QED BY <1>1, <1>2, <2>1 DEF ServiceMapping
<1>5. ServiceMapping' = [r \in Requests |->
            IF ServiceMapping[r] = "held" THEN "erased" ELSE ServiceMapping[r]]
  BY <1>4 DEF ServiceMapping
<1>6. status' = [r \in Requests |->
            IF Service!Pending(r) THEN "lost" ELSE status[r]]
  BY <1>1, <1>3
<1> QED BY <1>1, <1>5, <1>6 DEF Service!Restart

\* Every step of the pipeline, in a state the invariant allows.
LEMMA ServiceStep == Base /\ [Next]_vars => [Service!Next]_(Service!vars)
<1> SUFFICES ASSUME Base, [Next]_vars
             PROVE  Service!Next \/ UNCHANGED Service!vars
  OBVIOUS
<1>0. TypeOK
  BY DEF Base, Inv
<1> USE DEF Service!Next
<1>1. ASSUME NEW r \in Requests, ArriveHit(r) PROVE Service!Accept(r)
  <2>1. /\ pc[r] = "idle" /\ SealAndSchedule(r) /\ Goto(r, "auditing")
        /\ UNCHANGED <<audit, status>>
    BY <1>1 DEF ArriveHit, Receive, StartAudit, Write
  <2> QED BY <1>0, <2>1, AcceptStep
<1>2. ASSUME NEW r \in Requests, ArriveMiss(r) PROVE Service!Accept(r)
  <2>1. /\ pc[r] = "idle" /\ SealAndSchedule(r) /\ Goto(r, "upstream")
        /\ UNCHANGED <<audit, status>>
    BY <1>2 DEF ArriveMiss, Receive, auditVars
  <2> QED BY <1>0, <2>1, AcceptStep
<1>3. ASSUME NEW r \in Requests, UpstreamAnswers(r) PROVE UNCHANGED Service!vars
  BY <1>0, <1>3, StutterStep
  DEF UpstreamAnswers, Goto, vaultVars, auditVars, TypeOK
<1>4. ASSUME NEW r \in Requests, UpstreamFails(r) PROVE Service!Fail(r)
  <2>1. /\ Open(r) /\ Conclude(r, "error") /\ UNCHANGED audit
        /\ store' \in {store, store \ {r}}
    BY <1>4 DEF UpstreamFails, Abort, Purge, Open, vaultVars, auditVars
  <2> QED BY <1>0, <2>1, FailStep
<1>5. ASSUME NEW r \in Requests, GuardianRetries(r) PROVE UNCHANGED Service!vars
  BY <1>5, StutterStep DEF GuardianRetries, vaultVars, auditVars
<1>6. ASSUME NEW r \in Requests, GuardianBlocks(r) PROVE UNCHANGED Service!vars
  BY <1>0, <1>6, StutterStep
  DEF GuardianBlocks, StartAudit, Write, Goto, vaultVars, TypeOK
<1>7. ASSUME NEW r \in Requests, GuardianRaises(r) PROVE Service!Fail(r)
  <2>1. /\ Open(r) /\ Conclude(r, "error") /\ UNCHANGED audit
        /\ store' = store \ {r}
    BY <1>7 DEF GuardianRaises, Abort, Purge, Open, auditVars
  <2> QED BY <1>0, <2>1, FailStep
<1>8. ASSUME NEW r \in Requests, GuardianPasses(r)
      PROVE  Service!Fail(r) \/ UNCHANGED Service!vars
  <2>1. CASE Opens(r)
    BY <1>0, <1>8, <2>1, StutterStep
    DEF GuardianPasses, StartAudit, Write, Goto, vaultVars, TypeOK
  <2>2. CASE ~Opens(r)
    <3>1. /\ Open(r) /\ Conclude(r, "error") /\ UNCHANGED audit
          /\ store' = store \ {r}
      BY <1>8, <2>2 DEF GuardianPasses, Abort, Purge, Open, auditVars
    <3> QED BY <1>0, <3>1, FailStep
  <2> QED BY <2>1, <2>2
<1>9. ASSUME NEW r \in Requests, AuditFails(r) PROVE Service!Fail(r)
  <2>1. /\ Open(r) /\ Conclude(r, "error") /\ UNCHANGED audit
        /\ store' = store \ {r}
    BY <1>9 DEF AuditFails, Discard, Abort, Purge, Open, auditVars
  <2> QED BY <1>0, <2>1, FailStep
<1>10. ASSUME NEW r \in Requests, Handler(r)
       PROVE  Service!Next \/ UNCHANGED Service!vars
  BY <1>3, <1>4, <1>5, <1>6, <1>7, <1>8, <1>9, <1>10, ConcludeStep DEF Handler
<1>11. CASE UNCHANGED vars
  BY <1>11, StutterStep DEF vars
<1> QED BY <1>1, <1>2, <1>10, <1>11, RecordStep, EraseStep, RestartStep DEF Next

\* The pipeline implements the safety part of the service: rows come before
\* answers and refusals, each request has one row at most, and a mapping that
\* was erased never comes back, whatever the timers, the database and the
\* restarts do.
THEOREM PipelineImplementsService == Safety => Service!Safety
<1>1. Base /\ [Next]_vars => [Service!Next]_(Service!vars)
  BY ServiceStep
<1>2. Inv /\ MappingLifetime => Base
  BY DEF Base
<1> QED BY <1>1, <1>2, ServiceInit, InvHolds, MappingsEnd, PTL
        DEF Safety, Service!Safety

=============================================================================
