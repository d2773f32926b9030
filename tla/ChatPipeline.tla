---------------------------- MODULE ChatPipeline ----------------------------
(***************************************************************************)
(* POST /v1/chat (app/api/routes.py, chat), the handler that composes the  *)
(* shield, the vault, the semantic cache, the guardian and the audit log.  *)
(* The handlers of concurrent requests share one event loop: what a        *)
(* handler does between two awaits is one action, and everything else (a   *)
(* TTL timer, another handler, the database server, the end of the         *)
(* process) may come between two actions of the same request.              *)
(***************************************************************************)
EXTENDS Vault, VectorCache, Guardian, AuditLog

CONSTANT MaxCrashes     \* bound on the restarts of the process

ASSUME CrashAssumption == MaxCrashes \in Nat

VARIABLES
    pc,         \* the await a handler is at
    req,        \* masked prompt, caller level and stream flag
    hit,        \* cached_response: the value get returned, or None
    raw,        \* raw_response, or None before there is one
    out,        \* what the handler will answer: a text, Blocked, or None
    status,     \* the outcome the client sees
    crashes     \* restarts so far

vaultVars == <<store, timers>>
guardVars == <<stage, verdict, calls>>
auditVars == <<sent, audit>>
vars == <<store, timers, entries, stage, verdict, calls, sent, audit,
          pc, req, hit, raw, out, status, crashes>>

PCs == {"idle", "upstream", "guardian", "auditing", "done"}
Statuses == {"none", "ok", "blocked", "error", "lost"}
Inputs == [prompt: Prompts, level: Levels, stream: BOOLEAN]

TypeOK ==
    /\ VaultTypeOK
    /\ CacheTypeOK
    /\ GuardianTypeOK
    /\ AuditTypeOK
    /\ pc \in [Requests -> PCs]
    /\ req \in [Requests -> Inputs \cup {None}]
    /\ hit \in [Requests -> Texts \cup {None}]
    /\ raw \in [Requests -> Texts \cup {None}]
    /\ out \in [Requests -> Texts \cup {Blocked, None}]
    /\ status \in [Requests -> Statuses]
    /\ crashes \in 0 .. MaxCrashes

Init ==
    /\ VaultInit
    /\ CacheInit
    /\ GuardianInit
    /\ AuditInit
    /\ pc = [r \in Requests |-> "idle"]
    /\ req = [r \in Requests |-> None]
    /\ hit = [r \in Requests |-> None]
    /\ raw = [r \in Requests |-> None]
    /\ out = [r \in Requests |-> None]
    /\ status = [r \in Requests |-> "none"]
    /\ crashes = 0

-----------------------------------------------------------------------------
(* The pieces the actions below share.                                     *)

Goto(r, label) == pc' = [pc EXCEPT ![r] = label]

\* The handler ends with this outcome.
Conclude(r, code) ==
    /\ Goto(r, "done")
    /\ status' = [status EXCEPT ![r] = code]

\* A mistake to be caught: no finally clause.
AbortUnpurged(r) == Conclude(r, "error") /\ UNCHANGED vaultVars

\* An exception leaves the handler through the finally clause, which purges.
Abort(r) == Conclude(r, "error") /\ Purge(r)

\* A mistake to be caught: the mapping is not applied.
FinishedRaw(t, r, p) == IF p \in Prompts THEN Watermark(t, r) ELSE None

\* What the client of r, who sent prompt p, reads when the raw response is t.
Finished(t, r, p) == Watermark(Deanonymize(t, r, p), r)

\* The handler of r has answer a in hand and awaits the audit write; found is
\* what its cache lookup returned.
StartAudit(r, a, found) ==
    /\ out' = [out EXCEPT ![r] = a]
    /\ Goto(r, "auditing")
    /\ Write(r, [hash |-> a, compliant |-> a # Blocked,
                 cached |-> a # Blocked /\ found # None])

\* A mistake to be caught: the finished answer is cached, not the raw text.
RememberAnswer(r) ==
    CacheSet(req[r].prompt, Finished(raw[r], r, req[r].prompt), req[r].level)

\* The raw response is cached for the prompt, under the caller's level.
Remember(r) == CacheSet(req[r].prompt, raw[r], req[r].level)

-----------------------------------------------------------------------------
(* The awaits of the handler, in order.                                    *)

\* The request comes in: mask, seal, cache lookup, all before any await.
Receive(r, in, found) ==
    /\ pc[r] = "idle"
    /\ req' = [req EXCEPT ![r] = in]
    /\ hit' = [hit EXCEPT ![r] = found]
    /\ SealAndSchedule(r)
    /\ UNCHANGED <<entries, guardVars, status, crashes>>

\* A hit that is not streamed goes to the audit write without an await in
\* between: the session just sealed is opened, no model is called.
ArriveHit(r) ==
    \E in \in Inputs : \E found \in CacheGet(in.prompt, in.level) :
        /\ ~in.stream /\ found # None
        /\ Receive(r, in, found)
        /\ raw' = [raw EXCEPT ![r] = found]
        /\ StartAudit(r, Finished(found, r, in.prompt), found)

\* A miss, and any streamed request, goes to the model.
ArriveMiss(r) ==
    \E in \in Inputs : \E found \in CacheGet(in.prompt, in.level) :
        /\ in.stream \/ found = None
        /\ Receive(r, in, found)
        /\ Goto(r, "upstream")
        /\ UNCHANGED <<raw, out, auditVars>>

\* A mistake to be caught: the text is cached before the guardian has seen it.
UpstreamAnswersCached(r) ==
    /\ pc[r] = "upstream"
    /\ \E t \in Completions(r, req[r].prompt) :
        /\ raw' = [raw EXCEPT ![r] = t]
        /\ CacheSet(req[r].prompt, t, req[r].level)
    /\ Goto(r, "guardian")
    /\ StartCheck(r)
    /\ UNCHANGED <<vaultVars, auditVars, req, hit, out, status, crashes>>

\* The model's complete text is here, the guardian is asked.
UpstreamAnswers(r) ==
    /\ pc[r] = "upstream"
    /\ \E t \in Completions(r, req[r].prompt) : raw' = [raw EXCEPT ![r] = t]
    /\ Goto(r, "guardian")
    /\ StartCheck(r)
    /\ UNCHANGED <<vaultVars, entries, auditVars, req, hit, out, status, crashes>>

\* The call to the model raises.  A streamed request makes it before its try
\* clause, so nothing purges its session but the TTL.
UpstreamFails(r) ==
    /\ pc[r] = "upstream"
    /\ IF req[r].stream THEN Conclude(r, "error") /\ UNCHANGED vaultVars
                        ELSE Abort(r)
    /\ UNCHANGED <<entries, guardVars, auditVars, req, hit, raw, out, crashes>>

\* A correction is asked for, the handler still waits for the guardian.
GuardianRetries(r) ==
    /\ pc[r] = "guardian"
    /\ Retry(r)
    /\ UNCHANGED <<vaultVars, entries, auditVars, pc, req, hit, raw, out,
                   status, crashes>>

\* ComplianceError: the refusal is written to the audit log first.
GuardianBlocks(r) ==
    /\ pc[r] = "guardian"
    /\ GiveUp(r)
    /\ StartAudit(r, Blocked, hit[r])
    /\ UNCHANGED <<vaultVars, entries, req, hit, raw, status, crashes>>

\* Any other exception of the guardian.
GuardianRaises(r) ==
    /\ pc[r] = "guardian"
    /\ CallFails(r) \/ JudgeUnreadable(r)
    /\ Abort(r)
    /\ UNCHANGED <<entries, auditVars, req, hit, raw, out, crashes>>

\* The guardian lets the text pass: it is cached under the caller's level;
\* then the session is opened, which raises when the TTL was faster.
GuardianPasses(r) ==
    /\ pc[r] = "guardian"
    /\ JudgeCompliant(r) \/ CorrectionArrives(r)
    /\ Remember(r)
    /\ \/ /\ Opens(r)
          /\ StartAudit(r, Finished(raw[r], r, req[r].prompt), hit[r])
          /\ UNCHANGED <<vaultVars, status>>
       \/ /\ ~Opens(r)
          /\ Abort(r)
          /\ UNCHANGED <<auditVars, out>>
    /\ UNCHANGED <<req, hit, raw, crashes>>

\* A mistake to be caught: the answer does not wait for the row.
AuditReturnsAtOnce(r) ==
    /\ pc[r] = "auditing"
    /\ Conclude(r, IF out[r] = Blocked THEN "blocked" ELSE "ok")
    /\ Purge(r)
    /\ UNCHANGED <<entries, guardVars, auditVars, req, hit, raw, out, crashes>>

\* The write returned: purge and answer with 200, or with 451.
AuditReturns(r) ==
    /\ pc[r] = "auditing"
    /\ audit[r] # <<>>
    /\ Conclude(r, IF out[r] = Blocked THEN "blocked" ELSE "ok")
    /\ Purge(r)
    /\ UNCHANGED <<entries, guardVars, auditVars, req, hit, raw, out, crashes>>

\* The write raised: 500, and the answer is dropped.  The INSERT was refused,
\* or the connection broke and nobody knows what became of it.
AuditFails(r) ==
    /\ pc[r] = "auditing"
    /\ Discard(r) \/ UNCHANGED auditVars
    /\ Abort(r)
    /\ UNCHANGED <<entries, guardVars, req, hit, raw, out, crashes>>

-----------------------------------------------------------------------------
(* What happens around the handlers.                                       *)

\* The database server carries out an INSERT, whoever still waits for it.
InsertRow(r) ==
    /\ Insert(r)
    /\ UNCHANGED <<vaultVars, entries, guardVars, pc, req, hit, raw, out,
                   status, crashes>>

\* The TTL timer of a session fires.
TimerFires(r) ==
    /\ Expire(r)
    /\ UNCHANGED <<entries, guardVars, auditVars, pc, req, hit, raw, out,
                   status, crashes>>

Open(r) == pc[r] \notin {"idle", "done"}

\* The process ends and is started again with an empty vault and cache.
Crash ==
    /\ crashes < MaxCrashes
    /\ crashes' = crashes + 1
    /\ VaultLost
    /\ CacheLost
    /\ pc' = [r \in Requests |-> IF Open(r) THEN "done" ELSE pc[r]]
    /\ status' = [r \in Requests |-> IF Open(r) THEN "lost" ELSE status[r]]
    /\ UNCHANGED <<guardVars, auditVars, req, hit, raw, out>>

Handler(r) ==
    \/ UpstreamAnswers(r) \/ UpstreamFails(r)
    \/ GuardianRetries(r) \/ GuardianBlocks(r)
    \/ GuardianRaises(r) \/ GuardianPasses(r)
    \/ AuditReturns(r) \/ AuditFails(r)

Next ==
    \/ \E r \in Requests :
        \/ ArriveHit(r) \/ ArriveMiss(r)
        \/ Handler(r)
        \/ InsertRow(r)
        \/ TimerFires(r)
    \/ Crash

\* Every await ends: httpx gives the model calls a timeout, and PostgreSQL is
\* taken to answer or to break the connection.
HandlerFairness == \A r \in Requests : WF_vars(Handler(r))

\* The event loop runs the timers that are due.
TimerFairness == \A r \in Requests : WF_vars(TimerFires(r))

Safety == Init /\ [][Next]_vars

Spec == Safety /\ HandlerFairness /\ TimerFairness

-----------------------------------------------------------------------------
(* Safety.                                                                 *)

\* The row the audit log is to hold for r's outcome.
RowOf(r) ==
    [hash |-> out[r], compliant |-> out[r] # Blocked,
     cached |-> out[r] # Blocked /\ hit[r] # None]

\* Nobody reads an answer or a refusal that is not in the audit log: a 200
\* and a 451 have exactly one row, of exactly what the client reads, and no
\* request, failed ones included, ever has a second or a different row
\* (routes.py: the write is awaited before the response is returned).
ConcludedIsAudited ==
    \A r \in Requests :
        /\ status[r] \in {"ok", "blocked"} => audit[r] # <<>>
        /\ audit[r] # <<>> => audit[r] = <<RowOf(r)>>

\* An answer holds no original but the caller's own and no watermark but its
\* own, also when the text was written for another request and came out of
\* the cache (routes.py stores the raw response, before step 7).
AnswerIsOwn ==
    \A r \in Requests :
        status[r] = "ok" => out[r].owners \subseteq {r} /\ out[r].marks = {r}

\* No caller reads a text that was written for a caller of a higher level
\* (vector_cache.py get and set, with the level passed by routes.py).
LevelRespected ==
    \A r \in Requests :
        status[r] = "ok" => req[out[r].author].level <= req[r].level

\* Whatever is served, from the cache or not, went through a guardian check
\* that let it pass: no text is cached before its own check is over
\* (routes.py steps 5 and 6).
ServedPassedGuardian ==
    \A r \in Requests : status[r] = "ok" => stage[out[r].author] = "accepted"

\* A mapping in the vault always has its purge scheduled, and when a request
\* is over its mapping is gone; the one exception is a streamed request whose
\* model call failed, which is left to the TTL (vault.py; the finally clauses
\* of routes.py).
MappingLifetime ==
    /\ store \subseteq timers
    /\ \A r \in store :
        \/ Open(r)
        \/ req[r].stream /\ status[r] = "error" /\ raw[r] = None

\* A text written for this very request has all its placeholders replaced
\* when the caller reads it (shield.py deanonymize, with the mapping sealed at
\* the start and opened after the model calls).
OwnAnswerResolved ==
    \A r \in Requests :
        status[r] = "ok" /\ out[r].author = r => out[r].slots = {}

\* Every text served was judged compliant.  It holds when no correction is
\* allowed (MaxRetries = 0, the setup wizard's HIGH sensitivity), also for
\* the texts that come out of the cache.
ServedJudgedCompliant ==
    \A r \in Requests : status[r] = "ok" => verdict[out[r].author] = "compliant"

\* An audit row that says cached is of a text taken from the cache.
CachedRowsAreHits ==
    \A r \in Requests :
        \A i \in DOMAIN audit[r] :
            audit[r][i].cached => audit[r][i].hash.author # r

\* No answer still has a placeholder in it.
AnswerResolved ==
    \A r \in Requests : status[r] = "ok" => out[r].slots = {}

-----------------------------------------------------------------------------
(* What a step may never do.                                               *)

\* An answer is made only while the request's mapping is in the vault: once
\* the TTL has erased it the handler raises, it never answers from a copy
\* (vault.py open, after the awaits of the model calls).
AnswerFromOpenSession ==
    [][\A r \in Requests :
        out'[r] # out[r] /\ out'[r] # Blocked => r \in store']_vars

-----------------------------------------------------------------------------
(* Liveness.                                                               *)

\* Every request that comes in is concluded: the guardian's correction loop
\* ends, and no outcome of an await leaves a handler stuck.
RequestConcluded == \A r \in Requests : Open(r) ~> pc[r] = "done"

\* A mapping never stays: it is erased by the handler or by its timer, also
\* where the handler forgets it.
MappingErased == \A r \in Requests : r \in store ~> r \notin store

-----------------------------------------------------------------------------
(* The pipeline implements what the service promises.                      *)

\* What the state of the pipeline means to the service.
ServiceMapping ==
    [r \in Requests |->
        IF r \in store THEN "held"
        ELSE IF pc[r] = "idle" THEN "absent" ELSE "erased"]

ServiceLog ==
    [r \in Requests |->
        IF audit[r] = <<>> THEN "none"
        ELSE IF audit[r][1].compliant THEN "answered" ELSE "blocked"]

Service == INSTANCE ChatService WITH
    mapping <- ServiceMapping, log <- ServiceLog, outcome <- status

\* The whole handler, with its timers, crashes and the database, is a
\* ChatService: rows precede answers, mappings never come back.
ServiceSpec == Service!Spec
=============================================================================
