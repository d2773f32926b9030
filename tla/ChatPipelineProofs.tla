------------------------- MODULE ChatPipelineProofs -------------------------
(***************************************************************************)
(* Proofs about ChatPipeline for any set of requests, prompts and levels,  *)
(* any similarity, and any number of retries and restarts.                 *)
(***************************************************************************)
EXTENDS ChatPipeline, SequenceTheorems, TLAPS

-----------------------------------------------------------------------------
(* The inductive invariant.                                                *)

\* What the place of a handler says about its local variables.
PhaseInv ==
    \A r \in Requests :
        /\ pc[r] # "idle" => req[r] \in Inputs
        /\ pc[r] \in {"idle", "upstream"} => stage[r] = "off" /\ raw[r] = None
        /\ pc[r] = "guardian" =>
            /\ stage[r] \in {"judging", "correcting"}
            /\ raw[r] \in Completions(r, req[r].prompt)
        /\ pc[r] \in {"idle", "upstream", "guardian"} => out[r] = None
        /\ pc[r] = "auditing" => out[r] # None
        /\ status[r] = "none" <=> pc[r] # "done"
        /\ status[r] = "ok" => out[r] \in Texts
        /\ status[r] = "blocked" => out[r] = Blocked

\* The row under way and the row in the table are the row of this outcome,
\* and there is one of them at most.
AuditInv ==
    \A r \in Requests :
        /\ out[r] = None => sent[r] = None /\ audit[r] = <<>>
        /\ sent[r] # None => sent[r] = RowOf(r) /\ audit[r] = <<>>
        /\ audit[r] # <<>> => audit[r] = <<RowOf(r)>>
        /\ status[r] \in {"ok", "blocked"} => audit[r] # <<>>

\* A text whose author's check was passed, at this level or below.
Released(t, level) ==
    /\ stage[t.author] = "accepted"
    /\ req[t.author] \in Inputs
    /\ req[t.author].level <= level

\* What is cached is masked and was released; what is answered moreover
\* belongs to the request that gets it.
CacheInv ==
    \A i \in DOMAIN entries :
        /\ Masked(entries[i].text)
        /\ Released(entries[i].text, entries[i].level)

AnswerInv ==
    \A r \in Requests :
        out[r] \in Texts =>
            /\ out[r].owners \subseteq {r}
            /\ out[r].marks = {r}
            /\ out[r].author = r => out[r].slots = {}
            /\ Released(out[r], req[r].level)

-----------------------------------------------------------------------------
(* Facts about the operators.                                              *)

\* What deanonymize and watermark make of a raw text: a text of the same
\* author, without the caller's slots, with originals and mark of the caller.
LEMMA FinishedText ==
    ASSUME NEW r \in Requests, NEW p \in Prompts, NEW t \in Texts, Masked(t)
    PROVE  /\ Finished(t, r, p) \in Texts
           /\ Finished(t, r, p).author = t.author
           /\ Finished(t, r, p).slots = t.slots \ SlotsOf[p]
           /\ Finished(t, r, p).owners \subseteq {r}
           /\ Finished(t, r, p).marks = {r}
BY DEF Finished, Watermark, Deanonymize, Texts, Masked

\* A text the cache returns is one of its entries', stored at the caller's
\* level or below.
LEMMA CacheGetEntry ==
    ASSUME CacheTypeOK, NEW p, NEW level, NEW t \in CacheGet(p, level), t # None
    PROVE  \E i \in DOMAIN entries :
                /\ entries[i] \in Entry
                /\ t = entries[i].text
                /\ entries[i].level <= level
<1>1. PICK i \in Nearest(p) :
        t = IF Visible(i, p, level) THEN entries[i].text ELSE None
  BY DEF CacheGet
<1>2. i \in DOMAIN entries /\ Visible(i, p, level) /\ t = entries[i].text
  BY <1>1 DEF Nearest
<1>3. entries[i] \in Entry
  BY <1>2, ElementOfSeq DEF CacheTypeOK
<1> QED BY <1>2, <1>3 DEF Visible

\* A text the cache returns is masked and released for the caller.
LEMMA CacheGetReleased ==
    ASSUME CacheTypeOK, CacheInv, GuardianTypeOK, NEW p, NEW level \in Levels,
           NEW t \in CacheGet(p, level), t # None
    PROVE  t \in Texts /\ Masked(t) /\ Released(t, level)
<1>1. PICK i \in DOMAIN entries : /\ entries[i] \in Entry
                                  /\ t = entries[i].text
                                  /\ entries[i].level <= level
  BY CacheGetEntry
<1>2. t \in Texts /\ Masked(t) /\ Released(t, entries[i].level)
  BY <1>1 DEF CacheInv, Entry
<1>3. /\ req[t.author].level \in Nat
      /\ entries[i].level \in Nat
      /\ level \in Nat
  BY <1>1, <1>2, LevelsAssumption DEF Released, Entry, Inputs
<1>4. req[t.author].level <= entries[i].level
  BY <1>1, <1>2 DEF Released
<1>5. req[t.author].level <= level
  BY <1>1, <1>3, <1>4
<1> QED BY <1>2, <1>5 DEF Released

\* A completion is a masked text of its request.
LEMMA CompletionText ==
    ASSUME NEW r \in Requests, NEW p \in Prompts, NEW t \in Completions(r, p)
    PROVE  /\ t \in Texts /\ Masked(t)
           /\ t.author = r /\ t.slots \subseteq SlotsOf[p]
BY SlotsAssumption DEF Completions, Texts, Masked

-----------------------------------------------------------------------------
(* The steps.                                                              *)

Inv == TypeOK /\ PhaseInv /\ AuditInv /\ CacheInv /\ AnswerInv

\* Every part of the invariant holds at first.
LEMMA InitInv == Init => Inv
<1> SUFFICES ASSUME Init PROVE Inv
  OBVIOUS
<1> USE DEF Init, VaultInit, CacheInit, GuardianInit, AuditInit
<1>1. TypeOK
  BY RetriesAssumption, CrashAssumption
  DEF TypeOK, VaultTypeOK, CacheTypeOK, GuardianTypeOK, AuditTypeOK, PCs,
      Statuses, Stages, Verdicts
<1>2. PhaseInv
  BY DEF PhaseInv
<1>3. AuditInv
  BY DEF AuditInv
<1>4. CacheInv
  BY DEF CacheInv
<1>5. AnswerInv
  BY NoneAssumption DEF AnswerInv
<1> QED BY <1>1, <1>2, <1>3, <1>4, <1>5 DEF Inv

\* The arrival of input in, by what the cache lookup found.
HitWith(r, in, t) ==
    /\ pc[r] = "idle" /\ ~in.stream /\ t # None
    /\ Receive(r, in, t)
    /\ raw' = [raw EXCEPT ![r] = t]
    /\ StartAudit(r, Finished(t, r, in.prompt), t)

MissWith(r, in, found) ==
    /\ pc[r] = "idle"
    /\ Receive(r, in, found)
    /\ Goto(r, "upstream")
    /\ UNCHANGED <<raw, out, auditVars>>

\* A text the lookup found is masked and released for the caller.
LEMMA HitEffect ==
    ASSUME Inv, NEW r \in Requests, ArriveHit(r)
    PROVE  \E in \in Inputs : \E t \in Texts :
                /\ HitWith(r, in, t)
                /\ Masked(t) /\ Released(t, in.level)
                /\ Finished(t, r, in.prompt) \in Texts
<1>1. PICK in \in Inputs : \E t \in CacheGet(in.prompt, in.level) :
                                HitWith(r, in, t)
  BY DEF ArriveHit, HitWith, Receive
<1>2. PICK t \in CacheGet(in.prompt, in.level) : HitWith(r, in, t)
  BY <1>1
<1>3. t \in Texts /\ Masked(t) /\ Released(t, in.level)
  BY <1>2, CacheGetReleased DEF Inv, TypeOK, Inputs, HitWith
<1>4. Finished(t, r, in.prompt) \in Texts
  BY <1>3, FinishedText DEF Inputs
<1> QED BY <1>2, <1>3, <1>4

\* A lookup finds a text or nothing.
LEMMA MissEffect ==
    ASSUME Inv, NEW r \in Requests, ArriveMiss(r)
    PROVE  \E in \in Inputs : \E found \in Texts \cup {None} :
                MissWith(r, in, found)
<1>1. PICK in \in Inputs : \E found \in CacheGet(in.prompt, in.level) :
                                MissWith(r, in, found)
  BY DEF ArriveMiss, MissWith, Receive
<1>2. PICK found \in CacheGet(in.prompt, in.level) : MissWith(r, in, found)
  BY <1>1
<1>3. found \in Texts \cup {None}
  BY CacheGetReleased DEF Inv, TypeOK, Inputs
<1> QED BY <1>2, <1>3

\* What the handler that waits for the guardian has in hand.
LEMMA RawText ==
    ASSUME Inv, NEW r \in Requests, pc[r] = "guardian"
    PROVE  /\ req[r] \in Inputs
           /\ raw[r] \in Texts /\ Masked(raw[r])
           /\ raw[r].author = r /\ raw[r].slots \subseteq SlotsOf[req[r].prompt]
<1>1. req[r] \in Inputs /\ raw[r] \in Completions(r, req[r].prompt)
  BY DEF Inv, PhaseInv
<1> QED BY <1>1, CompletionText DEF Inputs

\* The row of an audit write has the right type.
LEMMA RowType ==
    ASSUME NEW a \in Texts \cup {Blocked}, NEW found
    PROVE  [hash |-> a, compliant |-> a # Blocked,
            cached |-> a # Blocked /\ found # None] \in Row
BY DEF Row

\* The types are kept.
LEMMA TypeStep == Inv /\ [Next]_vars => TypeOK'
<1> SUFFICES ASSUME Inv, [Next]_vars PROVE TypeOK'
  OBVIOUS
<1> USE DEF TypeOK, VaultTypeOK, CacheTypeOK, GuardianTypeOK, AuditTypeOK
<1>0. TypeOK
  BY DEF Inv
<1>1. ASSUME NEW r \in Requests, ArriveHit(r) PROVE TypeOK'
  <2>1. PICK in \in Inputs, t \in Texts :
            HitWith(r, in, t) /\ Finished(t, r, in.prompt) \in Texts
    BY <1>1, HitEffect
  <2> QED BY <1>0, <2>1, RowType
          DEF HitWith, Receive, StartAudit, Write, Goto, SealAndSchedule,
              guardVars, PCs
<1>2. ASSUME NEW r \in Requests, ArriveMiss(r) PROVE TypeOK'
  <2>1. PICK in \in Inputs, found \in Texts \cup {None} : MissWith(r, in, found)
    BY <1>2, MissEffect
  <2> QED BY <1>0, <2>1
          DEF MissWith, Receive, Goto, SealAndSchedule, guardVars, auditVars, PCs
<1>3. ASSUME NEW r \in Requests, UpstreamAnswers(r) PROVE TypeOK'
  <2>1. req[r] \in Inputs
    BY <1>3 DEF UpstreamAnswers, Inv, PhaseInv
  <2>2. PICK t \in Completions(r, req[r].prompt) : raw' = [raw EXCEPT ![r] = t]
    BY <1>3 DEF UpstreamAnswers
  <2>3. t \in Texts
    BY <2>1, CompletionText DEF Inputs
  <2> QED BY <1>0, <1>3, <2>2, <2>3, RetriesAssumption
          DEF UpstreamAnswers, StartCheck, Goto, vaultVars, auditVars, PCs, Stages
<1>4. ASSUME NEW r \in Requests, UpstreamFails(r) PROVE TypeOK'
  BY <1>0, <1>4 DEF UpstreamFails, Abort, Conclude, Goto, Purge, vaultVars,
                    guardVars, auditVars, PCs, Statuses
<1>5. ASSUME NEW r \in Requests, GuardianRetries(r) PROVE TypeOK'
  <2>1. verdict' \in [Requests -> Verdicts]
    BY <1>0, <1>5
    DEF GuardianRetries, Retry, JudgeNegative, CorrectionEmpty, Verdicts
  <2>2. calls[r] + 1 \in 0 .. (MaxRetries + 1)
    BY <1>0, <1>5, RetriesAssumption DEF GuardianRetries, Retry
  <2>3. /\ stage' \in [Requests -> Stages]
        /\ calls' \in [Requests -> 0 .. (MaxRetries + 1)]
    BY <1>0, <1>5, <2>2 DEF GuardianRetries, Retry, Stages
  <2> QED BY <1>0, <1>5, <2>1, <2>3 DEF GuardianRetries, vaultVars, auditVars
<1>6. ASSUME NEW r \in Requests, GuardianBlocks(r) PROVE TypeOK'
  BY <1>0, <1>6, RowType
  DEF GuardianBlocks, GiveUp, JudgeNegative, CorrectionEmpty, StartAudit, Write,
      Goto, vaultVars, PCs, Stages, Verdicts
<1>7. ASSUME NEW r \in Requests, GuardianRaises(r) PROVE TypeOK'
  BY <1>0, <1>7
  DEF GuardianRaises, CallFails, JudgeUnreadable, Abort, Conclude, Goto, Purge,
      auditVars, PCs, Statuses, Stages, Verdicts
<1>8. ASSUME NEW r \in Requests, GuardianPasses(r) PROVE TypeOK'
  <2>1. /\ req[r] \in Inputs /\ raw[r] \in Texts
        /\ Finished(raw[r], r, req[r].prompt) \in Texts
    BY <1>8, RawText, FinishedText DEF GuardianPasses, Inputs
  <2>2. CacheTypeOK'
    BY <1>0, <1>8, <2>1 DEF GuardianPasses, Remember, CacheSet, Inputs, Entry
  <2>3. GuardianTypeOK'
    BY <1>0, <1>8 DEF GuardianPasses, JudgeCompliant, CorrectionArrives, Stages,
                      Verdicts
  <2>4. CASE Opens(r)
    <3>1. /\ StartAudit(r, Finished(raw[r], r, req[r].prompt), hit[r])
          /\ UNCHANGED <<vaultVars, status, req, hit, raw, crashes>>
      BY <1>8, <2>4 DEF GuardianPasses
    <3>2. AuditTypeOK' /\ pc' \in [Requests -> PCs]
      BY <1>0, <2>1, <3>1, RowType DEF StartAudit, Write, Goto, PCs
    <3>3. out' \in [Requests -> Texts \cup {Blocked, None}]
      BY <1>0, <2>1, <3>1 DEF StartAudit
    <3> QED BY <1>0, <2>2, <2>3, <3>1, <3>2, <3>3 DEF vaultVars
  <2>5. CASE ~Opens(r)
    BY <1>0, <1>8, <2>2, <2>3, <2>5
    DEF GuardianPasses, Abort, Conclude, Goto, Purge, auditVars, PCs, Statuses
  <2> QED BY <2>4, <2>5
<1>9. ASSUME NEW r \in Requests, AuditReturns(r) PROVE TypeOK'
  BY <1>0, <1>9 DEF AuditReturns, Conclude, Goto, Purge, guardVars, auditVars,
                    PCs, Statuses
<1>10. ASSUME NEW r \in Requests, AuditFails(r) PROVE TypeOK'
  BY <1>0, <1>10 DEF AuditFails, Discard, Abort, Conclude, Goto, Purge,
                     guardVars, auditVars, PCs, Statuses
<1>11. ASSUME NEW r \in Requests, InsertRow(r) PROVE TypeOK'
  BY <1>0, <1>11 DEF InsertRow, Insert, vaultVars, guardVars
<1>12. ASSUME NEW r \in Requests, TimerFires(r) PROVE TypeOK'
  BY <1>0, <1>12 DEF TimerFires, Expire, guardVars, auditVars
<1>13. CASE Crash
  BY <1>0, <1>13, CrashAssumption
  DEF Crash, VaultLost, CacheLost, guardVars, auditVars, PCs, Statuses
<1>14. CASE UNCHANGED vars
  BY <1>0, <1>14 DEF vars
<1> QED BY <1>1, <1>2, <1>3, <1>4, <1>5, <1>6, <1>7, <1>8, <1>9, <1>10, <1>11,
           <1>12, <1>13, <1>14 DEF Next, Handler

\* The place of a handler agrees with its variables after every step.
LEMMA PhaseStep == Inv /\ [Next]_vars => PhaseInv'
<1> SUFFICES ASSUME Inv, [Next]_vars PROVE PhaseInv'
  OBVIOUS
<1>0. TypeOK /\ TypeOK' /\ PhaseInv
  BY TypeStep DEF Inv
<1> USE DEF PhaseInv, TypeOK, GuardianTypeOK, AuditTypeOK
<1>1. ASSUME NEW r \in Requests, ArriveHit(r) PROVE PhaseInv'
  <2>1. PICK in \in Inputs, t \in Texts :
            HitWith(r, in, t) /\ Finished(t, r, in.prompt) \in Texts
    BY <1>1, HitEffect
  <2> QED BY <1>0, <2>1, NoneAssumption
          DEF HitWith, Receive, StartAudit, Goto, guardVars
<1>2. ASSUME NEW r \in Requests, ArriveMiss(r) PROVE PhaseInv'
  <2>1. PICK in \in Inputs, found \in Texts \cup {None} : MissWith(r, in, found)
    BY <1>2, MissEffect
  <2> QED BY <1>0, <2>1 DEF MissWith, Receive, Goto, guardVars
<1>3. ASSUME NEW r \in Requests, UpstreamAnswers(r) PROVE PhaseInv'
  BY <1>0, <1>3 DEF UpstreamAnswers, StartCheck, Goto
<1>4. ASSUME NEW r \in Requests, UpstreamFails(r) PROVE PhaseInv'
  BY <1>0, <1>4 DEF UpstreamFails, Abort, Conclude, Goto, guardVars
<1>5. ASSUME NEW r \in Requests, GuardianRetries(r) PROVE PhaseInv'
  BY <1>0, <1>5 DEF GuardianRetries, Retry
<1>6. ASSUME NEW r \in Requests, GuardianBlocks(r) PROVE PhaseInv'
  BY <1>0, <1>6, BlockedAssumption DEF GuardianBlocks, GiveUp, StartAudit, Goto
<1>7. ASSUME NEW r \in Requests, GuardianRaises(r) PROVE PhaseInv'
  BY <1>0, <1>7
  DEF GuardianRaises, CallFails, JudgeUnreadable, Abort, Conclude, Goto
<1>8. ASSUME NEW r \in Requests, GuardianPasses(r) PROVE PhaseInv'
  <2>1. Finished(raw[r], r, req[r].prompt) \in Texts
    BY <1>8, RawText, FinishedText DEF GuardianPasses, Inputs
  <2>2. CASE Opens(r)
    BY <1>0, <1>8, <2>1, <2>2, NoneAssumption
    DEF GuardianPasses, JudgeCompliant, CorrectionArrives, StartAudit, Goto
  <2>3. CASE ~Opens(r)
    BY <1>0, <1>8, <2>3
    DEF GuardianPasses, JudgeCompliant, CorrectionArrives, Abort, Conclude, Goto
  <2> QED BY <2>2, <2>3
<1>9. ASSUME NEW r \in Requests, AuditReturns(r) PROVE PhaseInv'
  BY <1>0, <1>9, BlockedAssumption DEF AuditReturns, Conclude, Goto, guardVars
<1>10. ASSUME NEW r \in Requests, AuditFails(r) PROVE PhaseInv'
  BY <1>0, <1>10 DEF AuditFails, Abort, Conclude, Goto, guardVars
<1>11. ASSUME NEW r \in Requests, InsertRow(r) PROVE PhaseInv'
  BY <1>0, <1>11 DEF InsertRow, guardVars
<1>12. ASSUME NEW r \in Requests, TimerFires(r) PROVE PhaseInv'
  BY <1>0, <1>12 DEF TimerFires, guardVars
<1>13. CASE Crash
  BY <1>0, <1>13 DEF Crash, Open, guardVars
<1>14. CASE UNCHANGED vars
  BY <1>0, <1>14 DEF vars
<1> QED BY <1>1, <1>2, <1>3, <1>4, <1>5, <1>6, <1>7, <1>8, <1>9, <1>10, <1>11,
           <1>12, <1>13, <1>14 DEF Next, Handler

\* One row per request at most, and the right one, after every step.
LEMMA AuditStep == Inv /\ [Next]_vars => AuditInv'
<1> SUFFICES ASSUME Inv, [Next]_vars PROVE AuditInv'
  OBVIOUS
<1>0. TypeOK /\ TypeOK' /\ PhaseInv /\ AuditInv
  BY TypeStep DEF Inv
<1> USE DEF AuditInv, RowOf, TypeOK, AuditTypeOK
<1>1. ASSUME NEW r \in Requests, ArriveHit(r) PROVE AuditInv'
  <2>1. PICK in \in Inputs, t \in Texts :
            HitWith(r, in, t) /\ Finished(t, r, in.prompt) \in Texts
    BY <1>1, HitEffect
  <2>2. sent[r] = None /\ audit[r] = <<>>
    BY <1>0, <2>1 DEF HitWith, PhaseInv
  <2> QED BY <1>0, <2>1, <2>2, NoneAssumption
          DEF PhaseInv, HitWith, Receive, StartAudit, Write, guardVars
<1>2. ASSUME NEW r \in Requests, ArriveMiss(r) PROVE AuditInv'
  <2>1. PICK in \in Inputs, found \in Texts \cup {None} : MissWith(r, in, found)
    BY <1>2, MissEffect
  <2>2. out[r] = None
    BY <1>0, <2>1 DEF MissWith, PhaseInv
  <2> QED BY <1>0, <2>1, <2>2 DEF MissWith, Receive, auditVars
<1>3. ASSUME NEW r \in Requests, UpstreamAnswers(r) PROVE AuditInv'
  BY <1>0, <1>3 DEF UpstreamAnswers, auditVars
<1>4. ASSUME NEW r \in Requests, UpstreamFails(r) PROVE AuditInv'
  BY <1>0, <1>4 DEF UpstreamFails, Abort, Conclude, auditVars
<1>5. ASSUME NEW r \in Requests, GuardianRetries(r) PROVE AuditInv'
  BY <1>0, <1>5 DEF GuardianRetries, auditVars
<1>6. ASSUME NEW r \in Requests, GuardianBlocks(r) PROVE AuditInv'
  <2>1. sent[r] = None /\ audit[r] = <<>>
    BY <1>0, <1>6 DEF GuardianBlocks, PhaseInv
  <2> QED BY <1>0, <1>6, <2>1, BlockedAssumption
          DEF GuardianBlocks, StartAudit, Write, PhaseInv
<1>7. ASSUME NEW r \in Requests, GuardianRaises(r) PROVE AuditInv'
  BY <1>0, <1>7 DEF GuardianRaises, Abort, Conclude, auditVars
<1>8. ASSUME NEW r \in Requests, GuardianPasses(r) PROVE AuditInv'
  <2>1. Finished(raw[r], r, req[r].prompt) \in Texts
    BY <1>8, RawText, FinishedText DEF GuardianPasses, Inputs
  <2>2. sent[r] = None /\ audit[r] = <<>>
    BY <1>0, <1>8 DEF GuardianPasses, PhaseInv
  <2>3. CASE Opens(r)
    BY <1>0, <1>8, <2>1, <2>2, <2>3, NoneAssumption
    DEF GuardianPasses, StartAudit, Write
  <2>4. CASE ~Opens(r)
    BY <1>0, <1>8, <2>4 DEF GuardianPasses, Abort, Conclude, auditVars
  <2> QED BY <2>3, <2>4
<1>9. ASSUME NEW r \in Requests, AuditReturns(r) PROVE AuditInv'
  BY <1>0, <1>9 DEF AuditReturns, Conclude, auditVars
<1>10. ASSUME NEW r \in Requests, AuditFails(r) PROVE AuditInv'
  <2>1. /\ UNCHANGED <<audit, out, hit>>
        /\ status' = [status EXCEPT ![r] = "error"]
        /\ sent' \in {sent, [sent EXCEPT ![r] = None]}
    BY <1>10 DEF AuditFails, Discard, Abort, Conclude, auditVars
  <2>2. CASE sent' = sent
    BY <1>0, <2>1, <2>2
  <2>3. CASE sent' = [sent EXCEPT ![r] = None]
    BY <1>0, <2>1, <2>3
  <2> QED BY <2>1, <2>2, <2>3
<1>11. ASSUME NEW r \in Requests, InsertRow(r) PROVE AuditInv'
  <2>1. audit[r] = <<>> /\ sent[r] = RowOf(r) /\ out[r] # None
    BY <1>0, <1>11 DEF InsertRow, Insert
  <2>2. audit'[r] = <<RowOf(r)>>
    BY <1>0, <1>11, <2>1 DEF InsertRow, Insert
  <2> QED BY <1>0, <1>11, <2>1, <2>2 DEF InsertRow, Insert
<1>12. ASSUME NEW r \in Requests, TimerFires(r) PROVE AuditInv'
  BY <1>0, <1>12 DEF TimerFires, auditVars
<1>13. CASE Crash
  BY <1>0, <1>13 DEF Crash, auditVars
<1>14. CASE UNCHANGED vars
  BY <1>0, <1>14 DEF vars
<1> QED BY <1>1, <1>2, <1>3, <1>4, <1>5, <1>6, <1>7, <1>8, <1>9, <1>10, <1>11,
           <1>12, <1>13, <1>14 DEF Next, Handler

\* A released text stays released: its author never gets another check or
\* another input.
LEMMA ReleasedStays ==
    ASSUME Inv, [Next]_vars, NEW t \in Texts, NEW level, Released(t, level)
    PROVE  Released(t, level)'
<1> DEFINE a == t.author
<1>1. /\ a \in Requests /\ stage[a] = "accepted" /\ TypeOK
      /\ pc[a] \notin {"idle", "upstream", "guardian"}
  BY DEF Released, Inv, PhaseInv, Texts
<1> SUFFICES stage'[a] = stage[a] /\ req'[a] = req[a]
  BY DEF Released
<1> HIDE DEF a
<1> USE DEF TypeOK, GuardianTypeOK
<1>2. ASSUME NEW r \in Requests, ArriveHit(r)
      PROVE  stage'[a] = stage[a] /\ req'[a] = req[a]
  <2>1. PICK in \in Inputs, u \in Texts : HitWith(r, in, u)
    BY <1>2, HitEffect
  <2> QED BY <1>1, <2>1 DEF HitWith, Receive, guardVars
<1>3. ASSUME NEW r \in Requests, ArriveMiss(r)
      PROVE  stage'[a] = stage[a] /\ req'[a] = req[a]
  <2>1. PICK in \in Inputs, found \in Texts \cup {None} : MissWith(r, in, found)
    BY <1>3, MissEffect
  <2> QED BY <1>1, <2>1 DEF MissWith, Receive, guardVars
<1>4. ASSUME NEW r \in Requests, Handler(r)
      PROVE  stage'[a] = stage[a] /\ req'[a] = req[a]
  BY <1>1, <1>4
  DEF Handler, UpstreamAnswers, StartCheck, UpstreamFails, GuardianRetries, Retry,
      GuardianBlocks, GiveUp, GuardianRaises, CallFails, JudgeUnreadable,
      GuardianPasses, JudgeCompliant, CorrectionArrives, AuditReturns, AuditFails,
      guardVars
<1>5. ASSUME NEW r \in Requests, InsertRow(r) \/ TimerFires(r)
      PROVE  stage'[a] = stage[a] /\ req'[a] = req[a]
  BY <1>5 DEF InsertRow, TimerFires, guardVars
<1>6. CASE Crash \/ UNCHANGED vars
  BY <1>6 DEF Crash, guardVars, vars
<1> QED BY <1>2, <1>3, <1>4, <1>5, <1>6 DEF Next

\* The check of a text that passes the guardian is over with that step.
LEMMA PassReleases ==
    ASSUME Inv, NEW r \in Requests, GuardianPasses(r)
    PROVE  Released(raw[r], req[r].level)'
<1>1. /\ TypeOK /\ req[r] \in Inputs /\ raw[r].author = r
      /\ UNCHANGED <<raw, req>>
  BY RawText DEF GuardianPasses, Inv
<1>2. stage'[r] = "accepted"
  BY <1>1 DEF GuardianPasses, JudgeCompliant, CorrectionArrives, TypeOK,
              GuardianTypeOK
<1>3. req[r].level \in Nat
  BY <1>1, LevelsAssumption DEF Inputs
<1> QED BY <1>1, <1>2, <1>3 DEF Released

\* The cache holds masked, released texts after every step.
LEMMA CacheStep == Inv /\ [Next]_vars => CacheInv'
<1> SUFFICES ASSUME Inv, [Next]_vars PROVE CacheInv'
  OBVIOUS
<1>0. CacheTypeOK /\ CacheInv
  BY DEF Inv, TypeOK
<1>1. ASSUME UNCHANGED entries PROVE CacheInv'
  <2> SUFFICES ASSUME NEW i \in DOMAIN entries
               PROVE  /\ Masked(entries[i].text)
                      /\ Released(entries[i].text, entries[i].level)'
    BY <1>1 DEF CacheInv, Masked
  <2>1. entries[i].text \in Texts
    <3>1. entries[i] \in Entry
      BY <1>0, ElementOfSeq DEF CacheTypeOK
    <3> QED BY <3>1 DEF Entry
  <2>2. Masked(entries[i].text) /\ Released(entries[i].text, entries[i].level)
    BY <1>0 DEF CacheInv
  <2>3. ASSUME NEW t \in Texts, NEW level, Released(t, level)
        PROVE  Released(t, level)'
    BY <2>3, ReleasedStays
  <2> QED BY <1>1, <2>1, <2>2, <2>3 DEF Released
<1>2. ASSUME NEW r \in Requests, GuardianPasses(r) PROVE CacheInv'
  <2>1. entries' = Append(entries, [prompt |-> req[r].prompt, text |-> raw[r],
                                    level |-> req[r].level])
    BY <1>2 DEF GuardianPasses, Remember, CacheSet
  <2>2. Masked(raw[r]) /\ UNCHANGED <<raw, req>>
    BY <1>2, RawText DEF GuardianPasses
  <2> SUFFICES ASSUME NEW i \in DOMAIN entries'
               PROVE  /\ Masked(entries'[i].text)
                      /\ Released(entries[i].text, entries[i].level)'
    BY DEF CacheInv, Masked
  <2>3. CASE i = Len(entries) + 1
    <3>1. entries'[i].text = raw[r] /\ entries'[i].level = req[r].level
      BY <1>0, <2>1, <2>3 DEF CacheTypeOK
    <3> QED BY <1>2, <2>2, <3>1, PassReleases DEF Released
  <2>4. CASE i # Len(entries) + 1
    <3>1. i \in DOMAIN entries /\ entries'[i] = entries[i]
      BY <1>0, <2>1, <2>4 DEF CacheTypeOK
    <3>2. entries[i].text \in Texts
      <4>1. entries[i] \in Entry
        BY <1>0, <3>1, ElementOfSeq DEF CacheTypeOK
      <4> QED BY <4>1 DEF Entry
    <3>3. Masked(entries[i].text) /\ Released(entries[i].text, entries[i].level)
      BY <1>0, <3>1 DEF CacheInv
    <3>4. ASSUME NEW t \in Texts, NEW level, Released(t, level)
          PROVE  Released(t, level)'
      BY <3>4, ReleasedStays
    <3> QED BY <3>1, <3>2, <3>3, <3>4 DEF Released
  <2> QED BY <2>3, <2>4
<1>3. CASE Crash
  BY <1>3 DEF Crash, CacheLost, CacheInv
<1>4. ASSUME NEW r \in Requests,
             \/ ArriveHit(r) \/ ArriveMiss(r) \/ UpstreamAnswers(r)
             \/ UpstreamFails(r) \/ GuardianRetries(r) \/ GuardianBlocks(r)
             \/ GuardianRaises(r) \/ AuditReturns(r) \/ AuditFails(r)
             \/ InsertRow(r) \/ TimerFires(r)
      PROVE  UNCHANGED entries
  BY <1>4 DEF ArriveHit, ArriveMiss, Receive, UpstreamAnswers, UpstreamFails,
              GuardianRetries, GuardianBlocks, GuardianRaises, AuditReturns,
              AuditFails, InsertRow, TimerFires
<1>5. CASE UNCHANGED vars
  BY <1>1, <1>5 DEF vars
<1> QED BY <1>1, <1>2, <1>3, <1>4, <1>5 DEF Next, Handler

\* An answer is its caller's own and released for it, after every step.
LEMMA AnswerStep == Inv /\ [Next]_vars => AnswerInv'
<1> SUFFICES ASSUME Inv, [Next]_vars PROVE AnswerInv'
  OBVIOUS
<1>0. TypeOK /\ PhaseInv /\ AnswerInv
  BY DEF Inv
<1>s. ASSUME NEW t \in Texts, NEW level, Released(t, level)
      PROVE  stage'[t.author] = "accepted" /\ req'[t.author] \in Inputs
             /\ req'[t.author].level <= level
  BY <1>s, ReleasedStays DEF Released
<1> DEFINE Own(r) == /\ out'[r].owners \subseteq {r}
                     /\ out'[r].marks = {r}
                     /\ out'[r].author = r => out'[r].slots = {}
                     /\ stage'[out'[r].author] = "accepted"
                     /\ req'[out'[r].author] \in Inputs
                     /\ req'[out'[r].author].level <= req'[r].level
<1>a. SUFFICES ASSUME NEW q \in Requests, out'[q] \in Texts PROVE Own(q)
  BY <1>a DEF AnswerInv, Released
<1>b. ASSUME out'[q] = out[q], req'[q] = req[q] PROVE Own(q)
  BY <1>0, <1>b, <1>s, <1>a DEF AnswerInv
<1>1. ASSUME NEW r \in Requests, ArriveHit(r) PROVE Own(q)
  <2>1. PICK in \in Inputs, t \in Texts :
            /\ HitWith(r, in, t) /\ Masked(t) /\ Released(t, in.level)
            /\ Finished(t, r, in.prompt) \in Texts
    BY <1>1, HitEffect
  <2>2. CASE q = r
    <3>1. /\ out'[q] = Finished(t, r, in.prompt) /\ req'[q] = in
          /\ stage[r] = "off"
      BY <1>0, <2>1, <2>2
      DEF HitWith, StartAudit, Receive, TypeOK, PhaseInv
    <3>2. t.author # r
      BY <2>1, <3>1 DEF Released
    <3>3. /\ out'[q].author = t.author
          /\ out'[q].owners \subseteq {q} /\ out'[q].marks = {q}
      BY <2>1, <2>2, <3>1, FinishedText DEF Inputs
    <3>4. /\ stage'[t.author] = "accepted" /\ req'[t.author] \in Inputs
          /\ req'[t.author].level <= in.level
      BY <2>1, <1>s
    <3> QED BY <2>2, <3>1, <3>2, <3>3, <3>4
  <2>3. CASE q # r
    BY <1>0, <1>b, <2>1, <2>3 DEF HitWith, StartAudit, Receive, TypeOK
  <2> QED BY <2>2, <2>3
<1>2. ASSUME NEW r \in Requests, ArriveMiss(r) PROVE Own(q)
  <2>1. PICK in \in Inputs, found \in Texts \cup {None} : MissWith(r, in, found)
    BY <1>2, MissEffect
  <2>2. out' = out /\ out[r] = None
    BY <1>0, <2>1 DEF MissWith, PhaseInv
  <2>3. q # r
    BY <1>a, <2>2, NoneAssumption
  <2> QED BY <1>0, <1>b, <2>1, <2>2, <2>3 DEF MissWith, Receive, TypeOK
<1>3. ASSUME NEW r \in Requests, GuardianBlocks(r) PROVE Own(q)
  <2>1. CASE q = r
    BY <1>0, <1>3, <1>a, <2>1, BlockedAssumption
    DEF GuardianBlocks, StartAudit, TypeOK
  <2>2. CASE q # r
    BY <1>0, <1>3, <1>b, <2>2 DEF GuardianBlocks, StartAudit, TypeOK
  <2> QED BY <2>1, <2>2
<1>4. ASSUME NEW r \in Requests, GuardianPasses(r) PROVE Own(q)
  <2>1. CASE q = r /\ Opens(r)
    <3>1. /\ req[r] \in Inputs /\ raw[r] \in Texts /\ Masked(raw[r])
          /\ raw[r].author = r /\ raw[r].slots \subseteq SlotsOf[req[r].prompt]
          /\ UNCHANGED <<raw, req>>
      BY <1>4, RawText DEF GuardianPasses
    <3>2. out'[q] = Finished(raw[r], r, req[r].prompt)
      BY <1>0, <1>4, <2>1 DEF GuardianPasses, StartAudit, TypeOK
    <3>3. /\ out'[q].author = r /\ out'[q].slots = {}
          /\ out'[q].owners \subseteq {q} /\ out'[q].marks = {q}
      BY <2>1, <3>1, <3>2, FinishedText DEF Inputs
    <3>4. /\ stage'[r] = "accepted" /\ req'[r] \in Inputs
          /\ req'[r].level <= req'[r].level
      BY <1>4, <3>1, PassReleases DEF Released
    <3> QED BY <2>1, <3>3, <3>4
  <2>2. CASE q # r \/ ~Opens(r)
    BY <1>0, <1>4, <1>b, <2>2 DEF GuardianPasses, StartAudit, TypeOK
  <2> QED BY <2>1, <2>2
<1>5. ASSUME NEW r \in Requests,
             \/ UpstreamAnswers(r) \/ UpstreamFails(r) \/ GuardianRetries(r)
             \/ GuardianRaises(r) \/ AuditReturns(r) \/ AuditFails(r)
             \/ InsertRow(r) \/ TimerFires(r)
      PROVE  Own(q)
  BY <1>5, <1>b
  DEF UpstreamAnswers, UpstreamFails, GuardianRetries, GuardianRaises,
      AuditReturns, AuditFails, InsertRow, TimerFires
<1>6. CASE Crash \/ UNCHANGED vars
  BY <1>6, <1>b DEF Crash, vars
<1> QED BY <1>1, <1>2, <1>3, <1>4, <1>5, <1>6 DEF Next, Handler

-----------------------------------------------------------------------------
(* The theorems.                                                           *)

\* One step keeps the whole invariant.
LEMMA InvStep == Inv /\ [Next]_vars => Inv'
BY TypeStep, PhaseStep, AuditStep, CacheStep, AnswerStep DEF Inv

\* The invariant holds in every reachable state.
THEOREM InvHolds == Safety => []Inv
BY InitInv, InvStep, PTL DEF Safety

\* Every variable keeps its type; the guardian never makes more than one
\* judge call and MaxRetries correction calls for a request.
THEOREM TypeCorrect == Safety => []TypeOK
<1>1. Inv => TypeOK
  BY DEF Inv
<1> QED BY <1>1, InvHolds, PTL

\* A 200 or a 451 has exactly its one row in the audit log when the client
\* gets it, and no request has any other row.
THEOREM EveryConclusionAudited == Safety => []ConcludedIsAudited
<1>1. Inv => ConcludedIsAudited
  BY DEF Inv, AuditInv, ConcludedIsAudited
<1> QED BY <1>1, InvHolds, PTL

\* An answer carries the originals and the watermark of its own caller only.
THEOREM AnswersAreOwn == Safety => []AnswerIsOwn
<1>1. Inv => AnswerIsOwn
  BY DEF Inv, PhaseInv, AnswerInv, AnswerIsOwn
<1> QED BY <1>1, InvHolds, PTL

\* No caller reads a text written for a caller of a higher level.
THEOREM LevelsRespected == Safety => []LevelRespected
<1>1. Inv => LevelRespected
  BY DEF Inv, PhaseInv, AnswerInv, Released, LevelRespected
<1> QED BY <1>1, InvHolds, PTL

\* Nothing is served that did not pass the guardian's check.
THEOREM GuardianBeforeAnswer == Safety => []ServedPassedGuardian
<1>1. Inv => ServedPassedGuardian
  BY DEF Inv, PhaseInv, AnswerInv, Released, ServedPassedGuardian
<1> QED BY <1>1, InvHolds, PTL

\* A text written for the request that reads it has no placeholder left.
THEOREM OwnAnswersResolved == Safety => []OwnAnswerResolved
<1>1. Inv => OwnAnswerResolved
  BY DEF Inv, PhaseInv, AnswerInv, OwnAnswerResolved
<1> QED BY <1>1, InvHolds, PTL

\* Every mapping in the vault has its purge scheduled, and the mapping of a
\* request that is over is gone unless its streamed model call failed.
THEOREM MappingsEnd == Safety => []MappingLifetime
<1>1. Init => MappingLifetime
  BY DEF Init, VaultInit, MappingLifetime
<1>2. ASSUME Inv, MappingLifetime, [Next]_vars PROVE MappingLifetime'
  <2>0. TypeOK /\ TypeOK' /\ PhaseInv
    BY <1>2, TypeStep DEF Inv
  <2> USE <1>2, <2>0 DEF MappingLifetime, Open, TypeOK, VaultTypeOK
  <2>1. ASSUME NEW r \in Requests, ArriveHit(r) PROVE MappingLifetime'
    <3>1. PICK in \in Inputs, t \in Texts : HitWith(r, in, t)
      BY <2>1, HitEffect
    <3> QED BY <3>1 DEF HitWith, Receive, SealAndSchedule, StartAudit, Goto
  <2>2. ASSUME NEW r \in Requests, ArriveMiss(r) PROVE MappingLifetime'
    <3>1. PICK in \in Inputs, found \in Texts \cup {None} : MissWith(r, in, found)
      BY <2>2, MissEffect
    <3> QED BY <3>1 DEF MissWith, Receive, SealAndSchedule, Goto
  <2>3. ASSUME NEW r \in Requests, UpstreamAnswers(r) PROVE MappingLifetime'
    BY <2>3 DEF UpstreamAnswers, Goto, vaultVars
  <2>4. ASSUME NEW r \in Requests, UpstreamFails(r) PROVE MappingLifetime'
    <3>1. raw[r] = None
      BY <2>4 DEF UpstreamFails, PhaseInv
    <3> QED BY <2>4, <3>1
            DEF UpstreamFails, Abort, Conclude, Goto, Purge, vaultVars
  <2>5. ASSUME NEW r \in Requests, GuardianRetries(r) \/ GuardianBlocks(r)
        PROVE  MappingLifetime'
    BY <2>5 DEF GuardianRetries, GuardianBlocks, StartAudit, Goto, vaultVars
  <2>6. ASSUME NEW r \in Requests,
               GuardianRaises(r) \/ AuditReturns(r) \/ AuditFails(r)
        PROVE  MappingLifetime'
    BY <2>6 DEF GuardianRaises, AuditReturns, AuditFails, Abort, Conclude, Goto,
                Purge
  <2>7. ASSUME NEW r \in Requests, GuardianPasses(r) PROVE MappingLifetime'
    BY <2>7 DEF GuardianPasses, StartAudit, Abort, Conclude, Goto, Purge, vaultVars
  <2>8. ASSUME NEW r \in Requests, InsertRow(r) PROVE MappingLifetime'
    BY <2>8 DEF InsertRow, vaultVars
  <2>9. ASSUME NEW r \in Requests, TimerFires(r) PROVE MappingLifetime'
    BY <2>9 DEF TimerFires, Expire
  <2>10. CASE Crash
    BY <2>10 DEF Crash, VaultLost
  <2>11. CASE UNCHANGED vars
    BY <2>11 DEF vars
  <2> QED BY <2>1, <2>2, <2>3, <2>4, <2>5, <2>6, <2>7, <2>8, <2>9, <2>10, <2>11
          DEF Next, Handler
<1> QED BY <1>1, <1>2, InvHolds, PTL DEF Safety

\* No step makes an answer without the mapping still being in the vault.
THEOREM AnswersFromOpenSessions == Safety => AnswerFromOpenSession
<1>1. ASSUME Inv, [Next]_vars, NEW q \in Requests,
             out'[q] # out[q], out'[q] # Blocked
      PROVE  q \in store'
  <2>0. TypeOK
    BY <1>1 DEF Inv
  <2> USE <1>1, <2>0 DEF TypeOK
  <2>1. ASSUME NEW r \in Requests, ArriveHit(r) PROVE q \in store'
    BY <2>1 DEF ArriveHit, Receive, SealAndSchedule, StartAudit
  <2>2. ASSUME NEW r \in Requests, GuardianBlocks(r) PROVE q \in store'
    BY <2>2 DEF GuardianBlocks, StartAudit
  <2>3. ASSUME NEW r \in Requests, GuardianPasses(r) PROVE q \in store'
    BY <2>3 DEF GuardianPasses, StartAudit, Opens, vaultVars
  <2>4. ASSUME NEW r \in Requests,
               \/ ArriveMiss(r) \/ UpstreamAnswers(r) \/ UpstreamFails(r)
               \/ GuardianRetries(r) \/ GuardianRaises(r) \/ AuditReturns(r)
               \/ AuditFails(r) \/ InsertRow(r) \/ TimerFires(r)
        PROVE  UNCHANGED out
    BY <2>4 DEF ArriveMiss, UpstreamAnswers, UpstreamFails, GuardianRetries,
                GuardianRaises, AuditReturns, AuditFails, InsertRow, TimerFires
  <2>5. CASE Crash \/ UNCHANGED vars
    BY <2>5 DEF Crash, vars
  <2> QED BY <2>1, <2>2, <2>3, <2>4, <2>5 DEF Next, Handler
<1>2. Inv /\ [Next]_vars =>
        [\A r \in Requests :
            out'[r] # out[r] /\ out'[r] # Blocked => r \in store']_vars
  BY <1>1
<1> QED BY <1>2, InvHolds, PTL DEF Safety, AnswerFromOpenSession

\* When no correction is allowed, a passed check is a compliant verdict.
StrictInv ==
    \A r \in Requests :
        /\ stage[r] = "judging" => calls[r] = 1
        /\ stage[r] # "correcting"
        /\ stage[r] = "accepted" => verdict[r] = "compliant"

\* Without corrections every text served, cached ones included, was judged
\* compliant.
THEOREM StrictServesCompliant ==
    ASSUME MaxRetries = 0 PROVE Safety => []ServedJudgedCompliant
<1>1. Init => StrictInv
  BY DEF Init, GuardianInit, StrictInv
<1>2. ASSUME Inv, StrictInv, [Next]_vars PROVE StrictInv'
  <2>0. GuardianTypeOK /\ GuardianTypeOK'
    BY <1>2, TypeStep DEF Inv, TypeOK
  <2> USE <1>2, <2>0 DEF StrictInv, GuardianTypeOK
  <2>1. ASSUME NEW r \in Requests, UpstreamAnswers(r) PROVE StrictInv'
    BY <2>1 DEF UpstreamAnswers, StartCheck
  <2>2. ASSUME NEW r \in Requests, GuardianRetries(r) PROVE StrictInv'
    BY <2>2 DEF GuardianRetries, Retry, JudgeNegative, CorrectionEmpty
  <2>3. ASSUME NEW r \in Requests, GuardianBlocks(r) PROVE StrictInv'
    BY <2>3 DEF GuardianBlocks, GiveUp, JudgeNegative, CorrectionEmpty
  <2>4. ASSUME NEW r \in Requests, GuardianRaises(r) PROVE StrictInv'
    BY <2>4 DEF GuardianRaises, CallFails, JudgeUnreadable
  <2>5. ASSUME NEW r \in Requests, GuardianPasses(r) PROVE StrictInv'
    BY <2>5 DEF GuardianPasses, JudgeCompliant, CorrectionArrives
  <2>6. ASSUME NEW r \in Requests,
               \/ ArriveHit(r) \/ ArriveMiss(r) \/ UpstreamFails(r)
               \/ AuditReturns(r) \/ AuditFails(r) \/ InsertRow(r)
               \/ TimerFires(r)
        PROVE  StrictInv'
    BY <2>6 DEF ArriveHit, ArriveMiss, Receive, UpstreamFails, AuditReturns,
                AuditFails, InsertRow, TimerFires, guardVars
  <2>7. CASE Crash \/ UNCHANGED vars
    BY <2>7 DEF Crash, guardVars, vars
  <2> QED BY <2>1, <2>2, <2>3, <2>4, <2>5, <2>6, <2>7 DEF Next, Handler
<1>3. Inv /\ StrictInv => ServedJudgedCompliant
  BY DEF Inv, PhaseInv, AnswerInv, Released, StrictInv, ServedJudgedCompliant,
         Texts
<1> QED BY <1>1, <1>2, <1>3, InvHolds, PTL DEF Safety

=============================================================================
