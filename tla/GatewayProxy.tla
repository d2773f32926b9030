---------------------------- MODULE GatewayProxy ----------------------------
(***************************************************************************)
(* POST /v1/chat/completions of the gateway (gateway/proxy.py) with the    *)
(* vault in Redis, the audit list and the counters of its process.  An     *)
(* action takes a handler from one await to the next.  Redis and the       *)
(* upstream model may fail, a key may lapse at any time, and the process   *)
(* may be restarted, which Redis does not notice.                          *)
(***************************************************************************)
EXTENDS GatewayAnonymizer, GatewayWatermark, AuditStore, GatewayVault

CONSTANTS
    Bodies,         \* the bodies that may come in, sequences of messages
    Accepts,        \* which of them a session may be
    ReplySizes,     \* how many choices its reply may have; the gateway sends no
                    \* n, so that a model usually answers with one
    MaxRewrites,    \* guardian_max_rewrites
    MaxRestarts     \* bound on restarts, in the guard of Restart

ASSUME GatewayAssumption ==
    /\ MaxRewrites \in Nat /\ MaxRestarts \in Nat
    /\ \A s \in Sessions : Accepts[s] \subseteq DOMAIN Bodies /\ ReplySizes[s] \subseteq Nat

\* A message has a role, a text with no placeholder in it and what recognizers find.
ASSUME BodiesAssumption ==
    /\ Bodies \in Seq(Seq([role : STRING, text : Seq(Chars), found : Seq(Span)]))
    /\ \A b \in DOMAIN Bodies : \A i \in DOMAIN Bodies[b] :
        Bodies[b][i].found \in FoundIn(Bodies[b][i].text)

VARIABLES
    pc,         \* the await a handler is at
    body,       \* the body of a session, by its number; 0 before it came in
    todo,       \* pairs of placeholder and original still to be stored
    full,       \* full_mapping
    left,       \* choices of the reply still to be worked on; NoReply before it came
    choice,     \* the one at hand: the message it repeats, its text restored and
                \* the rules it breaks
    rewrites,   \* rewrites of the loop in enforce, for the choice at hand
    violations, \* all_violations
    given,      \* the choices that are finished: how many, the rules they break
                \* and what there is to say of their watermarks
    status,     \* of the response; 0 while there is none
    counters,   \* the three counters of the metrics
    restarts,   \* how often the process was restarted
    log,        \* every entry ever appended, for observation only
    booted,     \* how long log was at the last restart, for observation only
    lapsed      \* sessions whose key lapsed, for observation only

replyVars == <<left, choice, rewrites, violations, given>>
requestVars == <<pc, body, todo, full, replyVars, status>>
processVars == <<counters, entries, restarts, log, booted>>
vars == <<requestVars, processVars, redis, read, lapsed>>

Rules == {"Art.5", "Art.12"}    \* Art.10 is of the kind of Art.5

\* A body as the model sees it: only user and system messages are anonymized,
\* each by itself.
Outgoing == [b \in DOMAIN Bodies |-> [i \in DOMAIN Bodies[b] |->
    LET msg == Bodies[b][i] IN
    IF msg.role \in {"user", "system"} THEN Anonymize(msg.text, msg.found)
    ELSE [text |-> msg.text, mapping |-> <<>>]]]

\* What is stored, in this order.
Items(b) == FlattenSeq([i \in DOMAIN Outgoing[b] |-> Outgoing[b][i].mapping])

PiiTypes(b) == {Items(b)[i][1][1] : i \in DOMAIN Items(b)}

NoChoice == [echo |-> 0, text |-> <<>>, bad |-> {}]
NoneGiven == [size |-> 0, bad |-> {}, marks |-> {}]
NoReply == -1

TypeOK ==
    /\ pc \in [Sessions -> {"idle", "get", "set", "post", "choice", "judge",
                            "flush", "done", "lost"}]
    /\ body \in [Sessions -> 0 .. Len(Bodies)]
    /\ status \in [Sessions -> {0, 200, 500}]
    /\ rewrites \in [Sessions -> 0 .. MaxRewrites]
    /\ \A s \in Sessions : choice[s].bad \cup violations[s] \subseteq Rules
    /\ counters \in [total : Nat, averted : Nat, rewritten : Nat]
    /\ restarts \in 0 .. MaxRestarts
    /\ Len(entries) <= MaxEntries
    /\ booted \in 0 .. Len(log)
    /\ lapsed \subseteq Sessions

Init ==
    /\ GatewayVaultInit
    /\ AuditStoreInit
    /\ pc = [s \in Sessions |-> "idle"]
    /\ body = [s \in Sessions |-> 0]
    /\ todo = [s \in Sessions |-> <<>>]
    /\ full = [s \in Sessions |-> <<>>]
    /\ left = [s \in Sessions |-> NoReply]
    /\ choice = [s \in Sessions |-> NoChoice]
    /\ rewrites = [s \in Sessions |-> 0]
    /\ violations = [s \in Sessions |-> {}]
    /\ given = [s \in Sessions |-> NoneGiven]
    /\ status = [s \in Sessions |-> 0]
    /\ counters = [total |-> 0, averted |-> 0, rewritten |-> 0]
    /\ restarts = 0 /\ log = <<>> /\ booted = 0 /\ lapsed = {}

\* What is audited: the types of all placeholders and the violations.
EntryOf(s) == [session |-> s, violations |-> violations[s],
               pii |-> PiiTypes(body[s])]

\* Unhandled exceptions end a request with status 500 and undo nothing.
Raise(s) ==
    /\ pc' = [pc EXCEPT ![s] = "done"]
    /\ status' = [status EXCEPT ![s] = 500]
    /\ UNCHANGED <<body, todo, full, replyVars, processVars>>

-----------------------------------------------------------------------------
(* Before the model is called.                                             *)

\* The request is counted and its messages are anonymized.
Begin(s, b) ==
    /\ pc[s] = "idle"
    /\ body' = [body EXCEPT ![s] = b]
    /\ todo' = [todo EXCEPT ![s] = Items(b)]
    /\ pc' = [pc EXCEPT ![s] = IF Items(b) = <<>> THEN "post" ELSE "get"]
    /\ counters' = [counters EXCEPT !.total = @ + 1]
    /\ UNCHANGED <<full, replyVars, status, entries, restarts, log,
                   booted, redis, read, lapsed>>

GetReturns(s) ==
    /\ pc[s] = "get"
    /\ StoreGet(s)
    /\ pc' = [pc EXCEPT ![s] = "set"]
    /\ UNCHANGED <<body, todo, full, replyVars, status, processVars, lapsed>>

\* A placeholder is stored; after the last one the risks averted are counted.
SetReturns(s) ==
    /\ pc[s] = "set"
    /\ LET item == Head(todo[s])
           more == Tail(todo[s])
           seen == Put(full[s], item)
       IN  /\ StoreSet(s, item)
           /\ full' = [full EXCEPT ![s] = seen]
           /\ todo' = [todo EXCEPT ![s] = more]
           /\ IF more # <<>>
              THEN pc' = [pc EXCEPT ![s] = "get"] /\ UNCHANGED counters
              ELSE /\ pc' = [pc EXCEPT ![s] = "post"]
                   /\ counters' = [counters EXCEPT !.averted =
                                        @ + Cardinality(DOMAIN seen)]
    /\ UNCHANGED <<body, replyVars, status, entries, restarts, log,
                   booted, lapsed>>

\* Redis does not answer a get or a set; a set may have been carried out.
RedisFails(s) ==
    /\ \/ pc[s] \in {"get", "set"} /\ UNCHANGED <<redis, read>>
       \/ pc[s] = "set" /\ StoreSet(s, Head(todo[s]))
    /\ Raise(s)
    /\ UNCHANGED lapsed

-----------------------------------------------------------------------------
(* The model's reply.                                                      *)

UpstreamAnswers(s) ==
    /\ pc[s] = "post"
    /\ \E n \in ReplySizes[s] : left' = [left EXCEPT ![s] = n]
    /\ pc' = [pc EXCEPT ![s] = "choice"]
    /\ UNCHANGED <<body, todo, full, choice, rewrites, violations, given, status,
                   processVars, redis, read, lapsed>>

\* A mistake to be caught: the failed request is audited.
UpstreamFailsAudited(s) ==
    /\ pc[s] = "post"
    /\ AppendEntry(EntryOf(s))
    /\ log' = Append(log, EntryOf(s))
    /\ pc' = [pc EXCEPT ![s] = "done"]
    /\ status' = [status EXCEPT ![s] = 500]
    /\ UNCHANGED <<body, todo, full, replyVars, counters, restarts, booted,
                   redis, read, lapsed>>

\* No reply within the timeout, an error status, or one that is not the JSON
\* expected.
UpstreamFails(s) ==
    /\ pc[s] = "post"
    /\ Raise(s)
    /\ UNCHANGED <<redis, read, lapsed>>

\* The next choice repeats one of the messages sent, or none, and may break any
\* rules.  Its placeholders are replaced with full_mapping.
TakeChoice(s) ==
    /\ pc[s] = "choice"
    /\ left[s] > 0
    /\ \E bad \in SUBSET Rules, m \in 0 .. Len(Bodies[body[s]]) :
        choice' = [choice EXCEPT ![s] =
            [echo |-> m,
             text |-> IF m = 0 THEN <<>>
                      ELSE Deanonymize(Outgoing[body[s]][m].text, full[s]),
             bad |-> bad]]
    /\ rewrites' = [rewrites EXCEPT ![s] = 0]
    /\ pc' = [pc EXCEPT ![s] = "judge"]
    /\ UNCHANGED <<body, todo, full, left, violations, given, status,
                   processVars, redis, read, lapsed>>

\* The rules a rewritten text may break.  Each match is replaced by [REDACTED],
\* after which a word may begin that was glued to the match; the phrase of
\* Art.12 ends and begins with a whole word, and its rule is applied last.
Residues(bad) ==
    IF bad = {"Art.12"} THEN {{}} ELSE SUBSET {"Art.5"}

\* A round of the loop in enforce in which the text is not compliant.
Rewrite(s) ==
    /\ pc[s] = "judge"
    /\ choice[s].bad # {}
    /\ rewrites[s] < MaxRewrites
    /\ \E bad \in Residues(choice[s].bad) :
        choice' = [choice EXCEPT ![s].bad = bad]
    /\ rewrites' = [rewrites EXCEPT ![s] = @ + 1]
    /\ UNCHANGED <<pc, body, todo, full, left, violations, given, status,
                   processVars, redis, read, lapsed>>

\* Mistakes to be caught: the violations of the last choice only; each round
\* counted.
FoundLast(s) == IF rewrites[s] > 0 THEN choice[s].bad ELSE {}
RewrittenEach(s) == rewrites[s]

\* What is recorded of a choice: when it was rewritten, what a check of its final
\* text says, and that it was.
Found(s) == violations[s] \cup (IF rewrites[s] > 0 THEN choice[s].bad ELSE {})
Rewritten(s) == IF rewrites[s] > 0 THEN 1 ELSE 0

\* What is to be said of the watermark of a text: whether few of its pairs are
\* misleading, and whether the watermark is detected.  The model may use any forms.
Mark(words, bits) ==
    [few |-> 2 * Cardinality(Misleading(words, bits)) <= Cardinality(Occurring(words)),
     detected |-> Detect(Apply(words, bits), bits)]

Marks == {Mark(words, bits) :
              words \in [Pairs -> SUBSET {"a", "b"}], bits \in BitStreams}

\* The loop ends, with a compliant text or with its rounds used up; the text is
\* watermarked.
FinishChoice(s) ==
    /\ pc[s] = "judge"
    /\ choice[s].bad = {} \/ rewrites[s] = MaxRewrites
    /\ \E mark \in Marks :
        given' = [given EXCEPT ![s] =
            [size |-> @.size + 1, bad |-> @.bad \cup choice[s].bad,
             marks |-> @.marks \cup {mark}]]
    /\ violations' = [violations EXCEPT ![s] = Found(s)]
    /\ counters' = [counters EXCEPT !.rewritten = @ + Rewritten(s)]
    /\ left' = [left EXCEPT ![s] = @ - 1]
    /\ choice' = [choice EXCEPT ![s] = NoChoice]
    /\ pc' = [pc EXCEPT ![s] = "choice"]
    /\ UNCHANGED <<body, todo, full, rewrites, status, entries, restarts, log,
                   booted, redis, read, lapsed>>

Audit(s) ==
    /\ pc[s] = "choice"
    /\ left[s] = 0
    /\ AppendEntry(EntryOf(s))
    /\ log' = Append(log, EntryOf(s))
    /\ pc' = [pc EXCEPT ![s] = "flush"]
    /\ UNCHANGED <<body, todo, full, replyVars, status, counters, restarts,
                   booted, redis, read, lapsed>>

\* The key is deleted and the client gets its answer.
FlushReturns(s) ==
    /\ pc[s] = "flush"
    /\ Flush(s)
    /\ pc' = [pc EXCEPT ![s] = "done"]
    /\ status' = [status EXCEPT ![s] = 200]
    /\ UNCHANGED <<body, todo, full, replyVars, processVars, lapsed>>

\* Redis does not answer: the request is audited and fails all the same.
FlushFails(s) ==
    /\ pc[s] = "flush"
    /\ Flush(s) \/ UNCHANGED <<redis, read>>
    /\ Raise(s)
    /\ UNCHANGED lapsed

-----------------------------------------------------------------------------
KeyLapses(s) ==
    /\ Lapse(s)
    /\ lapsed' = lapsed \cup {s}
    /\ UNCHANGED <<requestVars, processVars>>

\* The process ends and starts again: handlers, counters and entries are gone.
Restart ==
    /\ restarts < MaxRestarts
    /\ restarts' = restarts + 1
    /\ pc' = [s \in Sessions |->
                IF pc[s] \in {"idle", "done"} THEN pc[s] ELSE "lost"]
    /\ counters' = [total |-> 0, averted |-> 0, rewritten |-> 0]
    /\ AuditStoreLost
    /\ booted' = Len(log)
    /\ UNCHANGED <<body, todo, full, replyVars, status, log,
                   redis, read, lapsed>>

Handler(s) ==
    \/ GetReturns(s) \/ SetReturns(s) \/ RedisFails(s)
    \/ UpstreamAnswers(s) \/ UpstreamFails(s) \/ TakeChoice(s)
    \/ Rewrite(s) \/ FinishChoice(s) \/ Audit(s) \/ FlushReturns(s) \/ FlushFails(s)

Next ==
    \/ \E s \in Sessions : Handler(s) \/ KeyLapses(s)
    \/ \E s \in Sessions : \E b \in Accepts[s] : Begin(s, b)
    \/ Restart

Safety == Init /\ [][Next]_vars

-----------------------------------------------------------------------------
EntriesOf(s) == {i \in DOMAIN log : log[i].session = s}

\* A session has at most one entry, with the types of everything that was masked.
\* It has one when it was answered with 200, and none when the model's reply never
\* came or it failed before all choices of the reply were finished
\* (gateway/proxy.py 53-86).
AnsweredIsAudited == \A s \in Sessions :
    /\ \A i, j \in EntriesOf(s) : i = j
    /\ status[s] = 200 => EntriesOf(s) # {}
    /\ \A i \in EntriesOf(s) :
        /\ left[s] = 0
        /\ log[i].pii = {ph[1] : ph \in DOMAIN full[s]}

\* The entry of an answer has exactly the violations the client's texts still
\* have, be they rewritten until compliant or only as often as allowed (judge.py
\* 36-46, gateway/proxy.py 66-76).
ViolationsRecorded == \A s \in Sessions : \A i \in EntriesOf(s) :
    status[s] = 200 => log[i].violations = given[s].bad

\* GET /v1/audit has the newest entries since the process started, the last one
\* first, and all of them until the limit is reached (audit/store.py 23-46).
NewestKept ==
    /\ Len(All) = LET n == Len(log) - booted
                  IN  IF n < MaxEntries THEN n ELSE MaxEntries
    /\ \A i \in 1 .. Len(All) : All[i] = log[Len(log) + 1 - i]

\* While the model is working Redis has the whole mapping, if its key has not
\* lapsed meanwhile, and nothing is left in Redis of an answered session
\* (anonymizer/vault.py 20-42): store reads and writes the key in two steps.
RedisAgrees == \A s \in Sessions :
    /\ pc[s] \in {"post", "choice", "judge"} /\ s \notin lapsed =>
        redis[s] = full[s]
    /\ status[s] = 200 => redis[s] = NoMapping

\* Of what was found in each message of a body the spans that are kept do not
\* overlap, and of the others each overlaps one of them at least as strong.
WellKept == [b \in DOMAIN Bodies |-> \A i \in DOMAIN Bodies[b] :
    LET found == Bodies[b][i].found
        kept  == RemoveOverlaps(found)
    IN  /\ \A j \in 1 .. Len(kept) - 1 : kept[j].end <= kept[j + 1].start
        /\ \A a \in ToSet(found) \ ToSet(kept) : \E k \in ToSet(kept) :
            Overlap(a, k) /\ ~Stronger(a, k)]

\* What is masked in a message is chosen so (anonymizer/engine.py 198-212), whatever
\* the recognizers found in it and in which order.
KeptSpans == \A s \in Sessions : body[s] # 0 => WellKept[body[s]]

\* No message after the m-th of body b has one of its placeholders.
Unshared(b, m) == \A i \in m + 1 .. Len(Bodies[b]) :
    \A x \in ToSet(Outgoing[b][m].mapping), y \in ToSet(Outgoing[b][i].mapping) :
        x[1] # y[1]

Restored(s) == choice[s].text = Bodies[body[s]][choice[s].echo].text

\* A message repeated by the model comes back as the client wrote it, when no
\* later message has a placeholder of its own (anonymizer/engine.py 217-252),
\* whatever became of the key in Redis.
OwnOriginalsRestored == \A s \in Sessions :
    choice[s].echo # 0 /\ Unshared(body[s], choice[s].echo) => Restored(s)

\* README.md 27: "placeholders are replaced with the original PII values".
OriginalsRestored == \A s \in Sessions : choice[s].echo # 0 => Restored(s)

\* compliance_score (metrics/store.py 20-28), rounded half to even.
Score ==
    LET part == 100 * (counters.total - counters.rewritten)
        down == part \div counters.total
        rest == 2 * (part % counters.total)
    IN  IF counters.total = 0 THEN 100
        ELSE IF rest > counters.total \/ (rest = counters.total /\ down % 2 = 1)
             THEN down + 1 ELSE down

\* The score is a percentage while no reply has more than one choice, also after
\* a restart amid requests: an answer is only counted as rewritten in the process
\* that counted its request (gateway/proxy.py 35, 74).
ScoreInRange ==
    (\A s \in Sessions : left[s] + given[s].size <= 1) => Score \in 0 .. 100

\* The watermark is found in an answer unless more than half of the synonym pairs
\* that occur in it are misleading: second forms that the model itself wrote, alone,
\* where the session's bit is 0.  Then it is not found (watermark/engine.py 49-84).
MarkDetected == \A s \in Sessions :
    \A mark \in given[s].marks : mark.detected <=> mark.few
=============================================================================
