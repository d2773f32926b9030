------------------------- MODULE GatewayProxyProofs -------------------------
(***************************************************************************)
(* Invariants of GatewayProxy, for all bodies, sessions, replies and       *)
(* bounds: what Redis holds and the audit list keeps, that a watermark is  *)
(* found again, what is masked and restored, what is audited of an answer, *)
(* and that the score is a percentage.  Each safety invariant follows from *)
(* an inductive one, which is proved in three lemmas: it holds at first, a *)
(* step keeps it, it implies the other.                                    *)
(***************************************************************************)
EXTENDS GatewayProxy, GatewayAnonymizerProofs

\* The awaits a handler may be at.
Awaits == {"idle", "get", "set", "post", "choice", "judge", "flush", "done", "lost"}

\* f is a function on the sessions.
OverSessions(f) == f = [s \in Sessions |-> f[s]]

-----------------------------------------------------------------------------
(* Redis.                                                                  *)

\* A handler that is under way finds under its key what it wrote last, unless the
\* key lapsed; a session that has not begun, and one that was answered, has none.
RedisInv ==
    /\ pc \in [Sessions -> Awaits]
    /\ OverSessions(redis) /\ OverSessions(read) /\ OverSessions(full)
    /\ OverSessions(status)
    /\ \A s \in Sessions :
        /\ pc[s] = "idle" => redis[s] = NoMapping /\ full[s] = NoMapping
        /\ pc[s] \in {"get", "set", "post", "choice", "judge"} /\ s \notin lapsed
            => redis[s] = full[s]
        /\ pc[s] = "set" /\ s \notin lapsed => read[s] = full[s]
        /\ status[s] = 200 => pc[s] = "done" /\ redis[s] = NoMapping

\* At first Redis has nothing and nobody has begun.
LEMMA RedisInit == Init => RedisInv
BY DEF Init, GatewayVaultInit, RedisInv, Awaits, OverSessions, NoMapping

\* One step per action; the ones that touch neither Redis nor its copies in the
\* handler only move it to another await.
LEMMA RedisStep == RedisInv /\ [Next]_vars => RedisInv'
<1> SUFFICES ASSUME RedisInv, [Next]_vars
             PROVE  RedisInv'
    OBVIOUS
<1> USE DEF RedisInv, Awaits, OverSessions
<1>1. ASSUME NEW s \in Sessions, NEW b \in Accepts[s], Begin(s, b)
      PROVE  RedisInv'
    BY <1>1 DEF Begin
<1>2. ASSUME NEW s \in Sessions, GetReturns(s)
      PROVE  RedisInv'
    BY <1>2 DEF GetReturns, StoreGet
<1>3. ASSUME NEW s \in Sessions, SetReturns(s)
      PROVE  RedisInv'
    <2> DEFINE item == Head(todo[s])
    <2>1. /\ redis' = [redis EXCEPT ![s] = Put(read[s], item)]
          /\ full' = [full EXCEPT ![s] = Put(full[s], item)]
          /\ UNCHANGED <<read, status, lapsed>>
        BY <1>3 DEF SetReturns, StoreSet
    <2>2. /\ pc[s] = "set"
          /\ pc' \in {[pc EXCEPT ![s] = "get"], [pc EXCEPT ![s] = "post"]}
        BY <1>3 DEF SetReturns
    <2>3. s \notin lapsed => redis'[s] = full'[s]
        BY <2>1, <2>2
    <2>4. \A o \in Sessions \ {s} :
            redis'[o] = redis[o] /\ full'[o] = full[o] /\ pc'[o] = pc[o]
        BY <2>1, <2>2
    <2>5. OverSessions(redis') /\ OverSessions(full') /\ pc' \in [Sessions -> Awaits]
        <3>1. OverSessions(redis')
            BY <2>1
        <3>2. OverSessions(full')
            BY <2>1
        <3>3. pc' \in [Sessions -> Awaits]
            BY <2>2
        <3> QED BY <3>1, <3>2, <3>3
    <2>6. pc'[s] \in {"get", "post"} /\ status[s] # 200
        BY <2>2
    <2> QED BY <2>1, <2>3, <2>4, <2>5, <2>6
<1>4. ASSUME NEW s \in Sessions, RedisFails(s)
      PROVE  RedisInv'
    BY <1>4 DEF RedisFails, StoreSet, Raise
<1>5. ASSUME NEW s \in Sessions,
             UpstreamAnswers(s) \/ TakeChoice(s) \/ Rewrite(s) \/ FinishChoice(s) \/ Audit(s)
      PROVE  RedisInv'
    BY <1>5 DEF UpstreamAnswers, TakeChoice, Rewrite, FinishChoice, Audit
<1>6. ASSUME NEW s \in Sessions, UpstreamFails(s)
      PROVE  RedisInv'
    BY <1>6 DEF UpstreamFails, Raise
<1>7. ASSUME NEW s \in Sessions, FlushReturns(s)
      PROVE  RedisInv'
    <2>1. /\ redis' = [redis EXCEPT ![s] = NoMapping]
          /\ pc' = [pc EXCEPT ![s] = "done"] /\ status' = [status EXCEPT ![s] = 200]
          /\ UNCHANGED <<full, read, lapsed>>
        BY <1>7 DEF FlushReturns, Flush
    <2>2. \A o \in Sessions \ {s} :
            redis'[o] = redis[o] /\ pc'[o] = pc[o] /\ status'[o] = status[o]
        BY <2>1
    <2>3. /\ OverSessions(redis') /\ redis'[s] = NoMapping
          /\ pc' \in [Sessions -> Awaits] /\ pc'[s] = "done"
          /\ OverSessions(status')
        <3>1. OverSessions(redis') /\ redis'[s] = NoMapping
            BY <2>1
        <3>2. pc' \in [Sessions -> Awaits] /\ pc'[s] = "done"
            BY <2>1
        <3>3. OverSessions(status')
            BY <2>1
        <3> QED BY <3>1, <3>2, <3>3
    <2> QED BY <2>1, <2>2, <2>3
<1>8. ASSUME NEW s \in Sessions, FlushFails(s)
      PROVE  RedisInv'
    BY <1>8 DEF FlushFails, Flush, Raise
<1>9. ASSUME NEW s \in Sessions, KeyLapses(s)
      PROVE  RedisInv'
    <2>1. /\ redis[s] # NoMapping /\ redis' = [redis EXCEPT ![s] = NoMapping]
          /\ lapsed' = lapsed \cup {s} /\ UNCHANGED <<pc, full, read, status>>
        BY <1>9 DEF KeyLapses, Lapse, Flush, requestVars
    <2>2. \A o \in Sessions \ {s} : redis'[o] = redis[o]
        BY <2>1
    <2>3. OverSessions(redis') /\ redis'[s] = NoMapping
        BY <2>1
    <2> QED BY <2>1, <2>2, <2>3
<1>10. CASE Restart
    BY <1>10 DEF Restart
<1>11. CASE UNCHANGED vars
    BY <1>11 DEF vars, requestVars
<1> QED
    BY <1>1, <1>2, <1>3, <1>4, <1>5, <1>6, <1>7, <1>8, <1>9, <1>10, <1>11
       DEF Next, Handler

\* Redis has the whole mapping of every session whose model is working, though
\* store reads and writes it in two steps, and nothing of an answered one
\* (gateway/anonymizer/vault.py 20-42).
THEOREM MappingsInRedis == Safety => []RedisAgrees
<1>1. RedisInv => RedisAgrees
    BY DEF RedisInv, RedisAgrees
<1> QED BY <1>1, RedisInit, RedisStep, PTL DEF Safety

-----------------------------------------------------------------------------
(* The audit list.                                                         *)

\* Cutting before an entry is added and after it, or only after it, is the same.
LEMMA NewestAppend ==
    ASSUME NEW S, NEW s \in Seq(S), NEW e \in S, NEW n \in Nat \ {0}
    PROVE  Newest(Append(Newest(s, n), e), n) = Newest(Append(s, e), n)
<1>1. CASE Len(s) <= n
    BY <1>1 DEF Newest
<1>2. CASE Len(s) > n
    <2> DEFINE k == Len(s) - n
               t == SubSeq(s, k + 1, Len(s))
               kept == SubSeq(Append(t, e), 2, n + 1)
               newest == SubSeq(Append(s, e), k + 2, Len(s) + 1)
    <2>1. Len(s) \in Nat /\ k \in Nat /\ k + n = Len(s)
        BY <1>2
    <2>2. /\ t \in Seq(S) /\ Len(t) = n
          /\ \A i \in 1 .. n : t[i] = s[k + i]
        BY <2>1, SubSeqProperties
    <2>3. Newest(s, n) = t
        BY <1>2, <2>1 DEF Newest
    <2> HIDE DEF t
    <2>4. /\ Append(t, e) \in Seq(S) /\ Len(Append(t, e)) = n + 1
          /\ \A i \in 1 .. n : Append(t, e)[i] = t[i]
          /\ Append(t, e)[n + 1] = e
        BY <2>2, AppendProperties
    <2>5. /\ Append(s, e) \in Seq(S) /\ Len(Append(s, e)) = Len(s) + 1
          /\ \A i \in 1 .. Len(s) : Append(s, e)[i] = s[i]
          /\ Append(s, e)[Len(s) + 1] = e
        BY AppendProperties
    <2>6. Newest(Append(t, e), n) = kept
        BY <2>4 DEF Newest
    <2>7. Newest(Append(s, e), n) = newest
        BY <1>2, <2>1, <2>5 DEF Newest
    <2>8. /\ kept \in Seq(S) /\ Len(kept) = n
          /\ \A i \in 1 .. n : kept[i] = Append(t, e)[i + 1]
        BY <2>4, SubSeqProperties
    <2>9. /\ newest \in Seq(S) /\ Len(newest) = n
          /\ \A i \in 1 .. n : newest[i] = Append(s, e)[k + 1 + i]
        BY <2>1, <2>5, SubSeqProperties
    <2>10. ASSUME NEW i \in 1 .. n
           PROVE  kept[i] = newest[i]
        <3>1. kept[i] = Append(t, e)[i + 1] /\ newest[i] = Append(s, e)[k + 1 + i]
            BY <2>8, <2>9
        <3>2. CASE i < n
            <4> DEFINE j == i + 1
            <4>1. j \in 1 .. n /\ k + j \in 1 .. Len(s) /\ k + 1 + i = k + j
                BY <2>1, <3>2
            <4> HIDE DEF j, k
            <4>2. Append(t, e)[j] = s[k + j] /\ Append(s, e)[k + j] = s[k + j]
                BY <2>2, <2>4, <2>5, <4>1
            <4> QED BY <3>1, <4>1, <4>2 DEF j
        <3>3. CASE i = n
            <4>1. k + 1 + i = Len(s) + 1
                BY <2>1, <3>3
            <4> HIDE DEF k
            <4>2. newest[i] = e
                BY <2>5, <3>1, <4>1
            <4>3. kept[i] = e
                BY <2>4, <3>1, <3>3
            <4> QED BY <4>2, <4>3
        <3> HIDE DEF kept, newest
        <3> QED BY <2>1, <3>2, <3>3
    <2> HIDE DEF kept, newest, k
    <2>11. kept = newest
        BY <2>8, <2>9, <2>10, SeqEqual
    <2> QED BY <2>3, <2>6, <2>7, <2>11
<1> QED BY <1>1, <1>2

\* The elements of the end of a sequence.
LEMMA SubSeqEnd ==
    ASSUME NEW S, NEW s \in Seq(S), NEW b \in 0 .. Len(s)
    PROVE  /\ SubSeq(s, b + 1, Len(s)) \in Seq(S)
           /\ Len(SubSeq(s, b + 1, Len(s))) = Len(s) - b
           /\ \A i \in 1 .. Len(s) - b : SubSeq(s, b + 1, Len(s))[i] = s[b + i]
<1> DEFINE rest == SubSeq(s, b + 1, Len(s))
           n == Len(s) - b
<1>1. Len(s) \in Nat /\ n \in Nat /\ b \in Nat /\ b + n = Len(s)
    OBVIOUS
<1>2. \A i \in b + 1 .. Len(s) : s[i] \in S
    BY <1>1
<1>3. /\ rest \in Seq(S)
      /\ Len(rest) = IF b + 1 <= Len(s) THEN Len(s) - (b + 1) + 1 ELSE 0
      /\ \A i \in 1 .. Len(s) - (b + 1) + 1 : rest[i] = s[(b + 1) + i - 1]
    BY <1>1, <1>2, SubSeqProperties
<1>4. ASSUME NEW i \in 1 .. n
      PROVE  rest[i] = s[b + i]
    <2>1. i \in 1 .. Len(s) - (b + 1) + 1 /\ (b + 1) + i - 1 = b + i
        BY <1>1
    <2> QED BY <1>3, <2>1
<1> HIDE DEF rest
<1>5. Len(rest) = n
    <2>1. CASE b + 1 <= Len(s)
        <3>1. Len(rest) = Len(s) - (b + 1) + 1
            BY <1>3, <2>1, Zenon
        <3> QED BY <1>1, <3>1
    <2>2. CASE ~(b + 1 <= Len(s))
        <3>1. Len(rest) = 0
            BY <1>3, <2>2, Zenon
        <3> HIDE DEF n
        <3>2. n = 0
            BY <1>1, <2>2
        <3> QED BY <3>1, <3>2
    <2> QED BY <2>1, <2>2
<1> QED BY <1>3, <1>4, <1>5

\* The end of a sequence grows with it.
LEMMA SubSeqAppend ==
    ASSUME NEW S, NEW s \in Seq(S), NEW e \in S, NEW b \in 0 .. Len(s)
    PROVE  SubSeq(Append(s, e), b + 1, Len(s) + 1)
                = Append(SubSeq(s, b + 1, Len(s)), e)
<1> DEFINE whole == SubSeq(Append(s, e), b + 1, Len(s) + 1)
           rest == SubSeq(s, b + 1, Len(s))
           n == Len(s) - b
<1>1. Len(s) \in Nat /\ n \in Nat /\ b \in Nat /\ b + n = Len(s)
    OBVIOUS
<1>2. /\ Append(s, e) \in Seq(S) /\ Len(Append(s, e)) = Len(s) + 1
      /\ \A i \in 1 .. Len(s) : Append(s, e)[i] = s[i]
      /\ Append(s, e)[Len(s) + 1] = e
    BY AppendProperties
<1>3. /\ whole \in Seq(S) /\ Len(whole) = n + 1
      /\ \A i \in 1 .. n + 1 : whole[i] = Append(s, e)[b + i]
    BY <1>1, <1>2, SubSeqProperties
<1>4. /\ rest \in Seq(S) /\ Len(rest) = n
      /\ \A i \in 1 .. n : rest[i] = s[b + i]
    BY SubSeqEnd
<1> HIDE DEF rest, whole, n
<1>5. /\ Append(rest, e) \in Seq(S) /\ Len(Append(rest, e)) = n + 1
      /\ \A i \in 1 .. n : Append(rest, e)[i] = rest[i]
      /\ Append(rest, e)[n + 1] = e
    BY <1>4, AppendProperties
<1>6. ASSUME NEW i \in 1 .. n + 1
      PROVE  whole[i] = Append(rest, e)[i]
    <2>1. CASE i <= n
        BY <1>1, <1>2, <1>3, <1>4, <1>5, <2>1
    <2>2. CASE i = n + 1
        <3>1. b + i = Len(s) + 1 /\ whole[i] = Append(s, e)[b + i]
            BY <1>1, <1>3, <2>2
        <3>2. whole[i] = e
            BY <1>2, <3>1
        <3>3. Append(rest, e)[i] = e
            BY <1>5, <2>2
        <3> QED BY <3>2, <3>3
    <2>3. i <= n \/ i = n + 1
        BY <1>1
    <2> QED BY <2>1, <2>2, <2>3, Zenon
<1>7. whole = Append(rest, e)
    BY <1>3, <1>5, <1>6, SeqEqual
<1> QED BY <1>7 DEF whole, rest

\* The list is the end of what was logged since the last restart.
EndOfLog == entries = Newest(SubSeq(log, booted + 1, Len(log)), MaxEntries)

\* What is appended to the log and to the list, and how long the log was at a restart.
LogInv == (\E S : log \in Seq(S)) /\ booted \in 0 .. Len(log) /\ EndOfLog

\* An empty list is the newest part of an empty log.
LEMMA LogInit == Init => LogInv
<1> SUFFICES ASSUME Init
             PROVE  LogInv
    OBVIOUS
<1>1. log = <<>> /\ booted = 0 /\ entries = <<>>
    BY DEF Init, AuditStoreInit
<1>2. SubSeq(log, booted + 1, Len(log)) = <<>>
    BY <1>1
<1>3. log \in Seq({}) /\ Len(log) = 0
    BY <1>1
<1> QED
    BY <1>1, <1>2, <1>3, MaxEntriesAssumption DEF LogInv, EndOfLog, Newest

\* Only an audit and a restart change the list, both together with the log.
LEMMA LogStep == LogInv /\ [Next]_vars => LogInv'
<1> SUFFICES ASSUME LogInv, [Next]_vars
             PROVE  LogInv'
    OBVIOUS
<1>1. ASSUME NEW s \in Sessions, Audit(s)
      PROVE  LogInv'
    <2> DEFINE e == EntryOf(s)
               since == SubSeq(log, booted + 1, Len(log))
    <2>1. /\ entries' = Newest(Append(entries, e), MaxEntries)
          /\ log' = Append(log, e) /\ booted' = booted
        BY <1>1 DEF Audit, AppendEntry
    <2> HIDE DEF e
    <2>2. PICK S : log \in Seq(S)
        BY DEF LogInv
    <2> DEFINE T == S \cup {e}
    <2>3. log \in Seq(T) /\ e \in T
        BY <2>2, SeqMonotonic
    <2> HIDE DEF T
    <2>4. booted \in 0 .. Len(log) /\ entries = Newest(since, MaxEntries)
        BY DEF LogInv, EndOfLog
    <2>5. log' \in Seq(T) /\ Len(log') = Len(log) + 1
        BY <2>1, <2>3, AppendProperties
    <2>6. SubSeq(log', booted' + 1, Len(log')) = Append(since, e)
        BY <2>1, <2>3, <2>4, <2>5, SubSeqAppend
    <2>7. since \in Seq(T)
        BY <2>3, <2>4, SubSeqProperties
    <2> HIDE DEF since
    <2>8. entries' = Newest(Append(since, e), MaxEntries)
        BY <2>1, <2>3, <2>4, <2>7, NewestAppend, MaxEntriesAssumption
    <2>9. EndOfLog'
        BY <2>6, <2>8 DEF EndOfLog
    <2>10. booted' \in 0 .. Len(log')
        BY <2>1, <2>3, <2>4, <2>5
    <2> QED BY <2>5, <2>9, <2>10 DEF LogInv
<1>2. CASE Restart
    <2>1. log' = log /\ booted' = Len(log) /\ entries' = <<>>
        BY <1>2 DEF Restart, AuditStoreLost
    <2>2. PICK S : log \in Seq(S)
        BY DEF LogInv
    <2>3. Len(log) \in Nat /\ SubSeq(log', booted' + 1, Len(log')) = <<>>
        BY <2>1, <2>2
    <2> QED
        BY <2>1, <2>2, <2>3, MaxEntriesAssumption DEF LogInv, EndOfLog, Newest
<1>3. CASE UNCHANGED <<log, booted, entries>>
    BY <1>3 DEF LogInv, EndOfLog
<1> QED
    BY <1>1, <1>2, <1>3
       DEF Next, Handler, vars, processVars, Begin, GetReturns, SetReturns, RedisFails,
           UpstreamAnswers, UpstreamFails, TakeChoice, Rewrite, FinishChoice,
           FlushReturns, FlushFails, KeyLapses, Raise

\* The last i-th element of a sequence is that of its end.
LEMMA NewestElements ==
    ASSUME NEW S, NEW s \in Seq(S), NEW b \in 0 .. Len(s), NEW n \in Nat
    PROVE  LET kept == Newest(SubSeq(s, b + 1, Len(s)), n)
           IN  /\ kept \in Seq(S)
               /\ Len(kept) = IF Len(s) - b < n THEN Len(s) - b ELSE n
               /\ \A i \in 1 .. Len(kept) : kept[Len(kept) - i + 1] = s[Len(s) + 1 - i]
<1> DEFINE since == SubSeq(s, b + 1, Len(s))
           l == Len(s) - b
           kept == Newest(since, n)
<1>1. Len(s) \in Nat /\ b \in Nat /\ l \in Nat /\ b + l = Len(s)
    OBVIOUS
<1>2. /\ since \in Seq(S) /\ Len(since) = l
      /\ \A i \in 1 .. l : since[i] = s[b + i]
    BY <1>1, SubSeqEnd
<1> HIDE DEF since, l
<1>3. CASE l <= n
    <2>1. kept = since
        BY <1>1, <1>2, <1>3 DEF Newest
    <2>2. Len(kept) = IF l < n THEN l ELSE n
        BY <1>1, <1>2, <1>3, <2>1
    <2>3. ASSUME NEW i \in 1 .. l
          PROVE  since[l - i + 1] = s[Len(s) + 1 - i]
        <3> DEFINE j == l - i + 1
        <3>1. j \in 1 .. l /\ b + j = Len(s) + 1 - i
            BY <1>1
        <3> HIDE DEF j
        <3>2. since[j] = s[b + j]
            BY <1>2, <3>1
        <3> QED BY <3>1, <3>2 DEF j
    <2> QED BY <1>2, <2>1, <2>2, <2>3 DEF l, since
<1>4. CASE ~(l <= n)
    <2> DEFINE k == l - n
    <2>1. k \in Nat /\ k \in 0 .. Len(since) /\ l - k = n /\ k + 1 = l - n + 1
        BY <1>1, <1>2, <1>4
    <2>2. kept = SubSeq(since, k + 1, Len(since))
        BY <1>1, <1>2, <1>4, <2>1 DEF Newest
    <2> HIDE DEF k, kept
    <2>3. /\ kept \in Seq(S) /\ Len(kept) = n
          /\ \A i \in 1 .. n : kept[i] = since[k + i]
        BY <1>2, <2>1, <2>2, SubSeqEnd
    <2>4. ASSUME NEW i \in 1 .. n
          PROVE  kept[n - i + 1] = s[Len(s) + 1 - i]
        <3> DEFINE j == n - i + 1
        <3>1. j \in 1 .. n /\ k + j \in 1 .. l /\ b + (k + j) = Len(s) + 1 - i
            BY <1>1, <1>2, <2>1
        <3> HIDE DEF j
        <3>2. kept[j] = since[k + j] /\ since[k + j] = s[b + (k + j)]
            BY <1>2, <2>3, <3>1
        <3> QED BY <3>1, <3>2 DEF j
    <2>5. Len(kept) = IF l < n THEN l ELSE n
        BY <1>1, <1>4, <2>3
    <2> QED BY <2>3, <2>4, <2>5 DEF l, kept, since
<1> QED BY <1>3, <1>4

\* Cut after every entry, the list is always the newest entries of all there were
\* since the process started, for any limit, and all returns them the last one first
\* (gateway/audit/store.py 39-46).
THEOREM AuditListKeepsNewest == Safety => []NewestKept
<1>1. LogInv => NewestKept
    <2> SUFFICES ASSUME LogInv
                 PROVE  NewestKept
        OBVIOUS
    <2>1. PICK S : log \in Seq(S)
        BY DEF LogInv
    <2>2. /\ entries \in Seq(S)
          /\ Len(entries) = IF Len(log) - booted < MaxEntries
                            THEN Len(log) - booted ELSE MaxEntries
          /\ \A i \in 1 .. Len(entries) :
                entries[Len(entries) - i + 1] = log[Len(log) + 1 - i]
        <3>1. booted \in 0 .. Len(log) /\ MaxEntries \in Nat
            BY MaxEntriesAssumption DEF LogInv
        <3>2. entries = Newest(SubSeq(log, booted + 1, Len(log)), MaxEntries)
            BY DEF LogInv, EndOfLog
        <3> QED BY <2>1, <3>1, <3>2, NewestElements
    <2>3. /\ Len(All) = Len(entries)
          /\ \A i \in 1 .. Len(entries) : All[i] = entries[Len(entries) - i + 1]
        BY <2>2 DEF All, Reverse
    <2> QED BY <2>2, <2>3 DEF NewestKept
<1> QED BY <1>1, LogInit, LogStep, PTL DEF Safety

-----------------------------------------------------------------------------
(* The watermark.                                                          *)

\* After apply a pair that occurs is a hit of detect unless it is misleading: with bit
\* 1 no first form is left, with bit 0 nothing was changed.
LEMMA HitsOfDetect ==
    ASSUME NEW words \in [Pairs -> SUBSET {"a", "b"}], NEW bits \in BitStreams,
           NEW p \in Occurring(words)
    PROVE  /\ Apply(words, bits)[p] # {}
           /\ (IF bits[p] THEN "b" ELSE "a") \in Apply(words, bits)[p]
                <=> p \notin Misleading(words, bits)
<1>1. p \in Pairs /\ words[p] \in SUBSET {"a", "b"} /\ words[p] # {} /\ bits[p] \in BOOLEAN
    BY DEF Occurring, BitStreams
<1>2. Apply(words, bits)[p] = (IF bits[p] /\ "a" \in words[p]
                               THEN (words[p] \ {"a"}) \cup {"b"} ELSE words[p])
    BY <1>1 DEF Apply
<1>3. p \in Misleading(words, bits) <=> ~bits[p] /\ words[p] = {"b"}
    BY <1>1 DEF Misleading
<1>4. words[p] = {"b"} <=> "a" \notin words[p]
    BY <1>1
<1>5. CASE bits[p]
    BY <1>1, <1>2, <1>3, <1>5
<1>6. CASE ~bits[p]
    BY <1>1, <1>2, <1>3, <1>4, <1>6
<1> QED BY <1>5, <1>6

\* The hits are the pairs that occur without the misleading ones, so that at least
\* half of the pairs are hits exactly when at most half of them are misleading.
LEMMA DetectedUnlessMisled ==
    ASSUME NEW words \in [Pairs -> SUBSET {"a", "b"}], NEW bits \in BitStreams
    PROVE  Detect(Apply(words, bits), bits)
                <=> 2 * Cardinality(Misleading(words, bits)) <= Cardinality(Occurring(words))
<1> DEFINE marked == Apply(words, bits)
           misled == Misleading(words, bits)
           checks == Occurring(words)
           hits   == {p \in Occurring(marked) : (IF bits[p] THEN "b" ELSE "a") \in marked[p]}
<1>1. Occurring(marked) = checks
    <2>1. ASSUME NEW p \in Pairs, p \notin checks
          PROVE  marked[p] = {}
        BY <2>1 DEF Occurring, Apply
    <2>2. ASSUME NEW p \in checks
          PROVE  marked[p] # {}
        BY <2>2, HitsOfDetect
    <2> QED BY <2>1, <2>2 DEF Occurring
<1>2. hits = checks \ misled
    <2>1. \A p \in checks : (IF bits[p] THEN "b" ELSE "a") \in marked[p] <=> p \notin misled
        BY HitsOfDetect
    <2> HIDE DEF marked, misled, checks
    <2> QED BY <1>1, <2>1
<1>3. misled \subseteq checks
    BY DEF Misleading, Occurring
<1>4. IsFiniteSet(checks)
    <2>1. checks \subseteq Pairs
        BY DEF Occurring
    <2> QED BY <2>1, PairsAssumption, FS_Subset
<1>5. Detect(marked, bits)
        <=> (checks = {} \/ 2 * Cardinality(hits) >= Cardinality(checks))
    BY <1>1 DEF Detect
<1> HIDE DEF marked, misled, checks, hits
<1>6. /\ Cardinality(checks) \in Nat /\ Cardinality(misled) \in Nat
      /\ Cardinality(hits) = Cardinality(checks) - Cardinality(misled)
    <2>1. IsFiniteSet(misled) /\ checks \cap misled = misled
        BY <1>3, <1>4, FS_Subset
    <2>2. Cardinality(checks \ misled) = Cardinality(checks) - Cardinality(checks \cap misled)
        BY <1>4, FS_Difference
    <2> QED BY <1>2, <1>4, <2>1, <2>2, FS_CardinalityType
<1>7. checks = {} => Cardinality(checks) = 0 /\ Cardinality(misled) = 0
    BY <1>3, FS_EmptySet
<1>8. 2 * (Cardinality(checks) - Cardinality(misled)) >= Cardinality(checks)
        <=> 2 * Cardinality(misled) <= Cardinality(checks)
    BY <1>6
<1> QED BY <1>5, <1>6, <1>7, <1>8 DEF marked, misled, checks

\* What is kept of the watermarks is true of some text and bits.
MarkInv == OverSessions(given) /\ \A s \in Sessions : given[s].marks \subseteq Marks

\* A choice is finished with a mark of its text.
LEMMA MarkStep == MarkInv /\ [Next]_vars => MarkInv'
<1> SUFFICES ASSUME MarkInv, [Next]_vars
             PROVE  MarkInv'
    OBVIOUS
<1>1. ASSUME NEW s \in Sessions, FinishChoice(s)
      PROVE  MarkInv'
    <2>1. PICK mark \in Marks :
            given' = [given EXCEPT ![s] =
                [size |-> @.size + 1, bad |-> @.bad \cup choice[s].bad,
                 marks |-> @.marks \cup {mark}]]
        BY <1>1 DEF FinishChoice
    <2>2. given'[s].marks = given[s].marks \cup {mark}
        BY <2>1 DEF MarkInv, OverSessions
    <2>3. \A o \in Sessions \ {s} : given'[o] = given[o]
        BY <2>1 DEF MarkInv, OverSessions
    <2>4. OverSessions(given')
        BY <2>1 DEF MarkInv, OverSessions
    <2> QED BY <2>2, <2>3, <2>4 DEF MarkInv, OverSessions
<1>2. CASE UNCHANGED given
    BY <1>2 DEF MarkInv, OverSessions
<1> QED
    BY <1>1, <1>2
       DEF Next, Handler, vars, requestVars, replyVars, Begin, GetReturns, SetReturns,
           RedisFails, UpstreamAnswers, UpstreamFails, TakeChoice, Rewrite, Audit,
           FlushReturns, FlushFails, KeyLapses, Restart, Raise

\* For any set of pairs, any text and any bits: the watermark is found in an answer
\* exactly when at most half of the pairs in it are misleading
\* (watermark/engine.py 49-84).
THEOREM WatermarksFound == Safety => []MarkDetected
<1>1. Init => MarkInv
    BY DEF Init, MarkInv, OverSessions, NoneGiven
<1>2. MarkInv => MarkDetected
    <2> SUFFICES ASSUME MarkInv, NEW s \in Sessions, NEW mark \in given[s].marks
                 PROVE  mark.detected <=> mark.few
        BY DEF MarkDetected
    <2>1. PICK words \in [Pairs -> SUBSET {"a", "b"}], bits \in BitStreams :
            mark = Mark(words, bits)
        <3> DEFINE Texts == [Pairs -> SUBSET {"a", "b"}]
        <3> DEFINE Possible == {Mark(words, bits) : words \in Texts, bits \in BitStreams}
        <3>1. mark \in Marks
            BY DEF MarkInv
        <3>2. Marks = Possible
            BY DEF Marks
        <3> HIDE DEF Texts
        <3>3. \A x \in Possible : \E words \in Texts, bits \in BitStreams : x = Mark(words, bits)
            OBVIOUS
        <3> HIDE DEF Possible
        <3> QED BY <3>1, <3>2, <3>3 DEF Texts
    <2>2. /\ mark.few = (2 * Cardinality(Misleading(words, bits))
                            <= Cardinality(Occurring(words)))
          /\ mark.detected = Detect(Apply(words, bits), bits)
        <3> DEFINE few == 2 * Cardinality(Misleading(words, bits))
                              <= Cardinality(Occurring(words))
                   detected == Detect(Apply(words, bits), bits)
        <3>1. mark = [few |-> few, detected |-> detected]
            BY <2>1, Zenon DEF Mark
        <3> HIDE DEF few, detected
        <3>2. mark.few = few /\ mark.detected = detected
            BY <3>1
        <3> QED BY <3>2 DEF few, detected
    <2>3. Detect(Apply(words, bits), bits)
            <=> 2 * Cardinality(Misleading(words, bits)) <= Cardinality(Occurring(words))
        BY DetectedUnlessMisled
    <2> QED BY <2>2, <2>3, Zenon
<1> QED BY <1>1, <1>2, MarkStep, PTL DEF Safety

-----------------------------------------------------------------------------
(* What is masked and what is stored.                                      *)

\* The bodies are sequences of messages, with what recognizers find in each.
LEMMA BodiesTypes ==
    ASSUME NEW b \in DOMAIN Bodies
    PROVE  /\ b \in 1 .. Len(Bodies) /\ Len(Bodies) \in Nat
           /\ Len(Bodies[b]) \in Nat /\ DOMAIN Bodies[b] = 1 .. Len(Bodies[b])
           /\ \A i \in DOMAIN Bodies[b] :
                /\ Bodies[b][i].text \in Seq(Chars)
                /\ Bodies[b][i].found \in FoundIn(Bodies[b][i].text)
<1> DEFINE Message == [role : STRING, text : Seq(Chars), found : Seq(Span)]
<1>1. Bodies \in Seq(Seq(Message))
    BY BodiesAssumption
<1> HIDE DEF Message
<1>2. /\ b \in 1 .. Len(Bodies) /\ Len(Bodies) \in Nat /\ Bodies[b] \in Seq(Message)
    BY <1>1
<1>3. /\ Len(Bodies[b]) \in Nat /\ DOMAIN Bodies[b] = 1 .. Len(Bodies[b])
      /\ \A i \in DOMAIN Bodies[b] : Bodies[b][i] \in Message
    BY <1>2
<1>4. \A m \in Message : m.text \in Seq(Chars)
    BY DEF Message
<1> QED BY <1>2, <1>3, <1>4, BodiesAssumption

\* What is sent of a message is masked so that every mapping with its items restores it;
\* a message of another role is sent as it is.
LEMMA OutgoingProperties ==
    ASSUME NEW b \in DOMAIN Bodies, NEW i \in DOMAIN Bodies[b]
    PROVE  /\ Outgoing[b][i].mapping \in Seq(Item) /\ Numbered(Outgoing[b][i].mapping)
           /\ \A f : IsMapping(f) /\ Restores(f, Outgoing[b][i].mapping) =>
                Deanonymize(Outgoing[b][i].text, f) = Bodies[b][i].text
<1> DEFINE msg == Bodies[b][i]
           masked == Anonymize(msg.text, msg.found)
           plain == [text |-> msg.text, mapping |-> <<>>]
<1>1. Outgoing[b][i] = IF msg.role \in {"user", "system"} THEN masked ELSE plain
    BY DEF Outgoing
<1>2. msg.text \in Seq(Chars) /\ msg.found \in FoundIn(msg.text)
    BY BodiesTypes
<1>3. /\ masked.mapping \in Seq(Item) /\ Numbered(masked.mapping)
      /\ \A f : IsMapping(f) /\ Restores(f, masked.mapping) => Deanonymize(masked.text, f) = msg.text
    BY <1>2, AnonymizeProperties
<1>4. /\ plain.mapping = <<>> /\ plain.text = msg.text
      /\ <<>> \in Seq(Item) /\ Numbered(<<>>)
      /\ \A f : IsMapping(f) => Deanonymize(msg.text, f) = msg.text
    BY <1>2, DeanonymizeChars DEF Numbered
<1> HIDE DEF msg, masked, plain
<1>5. CASE msg.role \in {"user", "system"}
    BY <1>1, <1>3, <1>5 DEF msg
<1>6. CASE msg.role \notin {"user", "system"}
    BY <1>1, <1>4, <1>6 DEF msg
<1> QED BY <1>5, <1>6

\* The mappings of the messages, one after the other.
Mappings(b) == [i \in 1 .. Len(Bodies[b]) |-> Outgoing[b][i].mapping]

\* The items of a body are those of its messages, flattened.
LEMMA ItemsProperties ==
    ASSUME NEW b \in DOMAIN Bodies
    PROVE  /\ Mappings(b) \in Seq(Seq(Item)) /\ Len(Mappings(b)) = Len(Bodies[b])
           /\ Items(b) = FlattenSeq(Mappings(b))
           /\ Items(b) \in Seq(Item)
<1>1. Len(Bodies[b]) \in Nat /\ DOMAIN Bodies[b] = 1 .. Len(Bodies[b])
    BY BodiesTypes
<1>2. DOMAIN Outgoing[b] = 1 .. Len(Bodies[b])
    BY <1>1 DEF Outgoing
<1>3. Items(b) = FlattenSeq(Mappings(b))
    BY <1>2 DEF Items, Mappings
<1>4. \A i \in 1 .. Len(Bodies[b]) : Outgoing[b][i].mapping \in Seq(Item)
    BY <1>1, OutgoingProperties
<1>5. Mappings(b) \in [1 .. Len(Bodies[b]) -> Seq(Item)]
    BY <1>4 DEF Mappings
<1>6. Mappings(b) \in Seq(Seq(Item)) /\ Len(Mappings(b)) = Len(Bodies[b])
    BY <1>1, <1>5
<1>7. FlattenSeq(Mappings(b)) \in Seq(Item)
    BY <1>6, FlattenElements
<1> QED BY <1>3, <1>6, <1>7

\* f has the first k of these items, the later one of two with one placeholder.
Stored(f, items, k) ==
    /\ f \in [DOMAIN f -> Seq(Chars)]
    /\ DOMAIN f = {items[i][1] : i \in 1 .. k}
    /\ \A i \in 1 .. k :
        (\A j \in i + 1 .. k : items[j][1] # items[i][1]) => f[items[i][1]] = items[i][2]

\* Each item stored is one more of them, and replaces an earlier one of its placeholder.
LEMMA StoredNext ==
    ASSUME NEW items \in Seq(Item), NEW k \in Nat, k + 1 <= Len(items), NEW f, Stored(f, items, k)
    PROVE  Stored(Put(f, items[k + 1]), items, k + 1)
<1> DEFINE item == items[k + 1]
           g == Put(f, item)
<1>1. k + 1 \in 1 .. Len(items) /\ item \in Item
    OBVIOUS
<1>2. item[2] \in Seq(Chars)
    BY <1>1 DEF Item
<1>3. g = [ph \in DOMAIN f \cup {item[1]} |-> IF ph = item[1] THEN item[2] ELSE f[ph]]
    BY DEF Put
<1> HIDE DEF g, item
<1>4. \A i \in 1 .. k + 1 : i \in 1 .. k \/ i = k + 1
    OBVIOUS
<1>5. DOMAIN g = {items[i][1] : i \in 1 .. k + 1}
    <2>1. DOMAIN g = {items[i][1] : i \in 1 .. k} \cup {items[k + 1][1]}
        BY <1>3 DEF Stored, item
    <2>2. 1 .. k + 1 = (1 .. k) \cup {k + 1}
        OBVIOUS
    <2> QED BY <2>1, <2>2
<1>6. g \in [DOMAIN g -> Seq(Chars)]
    <2>1. \A ph \in DOMAIN f : f[ph] \in Seq(Chars)
        BY DEF Stored
    <2> QED BY <1>2, <1>3, <2>1
<1>7. ASSUME NEW i \in 1 .. k + 1, \A j \in i + 1 .. k + 1 : items[j][1] # items[i][1]
      PROVE  g[items[i][1]] = items[i][2]
    <2>1. CASE i = k + 1
        BY <1>3, <2>1 DEF item
    <2>2. CASE i \in 1 .. k
        <3>1. k + 1 \in i + 1 .. k + 1 /\ \A j \in i + 1 .. k : j \in i + 1 .. k + 1
            BY <2>2
        <3>2. items[i][1] # item[1] /\ f[items[i][1]] = items[i][2]
            BY <1>7, <2>2, <3>1 DEF Stored, item
        <3>3. items[i][1] \in DOMAIN f
            BY <2>2 DEF Stored
        <3> QED BY <1>3, <3>2, <3>3
    <2> QED BY <1>4, <2>1, <2>2
<1> QED BY <1>5, <1>6, <1>7 DEF Stored, g, item

\* What is stored is a mapping of finitely many placeholders.
LEMMA StoredProperties ==
    ASSUME NEW items \in Seq(Item), NEW k \in 0 .. Len(items), NEW f, Stored(f, items, k)
    PROVE  IsMapping(f) /\ IsFiniteSet(DOMAIN f) /\ Cardinality(DOMAIN f) \in Nat
<1>1. \A i \in 1 .. k : items[i] \in Item
    OBVIOUS
<1>2. \A i \in 1 .. k : items[i][1] \notin Chars
    BY <1>1 DEF Item, Placeholder, Chars
<1>3. IsMapping(f)
    BY <1>2 DEF Stored, IsMapping
<1>4. IsFiniteSet(DOMAIN f)
    <2> DEFINE h == [i \in 1 .. k |-> items[i][1]]
    <2>1. IsFiniteSet(1 .. k)
        BY FS_Interval
    <2>2. h \in [1 .. k -> DOMAIN f] /\ \A ph \in DOMAIN f : \E i \in 1 .. k : h[i] = ph
        BY DEF Stored
    <2>3. h \in Surjection(1 .. k, DOMAIN f)
        BY <2>2, Zenon DEF Surjection
    <2> QED BY <2>1, <2>3, FS_Surjection
<1> QED BY <1>3, <1>4, FS_CardinalityType

\* When everything is stored, a message none of whose placeholders a later one has
\* becomes itself again.
LEMMA OwnRestored ==
    ASSUME NEW b \in DOMAIN Bodies, NEW m \in DOMAIN Bodies[b], Unshared(b, m),
           NEW f, Stored(f, Items(b), Len(Items(b)))
    PROVE  Deanonymize(Outgoing[b][m].text, f) = Bodies[b][m].text
<1> DEFINE n == Len(Bodies[b])
           all == Mappings(b)
           before == SubSeq(all, 1, m - 1)
           mine == Outgoing[b][m].mapping
           after == SubSeq(all, m + 1, n)
           A == FlattenSeq(before)
           C == FlattenSeq(after)
<1>1. /\ n \in Nat /\ m \in 1 .. n /\ m - 1 \in 0 .. n
    BY BodiesTypes
<1>2. all \in Seq(Seq(Item)) /\ Len(all) = n /\ Items(b) = FlattenSeq(all)
    BY ItemsProperties
<1>3. /\ mine \in Seq(Item) /\ Numbered(mine)
    BY OutgoingProperties
<1>4. all[m] = mine
    BY <1>1 DEF Mappings
<1>5. \A i \in m + 1 .. n : all[i] = Outgoing[b][i].mapping
    BY <1>1 DEF Mappings
<1> DEFINE S == Seq(Item)
<1> HIDE DEF all, mine, S
<1>6. before \in Seq(S)
    <2>1. 1 \in Nat \ {0} /\ m - 1 \in 0 .. Len(all) /\ all \in Seq(S)
        BY <1>1, <1>2 DEF S
    <2> QED BY <2>1, PartType
<1>7. /\ after \in Seq(S) /\ Len(after) = n - m
      /\ \A i \in 1 .. n - m : after[i] = all[m + i]
    <2>1. m + 1 \in Nat \ {0} /\ n \in 0 .. Len(all) /\ all \in Seq(S)
        BY <1>1, <1>2 DEF S
    <2>2. /\ after \in Seq(S) /\ Len(after) = (IF m + 1 <= n THEN n - (m + 1) + 1 ELSE 0)
          /\ \A i \in 1 .. n - (m + 1) + 1 : after[i] = all[(m + 1) + i - 1]
        BY <2>1, PartType
    <2> HIDE DEF after, n
    <2> QED BY <1>1, <2>2
<1>8. all = before \o (<<mine>> \o after)
    <2>1. all \in Seq(S)
        BY <1>2 DEF S
    <2>2. SubSeq(all, m, n) = <<all[m]>> \o SubSeq(all, m + 1, n)
        <3>1. m \in 1 .. Len(all) /\ n \in m .. Len(all)
            BY <1>1, <1>2
        <3> HIDE DEF n, before, after, A, C
        <3> QED BY ONLY <2>1, <3>1, SubSeqRecursiveFirst
    <2>3. before \o SubSeq(all, m, n) = SubSeq(all, 1, n)
        <3>1. /\ 1 \in 1 .. Len(all) + 1 /\ m - 1 \in 1 - 1 .. Len(all) /\ n \in m - 1 .. Len(all)
              /\ (m - 1) + 1 = m
            BY <1>1, <1>2
        <3> HIDE DEF n
        <3>2. SubSeq(all, 1, m - 1) \o SubSeq(all, (m - 1) + 1, n) = SubSeq(all, 1, n)
            BY <2>1, <3>1, ConcatAdjacentSubSeq
        <3> QED BY <3>1, <3>2
    <2>4. SubSeq(all, 1, n) = all
        BY <1>2, <2>1, SubSeqFull
    <2> QED BY <1>4, <2>2, <2>3, <2>4
<1> HIDE DEF before, after
<1>9. /\ A \in Seq(Item) /\ C \in Seq(Item)
      /\ ToSet(C) = UNION {ToSet(after[i]) : i \in DOMAIN after}
    BY <1>6, <1>7, FlattenElements DEF S
<1>10. Items(b) = A \o (mine \o C)
    <2> DEFINE x == <<mine>>
    <2>1. x \in Seq(Seq(Item)) /\ before \in Seq(Seq(Item)) /\ after \in Seq(Seq(Item))
        BY <1>3, <1>6, <1>7 DEF S
    <2>2. FlattenSeq(x) = mine
        <3>1. x = Append(<<>>, mine) /\ <<>> \in Seq(Seq(Item))
            OBVIOUS
        <3>2. FlattenSeq(Append(<<>>, mine)) = <<>> \o mine
            BY <1>3, <3>1, FlattenAppend, FlattenEmpty
        <3>3. <<>> \o mine = mine
            BY <1>3, ConcatEmptySeq
        <3> QED BY <3>1, <3>2, <3>3
    <2> HIDE DEF x
    <2>3. FlattenSeq(x \o after) = FlattenSeq(x) \o FlattenSeq(after)
        BY ONLY <2>1, FlattenConcat
    <2>4. x \o after \in Seq(Seq(Item))
        BY ONLY <2>1, ConcatProperties
    <2>5. FlattenSeq(before \o (x \o after)) = FlattenSeq(before) \o FlattenSeq(x \o after)
        BY ONLY <2>1, <2>4, FlattenConcat
    <2> QED BY <1>2, <1>8, <2>2, <2>3, <2>5 DEF x
<1> HIDE DEF A, C, n
<1>11. /\ Len(A) \in Nat /\ Len(mine) \in Nat /\ Len(C) \in Nat
       /\ Len(Items(b)) = Len(A) + (Len(mine) + Len(C))
       /\ \A i \in 1 .. Len(mine) : Items(b)[Len(A) + i] = mine[i]
       /\ \A i \in 1 .. Len(C) : Items(b)[Len(A) + (Len(mine) + i)] = C[i]
    <2> DEFINE r == mine \o C
    <2>1. /\ r \in Seq(Item) /\ Len(r) = Len(mine) + Len(C)
          /\ \A i \in 1 .. Len(mine) + Len(C) :
                r[i] = IF i <= Len(mine) THEN mine[i] ELSE C[i - Len(mine)]
        BY <1>3, <1>9, ConcatProperties
    <2>2. Len(A) \in Nat /\ Len(mine) \in Nat /\ Len(C) \in Nat
        BY <1>3, <1>9
    <2> HIDE DEF r
    <2>3. /\ Len(A \o r) = Len(A) + Len(r)
          /\ \A i \in 1 .. Len(A) + Len(r) :
                (A \o r)[i] = IF i <= Len(A) THEN A[i] ELSE r[i - Len(A)]
        <3>1. A \in Seq(Item) /\ r \in Seq(Item)
            BY <1>9, <2>1
        <3> QED BY ONLY <3>1, ConcatProperties
    <2>4. Items(b) = A \o r
        BY <1>10 DEF r
    <2>5. ASSUME NEW i \in 1 .. Len(r)
          PROVE  Items(b)[Len(A) + i] = r[i]
        <3>1. Len(A) + i \in 1 .. Len(A) + Len(r) /\ ~(Len(A) + i <= Len(A)) /\ (Len(A) + i) - Len(A) = i
            BY <2>1, <2>2
        <3> QED BY <2>3, <2>4, <3>1
    <2>6. ASSUME NEW i \in 1 .. Len(mine)
          PROVE  Items(b)[Len(A) + i] = mine[i]
        <3>1. i \in 1 .. Len(r) /\ i <= Len(mine) /\ i \in 1 .. Len(mine) + Len(C)
            BY <2>1, <2>2
        <3> QED BY <2>1, <2>5, <3>1
    <2>7. ASSUME NEW i \in 1 .. Len(C)
          PROVE  Items(b)[Len(A) + (Len(mine) + i)] = C[i]
        <3> DEFINE j == Len(mine) + i
        <3>1. j \in 1 .. Len(r) /\ j \in 1 .. Len(mine) + Len(C) /\ ~(j <= Len(mine)) /\ j - Len(mine) = i
            BY <2>1, <2>2
        <3> HIDE DEF j
        <3>2. Items(b)[Len(A) + j] = r[j] /\ r[j] = C[i]
            BY <2>1, <2>5, <3>1
        <3> QED BY <3>2 DEF j
    <2> QED BY <2>1, <2>2, <2>3, <2>4, <2>6, <2>7
<1>12. ASSUME NEW i \in 1 .. Len(mine), NEW j \in 1 .. Len(C)
       PROVE  C[j][1] # mine[i][1]
    <2>1. C[j] \in ToSet(C)
        BY <1>9 DEF ToSet
    <2>2. PICK l \in DOMAIN after : C[j] \in ToSet(after[l])
        BY <1>9, <2>1
    <2>3. l \in 1 .. n - m
        BY <1>7, <1>1
    <2>4. m + l \in m + 1 .. n /\ after[l] = all[m + l]
        BY <1>1, <1>7, <2>3
    <2>5. C[j] \in ToSet(Outgoing[b][m + l].mapping)
        BY <1>5, <2>2, <2>4
    <2>6. mine[i] \in ToSet(mine)
        BY <1>3 DEF ToSet
    <2> QED BY <2>4, <2>5, <2>6 DEF Unshared, mine, n
<1>13. ASSUME NEW i \in 1 .. Len(mine)
       PROVE  mine[i][1] \in DOMAIN f /\ f[mine[i][1]] = mine[i][2]
    <2> DEFINE items == Items(b)
               k == Len(items)
               p == Len(A) + i
    <2>1. p \in 1 .. k /\ items[p] = mine[i]
        BY <1>11
    <2>2. ASSUME NEW j \in p + 1 .. k
          PROVE  items[j][1] # items[p][1]
        <3>1. CASE j <= Len(A) + Len(mine)
            <4> DEFINE q == j - Len(A)
            <4>1. q \in 1 .. Len(mine) /\ q # i /\ j = Len(A) + q
                BY <1>11, <3>1
            <4>2. q \in DOMAIN mine /\ i \in DOMAIN mine
                BY <1>3, <4>1
            <4> HIDE DEF q
            <4>3. mine[q][1] # mine[i][1]
                BY <1>3, <4>1, <4>2 DEF Numbered
            <4>4. items[j] = mine[q]
                BY <1>11, <4>1
            <4> HIDE DEF items, k, p
            <4> QED BY <2>1, <4>3, <4>4
        <3>2. CASE ~(j <= Len(A) + Len(mine))
            <4> DEFINE q == j - (Len(A) + Len(mine))
            <4>1. q \in 1 .. Len(C) /\ j = Len(A) + (Len(mine) + q)
                BY <1>11, <3>2
            <4> HIDE DEF q
            <4>2. items[j] = C[q]
                BY <1>11, <4>1
            <4>3. C[q][1] # mine[i][1]
                BY <1>12, <4>1
            <4> HIDE DEF items, k, p
            <4> QED BY <2>1, <4>2, <4>3
        <3> QED BY <3>1, <3>2
    <2> HIDE DEF items, p
    <2>3. Stored(f, items, k)
        BY DEF items
    <2> HIDE DEF k
    <2>4. items[p][1] \in DOMAIN f /\ f[items[p][1]] = items[p][2]
        BY <2>1, <2>2, <2>3 DEF Stored
    <2> QED BY <2>1, <2>4
<1>14. Restores(f, mine)
    BY <1>3, <1>13 DEF Restores
<1>15. IsMapping(f)
    <2>1. Items(b) \in Seq(Item) /\ Len(Items(b)) \in 0 .. Len(Items(b))
        BY ItemsProperties
    <2> QED BY <2>1, StoredProperties
<1> QED BY <1>14, <1>15, OutgoingProperties DEF mine

-----------------------------------------------------------------------------
(* Requests.                                                               *)

\* The awaits after everything is stored.
Working == {"post", "choice", "judge", "flush"}

\* The items of a body, those that are stored and then those still to be.
StoredInv ==
    /\ OverSessions(body) /\ OverSessions(todo)
    /\ \A s \in Sessions :
        /\ body[s] \in 0 .. Len(Bodies)
        /\ pc[s] = "idle" <=> body[s] = 0
        /\ body[s] # 0 => \E k \in 0 .. Len(Items(body[s])) :
            /\ Stored(full[s], Items(body[s]), k)
            /\ todo[s] = SubSeq(Items(body[s]), k + 1, Len(Items(body[s])))
        /\ pc[s] \in {"get", "set"} => todo[s] # <<>>
        /\ pc[s] \in Working => todo[s] = <<>>

\* Nothing has come in yet.
LEMMA StoredInit == Init => StoredInv
<1> SUFFICES ASSUME Init
             PROVE  StoredInv
    OBVIOUS
<1>1. /\ pc = [s \in Sessions |-> "idle"] /\ body = [s \in Sessions |-> 0]
      /\ todo = [s \in Sessions |-> <<>>]
    BY DEF Init
<1>2. Len(Bodies) \in Nat
    <2> DEFINE Message == [role : STRING, text : Seq(Chars), found : Seq(Span)]
    <2>1. Bodies \in Seq(Seq(Message))
        BY BodiesAssumption
    <2> HIDE DEF Message
    <2> QED BY <2>1
<1> QED BY <1>1, <1>2 DEF StoredInv, OverSessions, Working

\* A handler that is under way moves on and stores nothing.
Moves(s) == \E x \in Awaits :
    /\ pc' = [pc EXCEPT ![s] = x]
    /\ pc[s] # "idle" /\ x # "idle"
    /\ x \in {"get", "set"} => pc[s] \in {"get", "set"}
    /\ x \in Working => pc[s] \in Working
    /\ UNCHANGED <<body, todo, full>>

\* Only Begin and SetReturns change what is stored or still to be.
LEMMA MostMove ==
    ASSUME pc \in [Sessions -> Awaits], NEW s \in Sessions,
           Handler(s), ~SetReturns(s)
    PROVE  Moves(s)
<1>1. CASE GetReturns(s)
    BY <1>1 DEF GetReturns, Moves, Awaits, Working
<1>2. CASE RedisFails(s)
    BY <1>2 DEF RedisFails, Raise, Moves, Awaits, Working
<1>3. CASE UpstreamAnswers(s)
    BY <1>3 DEF UpstreamAnswers, Moves, Awaits, Working
<1>4. CASE UpstreamFails(s)
    BY <1>4 DEF UpstreamFails, Raise, Moves, Awaits, Working
<1>5. CASE TakeChoice(s)
    BY <1>5 DEF TakeChoice, Moves, Awaits, Working
<1>6. CASE Rewrite(s)
    <2>1. pc[s] = "judge" /\ pc' = pc /\ UNCHANGED <<body, todo, full>>
        BY <1>6 DEF Rewrite
    <2>2. pc' = [pc EXCEPT ![s] = "judge"]
        BY <2>1
    <2> QED BY <2>1, <2>2 DEF Moves, Awaits, Working
<1>7. CASE FinishChoice(s)
    BY <1>7 DEF FinishChoice, Moves, Awaits, Working
<1>8. CASE Audit(s)
    BY <1>8 DEF Audit, Moves, Awaits, Working
<1>9. CASE FlushReturns(s)
    BY <1>9 DEF FlushReturns, Moves, Awaits, Working
<1>10. CASE FlushFails(s)
    BY <1>10 DEF FlushFails, Raise, Moves, Awaits, Working
<1> QED BY <1>1, <1>2, <1>3, <1>4, <1>5, <1>6, <1>7, <1>8, <1>9, <1>10 DEF Handler

\* Begin takes all items of a body up, SetReturns stores the first of what is left.
LEMMA StoredStep == RedisInv /\ StoredInv /\ [Next]_vars => StoredInv'
<1> SUFFICES ASSUME RedisInv, StoredInv, [Next]_vars
             PROVE  StoredInv'
    OBVIOUS
<1>1. /\ pc \in [Sessions -> Awaits]
      /\ OverSessions(full) /\ OverSessions(body) /\ OverSessions(todo)
      /\ \A s \in Sessions : pc[s] = "idle" => full[s] = NoMapping
    BY DEF RedisInv, StoredInv
<1> DEFINE Good(s) ==
        /\ body[s] \in 0 .. Len(Bodies)
        /\ pc[s] = "idle" <=> body[s] = 0
        /\ body[s] # 0 => \E k \in 0 .. Len(Items(body[s])) :
            /\ Stored(full[s], Items(body[s]), k)
            /\ todo[s] = SubSeq(Items(body[s]), k + 1, Len(Items(body[s])))
        /\ pc[s] \in {"get", "set"} => todo[s] # <<>>
        /\ pc[s] \in Working => todo[s] = <<>>
<1>2. \A s \in Sessions : Good(s)
    BY DEF StoredInv
<1>3. ASSUME NEW s \in Sessions, NEW b \in Accepts[s], Begin(s, b)
      PROVE  StoredInv'
    <2> DEFINE items == Items(b)
    <2>1. /\ pc[s] = "idle" /\ UNCHANGED full
          /\ body' = [body EXCEPT ![s] = b] /\ todo' = [todo EXCEPT ![s] = items]
          /\ pc' = [pc EXCEPT ![s] = IF items = <<>> THEN "post" ELSE "get"]
        BY <1>3 DEF Begin
    <2>2. b \in DOMAIN Bodies /\ b \in 1 .. Len(Bodies)
        BY GatewayAssumption, BodiesTypes
    <2>3. items \in Seq(Item)
        BY <2>2, ItemsProperties
    <2> HIDE DEF items
    <2>4. /\ pc'[s] = (IF items = <<>> THEN "post" ELSE "get")
          /\ body'[s] = b /\ todo'[s] = items /\ full'[s] = NoMapping
          /\ \A o \in Sessions \ {s} :
                pc'[o] = pc[o] /\ body'[o] = body[o] /\ todo'[o] = todo[o] /\ full'[o] = full[o]
          /\ OverSessions(body') /\ OverSessions(todo')
        BY <1>1, <2>1 DEF OverSessions
    <2>5. Stored(NoMapping, items, 0)
        BY DEF Stored, NoMapping
    <2>6. 0 \in 0 .. Len(items) /\ items = SubSeq(items, 0 + 1, Len(items))
        <3>1. SubSeq(items, 1, Len(items)) = items
            BY <2>3, SubSeqFull
        <3> QED BY <2>3, <3>1
    <2>7. Good(s)'
        BY <2>2, <2>4, <2>5, <2>6 DEF items, Working
    <2>8. \A o \in Sessions \ {s} : Good(o)'
        BY <1>2, <2>4
    <2> HIDE DEF Good
    <2>9. \A o \in Sessions : Good(o)'
        BY <2>7, <2>8
    <2> QED BY <2>4, <2>9 DEF StoredInv, Good
<1>4. ASSUME NEW s \in Sessions, SetReturns(s)
      PROVE  StoredInv'
    <2> DEFINE items == Items(body[s])
               n == Len(items)
    <2>1. /\ pc[s] = "set" /\ UNCHANGED body
          /\ full' = [full EXCEPT ![s] = Put(full[s], Head(todo[s]))]
          /\ todo' = [todo EXCEPT ![s] = Tail(todo[s])]
          /\ pc' = [pc EXCEPT ![s] = IF Tail(todo[s]) # <<>> THEN "get" ELSE "post"]
        BY <1>4 DEF SetReturns
    <2>2. body[s] # 0 /\ todo[s] # <<>> /\ body[s] \in 0 .. Len(Bodies)
        BY <1>2, <2>1
    <2>3. items \in Seq(Item)
        <3>1. body[s] \in DOMAIN Bodies
            <4> DEFINE Message == [role : STRING, text : Seq(Chars), found : Seq(Span)]
            <4>1. Bodies \in Seq(Seq(Message))
                BY BodiesAssumption
            <4> HIDE DEF Message
            <4> QED BY <2>2, <4>1
        <3> QED BY <3>1, ItemsProperties
    <2>4. PICK k \in 0 .. n : Stored(full[s], items, k) /\ todo[s] = SubSeq(items, k + 1, n)
        BY <1>2, <2>2
    <2> HIDE DEF items
    <2>5. n \in Nat /\ k \in Nat /\ k + 1 \in 1 .. n
        <3>1. k # n
            <4> SUFFICES ASSUME k = n PROVE FALSE
                OBVIOUS
            <4>1. SubSeq(items, k + 1, n) = <<>>
                BY <2>3, SubSeqEmpty
            <4> QED BY <2>2, <2>4, <4>1
        <3> QED BY <2>3, <3>1
    <2>6. Head(todo[s]) = items[k + 1] /\ Tail(todo[s]) = SubSeq(items, (k + 1) + 1, n)
        <3>1. k + 1 \in 1 .. Len(items) /\ n \in k + 1 .. Len(items)
            BY <2>5
        <3>2. /\ Head(SubSeq(items, k + 1, n)) = items[k + 1]
              /\ Tail(SubSeq(items, k + 1, n)) = SubSeq(items, (k + 1) + 1, n)
            BY <2>3, <3>1, HeadTailOfSubSeq
        <3> QED BY <2>4, <3>2
    <2>7. Stored(Put(full[s], items[k + 1]), items, k + 1)
        BY <2>3, <2>4, <2>5, StoredNext
    <2>8. /\ pc'[s] = (IF todo'[s] # <<>> THEN "get" ELSE "post")
          /\ body'[s] = body[s] /\ Stored(full'[s], items, k + 1)
          /\ todo'[s] = SubSeq(items, (k + 1) + 1, n)
          /\ \A o \in Sessions \ {s} :
                pc'[o] = pc[o] /\ body'[o] = body[o] /\ todo'[o] = todo[o] /\ full'[o] = full[o]
          /\ OverSessions(body') /\ OverSessions(todo')
        BY <1>1, <2>1, <2>6, <2>7 DEF OverSessions
    <2>9. k + 1 \in 0 .. n
        BY <2>5
    <2>10. Good(s)'
        BY <1>2, <2>2, <2>8, <2>9 DEF items, Working
    <2>11. \A o \in Sessions \ {s} : Good(o)'
        BY <1>2, <2>8
    <2> HIDE DEF Good
    <2>12. \A o \in Sessions : Good(o)'
        BY <2>10, <2>11
    <2> QED BY <2>8, <2>12 DEF StoredInv, Good
<1>5. ASSUME NEW s \in Sessions, Moves(s)
      PROVE  StoredInv'
    <2>1. PICK x \in Awaits :
            /\ pc' = [pc EXCEPT ![s] = x]
            /\ pc[s] # "idle" /\ x # "idle"
            /\ x \in {"get", "set"} => pc[s] \in {"get", "set"}
            /\ x \in Working => pc[s] \in Working
            /\ UNCHANGED <<body, todo, full>>
        BY <1>5 DEF Moves
    <2>2. /\ pc'[s] = x /\ \A o \in Sessions \ {s} : pc'[o] = pc[o]
          /\ OverSessions(body') /\ OverSessions(todo')
        BY <1>1, <2>1
    <2>3. Good(s)'
        BY <1>2, <2>1, <2>2
    <2>4. \A o \in Sessions \ {s} : Good(o)'
        BY <1>2, <2>1, <2>2
    <2> HIDE DEF Good
    <2>5. \A o \in Sessions : Good(o)'
        BY <2>3, <2>4
    <2> QED BY <2>2, <2>5 DEF StoredInv, Good
<1>6. CASE Restart
    <2>1. /\ UNCHANGED <<body, todo, full>>
          /\ \A s \in Sessions : pc'[s] = IF pc[s] \in {"idle", "done"} THEN pc[s] ELSE "lost"
        BY <1>6 DEF Restart
    <2>2. \A s \in Sessions : Good(s)'
        BY <1>2, <2>1 DEF Working
    <2>3. OverSessions(body') /\ OverSessions(todo')
        BY <1>1, <2>1
    <2> HIDE DEF Good
    <2> QED BY <2>2, <2>3 DEF StoredInv, Good
<1>7. CASE UNCHANGED <<pc, body, todo, full>>
    <2>1. \A s \in Sessions : Good(s)'
        BY <1>2, <1>7
    <2>2. OverSessions(body') /\ OverSessions(todo')
        BY <1>1, <1>7
    <2> HIDE DEF Good
    <2> QED BY <2>1, <2>2 DEF StoredInv, Good
<1>8. \A s \in Sessions : KeyLapses(s) => UNCHANGED <<pc, body, todo, full>>
    BY DEF KeyLapses, requestVars
<1>9. UNCHANGED vars => UNCHANGED <<pc, body, todo, full>>
    BY DEF vars, requestVars
<1> QED
    BY <1>1, <1>3, <1>4, <1>5, <1>6, <1>7, <1>8, <1>9, MostMove DEF Next

\* A body that came in is one of them.
LEMMA BodyKnown ==
    ASSUME StoredInv, NEW s \in Sessions, body[s] # 0
    PROVE  body[s] \in DOMAIN Bodies
<1> DEFINE Message == [role : STRING, text : Seq(Chars), found : Seq(Span)]
<1>1. Bodies \in Seq(Seq(Message))
    BY BodiesAssumption
<1> HIDE DEF Message
<1> QED BY <1>1 DEF StoredInv

\* Of a session with nothing left to store everything is stored.
LEMMA AllStored ==
    ASSUME StoredInv, NEW s \in Sessions, body[s] # 0, todo[s] = <<>>
    PROVE  Stored(full[s], Items(body[s]), Len(Items(body[s])))
<1> DEFINE items == Items(body[s])
           n == Len(items)
<1>1. items \in Seq(Item)
    BY BodyKnown, ItemsProperties
<1>2. PICK k \in 0 .. n : Stored(full[s], items, k) /\ todo[s] = SubSeq(items, k + 1, n)
    BY DEF StoredInv
<1> HIDE DEF items
<1>3. k = n
    <2> SUFFICES ASSUME k < n PROVE FALSE
        BY <1>1
    <2>1. SubSeq(items, k + 1, n) = <<>>
        BY <1>2
    <2>2. Len(SubSeq(items, k + 1, n)) = n - (k + 1) + 1
        <3>1. k + 1 \in Nat \ {0} /\ n \in 0 .. Len(items) /\ k + 1 <= n
            BY <1>1
        <3>2. Len(SubSeq(items, k + 1, n)) = (IF k + 1 <= n THEN n - (k + 1) + 1 ELSE 0)
            BY <1>1, <3>1, PartType
        <3> QED BY <3>1, <3>2
    <2>3. Len(SubSeq(items, k + 1, n)) = 0
        <3> DEFINE u == SubSeq(items, k + 1, n)
        <3>1. u = <<>>
            BY <2>1
        <3> HIDE DEF u
        <3>2. Len(u) = 0
            BY <3>1
        <3> QED BY <3>2 DEF u
    <2>4. n \in Nat /\ k \in Nat
        BY <1>1
    <2> HIDE DEF n
    <2>5. n - (k + 1) + 1 = 0
        BY <2>2, <2>3
    <2> QED BY <2>4, <2>5
<1> QED BY <1>2, <1>3 DEF items

\* What is masked in a message is chosen by strength, for all that recognizers may
\* find in it and in any order (gateway/anonymizer/engine.py 198-212).
THEOREM SpansAreWellKept == Safety => []KeptSpans
<1>1. ASSUME NEW b \in DOMAIN Bodies
      PROVE  WellKept[b]
    <2> DEFINE Fine(found) ==
            LET kept == RemoveOverlaps(found)
            IN  /\ \A j \in 1 .. Len(kept) - 1 : kept[j].end <= kept[j + 1].start
                /\ \A a \in ToSet(found) \ ToSet(kept) : \E k \in ToSet(kept) :
                    Overlap(a, k) /\ ~Stronger(a, k)
    <2>1. ASSUME NEW i \in DOMAIN Bodies[b]
          PROVE  Fine(Bodies[b][i].found)
        <3> DEFINE found == Bodies[b][i].found
                   kept == RemoveOverlaps(found)
        <3>1. found \in FoundIn(Bodies[b][i].text)
            BY BodiesTypes
        <3>2. /\ kept \in Seq(ToSet(found))
              /\ \A k, l \in 1 .. Len(kept) : k < l => kept[k].end <= kept[l].start
              /\ \A a \in ToSet(found) \ ToSet(kept) :
                    \E k \in ToSet(kept) : Overlap(a, k) /\ ~Stronger(a, k)
            BY <3>1, RemoveOverlapsProperties
        <3> HIDE DEF found, kept
        <3>3. \A j \in 1 .. Len(kept) - 1 :
                j \in 1 .. Len(kept) /\ j + 1 \in 1 .. Len(kept) /\ j < j + 1
            BY <3>2
        <3> QED BY <3>2, <3>3 DEF found, kept
    <2>2. WellKept[b] = \A i \in DOMAIN Bodies[b] : Fine(Bodies[b][i].found)
        BY Zenon DEF WellKept
    <2> HIDE DEF Fine
    <2> QED BY <2>1, <2>2, Zenon
<1>2. StoredInv => KeptSpans
    <2> SUFFICES ASSUME StoredInv, NEW s \in Sessions, body[s] # 0
                 PROVE  WellKept[body[s]]
        BY DEF KeptSpans
    <2> QED BY <1>1, BodyKnown
<1> QED BY <1>2, RedisInit, RedisStep, StoredInit, StoredStep, PTL DEF Safety

-----------------------------------------------------------------------------
(* Replies.                                                                *)

\* The awaits before a reply is there.
Before == {"idle", "get", "set", "post"}

\* The choices of a reply are worked on one by one; before it there are none.
ReplyInv ==
    /\ OverSessions(left) /\ OverSessions(choice) /\ OverSessions(rewrites)
    /\ OverSessions(violations) /\ OverSessions(given)
    /\ \A s \in Sessions :
        /\ left[s] \in Int /\ rewrites[s] \in 0 .. MaxRewrites
        /\ choice[s] = [echo |-> choice[s].echo, text |-> choice[s].text,
                        bad |-> choice[s].bad]
        /\ choice[s].bad \subseteq Rules
        /\ violations[s] \subseteq Rules
        /\ given[s].size \in Nat
        /\ pc[s] \in Before => left[s] = NoReply /\ given[s].size = 0
        /\ pc[s] = "judge" => left[s] > 0
        /\ MaxRewrites > 0 => given[s].bad = violations[s]

\* There is no reply at first.
LEMMA ReplyInit == Init => ReplyInv
BY GatewayAssumption DEF Init, ReplyInv, OverSessions, NoChoice, NoneGiven, NoReply, Before

\* Handlers that have no reply in hand.
Replyless(s) ==
    /\ UNCHANGED replyVars
    /\ \A o \in Sessions :
        /\ pc'[o] \in Before => pc[o] \in Before
        /\ pc'[o] = "judge" => pc[o] = "judge"

\* Only the steps between the reply and the audit touch it.
LEMMA MostReplyless ==
    ASSUME pc \in [Sessions -> Awaits], NEW s \in Sessions,
           \/ \E b \in Accepts[s] : Begin(s, b)
           \/ GetReturns(s) \/ SetReturns(s) \/ RedisFails(s) \/ UpstreamFails(s)
           \/ Audit(s) \/ FlushReturns(s) \/ FlushFails(s) \/ KeyLapses(s) \/ Restart
    PROVE  Replyless(s)
<1> USE DEF Replyless, Before, Awaits
<1>1. ASSUME NEW b \in Accepts[s], Begin(s, b)
      PROVE  Replyless(s)
    BY <1>1 DEF Begin
<1>2. CASE GetReturns(s)
    BY <1>2 DEF GetReturns
<1>3. CASE SetReturns(s)
    BY <1>3 DEF SetReturns
<1>4. CASE RedisFails(s) \/ UpstreamFails(s) \/ FlushFails(s)
    BY <1>4 DEF RedisFails, UpstreamFails, FlushFails, Raise
<1>5. CASE Audit(s)
    BY <1>5 DEF Audit
<1>6. CASE FlushReturns(s)
    BY <1>6 DEF FlushReturns
<1>7. CASE KeyLapses(s)
    BY <1>7 DEF KeyLapses, requestVars
<1>8. CASE Restart
    BY <1>8 DEF Restart
<1> QED BY <1>1, <1>2, <1>3, <1>4, <1>5, <1>6, <1>7, <1>8

\* A choice is finished once: what is left becomes less as what is given becomes more,
\* and a choice that was never rewritten has nothing to record.
LEMMA ReplyStep == RedisInv /\ ReplyInv /\ [Next]_vars => ReplyInv'
<1> SUFFICES ASSUME RedisInv, ReplyInv, [Next]_vars
             PROVE  ReplyInv'
    OBVIOUS
<1> DEFINE Good(s) ==
        /\ left[s] \in Int /\ rewrites[s] \in 0 .. MaxRewrites
        /\ choice[s] = [echo |-> choice[s].echo, text |-> choice[s].text,
                        bad |-> choice[s].bad]
        /\ choice[s].bad \subseteq Rules
        /\ violations[s] \subseteq Rules
        /\ given[s].size \in Nat
        /\ pc[s] \in Before => left[s] = NoReply /\ given[s].size = 0
        /\ pc[s] = "judge" => left[s] > 0
        /\ MaxRewrites > 0 => given[s].bad = violations[s]
           Functions ==
        /\ OverSessions(left) /\ OverSessions(choice) /\ OverSessions(rewrites)
        /\ OverSessions(violations) /\ OverSessions(given)
           Same(s) == /\ pc'[s] = pc[s] /\ left'[s] = left[s] /\ choice'[s] = choice[s]
                      /\ rewrites'[s] = rewrites[s] /\ violations'[s] = violations[s]
                      /\ given'[s] = given[s]
<1>1. pc \in [Sessions -> Awaits] /\ MaxRewrites \in Nat
    BY GatewayAssumption DEF RedisInv
<1>2. Functions /\ \A s \in Sessions : Good(s)
    BY DEF ReplyInv
<1>3. (Functions' /\ \A s \in Sessions : Good(s)') => ReplyInv'
    BY DEF ReplyInv
<1>4. ASSUME NEW s \in Sessions, Replyless(s)
      PROVE  ReplyInv'
    <2>1. /\ UNCHANGED <<left, choice, rewrites, violations, given>>
          /\ \A o \in Sessions : /\ pc'[o] \in Before => pc[o] \in Before
                                 /\ pc'[o] = "judge" => pc[o] = "judge"
        BY <1>4 DEF Replyless, replyVars
    <2>2. Functions'
        BY <1>2, <2>1
    <2>3. \A o \in Sessions : Good(o)'
        BY <1>2, <2>1
    <2> HIDE DEF Good, Functions
    <2> QED BY <1>3, <2>2, <2>3
<1>5. ASSUME NEW s \in Sessions, UpstreamAnswers(s)
      PROVE  ReplyInv'
    <2>1. PICK n \in ReplySizes[s] : left' = [left EXCEPT ![s] = n]
        BY <1>5 DEF UpstreamAnswers
    <2>2. /\ pc' = [pc EXCEPT ![s] = "choice"] /\ pc[s] = "post"
          /\ UNCHANGED <<choice, rewrites, violations, given>>
        BY <1>5 DEF UpstreamAnswers
    <2>3. n \in Nat
        BY GatewayAssumption
    <2>4. Functions' /\ \A o \in Sessions \ {s} : Same(o)
        BY <1>1, <1>2, <2>1, <2>2 DEF OverSessions
    <2>5. Good(s)'
        BY <1>1, <1>2, <2>1, <2>2, <2>3 DEF OverSessions, Before
    <2>6. \A o \in Sessions \ {s} : Good(o)'
        BY <1>2, <2>4
    <2> HIDE DEF Good, Functions
    <2> QED BY <1>3, <2>4, <2>5, <2>6
<1>6. ASSUME NEW s \in Sessions, TakeChoice(s)
      PROVE  ReplyInv'
    <2>1. PICK bad \in SUBSET Rules, m \in 0 .. Len(Bodies[body[s]]) :
            choice' = [choice EXCEPT ![s] =
                [echo |-> m,
                 text |-> IF m = 0 THEN <<>>
                          ELSE Deanonymize(Outgoing[body[s]][m].text, full[s]),
                 bad |-> bad]]
        BY <1>6 DEF TakeChoice
    <2>2. /\ pc' = [pc EXCEPT ![s] = "judge"] /\ left[s] > 0
          /\ rewrites' = [rewrites EXCEPT ![s] = 0]
          /\ UNCHANGED <<left, violations, given>>
        BY <1>6 DEF TakeChoice
    <2>3. Functions' /\ \A o \in Sessions \ {s} : Same(o)
        BY <1>1, <1>2, <2>1, <2>2 DEF OverSessions
    <2>4. Good(s)'
        BY <1>1, <1>2, <2>1, <2>2 DEF OverSessions, Before
    <2>5. \A o \in Sessions \ {s} : Good(o)'
        BY <1>2, <2>3
    <2> HIDE DEF Good, Functions
    <2> QED BY <1>3, <2>3, <2>4, <2>5
<1>7. ASSUME NEW s \in Sessions, Rewrite(s)
      PROVE  ReplyInv'
    <2>1. PICK bad \in Residues(choice[s].bad) : choice' = [choice EXCEPT ![s].bad = bad]
        BY <1>7 DEF Rewrite
    <2>2. /\ rewrites[s] < MaxRewrites
          /\ rewrites' = [rewrites EXCEPT ![s] = @ + 1]
          /\ UNCHANGED <<pc, left, violations, given>>
        BY <1>7 DEF Rewrite
    <2>3. bad \subseteq Rules
        BY DEF Residues, Rules
    <2>4. Functions' /\ \A o \in Sessions \ {s} : Same(o)
        BY <1>1, <1>2, <2>1, <2>2 DEF OverSessions
    <2>5. Good(s)'
        BY <1>1, <1>2, <2>1, <2>2, <2>3 DEF OverSessions
    <2>6. \A o \in Sessions \ {s} : Good(o)'
        BY <1>2, <2>4
    <2> HIDE DEF Good, Functions
    <2> QED BY <1>3, <2>4, <2>5, <2>6
<1>8. ASSUME NEW s \in Sessions, FinishChoice(s)
      PROVE  ReplyInv'
    <2>1. PICK mark \in Marks :
            given' = [given EXCEPT ![s] =
                [size |-> @.size + 1, bad |-> @.bad \cup choice[s].bad,
                 marks |-> @.marks \cup {mark}]]
        BY <1>8 DEF FinishChoice
    <2>2. /\ pc[s] = "judge"
          /\ choice[s].bad = {} \/ rewrites[s] = MaxRewrites
          /\ pc' = [pc EXCEPT ![s] = "choice"]
          /\ violations' = [violations EXCEPT ![s] = Found(s)]
          /\ left' = [left EXCEPT ![s] = @ - 1]
          /\ choice' = [choice EXCEPT ![s] = NoChoice]
          /\ UNCHANGED rewrites
        BY <1>8 DEF FinishChoice
    <2>3. Functions' /\ \A o \in Sessions \ {s} : Same(o)
        BY <1>1, <1>2, <2>1, <2>2 DEF OverSessions
    <2>4. /\ violations'[s] = Found(s) /\ given'[s].bad = given[s].bad \cup choice[s].bad
          /\ given'[s].size = given[s].size + 1 /\ left'[s] = left[s] - 1
          /\ choice'[s] = NoChoice /\ pc'[s] = "choice" /\ rewrites'[s] = rewrites[s]
        BY <1>1, <1>2, <2>1, <2>2 DEF OverSessions
    <2>5. MaxRewrites > 0 => given'[s].bad = violations'[s]
        <3>1. CASE rewrites[s] > 0
            BY <1>2, <2>4, <3>1 DEF Found
        <3>2. CASE ~(rewrites[s] > 0)
            <4>1. rewrites[s] = 0
                <5>1. rewrites[s] \in 0 .. MaxRewrites
                    BY <1>2
                <5> QED BY <1>1, <3>2, <5>1
            <4> QED BY <1>1, <1>2, <2>2, <2>4, <4>1 DEF Found
        <3> QED BY <3>1, <3>2
    <2>6. Found(s) \subseteq Rules
        BY <1>2 DEF Found
    <2>7. left[s] - 1 \in Int
        <3>1. left[s] \in Int
            BY <1>2
        <3> QED BY <3>1
    <2>8. Good(s)'
        <3>1. /\ NoChoice = [echo |-> NoChoice.echo, text |-> NoChoice.text,
                              bad |-> NoChoice.bad]
              /\ NoChoice.bad \subseteq Rules
            BY DEF NoChoice
        <3>2. pc'[s] \notin Before /\ pc'[s] # "judge"
            BY <2>4 DEF Before
        <3>3. given'[s].size \in Nat /\ rewrites'[s] \in 0 .. MaxRewrites
            <4>1. given[s].size \in Nat /\ rewrites[s] \in 0 .. MaxRewrites
                BY <1>2
            <4> HIDE DEF Good, Functions, Same
            <4>2. given'[s].size = given[s].size + 1 /\ rewrites'[s] = rewrites[s]
                BY <2>4
            <4> QED BY <4>1, <4>2
        <3>4. violations'[s] \subseteq Rules /\ left'[s] \in Int
            BY <2>4, <2>6, <2>7
        <3>5. choice'[s] = NoChoice
            BY <2>4
        <3> QED BY <2>5, <3>1, <3>2, <3>3, <3>4, <3>5
    <2>9. \A o \in Sessions \ {s} : Good(o)'
        BY <1>2, <2>3
    <2> HIDE DEF Good, Functions
    <2> QED BY <1>3, <2>3, <2>8, <2>9
<1>9. CASE UNCHANGED vars
    <2>1. UNCHANGED <<pc, left, choice, rewrites, violations, given>>
        BY <1>9 DEF vars, requestVars, replyVars
    <2>2. Functions' /\ \A o \in Sessions : Good(o)'
        BY <1>2, <2>1
    <2> HIDE DEF Good, Functions
    <2> QED BY <1>3, <2>2
<1>10. ASSUME Restart
       PROVE  ReplyInv'
    <2>1. CASE Sessions = {}
        <3>1. UNCHANGED replyVars
            BY <1>10 DEF Restart
        <3> QED BY <2>1, <3>1 DEF ReplyInv, replyVars, OverSessions
    <2>2. CASE Sessions # {}
        BY <1>1, <1>4, <1>10, <2>2, MostReplyless
    <2> QED BY <2>1, <2>2
<1> HIDE DEF Good, Functions, Same
<1> QED BY <1>1, <1>4, <1>5, <1>6, <1>7, <1>8, <1>9, <1>10, MostReplyless DEF Next, Handler

\* A choice at hand repeats a message of the body, restored.
ChoiceInv == \A s \in Sessions :
    /\ body[s] = 0 => choice[s].echo = 0
    /\ choice[s].echo # 0 /\ Unshared(body[s], choice[s].echo) => Restored(s)

\* There is no choice at hand at first.
LEMMA ChoiceInit == Init => ChoiceInv
BY DEF Init, ChoiceInv, NoChoice

\* A choice is taken when everything is stored, and restored with all of it.
LEMMA ChoiceStep ==
    RedisInv /\ StoredInv /\ ReplyInv /\ ChoiceInv /\ [Next]_vars => ChoiceInv'
<1> SUFFICES ASSUME RedisInv, StoredInv, ReplyInv, ChoiceInv, [Next]_vars
             PROVE  ChoiceInv'
    OBVIOUS
<1> DEFINE Good(s) ==
        /\ body[s] = 0 => choice[s].echo = 0
        /\ choice[s].echo # 0 /\ Unshared(body[s], choice[s].echo) => Restored(s)
<1>1. /\ pc \in [Sessions -> Awaits] /\ OverSessions(full)
      /\ OverSessions(body) /\ OverSessions(choice)
    BY DEF RedisInv, StoredInv, ReplyInv
<1>2. \A s \in Sessions : Good(s)
    BY DEF ChoiceInv
<1>3. \A o \in Sessions : body'[o] = body[o] /\ choice'[o] = choice[o] => Good(o)'
    BY <1>2 DEF Restored
<1>4. (\A s \in Sessions : Good(s)') => ChoiceInv'
    BY DEF ChoiceInv
<1>5. ASSUME NEW s \in Sessions, NEW b \in Accepts[s], Begin(s, b)
      PROVE  ChoiceInv'
    <2>1. pc[s] = "idle" /\ body' = [body EXCEPT ![s] = b] /\ choice' = choice
        BY <1>5 DEF Begin, replyVars
    <2>2. choice'[s].echo = 0
        BY <1>2, <2>1 DEF StoredInv
    <2>3. \A o \in Sessions \ {s} : body'[o] = body[o] /\ choice'[o] = choice[o]
        BY <1>1, <2>1 DEF OverSessions
    <2>4. Good(s)'
        BY <2>2
    <2> HIDE DEF Good
    <2> QED BY <1>3, <1>4, <2>3, <2>4
<1>6. ASSUME NEW s \in Sessions, TakeChoice(s)
      PROVE  ChoiceInv'
    <2>1. PICK bad \in SUBSET Rules, m \in 0 .. Len(Bodies[body[s]]) :
            choice' = [choice EXCEPT ![s] =
                [echo |-> m,
                 text |-> IF m = 0 THEN <<>>
                          ELSE Deanonymize(Outgoing[body[s]][m].text, full[s]),
                 bad |-> bad]]
        BY <1>6 DEF TakeChoice
    <2>2. pc[s] = "choice" /\ body' = body
        BY <1>6 DEF TakeChoice
    <2>3. body[s] # 0 /\ todo[s] = <<>>
        BY <2>2 DEF StoredInv, Working
    <2>4. /\ choice'[s].echo = m /\ body'[s] = body[s]
          /\ m # 0 => choice'[s].text = Deanonymize(Outgoing[body[s]][m].text, full[s])
          /\ \A o \in Sessions \ {s} : body'[o] = body[o] /\ choice'[o] = choice[o]
        BY <1>1, <2>1, <2>2 DEF OverSessions
    <2>5. ASSUME m # 0, Unshared(body[s], m)
          PROVE  choice'[s].text = Bodies[body[s]][m].text
        <3>1. body[s] \in DOMAIN Bodies
            BY <2>3, BodyKnown
        <3>2. m \in DOMAIN Bodies[body[s]]
            BY <2>5, <3>1, BodiesTypes
        <3>3. Stored(full[s], Items(body[s]), Len(Items(body[s])))
            BY <2>3, AllStored
        <3>4. Deanonymize(Outgoing[body[s]][m].text, full[s]) = Bodies[body[s]][m].text
            BY <2>5, <3>1, <3>2, <3>3, OwnRestored
        <3> QED BY <2>4, <2>5, <3>4
    <2>6. Good(s)'
        BY <2>3, <2>4, <2>5 DEF Restored
    <2> HIDE DEF Good
    <2> QED BY <1>3, <1>4, <2>4, <2>6
<1>7. ASSUME NEW s \in Sessions, Rewrite(s)
      PROVE  ChoiceInv'
    <2>1. PICK bad \in Residues(choice[s].bad) : choice' = [choice EXCEPT ![s].bad = bad]
        BY <1>7 DEF Rewrite
    <2>2. body' = body
        BY <1>7 DEF Rewrite
    <2>3. choice[s] = [echo |-> choice[s].echo, text |-> choice[s].text,
                       bad |-> choice[s].bad]
        BY DEF ReplyInv
    <2>4. choice'[s] = [choice[s] EXCEPT !.bad = bad]
        BY <1>1, <2>1 DEF OverSessions
    <2>5. choice'[s].echo = choice[s].echo /\ choice'[s].text = choice[s].text
        BY <2>3, <2>4
    <2>6. \A o \in Sessions \ {s} : body'[o] = body[o] /\ choice'[o] = choice[o]
        BY <1>1, <2>1, <2>2 DEF OverSessions
    <2>7. Good(s)'
        BY <1>2, <2>2, <2>5 DEF Restored
    <2> HIDE DEF Good
    <2> QED BY <1>3, <1>4, <2>6, <2>7
<1>8. ASSUME NEW s \in Sessions, FinishChoice(s)
      PROVE  ChoiceInv'
    <2>1. choice' = [choice EXCEPT ![s] = NoChoice] /\ body' = body
        BY <1>8 DEF FinishChoice
    <2>2. choice'[s] = NoChoice
        BY <1>1, <2>1 DEF OverSessions
    <2>3. \A o \in Sessions \ {s} : body'[o] = body[o] /\ choice'[o] = choice[o]
        BY <1>1, <2>1 DEF OverSessions
    <2>4. Good(s)'
        BY <2>2 DEF NoChoice
    <2> HIDE DEF Good
    <2> QED BY <1>3, <1>4, <2>3, <2>4
<1>9. CASE UNCHANGED <<body, choice>>
    <2> HIDE DEF Good
    <2> QED BY <1>3, <1>4, <1>9
<1> HIDE DEF Good
<1>10. ASSUME NEW s \in Sessions,
              \/ GetReturns(s) \/ SetReturns(s) \/ RedisFails(s)
              \/ UpstreamAnswers(s) \/ UpstreamFails(s) \/ Audit(s)
              \/ FlushReturns(s) \/ FlushFails(s) \/ KeyLapses(s)
       PROVE  UNCHANGED <<body, choice>>
    BY <1>10 DEF GetReturns, SetReturns, RedisFails, UpstreamAnswers, UpstreamFails, Audit,
                 FlushReturns, FlushFails, KeyLapses, Raise, replyVars, requestVars
<1>11. Restart \/ UNCHANGED vars => UNCHANGED <<body, choice>>
    BY DEF Restart, vars, requestVars, replyVars
<1> QED BY <1>5, <1>6, <1>7, <1>8, <1>9, <1>10, <1>11 DEF Next, Handler

\* A message that the model repeats comes back as it was written, whatever the
\* recognizers found in the messages, if no later message has one of its placeholders
\* (gateway/anonymizer/engine.py 162-252).
THEOREM OriginalsComeBack == Safety => []OwnOriginalsRestored
<1>1. ChoiceInv => OwnOriginalsRestored
    BY DEF ChoiceInv, OwnOriginalsRestored
<1> QED
    BY <1>1, RedisInit, RedisStep, StoredInit, StoredStep, ReplyInit, ReplyStep,
       ChoiceInit, ChoiceStep, PTL DEF Safety

-----------------------------------------------------------------------------
(* The audit entry of a session.                                           *)

\* The awaits in which a handler has no more to do with its reply.
After == {"flush", "done", "lost"}

\* A session that was audited has its entry, and only that one, and is not worked on
\* any more; what the entry says is still so.
AuditInv ==
    /\ \A i, j \in DOMAIN log : log[i].session = log[j].session => i = j
    /\ \A s \in Sessions :
        /\ pc[s] \notin After => EntriesOf(s) = {}
        /\ pc[s] = "flush" \/ status[s] = 200 => EntriesOf(s) # {}
        /\ \A i \in EntriesOf(s) :
            /\ left[s] = 0 /\ todo[s] = <<>> /\ body[s] # 0
            /\ log[i].pii = PiiTypes(body[s])
            /\ log[i].violations = violations[s]

\* The log is empty at first.
LEMMA AuditInit == Init => AuditInv
BY DEF Init, AuditInv, EntriesOf

\* Nothing changes for the other sessions.
Alone(s) == \A o \in Sessions \ {s} :
    /\ pc'[o] = pc[o] /\ body'[o] = body[o] /\ todo'[o] = todo[o]
    /\ left'[o] = left[o] /\ violations'[o] = violations[o] /\ given'[o] = given[o]
    /\ status'[o] = status[o]

\* A handler leaves the state of the other sessions alone.
LEMMA HandlersAlone ==
    ASSUME RedisInv, StoredInv, ReplyInv, NEW s \in Sessions,
           Handler(s) \/ KeyLapses(s) \/ \E b \in Accepts[s] : Begin(s, b)
    PROVE  Alone(s)
<1>1. /\ pc \in [Sessions -> Awaits] /\ OverSessions(status)
      /\ OverSessions(body) /\ OverSessions(todo) /\ OverSessions(left)
      /\ OverSessions(violations) /\ OverSessions(given)
    BY DEF RedisInv, StoredInv, ReplyInv
<1> USE DEF Alone, OverSessions
<1>2. ASSUME NEW b \in Accepts[s], Begin(s, b)
      PROVE  Alone(s)
    BY <1>1, <1>2 DEF Begin, replyVars
<1>3. CASE GetReturns(s)
    BY <1>1, <1>3 DEF GetReturns, replyVars
<1>4. CASE SetReturns(s)
    <2>1. /\ pc' \in {[pc EXCEPT ![s] = "get"], [pc EXCEPT ![s] = "post"]}
          /\ todo' = [todo EXCEPT ![s] = Tail(todo[s])]
          /\ UNCHANGED <<body, left, violations, given, status>>
        BY <1>4 DEF SetReturns, replyVars
    <2> QED BY <1>1, <2>1
<1>5. CASE RedisFails(s) \/ UpstreamFails(s) \/ FlushFails(s)
    <2>1. Raise(s)
        BY <1>5 DEF RedisFails, UpstreamFails, FlushFails
    <2> QED BY <1>1, <2>1 DEF Raise, replyVars
<1>6. CASE UpstreamAnswers(s)
    BY <1>1, <1>6 DEF UpstreamAnswers
<1>7. CASE TakeChoice(s)
    BY <1>1, <1>7 DEF TakeChoice
<1>8. CASE Rewrite(s)
    BY <1>1, <1>8 DEF Rewrite
<1>9. CASE FinishChoice(s)
    <2>1. PICK mark \in Marks :
            given' = [given EXCEPT ![s] =
                [size |-> @.size + 1, bad |-> @.bad \cup choice[s].bad,
                 marks |-> @.marks \cup {mark}]]
        BY <1>9 DEF FinishChoice
    <2>2. /\ pc' = [pc EXCEPT ![s] = "choice"] /\ left' = [left EXCEPT ![s] = @ - 1]
          /\ violations' = [violations EXCEPT ![s] = Found(s)]
          /\ UNCHANGED <<body, todo, status>>
        BY <1>9 DEF FinishChoice
    <2>3. \A o \in Sessions \ {s} : given'[o] = given[o]
        BY <1>1, <2>1
    <2> QED BY <1>1, <2>2, <2>3
<1>10. CASE Audit(s)
    BY <1>1, <1>10 DEF Audit, replyVars
<1>11. CASE FlushReturns(s)
    BY <1>1, <1>11 DEF FlushReturns, replyVars
<1>12. CASE KeyLapses(s)
    BY <1>12 DEF KeyLapses, requestVars, replyVars
<1> QED
    BY <1>2, <1>3, <1>4, <1>5, <1>6, <1>7, <1>8, <1>9, <1>10, <1>11, <1>12 DEF Handler

\* The entry is added once, after which nothing it tells of changes.
LEMMA AuditStep ==
    RedisInv /\ StoredInv /\ ReplyInv /\ LogInv /\ AuditInv /\ [Next]_vars => AuditInv'
<1> SUFFICES ASSUME RedisInv, StoredInv, ReplyInv, LogInv, AuditInv, [Next]_vars
             PROVE  AuditInv'
    OBVIOUS
<1> DEFINE Good(s) ==
        /\ pc[s] \notin After => EntriesOf(s) = {}
        /\ pc[s] = "flush" \/ status[s] = 200 => EntriesOf(s) # {}
        /\ \A i \in EntriesOf(s) :
            /\ left[s] = 0 /\ todo[s] = <<>> /\ body[s] # 0
            /\ log[i].pii = PiiTypes(body[s])
            /\ log[i].violations = violations[s]
           Unique == \A i, j \in DOMAIN log : log[i].session = log[j].session => i = j
<1>1. /\ pc \in [Sessions -> Awaits] /\ OverSessions(status)
    BY DEF RedisInv
<1>2. Unique /\ \A s \in Sessions : Good(s)
    BY DEF AuditInv
<1>3. (Unique' /\ \A s \in Sessions : Good(s)') => AuditInv'
    BY DEF AuditInv
<1>4. ASSUME NEW s \in Sessions, Audit(s)
      PROVE  AuditInv'
    <2> DEFINE n == Len(log)
               e == EntryOf(s)
    <2>1. /\ pc[s] = "choice" /\ left[s] = 0 /\ log' = Append(log, e)
          /\ pc' = [pc EXCEPT ![s] = "flush"]
          /\ UNCHANGED <<body, todo, left, violations, status>>
        BY <1>4 DEF Audit, replyVars
    <2>2. todo[s] = <<>> /\ body[s] # 0
        BY <2>1 DEF StoredInv, Working
    <2>3. /\ e.session = s /\ e.pii = PiiTypes(body[s]) /\ e.violations = violations[s]
        BY DEF EntryOf
    <2> HIDE DEF e
    <2>4. /\ n \in Nat /\ DOMAIN log = 1 .. n /\ DOMAIN log' = 1 .. n + 1
          /\ \A i \in 1 .. n : log'[i] = log[i]
          /\ log'[n + 1] = e
        <3>1. PICK S : log \in Seq(S)
            BY DEF LogInv
        <3>2. log \in Seq(S \cup {e}) /\ e \in S \cup {e}
            BY <3>1, SeqMonotonic
        <3> QED BY <2>1, <3>1, <3>2, AppendProperties
    <2> HIDE DEF n
    <2>5. /\ \A i \in 1 .. n + 1 : i \in 1 .. n \/ i = n + 1
          /\ \A i \in 1 .. n : i \in 1 .. n + 1 /\ i # n + 1
          /\ n + 1 \in 1 .. n + 1
        BY <2>4
    <2>6. EntriesOf(s) = {}
        BY <1>2, <2>1 DEF After
    <2>7. /\ EntriesOf(s)' = {n + 1}
          /\ \A o \in Sessions \ {s} : EntriesOf(o)' = EntriesOf(o)
        BY <2>3, <2>4, <2>5, <2>6 DEF EntriesOf
    <2>8. Unique'
        <3>1. \A i \in 1 .. n : log[i].session # s
            BY <2>4, <2>6 DEF EntriesOf
        <3> QED BY <1>2, <2>3, <2>4, <2>5, <3>1
    <2>9. pc'[s] = "flush" /\ \A o \in Sessions \ {s} : pc'[o] = pc[o]
        BY <1>1, <2>1
    <2>10. Good(s)'
        BY <2>1, <2>2, <2>3, <2>4, <2>7, <2>9 DEF After
    <2>11. ASSUME NEW o \in Sessions \ {s}
           PROVE  Good(o)'
        <3>1. EntriesOf(o)' = EntriesOf(o) /\ \A i \in EntriesOf(o) : log'[i] = log[i]
            BY <2>4, <2>7 DEF EntriesOf
        <3>2. pc'[o] = pc[o]
            BY <2>9
        <3>3. /\ left'[o] = left[o] /\ todo'[o] = todo[o] /\ body'[o] = body[o]
              /\ violations'[o] = violations[o] /\ status'[o] = status[o]
            BY <2>1
        <3>4. Good(o)
            BY <1>2
        <3> QED BY ONLY <3>1, <3>2, <3>3, <3>4
    <2> HIDE DEF Good, Unique
    <2> QED BY <1>3, <2>8, <2>10, <2>11
<1>5. ASSUME UNCHANGED log
      PROVE  /\ Unique'
             /\ \A o : EntriesOf(o)' = EntriesOf(o)
    BY <1>2, <1>5 DEF EntriesOf
<1>6. ASSUME UNCHANGED log, NEW o \in Sessions, pc'[o] \in After \/ pc'[o] = pc[o],
             pc'[o] = "flush" \/ status'[o] = 200 => EntriesOf(o) # {},
             UNCHANGED <<left[o], todo[o], body[o], violations[o]>>
      PROVE  Good(o)'
    <2>1. EntriesOf(o)' = EntriesOf(o) /\ log' = log
        BY <1>5, <1>6
    <2>2. Good(o)
        BY <1>2
    <2>3. /\ left'[o] = left[o] /\ todo'[o] = todo[o] /\ body'[o] = body[o]
          /\ violations'[o] = violations[o]
        BY <1>6
    <2> QED BY ONLY <1>6, <2>1, <2>2, <2>3
<1>7. ASSUME UNCHANGED log, NEW s \in Sessions, Alone(s), Good(s)'
      PROVE  AuditInv'
    <2>1. ASSUME NEW o \in Sessions \ {s}
          PROVE  Good(o)'
        <3>1. /\ pc'[o] = pc[o] /\ body'[o] = body[o] /\ todo'[o] = todo[o]
              /\ left'[o] = left[o] /\ violations'[o] = violations[o]
              /\ status'[o] = status[o]
            BY <1>7 DEF Alone
        <3>2. pc'[o] = "flush" \/ status'[o] = 200 => EntriesOf(o) # {}
            BY <1>2, <3>1
        <3> HIDE DEF Good
        <3> QED BY <1>6, <1>7, <3>1, <3>2
    <2> HIDE DEF Good, Unique
    <2> QED BY <1>3, <1>5, <1>7, <2>1
\* A session that is still worked on has no entry.
<1>8. ASSUME UNCHANGED log, NEW s \in Sessions, Alone(s), pc[s] \notin After,
             pc'[s] # "flush", status'[s] # 200
      PROVE  AuditInv'
    <2>1. EntriesOf(s)' = {}
        BY <1>2, <1>5, <1>8
    <2>2. Good(s)'
        BY ONLY <1>8, <2>1
    <2> HIDE DEF Good, Unique
    <2> QED BY <1>7, <1>8, <2>2
\* One that was audited is only answered, or fails.
<1>9. ASSUME UNCHANGED <<log, left, todo, body, violations>>, NEW s \in Sessions, Alone(s),
             pc[s] = "flush", pc'[s] = "done"
      PROVE  AuditInv'
    <2>1. EntriesOf(s) # {}
        BY <1>2, <1>9
    <2>2. Good(s)'
        <3> HIDE DEF Good, Unique
        <3> QED BY <1>6, <1>9, <2>1 DEF After
    <2> HIDE DEF Good, Unique
    <2> QED BY <1>7, <1>9, <2>2
<1>10. \A s \in Sessions : status[s] = 200 => pc[s] = "done"
    BY DEF RedisInv
<1>11. ASSUME NEW s \in Sessions, NEW b \in Accepts[s], Begin(s, b)
       PROVE  AuditInv'
    <2>1. UNCHANGED log /\ UNCHANGED status /\ pc[s] = "idle" /\ pc'[s] \in {"post", "get"}
        BY <1>1, <1>11 DEF Begin
    <2>2. Alone(s)
        BY <1>11, HandlersAlone
    <2> HIDE DEF Good, Unique
    <2> QED BY <1>8, <1>10, <2>1, <2>2 DEF After
<1>12. ASSUME NEW s \in Sessions, GetReturns(s) \/ SetReturns(s) \/ UpstreamAnswers(s)
                                  \/ TakeChoice(s) \/ Rewrite(s) \/ FinishChoice(s)
       PROVE  AuditInv'
    <2>1. UNCHANGED log /\ UNCHANGED status
        BY <1>12 DEF GetReturns, SetReturns, UpstreamAnswers, TakeChoice, Rewrite,
                     FinishChoice, processVars
    <2>2. pc[s] \in {"get", "set", "post", "choice", "judge"}
        BY <1>12 DEF GetReturns, SetReturns, UpstreamAnswers, TakeChoice, Rewrite,
                     FinishChoice
    <2>3. pc'[s] # "flush"
        BY <1>1, <1>12 DEF GetReturns, SetReturns, UpstreamAnswers, TakeChoice, Rewrite,
                     FinishChoice
    <2>4. Alone(s)
        BY <1>12, HandlersAlone DEF Handler
    <2> HIDE DEF Good, Unique
    <2> QED BY <1>8, <1>10, <2>1, <2>2, <2>3, <2>4 DEF After
<1>13. ASSUME NEW s \in Sessions, RedisFails(s) \/ UpstreamFails(s) \/ FlushFails(s)
       PROVE  AuditInv'
    <2>1. Raise(s) /\ pc[s] \in {"get", "set", "post", "flush"}
        BY <1>13 DEF RedisFails, UpstreamFails, FlushFails
    <2>2. /\ pc'[s] = "done" /\ status'[s] = 500
          /\ UNCHANGED <<log, left, todo, body, violations>>
        BY <1>1, <2>1 DEF Raise, processVars, replyVars, OverSessions
    <2>3. Alone(s)
        BY <1>13, HandlersAlone DEF Handler
    <2> HIDE DEF Good, Unique
    <2> QED BY <1>8, <1>9, <2>1, <2>2, <2>3 DEF After
<1>14. ASSUME NEW s \in Sessions, FlushReturns(s)
       PROVE  AuditInv'
    <2>1. /\ pc[s] = "flush" /\ pc'[s] = "done"
          /\ UNCHANGED <<log, left, todo, body, violations>>
        BY <1>1, <1>14 DEF FlushReturns, processVars, replyVars
    <2>2. Alone(s)
        BY <1>14, HandlersAlone DEF Handler
    <2> HIDE DEF Good, Unique
    <2> QED BY <1>9, <2>1, <2>2
<1>15. ASSUME UNCHANGED <<log, left, todo, body, violations, status>>,
              \A o \in Sessions : pc'[o] = pc[o] \/ pc'[o] = "lost"
       PROVE  AuditInv'
    <2>1. ASSUME NEW o \in Sessions
          PROVE  Good(o)'
        <3>1. pc'[o] = "flush" \/ status'[o] = 200 => EntriesOf(o) # {}
            BY <1>2, <1>15
        <3> HIDE DEF Good, Unique
        <3> QED BY <1>6, <1>15, <3>1 DEF After
    <2> HIDE DEF Good, Unique
    <2> QED BY <1>3, <1>5, <1>15, <2>1
<1> HIDE DEF Good, Unique
<1>16. ASSUME Restart
       PROVE  AuditInv'
    <2>1. /\ UNCHANGED <<log, left, todo, body, violations, status>>
          /\ \A o \in Sessions : pc'[o] = pc[o] \/ pc'[o] = "lost"
        BY <1>16 DEF Restart, replyVars
    <2> QED BY <1>15, <2>1
<1>17. ASSUME UNCHANGED <<pc, log, left, todo, body, violations, status>>
       PROVE  AuditInv'
    BY <1>15, <1>17
<1>18. ASSUME NEW s \in Sessions, KeyLapses(s)
       PROVE  AuditInv'
    BY <1>17, <1>18 DEF KeyLapses, requestVars, replyVars, processVars
<1>19. CASE UNCHANGED vars
    BY <1>17, <1>19 DEF vars, requestVars, replyVars, processVars
<1> QED
    BY <1>4, <1>11, <1>12, <1>13, <1>14, <1>16, <1>18, <1>19 DEF Next, Handler

\* What is audited is audited once and names the types of all that was masked
\* (gateway/proxy.py 45-86).
THEOREM AnswersAreAudited == Safety => []AnsweredIsAudited
<1>1. StoredInv /\ AuditInv => AnsweredIsAudited
    <2> SUFFICES ASSUME StoredInv, AuditInv, NEW s \in Sessions
                 PROVE  /\ \A i, j \in EntriesOf(s) : i = j
                        /\ status[s] = 200 => EntriesOf(s) # {}
                        /\ \A i \in EntriesOf(s) :
                            /\ left[s] = 0
                            /\ log[i].pii = {ph[1] : ph \in DOMAIN full[s]}
        BY DEF AnsweredIsAudited
    <2>1. \A i, j \in EntriesOf(s) : i = j
        BY DEF AuditInv, EntriesOf
    <2>2. status[s] = 200 => EntriesOf(s) # {}
        BY DEF AuditInv
    <2>3. ASSUME NEW i \in EntriesOf(s)
          PROVE  log[i].pii = {ph[1] : ph \in DOMAIN full[s]}
        <3> DEFINE items == Items(body[s])
        <3>1. /\ log[i].pii = PiiTypes(body[s]) /\ todo[s] = <<>> /\ body[s] # 0
            BY DEF AuditInv
        <3>2. items \in Seq(Item)
            BY <3>1, BodyKnown, ItemsProperties
        <3>3. Stored(full[s], items, Len(items))
            BY <3>1, AllStored
        <3>4. PiiTypes(body[s]) = {items[k][1][1] : k \in DOMAIN items}
            BY DEF PiiTypes
        <3> HIDE DEF items
        <3>5. /\ DOMAIN full[s] = {items[k][1] : k \in 1 .. Len(items)}
              /\ DOMAIN items = 1 .. Len(items)
            BY <3>2, <3>3 DEF Stored
        <3> QED BY <3>1, <3>4, <3>5
    <2> QED BY <2>1, <2>2, <2>3 DEF AuditInv
<1> QED
    BY <1>1, RedisInit, RedisStep, StoredInit, StoredStep, ReplyInit, ReplyStep,
       LogInit, LogStep, AuditInit, AuditStep, PTL DEF Safety

\* When the guardian may rewrite at all, the entry of an answer has the violations its
\* texts are left with, however often and of whatever rules (judge.py 36-46).
THEOREM ViolationsAreRecorded ==
    ASSUME MaxRewrites > 0
    PROVE  Safety => []ViolationsRecorded
<1>1. ReplyInv /\ AuditInv => ViolationsRecorded
    <2> SUFFICES ASSUME ReplyInv, AuditInv, NEW s \in Sessions, NEW i \in EntriesOf(s)
                 PROVE  log[i].violations = given[s].bad
        BY DEF ViolationsRecorded
    <2>1. log[i].violations = violations[s]
        BY DEF AuditInv
    <2>2. given[s].bad = violations[s]
        BY DEF ReplyInv
    <2> QED BY <2>1, <2>2
<1> QED
    BY <1>1, RedisInit, RedisStep, StoredInit, StoredStep, ReplyInit, ReplyStep,
       LogInit, LogStep, AuditInit, AuditStep, PTL DEF Safety

-----------------------------------------------------------------------------
(* The counters and the score.                                             *)

\* The counters are natural numbers.
CountersInv == counters \in [total : Nat, averted : Nat, rewritten : Nat]

\* They begin at zero.
LEMMA CountersInit == Init => CountersInv
BY DEF Init, CountersInv

\* What is added to a counter is a natural number: mappings are finite.
LEMMA CountersStep ==
    RedisInv /\ StoredInv /\ CountersInv /\ [Next]_vars => CountersInv'
<1> SUFFICES ASSUME RedisInv, StoredInv, CountersInv, [Next]_vars
             PROVE  CountersInv'
    OBVIOUS
<1>1. ASSUME NEW s \in Sessions, SetReturns(s)
      PROVE  CountersInv'
    <2> DEFINE seen == Put(full[s], Head(todo[s]))
    <2>1. /\ pc[s] = "set" /\ UNCHANGED body /\ full' = [full EXCEPT ![s] = seen]
          /\ \/ UNCHANGED counters
             \/ counters' = [counters EXCEPT !.averted = @ + Cardinality(DOMAIN seen)]
        BY <1>1 DEF SetReturns
    <2> HIDE DEF seen
    <2>2. full'[s] = seen
        BY <2>1 DEF RedisInv, OverSessions
    <2>3. StoredInv'
        BY StoredStep
    <2>4. body[s] # 0
        BY <2>1 DEF StoredInv
    <2>5. Items(body[s]) \in Seq(Item)
        BY <2>4, BodyKnown, ItemsProperties
    <2>6. \E k \in 0 .. Len(Items(body[s])) : Stored(seen, Items(body[s]), k)
        BY <2>1, <2>2, <2>3, <2>4 DEF StoredInv
    <2>7. Cardinality(DOMAIN seen) \in Nat
        BY <2>5, <2>6, StoredProperties
    <2> QED BY <2>1, <2>7 DEF CountersInv
<1>2. ASSUME NEW s \in Sessions, FinishChoice(s)
      PROVE  CountersInv'
    <2>1. counters' = [counters EXCEPT !.rewritten = @ + Rewritten(s)]
        BY <1>2 DEF FinishChoice
    <2>2. Rewritten(s) \in Nat
        BY DEF Rewritten
    <2> QED BY <2>1, <2>2 DEF CountersInv
<1>3. ASSUME NEW s \in Sessions, NEW b \in Accepts[s], Begin(s, b)
      PROVE  CountersInv'
    BY <1>3 DEF Begin, CountersInv
<1>4. CASE Restart
    BY <1>4 DEF Restart, CountersInv
<1>5. CASE UNCHANGED counters
    BY <1>5 DEF CountersInv
<1> QED
    BY <1>1, <1>2, <1>3, <1>4, <1>5
       DEF Next, Handler, vars, processVars, GetReturns, RedisFails, UpstreamAnswers,
           UpstreamFails, TakeChoice, Rewrite, Audit, FlushReturns, FlushFails, KeyLapses, Raise

\* The requests this process has counted that have no finished choice yet.
Counted == {s \in Sessions :
    given[s].size = 0 /\ pc[s] \in {"get", "set", "post", "choice", "judge"}}

\* The premise of ScoreInRange: no reply has more than one choice.
AtMostOne == \A s \in Sessions : left[s] + given[s].size <= 1

\* No more answers were rewritten than requests counted, each of which has one choice.
ScoreInv ==
    /\ IsFiniteSet(Counted)
    /\ AtMostOne => counters.rewritten + Cardinality(Counted) <= counters.total

\* Nothing is counted at first.
LEMMA ScoreInit == Init => ScoreInv
<1> SUFFICES ASSUME Init
             PROVE  ScoreInv
    OBVIOUS
<1>1. Counted = {}
    BY DEF Init, Counted
<1>2. counters.total = 0 /\ counters.rewritten = 0
    BY DEF Init
<1> QED BY <1>1, <1>2, FS_EmptySet DEF ScoreInv

\* A request joins the counted ones when it is counted, and leaves them before or while
\* its answer is counted as rewritten; a restart empties both.
LEMMA ScoreStep ==
    RedisInv /\ ReplyInv /\ CountersInv /\ ScoreInv /\ [Next]_vars => ScoreInv'
<1> SUFFICES ASSUME RedisInv, ReplyInv, CountersInv, ScoreInv, [Next]_vars
             PROVE  ScoreInv'
    OBVIOUS
<1>1. /\ pc \in [Sessions -> Awaits] /\ OverSessions(left) /\ OverSessions(given)
      /\ \A s \in Sessions : left[s] \in Int /\ given[s].size \in Nat
    BY DEF RedisInv, ReplyInv
<1>2. /\ counters.total \in Nat /\ counters.rewritten \in Nat
      /\ counters \in [total : Nat, averted : Nat, rewritten : Nat]
    BY DEF CountersInv
<1>3. /\ IsFiniteSet(Counted) /\ Cardinality(Counted) \in Nat
      /\ AtMostOne => counters.rewritten + Cardinality(Counted) <= counters.total
    BY FS_CardinalityType DEF ScoreInv
\* Most steps take no session into the set and count nothing.
<1>4. ASSUME Counted' \subseteq Counted, AtMostOne' => AtMostOne,
             counters'.total = counters.total, counters'.rewritten = counters.rewritten
      PROVE  ScoreInv'
    <2>1. /\ IsFiniteSet(Counted') /\ Cardinality(Counted') \in Nat
          /\ Cardinality(Counted') <= Cardinality(Counted)
        BY <1>3, <1>4, FS_Subset, FS_CardinalityType
    <2> HIDE DEF Counted, AtMostOne
    <2> QED BY <1>2, <1>3, <1>4, <2>1 DEF ScoreInv
<1>5. ASSUME NEW s \in Sessions, NEW b \in Accepts[s], Begin(s, b)
      PROVE  ScoreInv'
    <2>1. /\ pc[s] = "idle" /\ UNCHANGED <<left, given>>
          /\ pc' \in {[pc EXCEPT ![s] = "post"], [pc EXCEPT ![s] = "get"]}
          /\ counters' = [counters EXCEPT !.total = @ + 1]
        BY <1>5 DEF Begin, replyVars
    <2>2. given[s].size = 0
        BY <2>1 DEF ReplyInv, Before
    <2>3. Counted' = Counted \cup {s} /\ s \notin Counted
        BY <1>1, <2>1, <2>2 DEF Counted
    <2>4. IsFiniteSet(Counted') /\ Cardinality(Counted') = Cardinality(Counted) + 1
        BY <1>3, <2>3, FS_AddElement
    <2>5. counters'.total = counters.total + 1 /\ counters'.rewritten = counters.rewritten
        BY <1>2, <2>1
    <2>6. AtMostOne' => AtMostOne
        BY <2>1 DEF AtMostOne
    <2> HIDE DEF Counted, AtMostOne
    <2> QED BY <1>2, <1>3, <2>4, <2>5, <2>6 DEF ScoreInv
<1>6. ASSUME NEW s \in Sessions, FinishChoice(s)
      PROVE  ScoreInv'
    <2>1. PICK mark \in Marks :
            given' = [given EXCEPT ![s] =
                [size |-> @.size + 1, bad |-> @.bad \cup choice[s].bad,
                 marks |-> @.marks \cup {mark}]]
        BY <1>6 DEF FinishChoice
    <2>2. /\ pc[s] = "judge" /\ pc' = [pc EXCEPT ![s] = "choice"]
          /\ left' = [left EXCEPT ![s] = @ - 1]
          /\ counters' = [counters EXCEPT !.rewritten = @ + Rewritten(s)]
        BY <1>6 DEF FinishChoice
    <2>3. /\ given'[s].size = given[s].size + 1 /\ left'[s] = left[s] - 1
          /\ pc'[s] = "choice"
          /\ \A o \in Sessions \ {s} :
                given'[o] = given[o] /\ left'[o] = left[o] /\ pc'[o] = pc[o]
        BY <1>1, <2>1, <2>2 DEF OverSessions
    <2>4. /\ left[s] \in Int /\ left[s] > 0 /\ given[s].size \in Nat
        BY <2>2 DEF ReplyInv
    <2>5. left'[s] + given'[s].size = left[s] + given[s].size
        BY ONLY <2>3, <2>4
    <2>6. AtMostOne' => AtMostOne
        BY <2>3, <2>5 DEF AtMostOne
    <2>7. AtMostOne => given[s].size = 0
        <3>1. AtMostOne => left[s] + given[s].size <= 1
            BY DEF AtMostOne
        <3> HIDE DEF AtMostOne
        <3> QED BY ONLY <2>4, <3>1
    <2>8. Counted' \subseteq Counted /\ s \notin Counted'
        BY <2>2, <2>3, <2>4 DEF Counted
    <2>9. AtMostOne => s \in Counted /\ Counted' \subseteq Counted \ {s}
        BY <2>2, <2>7, <2>8 DEF Counted
    <2>10. counters'.total = counters.total
           /\ counters'.rewritten = counters.rewritten + Rewritten(s)
        BY <1>2, <2>2
    <2>11. Rewritten(s) \in {0, 1}
        BY DEF Rewritten
    <2>12. IsFiniteSet(Counted')
        BY <1>3, <2>8, FS_Subset
    <2>13. ASSUME AtMostOne
           PROVE  Cardinality(Counted') \in Nat /\ Cardinality(Counted') + 1 <= Cardinality(Counted)
        <3>1. /\ IsFiniteSet(Counted \ {s})
              /\ Cardinality(Counted \ {s}) = Cardinality(Counted) - 1
            BY <1>3, <2>9, <2>13, FS_RemoveElement
        <3>2. /\ Cardinality(Counted') <= Cardinality(Counted \ {s})
              /\ Cardinality(Counted') \in Nat
            BY <2>9, <2>12, <2>13, <3>1, FS_Subset, FS_CardinalityType
        <3> QED BY <1>3, <3>1, <3>2
    <2> HIDE DEF Counted, AtMostOne
    <2>14. ASSUME AtMostOne'
           PROVE  counters'.rewritten + Cardinality(Counted') <= counters'.total
        BY <1>2, <1>3, <2>6, <2>10, <2>11, <2>13, <2>14
    <2> QED BY <2>12, <2>14 DEF ScoreInv
<1>7. ASSUME NEW s \in Sessions, UpstreamAnswers(s)
      PROVE  ScoreInv'
    <2>1. PICK n \in ReplySizes[s] : left' = [left EXCEPT ![s] = n]
        BY <1>7 DEF UpstreamAnswers
    <2>2. /\ pc[s] = "post" /\ pc' = [pc EXCEPT ![s] = "choice"]
          /\ UNCHANGED <<given, counters>>
        BY <1>7 DEF UpstreamAnswers, processVars
    <2>3. left[s] = -1 /\ given[s].size = 0
        BY <2>2 DEF ReplyInv, Before, NoReply
    <2>4. AtMostOne' => AtMostOne
        BY <1>1, <2>1, <2>2, <2>3 DEF AtMostOne, OverSessions
    <2>5. Counted' \subseteq Counted
        BY <1>1, <2>2 DEF Counted
    <2> QED BY <1>4, <2>2, <2>4, <2>5
<1>8. CASE Restart
    <2>1. /\ counters'.total = 0 /\ counters'.rewritten = 0
          /\ \A s \in Sessions : pc'[s] \in {"idle", "done", "lost"}
        BY <1>8 DEF Restart
    <2>2. Counted' = {}
        BY <2>1 DEF Counted
    <2> QED BY <2>1, <2>2, FS_EmptySet DEF ScoreInv
<1>9. ASSUME NEW s \in Sessions, SetReturns(s)
      PROVE  ScoreInv'
    <2>1. /\ pc[s] = "set" /\ UNCHANGED <<left, given>>
          /\ pc' \in {[pc EXCEPT ![s] = "post"], [pc EXCEPT ![s] = "get"]}
        BY <1>9 DEF SetReturns, replyVars
    <2>2. \/ UNCHANGED counters
          \/ \E x : counters' = [counters EXCEPT !.averted = x]
        BY <1>9 DEF SetReturns
    <2>3. counters'.total = counters.total /\ counters'.rewritten = counters.rewritten
        BY <1>2, <2>2
    <2>4. Counted' \subseteq Counted
        BY <1>1, <2>1 DEF Counted
    <2>5. AtMostOne' => AtMostOne
        BY <2>1 DEF AtMostOne
    <2> QED BY <1>4, <2>3, <2>4, <2>5
<1>10. ASSUME UNCHANGED <<left, given, counters>>,
              \A o \in Sessions : pc'[o] = pc[o] \/ pc'[o] \in After
                  \/ pc[o] \in {"get", "set", "post", "choice", "judge"}
       PROVE  ScoreInv'
    <2>1. Counted' \subseteq Counted
        BY <1>10 DEF Counted, After
    <2>2. AtMostOne' => AtMostOne
        BY <1>10 DEF AtMostOne
    <2> QED BY <1>4, <1>10, <2>1, <2>2
<1>11. ASSUME NEW s \in Sessions,
              \/ GetReturns(s) \/ TakeChoice(s) \/ Rewrite(s) \/ Audit(s)
              \/ FlushReturns(s) \/ KeyLapses(s)
       PROVE  ScoreInv'
    <2>1. UNCHANGED <<left, given, counters>>
        BY <1>11 DEF GetReturns, TakeChoice, Rewrite, Audit, FlushReturns, KeyLapses,
                     requestVars, replyVars, processVars
    <2>2. \A o \in Sessions : pc'[o] = pc[o] \/ pc'[o] \in After
                  \/ pc[o] \in {"get", "set", "post", "choice", "judge"}
        BY <1>1, <1>11 DEF GetReturns, TakeChoice, Rewrite, Audit, FlushReturns, KeyLapses,
                     requestVars, After
    <2> QED BY <1>10, <2>1, <2>2
<1>12. ASSUME NEW s \in Sessions, RedisFails(s) \/ UpstreamFails(s) \/ FlushFails(s)
       PROVE  ScoreInv'
    <2>1. Raise(s)
        BY <1>12 DEF RedisFails, UpstreamFails, FlushFails
    <2>2. UNCHANGED <<left, given, counters>> /\ \A o \in Sessions : pc'[o] \in {pc[o], "done"}
        BY <1>1, <2>1 DEF Raise, replyVars, processVars
    <2> QED BY <1>10, <2>2 DEF After
<1>13. CASE UNCHANGED vars
    BY <1>10, <1>13 DEF vars, requestVars, replyVars, processVars
<1> QED
    BY <1>5, <1>6, <1>7, <1>8, <1>9, <1>11, <1>12, <1>13 DEF Next, Handler

\* A quotient of what is at most a hundred times the divisor, rounded, is at most 100.
LEMMA QuotientInRange ==
    ASSUME NEW t \in Nat \ {0}, NEW part \in 0 .. 100 * t
    PROVE  /\ part \div t \in 0 .. 100
           /\ part \div t = 100 => part % t = 0
<1>1. /\ part \div t \in Int /\ part % t \in 0 .. t - 1
      /\ part = (t * (part \div t)) + (part % t)
    OBVIOUS
<1> QED BY <1>1

\* The score shown is a percentage while a reply has one choice, after any number of
\* restarts (gateway/metrics/store.py 20-28).
THEOREM ScoreIsPercentage == Safety => []ScoreInRange
<1>1. CountersInv /\ ScoreInv => ScoreInRange
    <2> SUFFICES ASSUME CountersInv, ScoreInv, AtMostOne
                 PROVE  Score \in 0 .. 100
        BY DEF ScoreInRange, AtMostOne
    <2> DEFINE t == counters.total
               r == counters.rewritten
               part == 100 * (t - r)
               down == part \div t
               mod == part % t
    <2>1. t \in Nat /\ r \in Nat /\ r <= t
        <3>1. /\ t \in Nat /\ r \in Nat /\ Cardinality(Counted) \in Nat
              /\ r + Cardinality(Counted) <= t
            BY FS_CardinalityType DEF CountersInv, ScoreInv
        <3> HIDE DEF t, r
        <3> QED BY <3>1
    <2>2. Score = IF t = 0 THEN 100
                  ELSE IF 2 * mod > t \/ (2 * mod = t /\ down % 2 = 1) THEN down + 1 ELSE down
        BY DEF Score
    <2> HIDE DEF t, r
    <2>3. CASE t # 0
        <3>1. part \in 0 .. 100 * t
            BY <2>1
        <3> HIDE DEF part
        <3>2. down \in 0 .. 100 /\ (down = 100 => mod = 0)
            BY <2>1, <2>3, <3>1, QuotientInRange
        <3> HIDE DEF down, mod
        <3> QED BY <2>1, <2>2, <2>3, <3>2
    <2> QED BY <2>2, <2>3
<1> QED
    BY <1>1, RedisInit, RedisStep, StoredInit, StoredStep, ReplyInit, ReplyStep,
       CountersInit, CountersStep, ScoreInit, ScoreStep, PTL DEF Safety

-----------------------------------------------------------------------------
(* Types.                                                                  *)

\* What the other invariants do not say of the types.
ProcessInv ==
    /\ status \in [Sessions -> {0, 200, 500}]
    /\ restarts \in 0 .. MaxRestarts
    /\ lapsed \subseteq Sessions

\* No response, no restart and no lapsed key at first.
LEMMA ProcessInit == Init => ProcessInv
BY GatewayAssumption DEF Init, ProcessInv

\* A status is set by an end of the request, a restart counted up to its bound.
LEMMA ProcessStep == ProcessInv /\ [Next]_vars => ProcessInv'
<1> SUFFICES ASSUME ProcessInv, [Next]_vars
             PROVE  ProcessInv'
    OBVIOUS
<1> USE DEF ProcessInv
<1>1. ASSUME NEW s \in Sessions,
             \/ \E b \in Accepts[s] : Begin(s, b)
             \/ GetReturns(s) \/ SetReturns(s) \/ UpstreamAnswers(s) \/ TakeChoice(s)
             \/ Rewrite(s) \/ FinishChoice(s) \/ Audit(s)
      PROVE  UNCHANGED <<status, restarts, lapsed>>
    BY <1>1 DEF Begin, GetReturns, SetReturns, UpstreamAnswers, TakeChoice, Rewrite,
                FinishChoice, Audit, processVars
<1>2. ASSUME NEW s \in Sessions, RedisFails(s) \/ UpstreamFails(s) \/ FlushFails(s)
      PROVE  ProcessInv'
    <2>1. Raise(s) /\ UNCHANGED lapsed
        BY <1>2 DEF RedisFails, UpstreamFails, FlushFails
    <2> QED BY <2>1 DEF Raise, processVars
<1>3. ASSUME NEW s \in Sessions, FlushReturns(s)
      PROVE  ProcessInv'
    BY <1>3 DEF FlushReturns, processVars
<1>4. ASSUME NEW s \in Sessions, KeyLapses(s)
      PROVE  ProcessInv'
    BY <1>4 DEF KeyLapses, requestVars, processVars
<1>5. CASE Restart
    BY <1>5, GatewayAssumption DEF Restart
<1>6. CASE UNCHANGED <<status, restarts, lapsed>>
    BY <1>6
<1>7. UNCHANGED vars => UNCHANGED <<status, restarts, lapsed>>
    BY DEF vars, requestVars, processVars
<1> QED BY <1>1, <1>2, <1>3, <1>4, <1>5, <1>6, <1>7 DEF Next, Handler

\* The list is never longer than its limit.
LEMMA NewestLength ==
    ASSUME NEW S, NEW s \in Seq(S), NEW n \in Nat
    PROVE  Len(Newest(s, n)) <= n
<1>1. CASE Len(s) <= n
    BY <1>1 DEF Newest
<1>2. CASE Len(s) > n
    <2> DEFINE a == Len(s) - n + 1
               t == SubSeq(s, a, Len(s))
    <2>1. Newest(s, n) = t
        BY <1>2 DEF Newest
    <2>2. a \in 1 .. Len(s) + 1 /\ a <= Len(s) + 1 /\ Len(s) - a + 1 = n
        BY <1>2
    <2> HIDE DEF a
    <2>3. Len(t) = IF a <= Len(s) THEN Len(s) - a + 1 ELSE 0
        BY <2>2, SubSeqProperties
    <2> QED BY <2>1, <2>2, <2>3
<1> QED BY <1>1, <1>2

\* Every variable keeps its type and the list its limit; the counters stay natural
\* because a mapping has finitely many placeholders.
THEOREM GatewayTyped == Safety => []TypeOK
<1>1. RedisInv /\ StoredInv /\ ReplyInv /\ LogInv /\ CountersInv /\ ProcessInv => TypeOK
    <2> SUFFICES ASSUME RedisInv, StoredInv, ReplyInv, LogInv, CountersInv, ProcessInv
                 PROVE  TypeOK
        OBVIOUS
    <2>1. pc \in [Sessions -> {"idle", "get", "set", "post", "choice", "judge",
                               "flush", "done", "lost"}]
        BY DEF RedisInv, Awaits
    <2>2. body \in [Sessions -> 0 .. Len(Bodies)]
        BY DEF StoredInv, OverSessions
    <2>3. /\ rewrites \in [Sessions -> 0 .. MaxRewrites]
          /\ \A s \in Sessions : choice[s].bad \cup violations[s] \subseteq Rules
        BY DEF ReplyInv, OverSessions
    <2>4. Len(entries) <= MaxEntries
        <3> DEFINE since == SubSeq(log, booted + 1, Len(log))
        <3>1. PICK S : log \in Seq(S)
            BY DEF LogInv
        <3>2. booted \in 0 .. Len(log) /\ entries = Newest(since, MaxEntries)
            BY DEF LogInv, EndOfLog
        <3>3. since \in Seq(S)
            BY <3>1, <3>2, SubSeqProperties
        <3> HIDE DEF since
        <3> QED BY <3>2, <3>3, NewestLength, MaxEntriesAssumption
    <2>5. booted \in 0 .. Len(log)
        BY DEF LogInv
    <2> QED BY <2>1, <2>2, <2>3, <2>4, <2>5 DEF TypeOK, CountersInv, ProcessInv
<1> QED
    BY <1>1, RedisInit, RedisStep, StoredInit, StoredStep, ReplyInit, ReplyStep,
       LogInit, LogStep, CountersInit, CountersStep, ProcessInit, ProcessStep, PTL DEF Safety
=============================================================================
