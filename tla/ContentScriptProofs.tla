------------------------ MODULE ContentScriptProofs -------------------------
(***************************************************************************)
(* The invariants of ContentScript, for all keys, timers and bounds.       *)
(***************************************************************************)
EXTENDS ContentScript, SequenceTheorems, TLAPS

Flow == [stage : {"overlay", "shown"}, timer : 0 .. OverlayTime + SubmitTime]

\* The types the submissions rely on; above all the listener is registered once at
\* most, however often the shield is switched on (content.js 19-37).
TabType ==
    /\ listeners \in {0, 1}
    /\ flows \in Seq(Flow)
    /\ presses \in Nat
    /\ submitted \in Nat

-----------------------------------------------------------------------------
(* Sequences.                                                              *)

LEMMA RemoveAtLength ==
    ASSUME NEW S, NEW s \in Seq(S), NEW i \in DOMAIN s
    PROVE  RemoveAt(s, i) \in Seq(S) /\ Len(RemoveAt(s, i)) = Len(s) - 1
<1>1. i \in 1 .. Len(s) /\ Len(s) \in Nat
    OBVIOUS
<1> DEFINE before == SubSeq(s, 1, i - 1)
           after  == SubSeq(s, i + 1, Len(s))
<1>2. before \in Seq(S) /\ Len(before) = i - 1
    BY <1>1
<1>3. after \in Seq(S) /\ Len(after) = Len(s) - i
    BY <1>1
<1>4. RemoveAt(s, i) = before \o after
    BY DEF RemoveAt
<1> HIDE DEF before, after
<1> QED BY <1>1, <1>2, <1>3, <1>4

-----------------------------------------------------------------------------
(* Submissions.                                                            *)

\* With one listener at most an Enter adds one masking or one submission.
LEMMA KeyDownStep ==
    ASSUME listeners \in {0, 1}, submitted \in Nat,
           NEW pending \in Seq(Flow), KeyDown(pending)
    PROVE  /\ flows' \in Seq(Flow)
           /\ submitted' \in Nat
           /\ submitted' + Len(flows') <= submitted + Len(pending) + 1
<1> DEFINE flow == [stage |-> "overlay", timer |-> OverlayTime]
           new  == [i \in 1 .. listeners |-> flow]
<1>1. CASE listeners > 0 /\ input = "pii"
    <2>1. listeners = 1 /\ submitted' = submitted
        BY <1>1 DEF KeyDown
    <2>2. flows' = pending \o new
        BY <1>1 DEF KeyDown
    <2>3. flow \in Flow
        BY ContentScriptAssumption DEF Flow
    <2> HIDE DEF flow
    <2>4. new \in Seq(Flow) /\ Len(new) = 1
        BY <2>1, <2>3
    <2> HIDE DEF new
    <2>5. /\ pending \o new \in Seq(Flow)
          /\ Len(pending \o new) = Len(pending) + Len(new)
        BY <2>4, ConcatProperties, Zenon
    <2>6. flows' \in Seq(Flow) /\ Len(flows') = Len(pending) + 1
        BY <2>2, <2>4, <2>5
    <2> QED BY <2>1, <2>6
<1>2. CASE ~(listeners > 0 /\ input = "pii")
    <2>1. flows' = pending /\ Takes
        BY <1>2 DEF KeyDown
    <2>2. submitted' \in {submitted, submitted + 1}
        BY <1>2, <2>1 DEF Takes
    <2> QED BY <2>1, <2>2
<1> QED BY <1>1, <1>2

\* Every text the page took and every masking under way has an Enter or a click of
\* its own.
SubmissionInv == TabType /\ OnePressOneSubmission

LEMMA SubmissionStep == SubmissionInv /\ [Next]_vars => SubmissionInv'
<1> SUFFICES ASSUME SubmissionInv, [Next]_vars
             PROVE  SubmissionInv'
    OBVIOUS
<1> USE DEF SubmissionInv, TabType, OnePressOneSubmission
<1>0. Len(flows) \in Nat
    OBVIOUS
<1>1. CASE Press
    <2>1. KeyDown(flows) /\ presses' = presses + 1 /\ listeners' = listeners
        BY <1>1 DEF Press
    <2>2. /\ flows' \in Seq(Flow) /\ submitted' \in Nat
          /\ submitted' + Len(flows') <= submitted + Len(flows) + 1
        BY <2>1, KeyDownStep
    <2> QED BY <1>0, <2>1, <2>2
<1>2. CASE Click
    <2>1. submitted' \in {submitted, submitted + 1} /\ presses' = presses + 1
        BY <1>2 DEF Click, Takes
    <2> QED BY <1>0, <1>2, <2>1 DEF Click
<1>3. ASSUME NEW i \in DOMAIN flows, Submits(i)
      PROVE  SubmissionInv'
    <2> DEFINE rest == RemoveAt(flows, i)
    <2>1. rest \in Seq(Flow) /\ Len(rest) = Len(flows) - 1
        BY RemoveAtLength
    <2>2. KeyDown(rest) /\ presses' = presses /\ listeners' = listeners
        BY <1>3 DEF Submits
    <2> HIDE DEF rest
    <2>3. /\ flows' \in Seq(Flow) /\ submitted' \in Nat
          /\ submitted' + Len(flows') <= submitted + Len(rest) + 1
        BY <2>1, <2>2, KeyDownStep
    <2> QED BY <1>0, <2>1, <2>2, <2>3
<1>4. CASE Tick
    <2> DEFINE ticked(i) == [flows[i] EXCEPT !.timer = @ - 1]
    <2>1. ASSUME NEW i \in 1 .. Len(flows)
          PROVE  ticked(i) \in Flow
        <3>1. flows[i] \in Flow /\ flows[i].timer > 0
            BY <1>4 DEF Tick
        <3>2. flows[i].timer - 1 \in 0 .. OverlayTime + SubmitTime
            BY <3>1, ContentScriptAssumption DEF Flow
        <3> QED BY <3>1, <3>2 DEF Flow
    <2>2. flows' = [i \in 1 .. Len(flows) |-> ticked(i)]
        BY <1>4 DEF Tick
    <2> HIDE DEF ticked
    <2>3. flows' \in Seq(Flow) /\ Len(flows') = Len(flows)
        BY <1>0, <2>1, <2>2
    <2> QED BY <1>4, <2>3 DEF Tick
<1>5. ASSUME NEW i \in DOMAIN flows, OverlayEnds(i)
      PROVE  SubmissionInv'
    <2> DEFINE shown == [stage |-> "shown", timer |-> SubmitTime]
    <2>1. shown \in Flow
        BY ContentScriptAssumption DEF Flow
    <2>2. flows' = [flows EXCEPT ![i] = shown]
        BY <1>5 DEF OverlayEnds
    <2> HIDE DEF shown
    <2>3. flows' \in Seq(Flow) /\ Len(flows') = Len(flows)
        BY <2>1, <2>2
    <2> QED BY <1>5, <2>3 DEF OverlayEnds
<1>6. CASE Loads \/ Changed
    BY <1>6 DEF Loads, Changed, Listen
<1>7. CASE UNCHANGED <<listeners, flows, presses, submitted>>
    BY <1>7 DEF SubmissionInv
<1> QED
    BY <1>1, <1>2, <1>3, <1>4, <1>5, <1>6, <1>7 DEF Next, vars, tabVars, Types

LEMMA SubmissionsHold == Spec => []SubmissionInv
<1>1. ASSUME Init
      PROVE  SubmissionInv
    <2>1. listeners = 0 /\ flows = <<>> /\ presses = 0 /\ submitted = 0
        BY <1>1 DEF Init
    <2>2. flows \in Seq(Flow) /\ Len(flows) = 0
        BY <2>1
    <2> QED
        BY <2>1, <2>2 DEF SubmissionInv, TabType, OnePressOneSubmission
<1> QED BY <1>1, SubmissionStep, PTL DEF Spec

\* For any number of Enters and clicks and any timers: the page takes at most one
\* text for each (content.js 53-67, 129-132).
THEOREM OneSubmissionPerPress == Spec => []OnePressOneSubmission
BY SubmissionsHold, PTL DEF SubmissionInv

-----------------------------------------------------------------------------
(* The counter.                                                            *)

Storage == [key : Keys \cup {NoKey}, active : BOOLEAN, pii : Nat]

CountType == storage \in Storage /\ counting \in Seq(Events) /\ reported \in Nat

\* An event under way adds to what was reported before it, and the ones after it come
\* on top; neither the counter nor what any of them has read is ahead of that.
InOrder ==
    /\ storage.pii <= reported
    /\ \A i \in DOMAIN counting :
        /\ storage.pii <= counting[i].before
        /\ counting[i].before + counting[i].count <= reported
        /\ counting[i].read # Unread => counting[i].read <= counting[i].before
        /\ \A j \in DOMAIN counting :
            i < j => counting[i].before + counting[i].count <= counting[j].before

\* If nothing overlapped or failed, there is one event under way at most, and the
\* counter lacks that one only.
Complete ==
    /\ Len(counting) <= 1
    /\ Len(counting) = 0 => storage.pii = reported
    /\ Len(counting) = 1 => /\ storage.pii + counting[1].count = reported
                           /\ counting[1].read \in {Unread, storage.pii}

CountInv == CountType /\ (reset \/ (InOrder /\ (lossy \/ Complete)))

\* What is written to the storage by the popup and by a validation is not the count.
LEMMA PutKeepsCount ==
    ASSUME storage \in Storage, NEW key \in Keys \cup {NoKey}, NEW active \in BOOLEAN,
           \/ PutOrFail([storage EXCEPT !.key = key, !.active = active])
           \/ PutOrFail([storage EXCEPT !.active = active])
    PROVE  storage' \in Storage /\ storage'.pii = storage.pii
BY DEF Storage, PutOrFail, Put, PutFails

\* A set of the count leaves the storage a storage.
LEMMA CountTyped ==
    ASSUME NEW st \in Storage, NEW n \in Nat
    PROVE  [st EXCEPT !.pii = n] \in Storage /\ [st EXCEPT !.pii = n].pii = n
BY DEF Storage

\* An event reads the counter.
LEMMA CountReadsStep == CountInv /\ CountReads => CountInv'
<1> SUFFICES ASSUME CountInv, CountReads
             PROVE  CountInv'
    OBVIOUS
<1>1. PICK k \in DOMAIN counting :
        /\ counting[k].read = Unread
        /\ counting' = [counting EXCEPT ![k] = [@ EXCEPT !.read = storage.pii]]
    BY DEF CountReads, FirstReads
<1>2. UNCHANGED <<storage, reported, lossy, reset>>
    BY DEF CountReads
<1>3. storage.pii \in Nat /\ counting \in Seq(Events)
    BY DEF CountInv, CountType, Storage
<1> DEFINE new == [counting[k] EXCEPT !.read = storage.pii]
<1>4. /\ new \in Events
      /\ new.count = counting[k].count /\ new.before = counting[k].before
      /\ new.read = storage.pii
    <2>1. counting[k] \in Events
        BY <1>3
    <2> QED BY <1>3, <2>1 DEF Events
<1>5. counting' = [counting EXCEPT ![k] = new]
    BY <1>1
<1> HIDE DEF new
<1>6. /\ counting' \in Seq(Events) /\ Len(counting') = Len(counting)
      /\ DOMAIN counting' = DOMAIN counting
      /\ \A i \in DOMAIN counting : counting'[i] = IF i = k THEN new ELSE counting[i]
    BY <1>3, <1>4, <1>5
<1>7. /\ \A i \in DOMAIN counting :
            /\ counting'[i].count = counting[i].count
            /\ counting'[i].before = counting[i].before
            /\ counting'[i].read = counting[i].read \/ counting'[i].read = storage.pii
    BY <1>4, <1>6
<1>8. InOrder => InOrder'
    BY <1>2, <1>6, <1>7 DEF InOrder
<1>9. Complete => Complete'
    <2> SUFFICES ASSUME Complete
                 PROVE  Complete'
        OBVIOUS
    <2>1. k \in 1 .. Len(counting) /\ Len(counting) \in Nat
        BY <1>3
    <2>2. Len(counting) = 1 /\ Len(counting') = 1 /\ 1 \in DOMAIN counting
        BY <1>3, <1>6, <2>1 DEF Complete
    <2>3. /\ counting'[1].count = counting[1].count
          /\ counting'[1].read = counting[1].read \/ counting'[1].read = storage.pii
        BY <1>7, <2>2
    <2> QED BY <1>2, <2>2, <2>3 DEF Complete
<1> QED BY <1>2, <1>6, <1>8, <1>9 DEF CountInv, CountType

\* The first event writes what it read and what it counts, or does not.
LEMMA CountSetsStep == CountInv /\ CountSets => CountInv'
<1> SUFFICES ASSUME CountInv, CountSets
             PROVE  CountInv'
    OBVIOUS
<1> DEFINE first == Head(counting)
           n == first.read + first.count
<1>1. /\ counting # <<>> /\ first.read # Unread
      /\ \/ Put([storage EXCEPT !.pii = n]) /\ lossy' = lossy
         \/ UNCHANGED storage /\ lossy' = TRUE
      /\ counting' = Tail(counting)
      /\ UNCHANGED <<reported, reset>>
    BY DEF CountSets, PutFails
<1>2. counting \in Seq(Events) /\ storage \in Storage /\ storage.pii \in Nat
      /\ reported \in Nat
    BY DEF CountInv, CountType, Storage
<1>3. /\ first = counting[1] /\ 1 \in DOMAIN counting
      /\ first \in Events
    BY <1>1, <1>2
<1>4. first.count \in Nat /\ first.read \in Nat /\ first.before \in Nat
    BY <1>1, <1>3, ExtensionStorageAssumption DEF Events
<1>5. n \in Nat
    BY <1>4
<1>6. /\ counting' \in Seq(Events) /\ Len(counting') = Len(counting) - 1
      /\ \A i \in DOMAIN counting' : /\ counting'[i] = counting[i + 1]
                                     /\ i + 1 \in DOMAIN counting
                                     /\ counting[i + 1] \in Events
    BY <1>1, <1>2
<1>7. /\ storage' \in Storage
      /\ \/ storage'.pii = n /\ lossy' = lossy
         \/ storage' = storage /\ lossy' = TRUE
    <2>1. CASE Put([storage EXCEPT !.pii = n]) /\ lossy' = lossy
        <3>1. storage' = [storage EXCEPT !.pii = n]
            BY <2>1 DEF Put
        <3>2. /\ [storage EXCEPT !.pii = n] \in Storage
              /\ [storage EXCEPT !.pii = n].pii = n
            <4> HIDE DEF n
            <4> QED BY <1>2, <1>5, CountTyped
        <3> QED BY <2>1, <3>1, <3>2, Zenon
    <2> QED BY <1>1, <1>2, <2>1
<1>8. storage'.pii = n \/ storage'.pii = storage.pii
    BY <1>7
<1>9. InOrder => InOrder'
    <2> SUFFICES ASSUME InOrder
                 PROVE  InOrder'
        OBVIOUS
    <2>1. n <= first.before + first.count /\ first.before + first.count <= reported
        BY <1>1, <1>3, <1>4 DEF InOrder
    <2>2. storage'.pii <= reported'
        BY <1>1, <1>2, <1>4, <1>8, <2>1 DEF InOrder
    <2>3. ASSUME NEW i \in DOMAIN counting'
          PROVE  /\ storage'.pii <= counting'[i].before
                 /\ counting'[i].before + counting'[i].count <= reported'
                 /\ counting'[i].read # Unread
                        => counting'[i].read <= counting'[i].before
                 /\ \A j \in DOMAIN counting' : i < j =>
                        counting'[i].before + counting'[i].count <= counting'[j].before
        <3>1. i \in Nat \ {0} /\ 1 < i + 1
            BY <1>6
        <3>2. counting[i + 1].before \in Nat
            BY <1>6 DEF Events
        <3>3. first.before + first.count <= counting[i + 1].before
            BY <1>3, <1>6, <3>1 DEF InOrder
        <3>4. storage'.pii <= counting'[i].before
            <4>1. storage.pii <= counting[i + 1].before
                BY <1>6 DEF InOrder
            <4>2. n <= counting[i + 1].before
                BY <1>4, <1>5, <2>1, <3>2, <3>3
            <4> QED BY <1>6, <1>8, <4>1, <4>2
        <3>5. \A j \in DOMAIN counting' : i < j => i + 1 < j + 1
            BY <1>6
        <3> QED BY <1>1, <1>6, <3>4, <3>5 DEF InOrder
    <2> QED BY <2>2, <2>3 DEF InOrder
<1>10. Complete /\ ~lossy' => Complete'
    <2> SUFFICES ASSUME Complete, ~lossy'
                 PROVE  Complete'
        OBVIOUS
    <2>1. Len(counting) \in Nat \ {0}
        BY <1>1, <1>2
    <2>2. Len(counting) = 1 /\ Len(counting') = 0
        BY <1>6, <2>1 DEF Complete
    <2>3. storage'.pii = n
        BY <1>7
    <2>4. n = reported
        <3>1. first.read = storage.pii /\ storage.pii + first.count = reported
            BY <1>1, <1>3, <2>2 DEF Complete
        <3> QED BY <3>1
    <2>5. storage'.pii = reported'
        BY <1>1, <2>3, <2>4
    <2> HIDE DEF n, first
    <2> QED BY <2>2, <2>5 DEF Complete
<1>11. lossy => lossy'
    BY <1>7, Zenon
<1> QED BY <1>1, <1>2, <1>6, <1>7, <1>9, <1>10, <1>11 DEF CountInv, CountType

\* A new event adds to everything reported so far.
LEMMA ReportStep ==
    ASSUME CountInv, storage' = storage, NEW n \in Counts, Report(n)
    PROVE  CountInv'
<1> DEFINE new == [count |-> n, read |-> Unread, before |-> reported]
<1>1. /\ counting' = Append(counting, new) /\ reported' = reported + n
      /\ lossy' = (lossy \/ counting # <<>>) /\ reset' = reset
    BY DEF Report
<1>2. /\ counting \in Seq(Events) /\ storage \in Storage
      /\ storage.pii \in Nat /\ reported \in Nat /\ n \in Nat
    BY ExtensionStorageAssumption DEF CountInv, CountType, Storage
<1>3. /\ new \in Events /\ new.count = n /\ new.read = Unread
      /\ new.before = reported
    BY <1>2 DEF Events
<1> HIDE DEF new
<1>4. /\ counting' \in Seq(Events) /\ Len(counting') = Len(counting) + 1
      /\ counting'[Len(counting) + 1] = new
      /\ \A i \in DOMAIN counting : counting'[i] = counting[i]
      /\ DOMAIN counting' = DOMAIN counting \cup {Len(counting) + 1}
      /\ \A i \in DOMAIN counting : i < Len(counting) + 1 /\ counting[i] \in Events
    BY <1>1, <1>2, <1>3
<1>5. InOrder => InOrder'
    <2> SUFFICES ASSUME InOrder
                 PROVE  InOrder'
        OBVIOUS
    <2>1. storage'.pii <= reported'
        BY <1>1, <1>2 DEF InOrder
    <2>2. ASSUME NEW i \in DOMAIN counting
          PROVE  /\ counting[i].before \in Nat /\ counting[i].count \in Nat
                 /\ counting[i].before + counting[i].count <= reported
        BY <1>4, ExtensionStorageAssumption DEF InOrder, Events
    <2>3. ASSUME NEW i \in DOMAIN counting'
          PROVE  /\ storage'.pii <= counting'[i].before
                 /\ counting'[i].before + counting'[i].count <= reported'
                 /\ counting'[i].read # Unread
                        => counting'[i].read <= counting'[i].before
                 /\ \A j \in DOMAIN counting' : i < j =>
                        counting'[i].before + counting'[i].count <= counting'[j].before
        <3>1. CASE i \in DOMAIN counting
            <4>1. counting'[i] = counting[i]
                BY <1>4, <3>1
            <4>2. \A j \in DOMAIN counting' :
                    \/ j \in DOMAIN counting /\ counting'[j] = counting[j]
                    \/ counting'[j].before = reported
                BY <1>3, <1>4
            <4>3. counting[i].before + counting[i].count <= reported'
                BY <1>1, <1>2, <2>2, <3>1
            <4> QED BY <2>2, <3>1, <4>1, <4>2, <4>3 DEF InOrder
        <3>2. CASE i = Len(counting) + 1
            <4>1. counting'[i] = new
                BY <1>4, <3>2
            <4>2. \A j \in DOMAIN counting' : ~(i < j)
                BY <1>2, <1>4, <3>2
            <4> QED BY <1>1, <1>2, <1>3, <4>1, <4>2 DEF InOrder
        <3> QED BY <1>4, <3>1, <3>2
    <2> QED BY <2>1, <2>3 DEF InOrder
<1>6. Complete /\ ~lossy' => Complete'
    <2> SUFFICES ASSUME Complete, ~lossy'
                 PROVE  Complete'
        OBVIOUS
    <2>1. counting = <<>> /\ Len(counting) = 0
        BY <1>1
    <2>2. Len(counting') = 1 /\ counting'[1] = new
        BY <1>4, <2>1
    <2>3. storage.pii + n = reported'
        BY <1>1, <2>1 DEF Complete
    <2>4. storage'.pii + counting'[1].count = reported' /\ counting'[1].read = Unread
        BY <1>3, <2>2, <2>3
    <2> QED BY <2>2, <2>4 DEF Complete
<1>7. lossy => lossy'
    BY <1>1, Zenon
<1>8. CountType'
    BY <1>1, <1>2, <1>4 DEF CountType
<1> QED BY <1>1, <1>5, <1>6, <1>7, <1>8 DEF CountInv

LEMMA CountStep == CountInv /\ [Next]_vars => CountInv'
<1> SUFFICES ASSUME CountInv, [Next]_vars
             PROVE  CountInv'
    OBVIOUS
<1>1. CASE CountReads
    BY <1>1, CountReadsStep
<1>2. CASE CountSets
    BY <1>2, CountSetsStep
<1>3. CASE InstallSets
    <2>1. CASE UNCHANGED <<storage, countVars>>
        BY <2>1 DEF CountInv, CountType, InOrder, Complete, countVars
    <2>2. CASE /\ Put([storage EXCEPT !.active = FALSE, !.pii = 0])
               /\ reported' = 0 /\ UNCHANGED <<counting, lossy>>
               /\ reset' = (reset \/ counting # <<>>)
        <3>1. storage' = [storage EXCEPT !.active = FALSE, !.pii = 0]
            BY <2>2 DEF Put
        <3>2. storage' \in Storage /\ storage'.pii = 0
            BY <3>1 DEF CountInv, CountType, Storage
        <3>3. CountType'
            BY <2>2, <3>2 DEF CountInv, CountType
        <3>4. counting = <<>> => InOrder' /\ Complete'
            BY <2>2, <3>2 DEF InOrder, Complete
        <3>5. reset' \/ counting = <<>>
            BY <2>2, Zenon
        <3> QED BY <3>3, <3>4, <3>5, Zenon DEF CountInv
    <2> QED BY <1>3, <2>1, <2>2 DEF InstallSets, PutFails, countVars
<1>4. ASSUME NEW i \in DOMAIN flows, OverlayEnds(i)
      PROVE  CountInv'
    <2>1. storage' = storage /\ \E n \in Counts : Report(n)
        BY <1>4 DEF OverlayEnds
    <2> QED BY <2>1, ReportStep
<1>5. CASE UNCHANGED <<storage, countVars>>
    BY <1>5 DEF CountInv, CountType, InOrder, Complete, countVars
<1>6. ASSUME UNCHANGED countVars,
             Deactivate \/ ToggleSets \/ \E key \in Keys : KeyValid(key)
      PROVE  CountInv'
    <2>1. storage \in Storage
        BY DEF CountInv, CountType
    <2>2. storage' \in Storage /\ storage'.pii = storage.pii
        <3>1. CASE Deactivate
            BY <2>1, <3>1, PutKeepsCount DEF Deactivate
        <3>2. CASE ToggleSets
            BY <2>1, <3>2, PutKeepsCount DEF ToggleSets
        <3>3. ASSUME NEW key \in Keys, KeyValid(key)
              PROVE  storage' \in Storage /\ storage'.pii = storage.pii
            BY <2>1, <3>3, PutKeepsCount DEF KeyValid
        <3> QED BY <1>6, <3>1, <3>2, <3>3
    <2> QED BY <1>6, <2>2 DEF CountInv, CountType, InOrder, Complete, countVars
<1>7. CASE StorageNext
    BY <1>1, <1>2, <1>3, <1>5, <1>6, <1>7
       DEF StorageNext, PopupOpens, PopupCloses, Deactivate, ToggleReads, ToggleSets,
           Activate, KeyValid, KeyInvalid, InstallReads
<1>8. CASE Loads \/ Changed \/ Types \/ Press \/ Click \/ Tick \/ UNCHANGED vars
    BY <1>5, <1>8 DEF Loads, Changed, Types, Press, Click, Tick, vars, storageVars
<1>9. ASSUME NEW i \in DOMAIN flows, Submits(i)
      PROVE  CountInv'
    BY <1>5, <1>9 DEF Submits, storageVars
<1> QED BY <1>4, <1>7, <1>8, <1>9 DEF Next

LEMMA CountsHold == Spec => []CountInv
<1>1. ASSUME Init
      PROVE  CountInv
    <2>1. PICK key \in Keys \cup {NoKey} :
            storage = [key |-> key, active |-> key # NoKey, pii |-> 0]
        BY <1>1 DEF Init, StorageInit
    <2>2. counting = <<>> /\ reported = 0
        BY <1>1 DEF Init, StorageInit
    <2>3. storage \in Storage /\ storage.pii = 0
        BY <2>1 DEF Storage
    <2> QED BY <2>2, <2>3 DEF CountInv, CountType, InOrder, Complete
<1> QED BY <1>1, CountStep, PTL DEF Spec

\* The badge never counts more than was masked, for any number and size of events and
\* any order of their reads, writes and failures, and counts everything unless two of
\* them overlap, or a write fails, in the service worker (background.js 25-31).
THEOREM EventsCounted == Spec => []CountsEvents
<1>1. CountInv => CountsEvents
    BY DEF CountInv, InOrder, Complete, CountsEvents
<1> QED BY <1>1, CountsHold, PTL

-----------------------------------------------------------------------------
(* Types.                                                                  *)

\* What the other invariants do not say of the types.
RestTyped ==
    /\ changes \in Seq(BOOLEAN) /\ Len(changes) <= MaxChanges
    /\ popup \in {"closed", "active", "inactive"}
    /\ validating \subseteq Keys
    /\ toggling \in SUBSET BOOLEAN
    /\ installing \in {"due", "read", "done"}
    /\ lossy \in BOOLEAN /\ reset \in BOOLEAN
    /\ input \in {"", "clean", "pii"}
    /\ presses \in 0 .. MaxPresses

\* At most the new value is notified.
LEMMA PutTyped ==
    ASSUME RestTyped, NEW new \in Storage, PutOrFail(new)
    PROVE  changes' \in Seq(BOOLEAN) /\ Len(changes') <= MaxChanges
<1>1. changes \in Seq(BOOLEAN) /\ Len(changes) <= MaxChanges
    BY Zenon DEF RestTyped
<1>2. new.active \in BOOLEAN
    BY DEF Storage
<1>3. Append(changes, new.active) \in Seq(BOOLEAN)
    BY <1>1, <1>2, AppendProperties, Zenon
<1>4. CASE PutFails
    BY <1>1, <1>4 DEF PutFails
<1>5. CASE Put(new)
    <2>1. /\ changes' = changes \/ changes' = Append(changes, new.active)
          /\ Len(changes') <= MaxChanges
        BY <1>5 DEF Put
    <2> QED BY <1>1, <1>3, <2>1, Zenon
<1> QED BY <1>4, <1>5 DEF PutOrFail

LEMMA RestStep == CountInv /\ RestTyped /\ [Next]_vars => RestTyped'
<1> SUFFICES ASSUME CountInv, RestTyped, [Next]_vars
             PROVE  RestTyped'
    OBVIOUS
<1>1. CASE UNCHANGED <<changes, licenseVars, lossy, reset, input, presses>>
    BY <1>1 DEF RestTyped, licenseVars
<1>2. CASE Loads \/ Tick \/ UNCHANGED vars
    BY <1>1, <1>2 DEF Loads, Tick, vars, storageVars, countVars, tabVars
<1>3. CASE Changed
    <2>1. /\ changes # <<>> /\ changes' = Tail(changes)
          /\ UNCHANGED <<licenseVars, lossy, reset, input, presses>>
        BY <1>3 DEF Changed, countVars
    <2>2. changes \in Seq(BOOLEAN) /\ Len(changes) <= MaxChanges
        BY Zenon DEF RestTyped
    <2>3. Tail(changes) \in Seq(BOOLEAN) /\ Len(Tail(changes)) <= Len(changes)
        <3> DEFINE S == BOOLEAN
        <3>1. changes \in Seq(S)
            BY <2>2
        <3> HIDE DEF S
        <3>2. Tail(changes) \in Seq(S) /\ Len(Tail(changes)) <= Len(changes)
            BY <2>1, <3>1
        <3> QED BY <3>2 DEF S
    <2>4. Len(changes') <= MaxChanges
        <3>1. Len(changes) \in Nat /\ Len(Tail(changes)) \in Nat
            BY <2>2, <2>3, LenProperties, Zenon
        <3> QED BY <2>1, <2>2, <2>3, <3>1, ExtensionStorageAssumption
    <2> QED BY <2>1, <2>3, <2>4 DEF RestTyped, licenseVars
<1>4. CASE Types
    BY <1>4 DEF Types, WithPII, RestTyped, storageVars, countVars, licenseVars
<1>5. CASE Press \/ Click
    <2>1. presses' \in 0 .. MaxPresses
        <3>1. presses < MaxPresses /\ presses' = presses + 1 /\ presses \in 0 .. MaxPresses
            BY <1>5 DEF Press, Click, RestTyped
        <3>2. MaxPresses \in Nat
            BY ContentScriptAssumption
        <3> QED BY ONLY <3>1, <3>2
    <2>2. input' \in {"", "clean", "pii"}
        BY <1>5 DEF Press, Click, KeyDown, Takes, RestTyped
    <2>3. UNCHANGED <<changes, licenseVars, lossy, reset>>
        BY <1>5 DEF Press, Click, storageVars, countVars
    <2> QED BY <2>1, <2>2, <2>3 DEF RestTyped, licenseVars
<1>6. ASSUME NEW i \in DOMAIN flows, OverlayEnds(i)
      PROVE  RestTyped'
    <2>1. /\ input' \in {"clean", "pii"}
          /\ lossy' = (lossy \/ counting # <<>>) /\ reset' = reset
        BY <1>6 DEF OverlayEnds, MaskedText, WithPII, Report
    <2> QED BY <1>6, <2>1 DEF OverlayEnds, RestTyped, licenseVars
<1>7. ASSUME NEW i \in DOMAIN flows, Submits(i)
      PROVE  RestTyped'
    <2>1. input' \in {"", "clean", "pii"}
        BY <1>7 DEF Submits, KeyDown, Takes, RestTyped
    <2>2. UNCHANGED <<changes, licenseVars, lossy, reset, presses>>
        BY <1>7 DEF Submits, storageVars, countVars
    <2> QED BY <2>1, <2>2 DEF RestTyped, licenseVars
\* What the popup and the service worker set is a record of the storage.
<1>8. storage \in Storage
    BY DEF CountInv, CountType
<1>9. ASSUME StorageNext, UNCHANGED tabVars
      PROVE  RestTyped'
    <2>1. UNCHANGED <<input, presses>>
        BY <1>9 DEF tabVars
    <2>2. ASSUME PopupOpens \/ PopupCloses \/ InstallReads \/ CountReads
          PROVE  RestTyped'
        BY <2>1, <2>2 DEF PopupOpens, PopupCloses, InstallReads, CountReads,
                          RestTyped, countVars, licenseVars
    <2>3. ASSUME ToggleReads
          PROVE  RestTyped'
        <3>1. storage.active \in BOOLEAN
            BY <1>8 DEF Storage
        <3> QED BY <2>1, <2>3, <3>1 DEF ToggleReads, RestTyped, countVars
    <2>4. ASSUME NEW key \in Keys, Activate(key) \/ KeyInvalid(key)
          PROVE  RestTyped'
        BY <2>1, <2>4 DEF Activate, KeyInvalid, RestTyped, countVars
    <2>5. ASSUME Deactivate
          PROVE  RestTyped'
        <3>1. [storage EXCEPT !.key = NoKey, !.active = FALSE] \in Storage
            BY <1>8 DEF Storage
        <3>2. changes' \in Seq(BOOLEAN) /\ Len(changes') <= MaxChanges
            BY <2>5, <3>1, PutTyped DEF Deactivate
        <3> QED BY <2>1, <2>5, <3>2 DEF Deactivate, RestTyped, countVars
    <2>6. ASSUME ToggleSets
          PROVE  RestTyped'
        <3>1. PICK active \in toggling : PutOrFail([storage EXCEPT !.active = ~active])
            BY <2>6 DEF ToggleSets
        <3>2. [storage EXCEPT !.active = ~active] \in Storage
            BY <1>8 DEF Storage
        <3>3. changes' \in Seq(BOOLEAN) /\ Len(changes') <= MaxChanges
            BY <3>1, <3>2, PutTyped
        <3> QED BY <2>1, <2>6, <3>3 DEF ToggleSets, RestTyped, countVars
    <2>7. ASSUME NEW key \in Keys, KeyValid(key)
          PROVE  RestTyped'
        <3>1. [storage EXCEPT !.key = key, !.active = TRUE] \in Storage
            BY <1>8 DEF Storage
        <3>2. changes' \in Seq(BOOLEAN) /\ Len(changes') <= MaxChanges
            BY <2>7, <3>1, PutTyped DEF KeyValid
        <3> QED BY <2>1, <2>7, <3>2 DEF KeyValid, RestTyped, countVars
    <2>8. ASSUME InstallSets
          PROVE  RestTyped'
        <3>1. [storage EXCEPT !.active = FALSE, !.pii = 0] \in Storage
            BY <1>8 DEF Storage
        <3>2. PutOrFail([storage EXCEPT !.active = FALSE, !.pii = 0])
            BY <2>8 DEF InstallSets, PutOrFail
        <3>3. changes' \in Seq(BOOLEAN) /\ Len(changes') <= MaxChanges
            BY <3>1, <3>2, PutTyped
        <3>4. reset' \in BOOLEAN /\ lossy' = lossy
            BY <2>8 DEF InstallSets, RestTyped
        <3> QED BY <2>1, <2>8, <3>3, <3>4 DEF InstallSets, RestTyped
    <2>9. ASSUME CountSets
          PROVE  RestTyped'
        <3> DEFINE n == Head(counting).read + Head(counting).count
        <3>1. PutOrFail([storage EXCEPT !.pii = n])
            BY <2>9 DEF CountSets, PutOrFail
        <3>2. n \in Nat
            <4>1. counting \in Seq(Events) /\ counting # <<>>
                BY <2>9 DEF CountSets, CountInv, CountType
            <4>2. Head(counting) \in Events
                BY <4>1
            <4>3. Head(counting).read # Unread
                BY <2>9 DEF CountSets
            <4>4. Head(counting).read \in Nat /\ Head(counting).count \in Counts
                BY <4>2, <4>3 DEF Events
            <4>5. Head(counting).count \in Nat
                BY <4>4, ExtensionStorageAssumption
            <4> QED BY <4>4, <4>5
        <3> HIDE DEF n
        <3>3. [storage EXCEPT !.pii = n] \in Storage
            BY <1>8, <3>2, CountTyped
        <3>4. changes' \in Seq(BOOLEAN) /\ Len(changes') <= MaxChanges
            BY <3>1, <3>3, PutTyped
        <3>5. lossy' \in BOOLEAN /\ reset' = reset
            BY <2>9 DEF CountSets, RestTyped
        <3> QED BY <2>1, <2>9, <3>4, <3>5 DEF CountSets, RestTyped, licenseVars
    <2> QED BY <1>9, <2>2, <2>3, <2>4, <2>5, <2>6, <2>7, <2>8, <2>9 DEF StorageNext
<1> QED BY <1>2, <1>3, <1>4, <1>5, <1>6, <1>7, <1>9 DEF Next

\* Every variable of the extension keeps its type: a listener is registered once at
\* most, a timer never runs past zero, and what a set writes is a storage again.
THEOREM ExtensionTyped == Spec => []TypeOK
<1>1. ASSUME Init
      PROVE  RestTyped
    <2>1. /\ popup = "closed" /\ validating = {} /\ toggling = {}
          /\ installing \in {"due", "done"}
          /\ lossy = FALSE /\ reset = FALSE
          /\ changes = <<>> /\ input = "" /\ presses = 0
        BY <1>1 DEF Init, StorageInit
    <2>2. changes \in Seq(BOOLEAN)
        BY <2>1, EmptySeq, Zenon
    <2>3. Len(changes) = 0 /\ MaxChanges \in Nat /\ MaxPresses \in Nat
        BY <2>1, ExtensionStorageAssumption, ContentScriptAssumption
    <2>4. Len(changes) <= MaxChanges
        BY <2>3
    <2>5. presses \in 0 .. MaxPresses
        <3>1. presses = 0
            BY <2>1
        <3> QED BY <2>3, <3>1
    <2> QED BY <2>1, <2>2, <2>4, <2>5 DEF RestTyped
<1>2. SubmissionInv /\ CountInv /\ RestTyped => TypeOK
    <2> SUFFICES ASSUME SubmissionInv, CountInv, RestTyped
                 PROVE  TypeOK
        OBVIOUS
    <2>1. StorageTypeOK
        BY DEF StorageTypeOK, CountInv, CountType, Storage, RestTyped
    <2>2. \A i \in DOMAIN flows : flows[i] \in Flow
        BY DEF SubmissionInv, TabType
    <2>3. \A i \in DOMAIN flows : /\ flows[i].stage \in {"overlay", "shown"}
                                  /\ flows[i].timer \in 0 .. OverlayTime + SubmitTime
        BY <2>2 DEF Flow
    <2>4. listeners \in 0 .. 1 /\ submitted \in Nat
        BY DEF SubmissionInv, TabType
    <2> QED BY <2>1, <2>3, <2>4 DEF TypeOK, RestTyped
<1> QED
    BY <1>1, <1>2, SubmissionsHold, CountsHold, RestStep, PTL DEF Spec
=============================================================================
