--------------------------- MODULE ContentScript ----------------------------
(***************************************************************************)
(* The content script of the Chrome extension (chrome-extension/           *)
(* content.js) in one tab, with the storage it listens to.  The input is   *)
(* "" or holds a text in which PII is recognized ("pii") or not ("clean"). *)
(* Time goes in ticks: OverlayTime for the overlay, SubmitTime until the   *)
(* submission; a timer that is due runs before the next tick.              *)
(***************************************************************************)
EXTENDS ExtensionStorage

CONSTANTS
    OverlayTime, SubmitTime,    \* 800 and 1500 ms, in ticks
    MaxPresses,     \* bound on Enters and clicks, in the guards of Press and Click
    MaxReports      \* bound on the matches reported, in the guard of WithPII

ASSUME ContentScriptAssumption ==
    {OverlayTime, SubmitTime, MaxPresses, MaxReports} \subseteq Nat \ {0}

VARIABLES
    loaded,     \* whether the answer of the first get has come
    listeners,  \* how often onKeyDown is registered
    input,      \* what the input holds
    flows,      \* maskings under way: their stage and their timer
    presses,    \* Enters of the user, and clicks on the Send button of the page
    submitted   \* how many texts the page took, for observation only

tabVars == <<loaded, listeners, input, flows, presses, submitted>>
vars == <<storageVars, tabVars>>

TypeOK ==
    /\ StorageTypeOK
    /\ listeners \in 0 .. 1
    /\ input \in {"", "clean", "pii"}
    /\ \A i \in DOMAIN flows : /\ flows[i].stage \in {"overlay", "shown"}
                               /\ flows[i].timer \in 0 .. OverlayTime + SubmitTime
    /\ presses \in 0 .. MaxPresses
    /\ submitted \in Nat

Init ==
    /\ StorageInit
    /\ loaded = FALSE /\ listeners = 0
    /\ input = "" /\ flows = <<>> /\ presses = 0
    /\ submitted = 0

-----------------------------------------------------------------------------
(* Activation.                                                             *)

\* A mistake to be caught: each activation registers another listener.
ListenAgain(active) == listeners' = IF active THEN listeners + 1 ELSE listeners

\* init, when the shield is active.  The same function is registered once only,
\* and never removed.
Listen(active) == listeners' = IF active THEN 1 ELSE listeners

\* The first get is answered, after what was notified before it and before what
\* is notified later.
Loads ==
    /\ ~loaded /\ changes = <<>>
    /\ loaded' = TRUE
    /\ Listen(storage.active)
    /\ UNCHANGED <<storageVars, input, flows, presses, submitted>>

\* A mistake to be caught: a change is noted but nothing is registered.
ChangedNoted ==
    /\ changes # <<>>
    /\ changes' = Tail(changes)
    /\ UNCHANGED <<storage, licenseVars, countVars, tabVars>>

\* The listener of onChanged.
Changed ==
    /\ changes # <<>>
    /\ Listen(Head(changes))
    /\ changes' = Tail(changes)
    /\ UNCHANGED <<storage, licenseVars, countVars, loaded, input, flows, presses,
                   submitted>>

-----------------------------------------------------------------------------
(* Masking.                                                                *)

WithPII(n) == IF n < MaxReports THEN {"pii"} ELSE {}

\* The user writes into the input, also while a masking is under way.
Types ==
    /\ input' \in ({"clean"} \cup WithPII(reported)) \ {input}
    /\ UNCHANGED <<storageVars, loaded, listeners, flows, presses, submitted>>

\* The page takes what the input holds.
Takes ==
    /\ submitted' = IF input = "" THEN submitted ELSE submitted + 1
    /\ input' = ""

\* An Enter, with the maskings under way that stay so.  Each listener stops it and
\* starts a masking when it finds PII; else the page takes what the input holds.
KeyDown(pending) ==
    IF listeners > 0 /\ input = "pii"
    THEN /\ flows' = pending \o [i \in 1 .. listeners |->
                         [stage |-> "overlay", timer |-> OverlayTime]]
         /\ UNCHANGED <<input, submitted>>
    ELSE flows' = pending /\ Takes

Press ==
    /\ presses < MaxPresses
    /\ presses' = presses + 1
    /\ KeyDown(flows)
    /\ UNCHANGED <<storageVars, loaded, listeners>>

\* The Send button of the page, which nothing listens to.
Click ==
    /\ presses < MaxPresses
    /\ presses' = presses + 1
    /\ Takes
    /\ UNCHANGED <<storageVars, loaded, listeners, flows>>

\* maskText replaces what was found, the first occurrence of each; of another
\* word that contains it something may be left.
MaskedText(n) == {"clean"} \cup WithPII(reported + n)

\* The overlay ends: the input is overwritten with the masked text.
OverlayEnds(i) ==
    /\ flows[i].stage = "overlay" /\ flows[i].timer = 0
    /\ flows' = [flows EXCEPT ![i] = [stage |-> "shown", timer |-> SubmitTime]]
    /\ \E n \in Counts : Report(n) /\ input' \in MaskedText(n)
    /\ UNCHANGED <<storage, changes, licenseVars, loaded, listeners, presses, submitted>>

\* simulateEnter, whatever the input holds by now.
Submits(i) ==
    /\ flows[i].stage = "shown" /\ flows[i].timer = 0
    /\ KeyDown(RemoveAt(flows, i))
    /\ UNCHANGED <<storageVars, loaded, listeners, presses>>

Tick ==
    /\ flows # <<>>
    /\ \A i \in DOMAIN flows : flows[i].timer > 0
    /\ flows' = [i \in DOMAIN flows |-> [flows[i] EXCEPT !.timer = @ - 1]]
    /\ UNCHANGED <<storageVars, loaded, listeners, input, presses, submitted>>

Next ==
    \/ StorageNext /\ UNCHANGED tabVars
    \/ Loads \/ Changed \/ Types \/ Press \/ Click \/ Tick
    \/ \E i \in DOMAIN flows : OverlayEnds(i) \/ Submits(i)

\* The browser answers the first get and delivers notifications; nothing is
\* assumed of the user.
Spec == Init /\ [][Next]_vars /\ WF_vars(Loads) /\ WF_vars(Changed)

-----------------------------------------------------------------------------
\* An Enter or a click submits one text at most, now or later, however often the
\* shield was switched off and on (content.js 19-37, 53-67, 129-132): what a timer
\* submits has an Enter of its own, though the masked text may have been sent by a
\* click or another Enter before, or been replaced.
OnePressOneSubmission == submitted + Len(flows) <= presses

\* The counter never has more than the events reported, also when they overlap, fail
\* and read what is old by the time they write; and it has exactly that whenever none
\* is under way, if no two ever were at once and no set failed (background.js 25-31).
\* A reset between the two steps of an event is the exception to both.
CountsEvents == \/ reset
                \/ /\ storage.pii <= reported
                   /\ ~lossy /\ counting = <<>> => storage.pii = reported

\* When the shield is switched on and left so, the tab gets to listen (content.js
\* 20-30), be it loaded before or after.
TabProtected == <>[]storage.active => <>(listeners > 0)
=============================================================================
