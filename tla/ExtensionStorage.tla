-------------------------- MODULE ExtensionStorage --------------------------
(***************************************************************************)
(* The service worker and the popup of the Chrome extension                *)
(* (chrome-extension/background.js, popup.js) around chrome.storage.sync.  *)
(* A get and the set that follows from it are two steps; sets take effect  *)
(* in the order they are made or fail, which nothing looks at, and each    *)
(* that changes shieldActive is notified to the content script.            *)
(***************************************************************************)
EXTENDS SequencesExt, Integers

CONSTANTS
    Keys,           \* license keys a user may enter
    MaxChanges,     \* bound on notifications under way, in the guard of Put
    Counts          \* how many matches a PII event may report

ASSUME ExtensionStorageAssumption ==
    MaxChanges \in Nat \ {0} /\ Counts \subseteq Nat \ {0}

VARIABLES
    storage,    \* licenseKey, shieldActive and piiCount
    changes,    \* notifications of shieldActive that have not arrived yet
    popup,      \* what the popup shows
    validating, \* keys whose validation is under way
    toggling,   \* what toggleShield has read and not written back yet
    installing, \* how far the handler of onInstalled is
    counting,   \* PII events under way: what each counts, the counter it has
                \* read, or Unread, and what was reported before it
    reported,   \* what PII events counted since the reset, for observation only
    lossy,      \* whether two of them were under way at once or a set of the
                \* counter failed, for observation only
    reset       \* whether one was under way when the counter was reset, for
                \* observation only

licenseVars == <<popup, validating, toggling, installing>>
countVars == <<counting, reported, lossy, reset>>
storageVars == <<storage, changes, licenseVars, countVars>>

NoKey == "no key"
Unread == -1
Events == [count : Counts, read : Nat \cup {Unread}, before : Nat]

StorageTypeOK ==
    /\ storage \in [key : Keys \cup {NoKey}, active : BOOLEAN, pii : Nat]
    /\ changes \in Seq(BOOLEAN) /\ Len(changes) <= MaxChanges
    /\ popup \in {"closed", "active", "inactive"}
    /\ validating \subseteq Keys
    /\ toggling \in SUBSET BOOLEAN
    /\ installing \in {"due", "read", "done"}
    /\ counting \in Seq(Events) /\ reported \in Nat
    /\ lossy \in BOOLEAN /\ reset \in BOOLEAN

\* Without a key the extension was just installed.  With one it may have been
\* updated, of which the handler makes nothing.
StorageInit ==
    /\ \E key \in Keys \cup {NoKey} :
        /\ storage = [key |-> key, active |-> key # NoKey, pii |-> 0]
        /\ installing = IF key = NoKey THEN "due" ELSE "done"
    /\ changes = <<>>
    /\ popup = "closed" /\ validating = {} /\ toggling = {}
    /\ counting = <<>> /\ reported = 0 /\ lossy = FALSE /\ reset = FALSE

\* storage.sync.set.  Only a value that differs is notified.
Put(new) ==
    /\ storage' = new
    /\ changes' = IF new.active = storage.active THEN changes
                  ELSE Append(changes, new.active)
    /\ Len(changes') <= MaxChanges

\* A set that is one too many for the quota, say, changes nothing.
PutFails == UNCHANGED <<storage, changes>>
PutOrFail(new) == Put(new) \/ PutFails

-----------------------------------------------------------------------------
(* The popup.                                                              *)

\* init
PopupOpens ==
    /\ popup = "closed"
    /\ popup' = IF storage.active /\ storage.key # NoKey THEN "active" ELSE "inactive"
    /\ UNCHANGED <<storage, changes, validating, toggling, installing, countVars>>

\* Its callbacks are gone with it; the service worker goes on.
PopupCloses ==
    /\ popup # "closed"
    /\ popup' = "closed"
    /\ toggling' = {}
    /\ UNCHANGED <<storage, changes, validating, installing, countVars>>

\* activate; the button stays enabled meanwhile.
Activate(key) ==
    /\ popup = "inactive"
    /\ validating' = validating \cup {key}
    /\ UNCHANGED <<storage, changes, popup, toggling, installing, countVars>>

\* deactivate, CLEAR_LICENSE
Deactivate ==
    /\ popup = "active"
    /\ PutOrFail([storage EXCEPT !.key = NoKey, !.active = FALSE])
    /\ popup' = "inactive"
    /\ UNCHANGED <<validating, toggling, installing, countVars>>

\* toggleShield, in two steps.
ToggleReads ==
    /\ popup = "active"
    /\ toggling' = {storage.active}
    /\ UNCHANGED <<storage, changes, popup, validating, installing, countVars>>

ToggleSets ==
    /\ toggling # {}
    /\ \E active \in toggling : PutOrFail([storage EXCEPT !.active = ~active])
    /\ toggling' = {}
    /\ UNCHANGED <<popup, validating, installing, countVars>>

-----------------------------------------------------------------------------
(* The service worker.                                                     *)

\* The API says that a key is valid, whatever was done since it was asked.
KeyValid(key) ==
    /\ key \in validating
    /\ validating' = validating \ {key}
    /\ PutOrFail([storage EXCEPT !.key = key, !.active = TRUE])
    /\ popup' = IF popup = "inactive" THEN "active" ELSE popup
    /\ UNCHANGED <<toggling, installing, countVars>>

\* It says that the key is not, or nothing.
KeyInvalid(key) ==
    /\ key \in validating
    /\ validating' = validating \ {key}
    /\ UNCHANGED <<storage, changes, popup, toggling, installing, countVars>>

\* onInstalled, in two steps.
InstallReads ==
    /\ installing = "due"
    /\ installing' = IF storage.key = NoKey THEN "read" ELSE "done"
    /\ UNCHANGED <<storage, changes, popup, validating, toggling, countVars>>

InstallSets ==
    /\ installing = "read"
    /\ installing' = "done"
    /\ \/ /\ Put([storage EXCEPT !.active = FALSE, !.pii = 0])
          /\ reported' = 0
          /\ reset' = (reset \/ counting # <<>>)
       \/ PutFails /\ UNCHANGED <<reported, reset>>
    /\ UNCHANGED <<popup, validating, toggling, counting, lossy>>

\* The first event that has not read the counter finds it to be n.
FirstReads(n) ==
    \E i \in DOMAIN counting :
        /\ counting[i].read = Unread
        /\ \A j \in 1 .. i - 1 : counting[j].read # Unread
        /\ counting' = [counting EXCEPT ![i] = [@ EXCEPT !.read = n]]

\* A mistake to be caught: the counter is looked for under another name.
CountReadsNothing ==
    /\ FirstReads(0)
    /\ UNCHANGED <<storage, changes, licenseVars, reported, lossy, reset>>

\* PII_EVENT: the counter is read, and written in a callback.  Both happen in the
\* order of the events.
CountReads ==
    /\ FirstReads(storage.pii)
    /\ UNCHANGED <<storage, changes, licenseVars, reported, lossy, reset>>

CountSets ==
    /\ counting # <<>> /\ Head(counting).read # Unread
    /\ \/ /\ Put([storage EXCEPT !.pii = Head(counting).read + Head(counting).count])
          /\ UNCHANGED lossy
       \/ PutFails /\ lossy' = TRUE
    /\ counting' = Tail(counting)
    /\ UNCHANGED <<licenseVars, reported, reset>>

\* A content script sends PII_EVENT for n matches.
Report(n) ==
    /\ counting' = Append(counting, [count |-> n, read |-> Unread, before |-> reported])
    /\ reported' = reported + n
    /\ lossy' = (lossy \/ counting # <<>>)
    /\ UNCHANGED reset

StorageNext ==
    \/ PopupOpens \/ PopupCloses \/ Deactivate \/ ToggleReads \/ ToggleSets
    \/ \E key \in Keys : Activate(key) \/ KeyValid(key) \/ KeyInvalid(key)
    \/ InstallReads \/ InstallSets \/ CountReads \/ CountSets
=============================================================================
