-------------------------- MODULE AppServiceProofs --------------------------
(***************************************************************************)
(* The invariants of AppService, for all addresses, limits and windows.    *)
(* The limit is about any stretch of a window's length, while the list     *)
(* that is kept only has the calls of the latest one; LimiterInv says what *)
(* of the past it still holds.                                             *)
(***************************************************************************)
EXTENDS AppService, FiniteSetTheorems, TLAPS

Calls == [n : Nat, at : Nat]

-----------------------------------------------------------------------------
(* Types.                                                                  *)

\* The list of an address after a call is counted, and of the others.
LEMMA CountCallTypes ==
    ASSUME exportCalls \in [Addresses -> SUBSET Calls],
           NEW a \in Addresses, NEW n \in Nat, NEW t \in Nat, CountCall(a, n, t)
    PROVE  /\ exportCalls' \in [Addresses -> SUBSET Calls]
           /\ exportCalls'[a] = Recent(exportCalls[a], t) \cup {[n |-> n, at |-> t]}
           /\ \A b \in Addresses \ {a} : exportCalls'[b] = exportCalls[b]
<1>1. Recent(exportCalls[a], t) \cup {[n |-> n, at |-> t]} \in SUBSET Calls
    BY DEF Recent, Calls
<1> QED BY <1>1 DEF CountCall

\* An address' admitted calls are finitely many numbered calls.
AdmittedFinite == \A a \in Addresses : IsFiniteSet(admitted[a])

\* Empty files and what a wizard saves are contents; so is one merged with another.
LEMMA ContentsTypes ==
    /\ Empty \in Contents
    /\ \A b \in Backends : Saved(b) \in Contents
    /\ \A f \in Contents \cup {NoFile} : KeysOf(f) \in Contents
    /\ \A c, d \in Contents : Over(c, d) \in Contents
<1>1. Empty \in Contents
    BY DEF Empty, Contents
<1>2. \A b \in Backends : Saved(b) \in Contents
    BY DEF Saved, Contents, Backends
<1>3. \A c, d \in Contents : Over(c, d) \in Contents
    BY DEF Over, Or, Contents
<1> QED BY <1>1, <1>2, <1>3 DEF KeysOf

LEMMA TypeInit == Init => TypeOK /\ AdmittedFinite
<1> SUFFICES ASSUME Init
             PROVE  TypeOK /\ AdmittedFinite
    OBVIOUS
<1>1. stage \in [Wizards -> {"off", "form"} \cup Backends] /\ stage["cli"] = "off"
    BY DEF Init, Wizards
<1>2. /\ exportCalls \in [Addresses -> SUBSET [n : Nat, at : Nat]]
      /\ admitted \in [Addresses -> SUBSET [n : Nat, at : Nat]]
      /\ AdmittedFinite
    BY FS_EmptySet DEF Init, NoCalls, AdmittedFinite
<1>3. settings \in {SettingsOf(c) : c \in Contents}
    BY ContentsTypes DEF Init
<1> QED BY <1>1, <1>2, <1>3, ContentsTypes DEF Init, TypeOK

LEMMA TypeStep == TypeOK /\ AdmittedFinite /\ [Next]_vars => TypeOK' /\ AdmittedFinite'
<1> SUFFICES ASSUME TypeOK, AdmittedFinite, [Next]_vars
             PROVE  TypeOK' /\ AdmittedFinite'
    OBVIOUS
<1> USE DEF Wizards, Backends, Written, fileVars, bootVars, exportVars
<1>1. CASE WebSubmits
    BY <1>1 DEF WebSubmits, TypeOK, AdmittedFinite
<1>2. CASE WizardCancelled
    BY <1>2 DEF WizardCancelled, TypeOK, AdmittedFinite
<1>3. ASSUME NEW w \in Wizards, NEW backend \in Backends, Opens(w, backend)
      PROVE  TypeOK' /\ AdmittedFinite'
    BY <1>3, ContentsTypes DEF Opens, TypeOK, AdmittedFinite
<1>4. ASSUME NEW w \in Wizards, Writes(w)
      PROVE  TypeOK' /\ AdmittedFinite'
    BY <1>4, ContentsTypes DEF Writes, TypeOK, AdmittedFinite
<1>5. ASSUME NEW c \in HandWritten, HandWrites(c)
      PROVE  TypeOK' /\ AdmittedFinite'
    BY <1>5, AppServiceAssumption DEF HandWrites, TypeOK, AdmittedFinite
<1>6. CASE WebEnds
    BY <1>6 DEF WebEnds, TypeOK, AdmittedFinite
<1>7. CASE FileDeleted
    BY <1>7 DEF FileDeleted, TypeOK, AdmittedFinite
<1>8. CASE Boot
    BY <1>8 DEF Boot, TypeOK, AdmittedFinite
<1>9. CASE Source
    BY <1>9, ContentsTypes DEF Source, TypeOK, AdmittedFinite
<1>10. CASE Load
    BY <1>10, ContentsTypes DEF Load, TypeOK, AdmittedFinite
<1>11. CASE Ends
    BY <1>11, ContentsTypes, FS_EmptySet DEF Ends, NoCalls, TypeOK, AdmittedFinite
<1>12. CASE Tick
    BY <1>12 DEF Tick, TypeOK, AdmittedFinite
<1>13. ASSUME NEW org \in Orgs, NEW role \in Roles \cup {"other"}, Chat(org, role)
       PROVE  TypeOK' /\ AdmittedFinite'
    BY <1>13 DEF Chat, TypeOK, AdmittedFinite
<1>14. ASSUME NEW org \in Orgs, NEW role \in Roles \cup {"other"},
              NEW a \in Addresses, Export(a, org, role)
       PROVE  TypeOK' /\ AdmittedFinite'
    <2> DEFINE n == Cardinality(admitted[a]) + 1
    <2>1. n \in Nat
        BY FS_CardinalityType DEF AdmittedFinite
    <2>2. CountCall(a, n, now)
        BY <1>14 DEF Export
    <2>3. exportCalls' \in [Addresses -> SUBSET Calls]
        BY <2>1, <2>2, CountCallTypes DEF TypeOK, Calls
    <2>4. admitted' = [admitted EXCEPT ![a] = @ \cup {[n |-> n, at |-> now]}]
        BY <1>14 DEF Export
    <2>5. admitted' \in [Addresses -> SUBSET Calls]
        BY <2>1, <2>4 DEF TypeOK, Calls
    <2>6. AdmittedFinite'
        BY <2>4, FS_AddElement DEF TypeOK, AdmittedFinite
    <2> HIDE DEF n
    <2> QED
        BY <1>14, <2>3, <2>5, <2>6 DEF Export, TypeOK, Calls
<1>15. CASE UNCHANGED vars
    BY <1>15 DEF vars, TypeOK, AdmittedFinite
<1> QED
    BY <1>1, <1>2, <1>3, <1>4, <1>5, <1>6, <1>7, <1>8, <1>9, <1>10, <1>11, <1>12,
       <1>13, <1>14, <1>15 DEF Next

\* Every variable keeps its type: the files, wizards and settings that can be, and
\* the calls with their times (setup_wizard.py, entrypoint.sh, routes.py 24-35).
THEOREM TypeCorrect == Spec => []TypeOK
BY TypeInit, TypeStep, PTL DEF Spec

-----------------------------------------------------------------------------
(* The cloud.                                                              *)

\* Until a file that names the cloud is written, neither the file nor what was
\* sourced names it, nor do the settings of a server that is ready; and those of a
\* server that runs with a wizard's file for a local model never do.
CloudInv ==
    /\ ~named => /\ env # NoFile => ~NamesCloud(env)
                 /\ ~NamesCloud(sourced)
                 /\ settings.ready => settings.openai = "vllm"
    /\ proc = "up" /\ sourced = Saved("LOCAL") => settings.openai = "vllm"

LEMMA SettingsFields ==
    ASSUME NEW c
    PROVE  /\ SettingsOf(c).ready = (c.ready = "true")
           /\ SettingsOf(c).openai = Or(c.openai, "cloud")
BY Zenon DEF SettingsOf

LEMMA CloudInit == Init => CloudInv /\ CloudOnlyWhenNamed /\ LocalSetupKept
<1>1. ~NamesCloud(Empty)
    BY DEF Empty, NamesCloud
<1>2. ~SettingsOf(Empty).ready
    <2>1. Empty.ready # "true"
        BY DEF Empty
    <2> QED BY <2>1, SettingsFields, Zenon
<1> QED BY <1>1, <1>2 DEF Init, CloudInv, CloudOnlyWhenNamed, LocalSetupKept

\* What merging does: two that do not name the cloud give settings that do not, if
\* they make a server ready; and nothing comes before what was sourced.
LEMMA Merged ==
    ASSUME NEW c \in Contents, NEW d \in Contents
    PROVE  /\ /\ ~NamesCloud(c) /\ ~NamesCloud(d)
              /\ SettingsOf(Over(c, d)).ready
              => SettingsOf(Over(c, d)).openai = "vllm"
           /\ c = Saved("LOCAL") => SettingsOf(Over(c, d)).openai = "vllm"
<1>1. /\ ~NamesCloud(c) /\ ~NamesCloud(d) /\ Over(c, d).ready = "true"
      => Or(Over(c, d).openai, "cloud") = "vllm"
    BY DEF Contents, NamesCloud, Over, Or
<1>2. c = Saved("LOCAL") => Or(Over(c, d).openai, "cloud") = "vllm"
    BY DEF Over, Or, Saved
<1>3. SettingsOf(Over(c, d)).ready => Over(c, d).ready = "true"
    BY SettingsFields, Zenon
<1>4. SettingsOf(Over(c, d)).openai = Or(Over(c, d).openai, "cloud")
    BY SettingsFields, Zenon
<1> QED BY <1>1, <1>2, <1>3, <1>4, Zenon

LEMMA CloudInvStep == TypeOK /\ CloudInv /\ [Next]_vars => CloudInv'
<1> SUFFICES ASSUME TypeOK, CloudInv, [Next]_vars
             PROVE  CloudInv'
    OBVIOUS
<1>1. ~NamesCloud(Empty)
    BY DEF Empty, NamesCloud
<1>2. ASSUME NEW c \in Contents, Written(c), UNCHANGED <<sourced, settings>>,
             proc' = "up" => proc = "up"
      PROVE  CloudInv'
    BY <1>2 DEF Written, CloudInv
<1>3. ASSUME NEW w \in Wizards, NEW backend \in Backends, Opens(w, backend)
      PROVE  CloudInv'
    BY <1>1, <1>3 DEF Opens, CloudInv, bootVars
<1>4. ASSUME NEW w \in Wizards, Writes(w)
      PROVE  CloudInv'
    <2>1. Saved(stage[w]) \in Contents
        BY <1>4, ContentsTypes DEF Writes
    <2>2. Written(Saved(stage[w])) /\ UNCHANGED <<sourced, settings>>
          /\ (proc' = "up" => proc = "up")
        BY <1>4 DEF Writes
    <2> QED BY <1>2, <2>1, <2>2
<1>5. ASSUME NEW c \in HandWritten, HandWrites(c)
      PROVE  CloudInv'
    BY <1>2, <1>5, AppServiceAssumption DEF HandWrites, bootVars
<1>6. CASE Source
    BY <1>1, <1>6 DEF Source, CloudInv, KeysOf, fileVars
<1>7. CASE Load
    <2>1. KeysOf(env) \in Contents /\ sourced \in Contents
        BY ContentsTypes DEF TypeOK
    <2>2. settings' = SettingsOf(Over(sourced, KeysOf(env)))
          /\ UNCHANGED <<env, named, sourced>>
        BY <1>7 DEF Load, fileVars
    <2>3. ~named => ~NamesCloud(sourced) /\ ~NamesCloud(KeysOf(env))
        BY <1>1 DEF CloudInv, KeysOf
    <2>4. ~named /\ settings'.ready => settings'.openai = "vllm"
        BY <2>1, <2>2, <2>3, Merged
    <2>5. sourced = Saved("LOCAL") => settings'.openai = "vllm"
        BY <2>1, <2>2, Merged
    <2> QED BY <2>2, <2>4, <2>5 DEF CloudInv
<1>8. CASE Ends
    <2>1. Empty.ready # "true"
        BY DEF Empty
    <2>2. ~SettingsOf(Empty).ready
        BY <2>1, SettingsFields, Zenon
    <2> QED BY <1>1, <1>8, <2>2 DEF Ends, CloudInv
<1>9. CASE UNCHANGED <<env, named, sourced, settings>> /\ (proc' = "up" => proc = "up")
    BY <1>9 DEF CloudInv
<1>10. CASE FileDeleted
    BY <1>10 DEF FileDeleted, CloudInv, bootVars
<1> QED
    BY <1>3, <1>4, <1>5, <1>6, <1>7, <1>8, <1>9, <1>10
       DEF Next, vars, fileVars, bootVars, WebSubmits, WizardCancelled, WebEnds, Boot,
           Tick, Chat, Export

LEMMA CloudStep ==
    CloudInv /\ CloudOnlyWhenNamed /\ LocalSetupKept /\ [Next]_vars
        => CloudOnlyWhenNamed' /\ LocalSetupKept'
<1> SUFFICES ASSUME CloudInv, CloudOnlyWhenNamed, LocalSetupKept, [Next]_vars
             PROVE  CloudOnlyWhenNamed' /\ LocalSetupKept'
    OBVIOUS
<1>1. ASSUME NEW org \in Orgs, NEW role \in Roles \cup {"other"}, Chat(org, role)
      PROVE  CloudOnlyWhenNamed' /\ LocalSetupKept'
    <2> DEFINE c == [org |-> org, url |-> RouteFor(org), backend |-> settings.backend,
                     sourced |-> sourced]
    <2>1. called' = {c} /\ proc = "up" /\ named' = named
        BY <1>1 DEF Chat, fileVars
    <2>2. settings.ready
        <3>1. ~settings.ready => Refusal(org, role) # 200
            BY Z3 DEF Refusal
        <3> QED BY <1>1, <3>1 DEF Chat
    <2>3. c.url = "cloud" => org = "admin" /\ settings.openai = "cloud"
        BY DEF RouteFor
    <2>4. c.url = "cloud" => c.org = "admin" /\ named
        BY <2>2, <2>3 DEF CloudInv
    <2>5. c.sourced = Saved("LOCAL") => c.url = "vllm"
        BY <2>1 DEF CloudInv, RouteFor
    <2> QED BY <2>1, <2>4, <2>5 DEF CloudOnlyWhenNamed, LocalSetupKept
<1>2. CASE called' = {}
    BY <1>2 DEF CloudOnlyWhenNamed, LocalSetupKept
<1>3. CASE UNCHANGED vars
    BY <1>3 DEF vars, fileVars, CloudOnlyWhenNamed, LocalSetupKept
<1> QED
    BY <1>1, <1>2, <1>3 DEF Next, WebSubmits, WizardCancelled, WebEnds, FileDeleted,
       Writes, Opens, HandWrites, Boot, Source, Load, Ends, Tick, Export

\* The invariant of the two theorems after it.
LEMMA CloudCorrect == Spec => [](CloudInv /\ CloudOnlyWhenNamed /\ LocalSetupKept)
BY CloudInit, CloudInvStep, CloudStep, TypeCorrect, PTL DEF Spec

\* No chat goes to the cloud but the admin organization's, and none before a file
\* that names it was written, by a wizard or by hand, with any contents: neither an
\* empty file, nor a deleted one, nor two merged ones bring the default about.
THEOREM CloudChosen == Spec => []CloudOnlyWhenNamed
BY CloudCorrect, PTL

\* A server that was started with a wizard's file for a local model keeps to it,
\* whatever is written between the sourcing of the file and its reading.
THEOREM LocalSetupKeeps == Spec => []LocalSetupKept
BY CloudCorrect, PTL

-----------------------------------------------------------------------------
(* The limiter.                                                            *)

\* What is kept was admitted; no admitted call lies ahead; those that still count
\* are kept; and no stretch of a window's length, past or to come, has too many.
LimiterInv == \A a \in Addresses :
    /\ exportCalls[a] \subseteq admitted[a]
    /\ \A c \in admitted[a] : c.at <= now
    /\ \A c \in admitted[a] : now - c.at < Window => c \in exportCalls[a]
    /\ \A t \in Nat : Cardinality(InWindow(a, t)) <= MaxPerMin

\* The kept calls that still count are all the admitted ones that do.
LEMMA RecentIsWindow ==
    ASSUME TypeOK, LimiterInv, NEW a \in Addresses
    PROVE  Recent(exportCalls[a], now) = InWindow(a, now)
BY DEF TypeOK, LimiterInv, Recent, InWindow

LEMMA LimiterInit == Init => LimiterInv
<1> SUFFICES ASSUME Init, NEW a \in Addresses, NEW t \in Nat
             PROVE  /\ exportCalls[a] \subseteq admitted[a]
                    /\ admitted[a] = {}
                    /\ Cardinality(InWindow(a, t)) <= MaxPerMin
    BY DEF LimiterInv
<1>1. exportCalls[a] = {} /\ admitted[a] = {}
    BY DEF Init, NoCalls
<1>2. InWindow(a, t) = {}
    BY <1>1 DEF InWindow
<1> QED BY <1>1, <1>2, FS_EmptySet, RateLimiterAssumption

\* The export that is let through: only the windows that end now or later see it,
\* and of the earlier calls these see what the limiter looked at at most.
LEMMA ExportLimited ==
    ASSUME TypeOK, AdmittedFinite, LimiterInv,
           NEW a \in Addresses, NEW org, NEW role, Export(a, org, role)
    PROVE  LimiterInv'
<1> DEFINE c == [n |-> Cardinality(admitted[a]) + 1, at |-> now]
<1>1. c \in Calls /\ now \in Nat /\ now' = now
    BY FS_CardinalityType DEF AdmittedFinite, Calls, TypeOK, Export
<1>2. /\ exportCalls'[a] = Recent(exportCalls[a], now) \cup {c}
      /\ \A b \in Addresses \ {a} : exportCalls'[b] = exportCalls[b]
    BY <1>1, CountCallTypes DEF Export, TypeOK, Calls
<1>3. /\ admitted'[a] = admitted[a] \cup {c}
      /\ \A b \in Addresses \ {a} : admitted'[b] = admitted[b]
    BY DEF Export, TypeOK
<1>4. c.at = now
    OBVIOUS
<1> HIDE DEF c
<1>5. ASSUME NEW b \in Addresses \ {a}
      PROVE  /\ exportCalls'[b] \subseteq admitted'[b]
             /\ \A d \in admitted'[b] : d.at <= now'
             /\ \A d \in admitted'[b] : now' - d.at < Window => d \in exportCalls'[b]
             /\ \A t \in Nat : Cardinality(InWindow(b, t)') <= MaxPerMin
    BY <1>1, <1>2, <1>3 DEF LimiterInv, InWindow
<1>6. exportCalls'[a] \subseteq admitted'[a]
    BY <1>2, <1>3 DEF LimiterInv, Recent
<1>7. \A d \in admitted'[a] : d.at <= now'
    BY <1>1, <1>3, <1>4 DEF LimiterInv
<1>8. \A d \in admitted'[a] : now' - d.at < Window => d \in exportCalls'[a]
    BY <1>1, <1>2, <1>3 DEF LimiterInv, Recent
<1>9. ASSUME NEW t \in Nat
      PROVE  Cardinality(InWindow(a, t)') <= MaxPerMin
    <2>1. CASE t < now
        <3>1. InWindow(a, t)' = InWindow(a, t)
            BY <1>1, <1>3, <1>4, <2>1 DEF InWindow
        <3> QED BY <3>1 DEF LimiterInv
    <2>2. CASE t >= now
        <3>1. InWindow(a, t)' \subseteq InWindow(a, now) \cup {c}
            <4> SUFFICES ASSUME NEW d \in InWindow(a, t)', d # c
                         PROVE  d \in InWindow(a, now)
                OBVIOUS
            <4>1. d \in admitted[a] /\ t - d.at < Window
                BY <1>3 DEF InWindow
            <4>2. d.at \in Nat /\ d.at <= now
                BY <4>1 DEF TypeOK, LimiterInv
            <4> QED BY <1>1, <2>2, <4>1, <4>2, RateLimiterAssumption DEF InWindow
        <3>2. InWindow(a, now) \subseteq admitted[a]
            BY DEF InWindow
        <3>3. /\ IsFiniteSet(InWindow(a, now))
              /\ Cardinality(InWindow(a, now)) \in Nat
            BY <3>2, FS_Subset, FS_CardinalityType DEF AdmittedFinite
        <3>4. Cardinality(InWindow(a, now)) < MaxPerMin
            BY <3>3, RecentIsWindow, RateLimiterAssumption DEF Export, Full
        <3>5. /\ IsFiniteSet(InWindow(a, now) \cup {c})
              /\ Cardinality(InWindow(a, now) \cup {c}) <= MaxPerMin
            <4>1. /\ IsFiniteSet(InWindow(a, now) \cup {c})
                  /\ \/ Cardinality(InWindow(a, now) \cup {c})
                            = Cardinality(InWindow(a, now))
                     \/ Cardinality(InWindow(a, now) \cup {c})
                            = Cardinality(InWindow(a, now)) + 1
                BY <3>3, FS_AddElement, Zenon
            <4> QED BY <3>3, <3>4, <4>1, RateLimiterAssumption
        <3>6. /\ Cardinality(InWindow(a, t)')
                    <= Cardinality(InWindow(a, now) \cup {c})
              /\ Cardinality(InWindow(a, t)') \in Nat
              /\ Cardinality(InWindow(a, now) \cup {c}) \in Nat
            BY <3>1, <3>5, FS_Subset, FS_CardinalityType
        <3> QED BY <3>5, <3>6, RateLimiterAssumption
    <2> QED BY <1>1, <2>1, <2>2
<1>10. ASSUME NEW b \in Addresses
       PROVE  /\ exportCalls'[b] \subseteq admitted'[b]
              /\ \A d \in admitted'[b] : d.at <= now'
              /\ \A d \in admitted'[b] : now' - d.at < Window => d \in exportCalls'[b]
              /\ \A t \in Nat : Cardinality(InWindow(b, t)') <= MaxPerMin
    BY <1>5, <1>6, <1>7, <1>8, <1>9
<1> QED BY <1>10 DEF LimiterInv

LEMMA LimiterStep ==
    TypeOK /\ AdmittedFinite /\ LimiterInv /\ [Next]_vars => LimiterInv'
<1> SUFFICES ASSUME TypeOK, AdmittedFinite, LimiterInv, [Next]_vars
             PROVE  LimiterInv'
    OBVIOUS
<1>1. CASE UNCHANGED <<exportVars, now>>
    BY <1>1 DEF exportVars, LimiterInv, InWindow
<1>2. CASE Tick
    <2>1. now' = now + 1 /\ now \in Nat /\ Window \in Nat
        BY <1>2, RateLimiterAssumption DEF Tick, TypeOK
    <2>2. UNCHANGED exportVars
        BY <1>2 DEF Tick
    <2>3. \A a \in Addresses : \A c \in admitted[a] : c.at \in Nat
        BY DEF TypeOK
    <2> QED BY <2>1, <2>2, <2>3 DEF exportVars, LimiterInv, InWindow
<1>3. CASE Ends
    <2> SUFFICES ASSUME NEW a \in Addresses, NEW t \in Nat
                 PROVE  /\ exportCalls'[a] \subseteq admitted'[a]
                        /\ admitted'[a] = {}
                        /\ Cardinality(InWindow(a, t)') <= MaxPerMin
        BY DEF LimiterInv
    <2>1. exportCalls'[a] = {} /\ admitted'[a] = {}
        BY <1>3 DEF Ends, NoCalls
    <2>2. InWindow(a, t)' = {}
        BY <2>1 DEF InWindow
    <2> QED BY <2>1, <2>2, FS_EmptySet, RateLimiterAssumption
<1>4. ASSUME NEW org \in Orgs, NEW role \in Roles \cup {"other"},
             NEW a \in Addresses, Export(a, org, role)
      PROVE  LimiterInv'
    BY <1>4, ExportLimited
<1> QED
    BY <1>1, <1>2, <1>3, <1>4 DEF Next, vars, WebSubmits, WizardCancelled, WebEnds,
       FileDeleted, Writes, Opens, HandWrites, Boot, Source, Load, Chat

\* The calls kept are those of the latest window, and in no stretch of its length
\* were there more than allowed.
THEOREM LimiterCorrect == Spec => [](TypeOK /\ AdmittedFinite /\ LimiterInv)
BY TypeInit, TypeStep, LimiterInit, LimiterStep, PTL DEF Spec

\* No address has more than max_per_min exports in any 60 seconds, for any limit
\* and any length of the window (routes.py 28-35).
THEOREM WindowsBounded == Spec => []AtMostPerWindow
<1>1. TypeOK /\ LimiterInv => AtMostPerWindow
    BY DEF TypeOK, LimiterInv, AtMostPerWindow
<1> QED BY <1>1, LimiterCorrect, PTL

\* 429 exactly when the latest window is used up, for any limit: pruning the list
\* never forgets a call that counts nor keeps one that does not.
THEOREM RefusalsExact == Spec => []LimitExact
<1>1. ASSUME TypeOK, AdmittedFinite, LimiterInv
      PROVE  LimitExact
    <2> SUFFICES ASSUME NEW a \in Addresses
                 PROVE  Full(a, now) <=> Cardinality(InWindow(a, now)) = MaxPerMin
        BY DEF LimitExact
    <2>1. InWindow(a, now) \subseteq admitted[a]
        BY DEF InWindow
    <2>2. Cardinality(InWindow(a, now)) \in Nat
        BY <1>1, <2>1, FS_Subset, FS_CardinalityType DEF AdmittedFinite
    <2>3. Cardinality(InWindow(a, now)) <= MaxPerMin
        BY <1>1 DEF TypeOK, LimiterInv
    <2> QED
        BY <1>1, <2>2, <2>3, RecentIsWindow, RateLimiterAssumption DEF Full
<1> QED BY <1>1, LimiterCorrect, PTL
=============================================================================
