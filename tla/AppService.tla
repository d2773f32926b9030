----------------------------- MODULE AppService -----------------------------
(***************************************************************************)
(* The app around its chat handler: the wizards that write .env            *)
(* (app/setup_wizard.py, dashboard/setup.py), the operators who write it   *)
(* by hand, entrypoint.sh that starts the server with it, the two          *)
(* middlewares, the choice of a backend (engine/router.py) and the limited *)
(* export of the audit log.  What becomes of a chat once its backend is    *)
(* chosen is ChatPipeline's matter.                                        *)
(***************************************************************************)
EXTENDS RateLimiter

CONSTANTS
    Orgs,           \* values of X-Org-ID
    NoFile,         \* there is no .env
    HandWritten,    \* contents of .env that an operator writes
    MaxNow,         \* bound on the clock, in the guard of Tick
    MaxBoots        \* bound on starts, in the guard of Boot

\* Of an .env: CONFIG_READY, LLM_BACKEND_TYPE and OPENAI_BASE_URL, which is the URL
\* of the local model or another.
Contents == [ready : {"true", "unset"},
             backend : {"LOCAL", "CLOUD", "local", "unset"},
             openai : {"vllm", "cloud", "unset"}]

ASSUME AppServiceAssumption ==
    /\ MaxNow \in Nat /\ MaxBoots \in Nat
    /\ HandWritten \subseteq Contents /\ NoFile \notin Contents

VARIABLES
    env,        \* the file .env
    stage,      \* of each wizard, the terminal's and the web page's; the content
                \* it is about to write when it has opened the file
    proc,       \* how far entrypoint.sh is
    sourced,    \* what it found in .env
    settings,   \* of the server, read once
    now,        \* time.monotonic
    boots,      \* starts of entrypoint.sh
    named,      \* a file that was written names the cloud, for observation only
    called,     \* the model call of the latest step, for observation only
    admitted    \* exports this process let through, for observation only

fileVars == <<env, stage, named>>
bootVars == <<proc, sourced, settings, boots>>
exportVars == <<exportCalls, admitted>>
vars == <<fileVars, bootVars, exportVars, now, called>>

Wizards == {"cli", "web"}
Backends == {"LOCAL", "CLOUD"}      \* VALID_BACKENDS

Empty == [ready |-> "unset", backend |-> "unset", openai |-> "unset"]

\* What a wizard saves: for a local model both URLs are that of the model.
Saved(backend) ==
    [ready |-> "true", backend |-> backend,
     openai |-> IF backend = "LOCAL" THEN "vllm" ELSE "cloud"]

\* It names the cloud, or it makes the server ready and leaves the URL to the
\* default, which does.
NamesCloud(c) == \/ c.openai = "cloud"
                 \/ c.ready = "true" /\ c.openai = "unset"

\* A key that is not set.
Or(value, default) == IF value = "unset" THEN default ELSE value

\* A mistake to be caught: the file comes before the environment.
FileOver(sourcedKeys, file) ==
    [ready |-> Or(file.ready, sourcedKeys.ready),
     backend |-> Or(file.backend, sourcedKeys.backend),
     openai |-> Or(file.openai, sourcedKeys.openai)]

\* For each key the environment, that is what was sourced, comes before the file.
Over(sourcedKeys, file) ==
    [ready |-> Or(sourcedKeys.ready, file.ready),
     backend |-> Or(sourcedKeys.backend, file.backend),
     openai |-> Or(sourcedKeys.openai, file.openai)]

\* The keys of the file, and the fields of Settings with their defaults.
KeysOf(file) == IF file = NoFile THEN Empty ELSE file
SettingsOf(c) == [ready |-> c.ready = "true", backend |-> Or(c.backend, "LOCAL"),
                  openai |-> Or(c.openai, "cloud")]

Roles == {"viewer", "analyst", "admin"}     \* VALID_ROLES

TypeOK ==
    /\ env \in Contents \cup {NoFile}
    /\ stage \in [Wizards -> {"off", "form"} \cup Backends]
    /\ named \in BOOLEAN
    /\ proc \in {"down", "wizard", "source", "load", "up"}
    /\ stage["cli"] # "off" <=> proc = "wizard"
    /\ sourced \in Contents
    /\ settings \in {SettingsOf(c) : c \in Contents}
    /\ now \in Nat /\ boots \in Nat
    /\ exportCalls \in [Addresses -> SUBSET [n : Nat, at : Nat]]
    /\ admitted \in [Addresses -> SUBSET [n : Nat, at : Nat]]

Init ==
    /\ env = NoFile
    /\ stage = [w \in Wizards |-> "off"]
    /\ proc = "down" /\ sourced = Empty /\ settings = SettingsOf(Empty)
    /\ now = 0 /\ boots = 0
    /\ named = FALSE /\ called = {}
    /\ exportCalls = NoCalls /\ admitted = NoCalls

-----------------------------------------------------------------------------
(* The file.                                                               *)

\* The form of the web page is submitted, and there is no file yet.
WebSubmits ==
    /\ stage["web"] = "off"
    /\ env = NoFile
    /\ stage' = [stage EXCEPT !["web"] = "form"]
    /\ called' = {}
    /\ UNCHANGED <<env, named, bootVars, exportVars, now>>

\* The terminal's wizard is left at its first question.
WizardCancelled ==
    /\ stage["cli"] = "form"
    /\ stage' = [stage EXCEPT !["cli"] = "off"]
    /\ proc' = "source"
    /\ called' = {}
    /\ UNCHANGED <<env, named, sourced, settings, boots, exportVars, now>>

\* write_text opens the file, which empties it ...
Opens(w, backend) ==
    /\ stage[w] = "form"
    /\ stage' = [stage EXCEPT ![w] = backend]
    /\ env' = Empty
    /\ called' = {}
    /\ UNCHANGED <<named, bootVars, exportVars, now>>

\* The file has these contents from now on.
Written(c) == env' = c /\ named' = (named \/ NamesCloud(c))

\* A mistake to be caught: the script does not go on.
WritesOnly(w) ==
    /\ stage[w] \in Backends
    /\ stage' = [stage EXCEPT ![w] = "off"]
    /\ Written(Saved(stage[w]))
    /\ called' = {}
    /\ UNCHANGED <<bootVars, exportVars, now>>

\* ... and then writes it.  Of two at a time the lines of the last one count.
Writes(w) ==
    /\ stage[w] \in Backends
    /\ stage' = [stage EXCEPT ![w] = "off"]
    /\ Written(Saved(stage[w]))
    /\ proc' = IF w = "cli" THEN "source" ELSE proc
    /\ called' = {}
    /\ UNCHANGED <<sourced, settings, boots, exportVars, now>>

\* An operator writes the file by hand, whatever else goes on (README.md 90-101).
HandWrites(c) ==
    /\ Written(c)
    /\ called' = {}
    /\ UNCHANGED <<stage, bootVars, exportVars, now>>

\* The web page is gone before it has written.
WebEnds ==
    /\ stage["web"] # "off"
    /\ stage' = [stage EXCEPT !["web"] = "off"]
    /\ called' = {}
    /\ UNCHANGED <<env, named, bootVars, exportVars, now>>

\* "Delete .env and restart to re-run setup."
FileDeleted ==
    /\ env # NoFile
    /\ env' = NoFile
    /\ called' = {}
    /\ UNCHANGED <<stage, named, bootVars, exportVars, now>>

-----------------------------------------------------------------------------
(* The process.                                                            *)

Boot ==
    /\ proc = "down"
    /\ boots < MaxBoots
    /\ boots' = boots + 1
    /\ IF env = NoFile
       THEN proc' = "wizard" /\ stage' = [stage EXCEPT !["cli"] = "form"]
       ELSE proc' = "source" /\ UNCHANGED stage
    /\ called' = {}
    /\ UNCHANGED <<env, named, sourced, settings, exportVars, now>>

\* Without a file the script ends (set -e).
Source ==
    /\ proc = "source"
    /\ proc' = IF env = NoFile THEN "down" ELSE "load"
    /\ sourced' = KeysOf(env)
    /\ called' = {}
    /\ UNCHANGED <<fileVars, settings, boots, exportVars, now>>

\* Settings, read once.  The router is built from them, which fails for any other
\* backend; else the server starts.
Load ==
    /\ proc = "load"
    /\ settings' = SettingsOf(Over(sourced, KeysOf(env)))
    /\ proc' = IF settings'.backend \in Backends THEN "up" ELSE "down"
    /\ called' = {}
    /\ UNCHANGED <<fileVars, sourced, boots, exportVars, now>>

\* The script or the server ends, in the middle of what it does, or cannot start
\* without its database.  What it had in memory is gone.
Ends ==
    /\ proc # "down"
    /\ proc' = "down"
    /\ stage' = [stage EXCEPT !["cli"] = "off"]
    /\ sourced' = Empty /\ settings' = SettingsOf(Empty)
    /\ exportCalls' = NoCalls /\ admitted' = NoCalls
    /\ called' = {}
    /\ UNCHANGED <<env, named, boots, now>>

Tick ==
    /\ now < MaxNow
    /\ now' = now + 1
    /\ called' = {}
    /\ UNCHANGED <<fileVars, bootVars, exportVars>>

-----------------------------------------------------------------------------
(* Requests.                                                               *)

\* A mistake to be caught: the configuration is not looked at.
RefusalOpen(org, role) == IF org = "" \/ role \notin Roles THEN 403 ELSE 200

\* The middlewares; the one added last sees a request first.
Refusal(org, role) ==
    IF org = "" \/ role \notin Roles THEN 403
    ELSE IF ~settings.ready THEN 503 ELSE 200

\* route_for, with both configurations at hand: the URL of the backend.
RouteFor(org) == IF org = "admin" THEN settings.openai ELSE "vllm"

\* A chat reaches its model call.
Chat(org, role) ==
    /\ proc = "up"
    /\ Refusal(org, role) = 200
    /\ called' = {[org |-> org, url |-> RouteFor(org), backend |-> settings.backend,
                   sourced |-> sourced]}
    /\ UNCHANGED <<fileVars, bootVars, exportVars, now>>

\* An export with the token; without it nothing is counted.  What the database
\* answers makes no difference to the limit.
Export(a, org, role) ==
    /\ proc = "up"
    /\ Refusal(org, role) = 200
    /\ ~Full(a, now)
    /\ LET n == Cardinality(admitted[a]) + 1
       IN  /\ CountCall(a, n, now)
           /\ admitted' = [admitted EXCEPT ![a] = @ \cup {[n |-> n, at |-> now]}]
    /\ called' = {}
    /\ UNCHANGED <<fileVars, bootVars, now>>

Next ==
    \/ WebSubmits \/ WizardCancelled \/ WebEnds \/ FileDeleted
    \/ \E w \in Wizards : Writes(w) \/ \E backend \in Backends : Opens(w, backend)
    \/ \E c \in HandWritten : HandWrites(c)
    \/ Boot \/ Source \/ Load \/ Ends \/ Tick
    \/ \E org \in Orgs, role \in Roles \cup {"other"} :
        \/ Chat(org, role)
        \/ \E a \in Addresses : Export(a, org, role)

Spec == Init /\ [][Next]_vars

-----------------------------------------------------------------------------
\* No model call goes to the cloud but the admin organization's, and none at all
\* before somebody has written a file that names the cloud, or makes the server
\* ready and leaves the URL out: the default is the cloud, and a wizard empties the
\* file before it writes it, so that a server may be started with that default
\* (engine/router.py 34-56, config.py 21 and 27, config_guard.py 12-19).
CloudOnlyWhenNamed == \A c \in called : c.url = "cloud" => c.org = "admin" /\ named

\* A server started with what a wizard saved for a local model never calls the
\* cloud, whatever becomes of the file between its being sourced and the settings'
\* being read: emptied by the other wizard, saved for the cloud, written by hand or
\* deleted (entrypoint.sh 11-15, config.py 7, setup_wizard.py 99-102).
LocalSetupKept == \A c \in called : c.sourced = Saved("LOCAL") => c.url = "vllm"

\* The chats of the admin organization go where LLM_BACKEND_TYPE says, as the design
\* has it for route_for.  The code goes by OPENAI_BASE_URL alone (engine/router.py
\* 41): with an .env for a local model that does not name it, they go to the cloud.
AdminRoutedAsSet == \A c \in called : c.url = "cloud" => c.backend = "CLOUD"

InWindow(a, t) == {c \in admitted[a] : c.at <= t /\ t - c.at < Window}

\* In no minute does an address have more exports than allowed (routes.py 28-35),
\* those that failed afterwards included.
AtMostPerWindow == \A a \in Addresses : \A t \in 0 .. now :
    Cardinality(InWindow(a, t)) <= MaxPerMin

\* An export is refused with 429 exactly when the address has had all of its
\* exports within the last minute: one that was refused does not count, nor one
\* that is a minute old (routes.py 31-35).
LimitExact == \A a \in Addresses :
    Full(a, now) <=> Cardinality(InWindow(a, now)) = MaxPerMin
=============================================================================
