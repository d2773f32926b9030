# shieldlayer-max: a TLA+ model of its two proxies and its extension

shieldlayer-max puts a proxy between clients and language models. It masks
personal data in a prompt, keeps the originals in a vault in memory, has the
model's text judged for compliance, puts the originals back, watermarks the
answer and writes an audit row before the client reads anything. Beside this app
there are a gateway, a second proxy with its vault in Redis, and a Chrome extension
that masks texts before a page takes them. This directory holds models of the
three, the TLC configurations that check them on small instances, and proofs for
all instances.

    tlc -workers 2 -config chat.cfg MCChatPipeline      # one configuration
    tlapm ChatPipelineProofs.tla                        # the proofs: also
    tlapm ChatServiceProofs.tla                         #   AppServiceProofs,
    tlapm GatewayProxyProofs.tla                        #   ContentScriptProofs,
    tlapm GatewayAnonymizerProofs.tla                   #   MetricsStoreProofs
    tlapm ListLemmas.tla

## 1. The system

Two servers live in the repository, with clients around them.

| Part | State it keeps | Operations | Hard behaviour |
|---|---|---|---|
| chat pipeline, `app/api/routes.py` | none of its own; one handler per request | `POST /v1/chat` | five awaits per request, between which other handlers, timers and the end of the process come; a streamed and a plain path that differ in detail |
| vault, `app/engine/vault.py` | `_store` by session, timers on the loop | `seal_and_schedule`, `open`, `purge` | a timer racing the handler; nothing survives a restart |
| semantic cache, `app/database/vector_cache.py` | index, values, levels | `get`, `set` | texts travel between requests, similar prompts are not equal prompts, permission levels |
| guardian, `app/engine/guardian.py` | none; up to `1 + max_retries` model calls | `check` | loop limits, unreadable replies, timeouts |
| audit log, `app/database/audit_log.py` | rows in PostgreSQL | `write`, `fetch_range` | the caller may not learn what became of an INSERT |
| shield, `app/engine/shield.py` | none | `mask`, `deanonymize`, `watermark` | overlapping spans, placeholders that contain one another |
| hybrid router, `app/engine/router.py` | none | `complete`, `stream`, `route_for` | timeouts, errors in the middle of a stream |
| access control, `app/middleware/` | none | `dispatch` of two middlewares | their order; what gets through while nothing is configured |
| audit export, `routes.py` 25-42, 226-268 | calls of the last minute by address | `GET /audit/export` | window boundaries |
| life cycle, `entrypoint.sh`, `app/setup_wizard.py`, `dashboard/setup.py`, `app/config.py`, `app/main.py` | `.env`, the environment, settings read once | set up, start, end | a file written in two steps while others read it; defaults that name the cloud |
| gateway proxy, `gateway/proxy.py`, `router.py`, `main.py` | one handler per request | `POST /v1/chat/completions` | placeholders of several messages; failures after the mapping is stored |
| gateway vault, `gateway/anonymizer/vault.py` | a Redis key per session, with a time to live | `store`, `flush` | get, then set; outlives the process |
| gateway anonymizer, `gateway/anonymizer/engine.py` | none | `anonymize`, `deanonymize` | overlapping spans; positions that move |
| gateway judge, `gateway/compliance/` | none | `check`, `enforce` | the text of the last rewrite is not checked in the loop |
| gateway watermark, `gateway/watermark/engine.py` | none | `apply`, `detect` | the threshold |
| gateway audit store, `gateway/audit/store.py` | the newest entries, in memory | `append`, `all` | the limit |
| gateway metrics, `gateway/metrics/store.py` | counters, subscribers | `increment`, `snapshot`, metrics websocket | broadcasts out of order; a score of two counters raised at different times |
| chrome extension, `src/chrome-extension/` | `chrome.storage.sync`, listeners, timers | activate, clear, toggle, count, mask and submit | read-then-write in storage, late answers, timers, notifications |
| ghost-mode extension, `src/extension/` | a toggle in the service worker | toggle, intercept | mirrored state |
| dashboards, `src/dashboard*/` | none | read the log and the metrics | reconnecting |

A chat request goes through: **mask, seal, cache lookup** (no await), then, on a
miss or when streamed, **model call**, **guardian** (a judge call and corrections),
**cache set, vault open, de-anonymize, watermark** (no await), **audit write**, and
finally **purge** and the answer. The handlers of concurrent requests share the
vault, the cache, one event loop and the database.

A gateway request goes through: **anonymize** each message, a **get** and a **set** of
its Redis key for each placeholder, **model call**, and for each choice
**de-anonymize, enforce, watermark** (no real suspension), **audit**, **flush**. The
handlers share the counters and the audit list; each has its own Redis key.

What makes the app correct: no answer without its audit row; nobody's originals or
watermark in somebody else's answer, the cache notwithstanding; no text served
to a lower level than it was written for, or without the guardian; a mapping
lives no longer than its request or its time to live; every request ends; no
chat leaves for the cloud before a configuration names it; the export limit is
exact. The gateway: answers are audited, with the violations they still have; Redis
has the whole mapping while the model works, unless its key lapsed, and nothing of
an answered session; the client's words come back. The extension: an Enter on a text
in which personal data is recognized is stopped (the Send button of the page is
not: `content.js` listens to keys only), one Enter is one submission, the counter
never has too many, and a tab notices that the shield was switched on.

`PROJECT.json` lists every hazard with its line and the properties that cover it.

## 2. The modules

| Module | Models | Correspondence |
|---|---|---|
| `Shield` | `shield.py`, outcomes of `router.py` | a text is a record: its `author` (the request whose model call wrote it), the `slots` (placeholders) left in it, the `owners` whose originals were put in, the `marks` of the requests that watermarked it |
| `Vault` | `vault.py` | `store` is `_store`, `timers` the pending `call_later` handles |
| `VectorCache` | `vector_cache.py` | `entries` is the three parallel lists; `Nearest` is `index.search(vec, 1)`, open among equals |
| `Guardian` | `guardian.py` | `stage` is the await of `check`, `calls` its model calls, `verdict` what the judge's reply was |
| `AuditLog` | `audit_log.py` | `sent` is the INSERT on its way, `audit` the rows of a request |
| `ChatPipeline` | `routes.py`, `chat` | composes the five; one action from one await to the next |
| `ChatService` | the promise of `POST /v1/chat` | mapping, log and outcome of a request |
| `MCChatPipeline` | the instance for TLC | two prompts, near enough to share texts, one with a placeholder |
| `ChatPipelineProofs`, `ChatServiceProofs` | theorems | |
| `MetricsStore` | `gateway/metrics/store.py`, `metrics_ws` of `gateway/router.py` | `over` and `pos` are the list and index of a broadcast's loop; `attached` says which loops iterate the list that `subscribe` appends to; `link` is a websocket with its handler, which a disconnect has `ended` or another exception has `failed` |
| `RateLimiter` | `_check_rate_limit` of `routes.py` | `exportCalls` is `_export_calls`, calls numbered so that two at the same time differ |
| `AppService` | wizards, `entrypoint.sh`, settings, middlewares, `route_for`, export | `env` is the file, `stage` how far each wizard is with it, `proc` the line of the script, `settings` what the server read; `Refusal` is the status the two middlewares give |
| `MCAppService` | its instance for TLC | three files written by hand |
| `GatewayAnonymizer` | `gateway/anonymizer/engine.py` | operators on sequences of symbols; a recognizer result is a record of type, start, end, score |
| `GatewayWatermark` | `gateway/watermark/engine.py` | operators; a text is the set of forms, none, one or both, that it has of each pair |
| `AuditStore` | `gateway/audit/store.py` | `entries` is `_entries` |
| `GatewayVault` | `gateway/anonymizer/vault.py` and Redis | `redis` the stored mappings, `read` what `store` has got and not written back |
| `GatewayProxy` | `gateway/proxy.py`, the judge, the restart of `main.py`, the score | composes the four; `pc` is the await a handler is at |
| `MCGatewayProxy` | its instance for TLC | six bodies with every kind of overlap, two of them with several messages |
| `ExtensionStorage` | `background.js`, `popup.js`, chrome.storage | `storage` the stored items, `changes` notifications on their way, `counting` the PII events between get and set |
| `ContentScript` | `content.js` in one tab | extends `ExtensionStorage`; `listeners` how often `onKeyDown` is registered, `flows` the maskings with their timers |
| `ListLemmas` | | what loops over lists build: a list without some elements, a finite set in order, lists joined |
| `GatewayAnonymizerProofs` | theorems about the anonymizer's operators | |
| `AppServiceProofs`, `GatewayProxyProofs`, `ContentScriptProofs`, `MetricsStoreProofs` | theorems | |

`ChatPipeline.pc` says which await a handler is at: `upstream`, `guardian`,
`auditing`. Two asymmetries of the code are kept as they are. A streamed request
calls the model also on a hit, and calls it before its `try` clause, so that a
failure there leaves the mapping to the timer (`UpstreamFails`). `GuardianPasses`
stores the text in the cache before the vault is opened, so that it stays in the
cache when the opening or the audit write fails.

`InsertRow` is the database carrying out an INSERT. It is independent of the
handler: `AuditFails` covers a refused INSERT (`Discard`) as well as a broken
connection, after which the row may still appear. `Crash` ends the process: open
requests are lost, vault, timers and cache are emptied, rows and INSERTs already
sent are not. After a crash of the process the client's request is not replayed
(the code keeps nothing to replay).

`ChatService` is what a caller may rely on: at most one row; a 200 after a
compliant row, a 451 after a blocked one; both erase the mapping; a mapping once
erased never comes back; and, with its fairness, pending requests are concluded
and held mappings erased. `ChatPipeline!ServiceSpec` is that promise under the
refinement mapping `ServiceMapping`, `ServiceLog`, `status`.

`AppService` keeps what decides where a chat goes. A wizard's `write_text` is two
steps, `Opens`, which empties the file, and `Writes`; both wizards may be at it at
once. An operator may also write the file by hand (`HandWrites`), as README.md 90-101
tells, at any time and with any of the contents in `HandWritten`. The script sources
the file and starts the server, whose settings prefer, key by key, what was sourced
to what is in the file by then (`Over`). A backend other than LOCAL and CLOUD, such as
the `local` of README.md 101, stops the server at its start (`Load`). The defaults of
`Settings` name OpenAI's URL, so that it is the configuration guard alone that keeps
chats of organization "admin" from it when an empty file was read. RBAC, added last,
looks at a request first.

`GatewayProxy` has one action per await. `store` is `GetReturns` and `SetReturns`.
`RedisFails`, `UpstreamFails` and `FlushFails` end the request with status 500 and
undo nothing; a failed set or delete may have been carried out. The three awaits of
the metrics are steps of the action before them: what they suspend for is the
broadcast, `MetricsStore`'s matter. The reply of the model is one of the messages
sent, repeated, or something else; both may break any rules. `_rewrite` replaces
matches and may leave a violation of the rules of the kind of Art.5, whose words
may be glued to a match; `Residues` is what the patterns of rules.py allow. The text that
is watermarked may have any forms of the synonym pairs; `Mark` keeps of it what
`detect` then says. `left` is `NoReply` until the reply came. `Restart`
ends the handlers, counters and entries; Redis and the keys in it do not notice.
`log`, `booted` and `lapsed` are for observation: nothing in the model reads them
except to be compared.

`ExtensionStorage` makes a get and the set that follows two steps. `Put` notifies the
content script when `shieldActive` changed; notifications arrive in order. Every set
may also fail, over the quota say, which none of the callers looks at (`PutFails`). A
PII event is a record of the matches it reports (`count`), the counter it has read, and,
for observation, what was reported before it. In `ContentScript` time goes in ticks, as only the order of the two timers of a masking
and of an Enter matters; several maskings may be under way. `KeyDown` is both the
user's Enter and the one that `simulateEnter` makes; `Click` is the Send button of the
page, which takes what the input holds past every listener, also amid a masking.

`MetricsStore` is separate: nothing in the chat pipeline uses it. It keeps one
detail of Python that decides its correctness: `subscribe` appends to the list a
loop may be iterating, so the loop sees the newcomer, while `unsubscribe` builds a
new list, so a loop under way goes on over the old one. `counters` stands for all
keys, `GatewayProxy.counters` has them by name. The websocket handler unsubscribes on
a `WebSocketDisconnect` only (`HandlerEnds`); any other exception, for example of
`receive_text` on a binary frame, ends it and leaves its connection in the list
(`HandlerFails`) until a broadcast fails to send to it. `asyncio.Lock` never suspends
anybody here, as nothing is awaited under it, so increment and snapshot are one
step and the suspensions are at the sends.

Definitions introduced by "a mistake to be caught" are variants of the definition
after them. No specification uses them; they exist to confirm that a property
notices such a mistake when it is put in the place of the original.

## 3. The runs

| Run | Instance | Shows | States |
|---|---|---|---|
| `chat` | 2 requests, 2 prompts, 1 level, 1 correction, 1 crash | `TypeOK`, `ConcludedIsAudited`, `AnswerIsOwn`, `ServedPassedGuardian`, `MappingLifetime`, `OwnAnswerResolved`, `AnswerFromOpenSession` | 522 thousand |
| `chat_strict` | 3 requests, 1 prompt, 2 levels, no correction | `LevelRespected`, `ServedJudgedCompliant` | 331 thousand |
| `chat_service` | 2 requests, 1 correction, 1 crash, fairness | `ServiceSpec` (refinement with liveness), `RequestConcluded`, `MappingErased` | 121 thousand |
| `metrics` | 2 broadcasts, 2 connections, fairness | `TypeOK`, `LiveSubscribed`, `NobodySkipped`, `CountArrives`, `FailedRemoved` | 232 thousand |
| `gateway` | 3 sessions, 6 bodies, replies of 0, 1 or 2 choices, 2 rewrites, 2 entries kept, 1 restart | `TypeOK`, `AnsweredIsAudited`, `ViolationsRecorded`, `NewestKept`, `RedisAgrees`, `KeptSpans`, `OwnOriginalsRestored`, `ScoreInRange`, `MarkDetected` | 1.7 million |
| `service` | 2 addresses, 2 calls in 2 ticks, 3 organizations, 3 files written by hand, 2 starts | `TypeOK`, `CloudOnlyWhenNamed`, `LocalSetupKept`, `AtMostPerWindow`, `LimitExact` | 934 thousand |
| `extension` | 1 key, 1 tab, 2 Enters or clicks, 2 maskings, a match count of 2 | `TypeOK`, `OnePressOneSubmission`, `CountsEvents`, `TabProtected` | 2.9 million |
| `chat_corrections` | as `chat`, no crash | violation of `ServedJudgedCompliant` | |
| `chat_cached_rows` | as `chat`, no crash | violation of `CachedRowsAreHits` | |
| `chat_placeholders` | as `chat`, no crash | violation of `AnswerResolved` | |
| `gateway_collisions` | as `gateway`, 1 session, no restart | violation of `OriginalsRestored` | |
| `service_handwritten` | as `service`, 1 address, 1 start | violation of `AdminRoutedAsSet` | |

**Why the bounds are enough.** A request interacts with others only through the
cache, so two requests show every interaction of one pair: one stores a text, the
other is served it. `chat_strict` has three, so that a text passes from one level
to another along a chain: the first stores it, the second, of another level, reads
or restores, the third reads. One correction distinguishes no retry, a retry and an
exhausted loop; `MaxRetries = 0` is the boundary. One crash is enough since a
crash leaves nothing but rows and sent INSERTs, and the second starts where the
first did. Two prompts suffice for "similar but not equal". The proofs lift all
these bounds for the safety properties. Bounds: `MaxCrashes` in the guard of
`Crash`; the number of requests bounds cache and log, as each handler appends at
most one entry. `LongTTL`, the constraint of `chat_strict`, leaves out timers
firing, which `chat` covers. In `metrics` two broadcasts overlap, and of two
connections one leaves, fails or arrives while both loops are at the other; the
safety invariants are proved for any number of both.

In `gateway` one session may be any of six bodies, the two others, which are
interchangeable, have a body without entities: sessions share only the counters and
the audit list, for which what the others mask makes no difference. Two messages of a user show a collision; an
assistant's message between them is sent as it is. Two rewrites tell the last one
(`MaxRewrites`) from the others, two choices (`ReplySizes`) the last from the
others; `MaxEntries = 2` with three sessions drops the oldest of several and keeps an
order; three synonym `Pairs` have texts on both sides of the half; `MaxRestarts = 1` is
enough as a crash is. In `service` a window of 2 ticks on a clock of 4 values
(`MaxNow`) has calls that leave it and calls that do not, with `MaxPerMin` 2 and
the boundary between; two starts (`MaxBoots`) give an old environment and a newer
file. Of the files written by hand one leaves CONFIG_READY and the URL out, one only
the URL, and one has a backend that the router refuses. In `extension` two Enters or
clicks (`MaxPresses`) overlap in every way; the submission comes later than the
overlay (`OverlayTime` < `SubmitTime`), as in the code. Every PII event reports two
matches (`Counts`), so that a counter that is raised by one, or by too much, shows;
`MaxReports` bounds the matches reported, and `MaxChanges = 1` has a set wait until
the change before it was delivered. The popup, a validation and a toggle may be under
way at the same time.

Requests are symmetric in the safety runs; the liveness runs use no symmetry.
Deadlock is not checked: when every request is done and the timers have run, the
system really has nothing left to do; `gateway`, `service` and `extension` stop at
their bounds in the same way.

**Fairness.** `HandlerFairness`: every await of a handler ends, one way or
another. For model calls this is httpx's timeout (60 s in `complete`, 120 s in
`stream`, 30 s for the guardian). For the audit write it is an assumption that
PostgreSQL answers or the connection breaks: `pool.acquire()` and `execute` are
given no timeout. No particular outcome is fair, so a model may fail for ever and
the guardian may never agree. `TimerFairness`: the event loop runs timers that are
due. Arrivals, INSERTs and crashes are not fair. In `metrics` every send ends, the
first one of a handler included, since the server closes a websocket that does not
answer its pings; increments, subscriptions, disconnections and the ends of handlers
are not fair. In `extension` the browser is: it answers the first get and delivers
notifications. `gateway` and `service` state no liveness and assume no fairness.

**What the metrics feed does not promise.** Snapshots may arrive out of order: of two
overlapping broadcasts the older may reach a connection last, and a newcomer may
read an older snapshot after its first. The dashboard shows what it read last, so
it may lag until the next increment. `CountArrives` is what holds: the count, or a
later one, does arrive. A connection whose handler failed stays in the list until an
increment comes along and fails to send to it, which nothing makes happen;
`FailedRemoved` says that the first broadcast that finds it then removes it for good.

**What the gateway and the extension do not promise.** The gateway's counters say
that a reply was rewritten once per choice, so the score falls below 0 when a
reply has several rewritten choices. `models.py` drops `n` from the request, and
models then answer with one; `ScoreInRange` is what holds for one. That a watermark
identifies its session (README.md 29, of the app) fails in the gateway for texts in
which the model itself wrote second forms; `MarkDetected` says exactly for which. A
mapping whose request failed stays in Redis until its key's time is over. Two PII
events that overlap lose a count, and a set that fails loses one (background.js
27-29); `CountsEvents` says that nothing else does and that none is counted twice. A
validation answered after the license was cleared switches the shield on again; the
tab keeps its listener when the shield is switched off. What the page's Send button
sends is not masked; `OnePressOneSubmission` covers it, no property says more.

**What an .env may be.** `cp .env.example .env` (README.md 90) copies keys of the gateway:
it has no CONFIG_READY, and keys that `Settings` does not know, which it refuses when
it reads the file. The model takes from such a file what decides where a chat goes,
and starts the server also where unknown keys stop it; it has more behaviours then,
and the properties hold in them too.

**What the five violations say.**

- `chat_corrections`. After a negative verdict the guardian asks for a correction
  and accepts any that is not empty, without judging it (guardian.py 113-118). It
  returns no text, so the handler caches and serves the very text that was judged
  non-compliant. README.md line 25 promises that responses that remain
  non-compliant are blocked. With `guardian_max_retries = 0` the promise holds:
  `chat_strict` and the theorem `StrictServesCompliant`.
- `chat_cached_rows`. A streamed request with a hit calls model and guardian and
  still writes `cached = true` (routes.py 67, 77, 126).
- `chat_placeholders`. A cached text keeps a placeholder that the prompt of the
  caller does not have. `OwnAnswerResolved` is what does hold.
- `gateway_collisions`. Each message is numbered from one (engine.py 228) and the
  mappings are merged (proxy.py 44-46): a reply that repeats an earlier message gets
  the original of a later one. `OwnOriginalsRestored` is what does hold.
- `service_handwritten`. For organization "admin" `route_for` takes the cloud's
  configuration whatever the backend is (router.py 41), and its URL defaults to
  OpenAI's (config.py 21): with a file for LOCAL that leaves the URL out, admin's chats
  go there. The design (docs/superpowers/specs/2026-03-22-enterprise-governance-design.md
  line 27) has the backend type decide. `CloudOnlyWhenNamed` and `LocalSetupKept` are
  what does hold.

One more place where a comment says otherwise, without a run of its own:
guardian.py 93 catches three exceptions; a reply of the judge that is a JSON list, or
has a null confidence, raises another, and the "fail-safe" of the comment in line 94
becomes a 500 without an audit row (`JudgeUnreadable`).

## 4. The proofs

**The chat pipeline.** `ChatPipelineProofs` proves, for all requests, prompts,
scores, thresholds, levels and retry limits, the safety properties of the two
safety runs, and `ChatServiceProofs` that `Safety` implements `Service!Safety`.

None of the properties is inductive. Take `ServedPassedGuardian`: it speaks of
the author of an answer that is done, while the step that could break it happened
in another handler, which put the text in the cache. The inductive invariant `Inv`
therefore has five named parts:

- `TypeOK`;
- `PhaseInv`: what the await a handler is at says of its input, guardian stage, raw
  text, answer and status;
- `AuditInv`: an INSERT on its way and a row are `RowOf` the request, and never
  both there; 200 and 451 come after the row;
- `CacheInv`: every entry is a text without originals or marks, and released: its
  author's check was passed and its author's level is at most the entry's;
- `AnswerInv`: every answer, also one still being audited, has its own originals
  and mark alone, no placeholder when it is its own text, and is released for its
  reader.

`CacheInv` carries the facts from one request to the next: an entry is stored by
its author, and a level that may read it is at least as high. There is one lemma
per part (`TypeStep`, `PhaseStep`, `AuditStep`, `CacheStep`, `AnswerStep`), each with
a step per action or per group of actions that leave the part alone. Most
properties follow from `Inv` directly. `MappingLifetime` is inductive relative to
`Inv`; `StrictServesCompliant` assumes `MaxRetries = 0` and adds `StrictInv`;
`AnswerFromOpenSession` is an action property, proved step by step. In the
refinement each action maps to an action of `ChatService` or to a stutter:
`GuardianPasses` to `Fail` when the session is gone and to a stutter otherwise,
`TimerFires` to `Erase` or a stutter, `InsertRow` to `Record`.

**The app's services.** `AppServiceProofs` proves the five properties of `service`
for any organizations, addresses, limits, windows, clocks and files written by hand.
`CloudOnlyWhenNamed` speaks of the calls of a server, whose settings come from two readings of a file that changes between them. `CloudInv`
says that, before any file named the cloud, neither the file nor what was sourced does,
and settings that are ready do not; and that settings made from a wizard's local setup
have the local URL. The lemma `Merged` is the step that matters: two contents that do
not name the cloud, merged key by key, give no ready settings with the cloud's URL. For the limiter,
`AtMostPerWindow` speaks of windows long past, whose calls the code has forgotten,
and `Full` of what it remembers; `LimiterInv` ties them: what is remembered was
admitted, every admitted call less than a window old is remembered, none is in the
future, and no window at any time, also a coming one, has too many.

**The anonymizer.** `GatewayAnonymizerProofs` is about operators, without a
behaviour. `RemoveOverlapsProperties`: what `_remove_overlaps` returns was found, runs
from left to right without an overlap, and every span left out overlaps one that is at
least as strong. `AnonymizeProperties`: no placeholder is given twice in a text, and
`deanonymize`, with any mapping that has the placeholders given and perhaps others, is
the inverse of `anonymize`. The argument follows the loop: after each replacement
the text is the original up to the start of the span just replaced (`FromRight` says
that the spans to come lie before it), and what follows that point is restored to
what it was (`IsMasked`). It uses that `deanonymize` works on the two parts of a text
separately (`DeanonymizeConcat`), a placeholder being one symbol: in the code it is
"longest first" that makes it one.

These are inductions over data: the recursive functions inside `KeptOf`, `Masked`,
`FlattenSeq` and `SelectSeq` count the rounds of a loop. The library's induction
theorems cannot be instantiated with a predicate, so the lemmas apply `SetInduction`
of `ListLemmas` to a set: `T == {n \in Nat : what holds after n rounds}` has 0 and,
with n, n + 1. `SetInduction` rests on the library's theorem that `Nat` is well
founded. For each function a lemma such as `MaskingExists` first shows that there is
one that satisfies the recursion, without which `CHOOSE` says nothing.

**The gateway.** `GatewayProxyProofs` proves all safety invariants of `gateway` for any
sessions, bodies and bounds, each with an inductive invariant of its own. The order
below is that of a request.

- `KeptSpans` is about the constants alone: `RemoveOverlapsProperties` for each body.
- `RedisAgrees` needs `RedisInv`: between the get and the set of `store` also `read` is
  `full`, unless the key lapsed, and a key exists only for a request that has begun.
- `StoredInv`: the items of a body are those stored, in order, and those still to be
  (`todo`). What is stored maps each placeholder to the original of the *last* item
  that has it (`Stored`): this is where a collision of two messages shows.
- `ReplyInv`: the choices of a reply are taken one by one; what the client is given so
  far breaks exactly the rules in `violations`.
- `OwnOriginalsRestored` needs `ChoiceInv`, that a choice at hand is restored. It is
  taken when `todo` is empty, so `full` has every item, and where the placeholders of a
  message are its own, `full` has its originals; `AnonymizeProperties` does the rest.
- `AnsweredIsAudited` and `ViolationsRecorded` need `AuditInv`: a session has an entry
  only once it is past the audit, then only one, and the body and the violations the
  entry was made of do not change any more. That nobody else changes them is
  `HandlersAlone`; that the stored mapping has the types of all items is `StoredInv`.
- `NewestKept`: the list is the newest of what was appended since the restart
  (`EndOfLog`), as cutting, appending and cutting again is cutting what was appended to;
  `NewestElements` reads off the list, from its end, what `all` returns.
- `MarkDetected`: of the pairs that occur in a watermarked text the misses are exactly
  the misleading ones (`HitsOfDetect`), and `apply` makes no pair occur or vanish. Counting
  both (`DetectedUnlessMisled`) gives the half.
- `ScoreInRange` is the one invariant that counts across requests. `ScoreInv`: while no
  reply has two choices, the answers rewritten and the requests counted whose answer
  is not finished (`Counted`) are together no more than the requests counted. Each step of
  a handler moves at most one session out of `Counted`, and adds at most one then.
- `TypeOK` combines the typing parts of these.

**The metrics feed.** `MetricsStoreProofs` proves the three safety invariants of `metrics`
for any calls and connections. `CountInv` says that `counters` is the number of calls
begun. `ListInv` says of every loop what it relies on while it is suspended and others
subscribe and leave: only a loop under way has a list that grows, a list never
holds a connection before it is accepted, what raised once is gone for good, and
whoever a loop is past was sent its snapshot or is gone (`Gone`: disconnected, ended or
failed, none of which is undone). The steps that matter are
`subscribe`, which lengthens several lists at once, and the end of a loop, which
replaces the list (`WithoutProperties`: it keeps the live connections, each once).

**The extension.** `ContentScriptProofs` proves `OnePressOneSubmission`,
`CountsEvents` and `TypeOK` for any timers, counts and bounds. `SubmissionInv` adds that at
most one listener is registered, without which an Enter could start two maskings.
`CountInv` has two parts, unless a reset came amid an event. `InOrder`: what an event read
is at most what was reported before it, and the events under way have disjoint,
ascending stretches of what was reported, so that a stale value that is written
never passes the total. `Complete`, while nothing was lost: at most one event is under
way, and what it read is still the count.

**Assumed**, by the `ASSUME`s of the modules, which every run evaluates:

- the typing of the constants, that `None` and `Blocked` are not texts or rows, and
  that there are finitely many synonym pairs;
- `BodiesAssumption` of `GatewayProxy`: no recognizer reports an empty span or one past
  the end of the text, and the text a client sends has no placeholder in it. The
  second is a real limit of the code: a client that writes `PERSON_001` itself gets it
  replaced by an original, as `deanonymize` cannot tell it from its own;
- for `ViolationsAreRecorded`, `MaxRewrites > 0`. With `guardian_max_rewrites = 0` the
  code is not covered: `enforce` returns a text it has not checked, and what the
  proxy records hangs on a rewrite having been made (proxy.py 71-74);
- for `StrictServesCompliant`, `MaxRetries = 0`, as said above.

**Only model-checked**: all liveness (`RequestConcluded`, `MappingErased`, the fairness
half of `ServiceSpec`, `CountArrives`, `FailedRemoved`, `TabProtected`), as liveness under fairness and `ENABLED` are outside what the prover
does. Every invariant and every action property of the passing runs is proved.

## 5. What is left out

- Client disconnects and cancelled handlers; exceptions inside `mask`, in
  computing an embedding, or in finishing a text. The last two behave like the
  failures modelled: before the `try` clause the mapping is left to its timer,
  inside it is purged.
- A model answer that is `null` rather than a text.
- The pool of ten database connections: writes wait for each other only.
- Encryption, and whether the key bytes are really overwritten (`purge` overwrites
  a copy, `bytearray(key)`): no property of the model could tell.
- The wording of texts: that the watermark's synonyms may change a word of an
  original, that `mask` of the app may meet overlapping spans, that the model may
  invent a string that looks like a placeholder it was not shown, that a client's own
  text of the gateway may contain one (`BodiesAssumption`). What recognizers
  find is an input of `GatewayAnonymizer`; their patterns are not modelled.
- The tail of a longer `.env` that a second writer leaves behind the shorter one it
  wrote at the same time; `COMPLIANCE_STRICTNESS`, which nothing reads.
- The content security policy of Manifest V3, under which the inline `onclick`
  handlers of `popup.html` (163, 176, 183) would not run: the model has activation,
  toggle and deactivation all the same, behaviours the browser may never show.
  Storage gets that fail: the callback would find no data.
- Two tabs at once: each has its own script, and the events of both meet in
  `counting` as those of two maskings of one tab do. Notifications that overtake one
  another.
- The schema, the read-only role, PDF layout, the Streamlit and Next.js dashboards, the
  ghost-mode extension and the demo page. They show things, or (ghost mode) act in a
  page alone.

## 6. Roadmap

In this order, each with its instance, properties and, where marked (P), proofs.

1. The dashboard client that reconnects (`lib/ws.ts`) against `MetricsStore`.
2. `Masking` (P): the span replacement of `shield.py`, where spans may overlap, beside
   `GatewayAnonymizer`, whose lemmas on lists it can use.
3. The toggles of the ghost-mode extension.
4. The pool of the audit log, and what its exhaustion does to `HandlerFairness`.
