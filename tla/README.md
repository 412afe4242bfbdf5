# Verification of the gateway

TLA+ models of the gateway in `src/`, checked with TLC and proved with TLAPS.
The gateway is a Cloudflare Worker that routes requests of Codex and Claude
clients to upstream services. What is hard about it is not the requests but the
state around them: Durable Objects that many requests touch at once, tasks that
run after an answer has gone out, alarms, retries, and a WebSocket proxy with two
chains of promises. The models are about that.

## 1. Inventory

| Part | State it keeps | Operations | Hard about it |
| --- | --- | --- | --- |
| Health record (`health.ts`) | failures, start of the window, end of the cooldown | read, success, failure, immediate failure, clear | windows tumble; reads change the state; reports come late and out of order |
| Health store (`service-health.ts`) | one record in storage per service, key and scope | load, persist, the five calls | eviction between any two calls |
| Affinity choice (`affinity.ts`) | none | choose a target, judge a stored one | ties, and when a session may or must move |
| Session affinity object (`session-affinity.ts`) | record of the binding, alarm | resolve, index tasks, alarm, clears, status | tasks nobody awaits; generations; expiry; clears that read before they write |
| Session index (`session-affinity-index.ts`) | one row per session of a client key | register, get, list a page, remove | is written by tasks of bindings that are long gone |
| Session management (`session-bindings.ts`) | none | list, clear all, clear one | two objects and several calls, no transaction over them |
| Routing (`routing.ts`) | none | reads health, makes a candidate list, has it resolved | decides on what it read some calls ago |
| HTTP inference (`proxy.ts`) | none of its own | select, fetch with retries, report | health updates behind the answer |
| Responses WebSocket (`responses-websocket-proxy.ts`, `websocket-protocol.ts`, `websocket.ts`) | stored session, alarm, two sockets, two queues | fetch, alarm, messages, closes, errors | every await may end in another phase than it began |
| Search batch (`search-executor.ts`, `body.ts`) | budget, index, first error | workers, timers, reads, cancellation | concurrent failures; a silent provider |
| Bounded fan-out (`concurrency.ts`) | next index | run a mapper over items | a rejection leaves the others running |
| Model catalog (`models.ts`) | cache of at most 128 answers | read, write, collect | partial success; eviction; an answer collected under a configuration that is no longer served |
| Configuration (`config.ts`) | one cached document | load, parse | slow loads that overwrite fast ones, stale answers |
| Request routing (`index.ts`) | none | configure, authenticate, dispatch | a request goes on with the configuration it was given |
| Search adapters, HTTP helpers, logging, scripts | none | conversions | nothing a model checker is needed for |

How they interact: a request loads the configuration, reads the health objects of
its route a few at a time (routing), has the session's object decide on the list that
came of it (affinity), asks the upstream, and hands what the answers say to the
health objects. The session's object writes the index behind the answer; the
management requests read the index and then the session's objects. The WebSocket
object goes through the same selection for its handshake and once more for every
later request on the same connection. All of this is remote calls, so between any two of
them, and between a call and its answer, anything else may happen.

What makes each part correct: a target is cooling only when it has earned it and is
never spared by accident (health); a session is where it should be, stays there while
that is among the best, and changes service only where the code lets it (affinity); a binding has one life whatever late tasks do, and
the index tells the truth about it (session affinity, index, management); no request
is given what was out all along, as far as its reads could tell, nor denied what was in
all along (routing, inference); a connection ends, owns its sockets and frames, and reports an outcome
once and with cause (WebSocket); a batch is whole or fails for a reason of its own,
within its budget (search); a list skips and repeats nothing that stays, a clear
leaves nothing that was there all along (session management); a configuration that
is replaced is not used for long, and a client is shown models it may ask for under
the configuration of its request (configuration, catalog).

`PROJECT.json` lists the hazards with their lines.

## 2. Modules

| Module | Models |
| --- | --- |
| `HealthRecord` | `ServiceHealthState` as operators on a record |
| `Cooldowns` | abstract: what each call may do to the instant until which a target is out |
| `ServiceHealth` | the health objects; implements `Cooldowns` call by call |
| `Affinity` | `affinity.ts`, and `Best`, the targets the README promises |
| `StickyRouting` | one session under changing candidate lists |
| `Binding` | abstract: the life of one binding |
| `SessionAffinity` | the session's object, its row, the tasks and the management requests; implements `Binding`; extends `Affinity` |
| `Inference` | HTTP requests over routing and health; extends `Affinity` and composes `ServiceHealth` by `INSTANCE` |
| `ResponsesWebSocket` | one connection with its object |
| `SearchBatch` | one batch of searches |
| `SessionPages` | list and clear-all over many sessions: pages, cursors, fan-out |
| `Routes` | what a configuration means: the documents `parseConfig` accepts, the services a model is routed to, the models a client is shown |
| `ConfigCache` | `loadConfig`: the cached document and the loads under way |
| `ModelCatalog` | requests for models over both caches of an isolate; extends `ConfigCache` and `Routes` |
| `Arrays` | `Array.prototype.filter` and the sum of a list, used by the modules above |
| `ArraysProofs` | lemmas on positions, filters and sums, used by the proofs below |
| `ServiceHealthProofs`, `StickyRoutingProofs`, `SessionAffinityProofs`, `InferenceProofs`, `ResponsesWebSocketProofs`, `FanOutProofs`, `ModelCatalogProofs` | the proofs; `FanOutProofs` has those of `SearchBatch` and `SessionPages` |
| `MC...` | constants of the runs |

Definitions named `Wrong...` are plausible bugs of the definition after them; each is
put in its place once, to see that a property notices. They belong to no
specification.

### Health

A method of the object loads, applies one operation and persists without awaiting
anything between, so it is one step. `Persist` stores nothing for a fresh record,
`Load` turns nothing into a fresh record: an eviction is a stutter, which is why there is
no action for it. `failedAt` and `cooledAt` are history: the failures that count for
a service, and the last failure of a key. Time is a counter with a bound.

Two facts about the code that the properties state rather than hide: windows tumble,
so `FAILURE_THRESHOLD` failures over the boundary of two windows go unnoticed while
`2 * FAILURE_THRESHOLD - 1` never do; and a success recorded late ends a cooldown
that was earned meanwhile (`Success` of `Cooldowns`).

`Cooldowns` has one action per event, and `ImplementsCooldowns` asks more than that
every step is one of them: a read of an object has to be a `Read` there, which changes
nothing; the failure of a key a `KeyFailure`, which always moves its instant; the
failure of a service a `Failure`, which never moves one that is running; a success and a
clear end any cooldown; and time those whose instant it reaches. `Available` is the
verdict of a caller that reads and looks at its clock in one moment. Callers do not:
`IsAvailable` is the comparison they make with a snapshot, and `Inference` makes it when
the answer arrives.

### Affinity and sessions

`Affinity` has the code's functions by their names, on candidate lists in the order of
`sortRoutedServices`. `StickyRouting` keeps only the target of a session.
`SessionAffinity` keeps the record, the alarm, the row of the index, up to
`Cardinality(Tasks)` index tasks and `Cardinality(Requests)` management requests
under way. A storage transaction is one step, so is a call to the index when the
index executes it. `resolve` is one step with the alarm it sets and the task it
starts: storage calls hold off other events of the object. With `Faults` an
alarm is not set, a call of a task or a request fails, a task is lost. A task is
`unregister`, then up to `Attempts` rounds of `register`, `confirm` or `bump`, and
`discard` when the binding is gone. `restarted` is history: a binding was created
where an earlier one had been deleted, which starts the generations anew at 1.

The identity fields of a record are those of the object's name and are left out;
`created_at` differs only where `binding_id` does.

### Inference

A request goes through `services`, `keys`, `choosing`, `fetching` and `done`. The
health calls are the actions of `ServiceHealth` themselves. A read of health is two
steps, as it is two events in the code: `Read` is `getStatus` at the object, whose
snapshot is then on its way in `answers`; `Judge` is its arrival, when
`getServiceAvailability` or `getKeyAvailability` compares the end of the cooldown in it
with the clock of that moment. At most `SERVICE_FAN_OUT_CONCURRENCY` answers are on
their way; updates, clears and the clock come between. `Choose` takes a target
of `Choices` of the list that was found: with a session its object decides, and
`RoutedToBest` of `StickyRouting` says that this is one of `Choices` as well; when
that call fails the first choice stands. `updates` are the promises given to
`waitUntil`; they are applied in any order, or lost. `seen` is history: what
was in and what was out at some moment since the request came, and what was out and had
its cooldown moved while its answer was on the way (`prolonged`). A read that fails
counts as available, as in the code, and is remembered in `unread`.

### Responses WebSocket

The two chains of the object, `clientMessages` and `upstreamEvents`, are two queues
with one item in hand each (`job`, `work`). A step runs up to the next await of
something outside the object: a configuration read, a selection, a handshake, a
retry delay, a health update. Awaits of storage do not end a step because the
object takes no event during them. `job.pc` names what is awaited; the phase
may change meanwhile, and each action after an await tests it as `transition` does.

- After a refused handshake `upstreamErrorText` reads the body of the refusal
  (`reading`, `ReadRefusal`), which no timer and no signal ends; a session whose
  upstream refuses and then falls silent stays `connecting` until its client goes.
- A session is `closed` also when its record is deleted.
- A frame has weight 1; `MaxPending` is the limit in frames.
- The alarm may run early or after `deleteAlarm`, as a delivery under way may.
- A health update that is not due is awaited all the same; that adds a step, no more.
- `Polite` is the client that awaits an answer before it asks again. The code does not
  demand it, and a client that pipelines its requests resets what is known of the
  outcome of the active response (line 1005). `LossIsRecorded` holds for polite clients
  only, and says so.
- Hibernation is possible only before the first frame, when nothing is in memory.
- The object hibernates only while nothing is in memory but what `ensureSession` reads
  back, so that coming back from it is a stutter of the model.
- A crash of the object in the middle of routing or connecting is not modelled: what
  becomes of its sockets is the platform's and not in the code. The hazard stays in
  `PROJECT.json` without a property: after `deleteAlarm` a record without memory
  has nothing left to end it.

### Search batch

Workers share `nextIndex`, the budget, and the abort signal; the provider
answers in pieces of up to `MaxChunk`. What a fetch or a read came to before an
abort may still be taken after it; a rejected read first cancels its body. The timer
of a query stops with `fetchProvider`. Providers need not answer: only timers, aborts
and the workers themselves are fair. `causes` is history: the errors that no abort has
brought about.

### Session pages

What one session's object and its row do among themselves is `SessionAffinity`; here the
row of a session comes, changes and goes at any time, which is more than late index
tasks can do, and the pages have to be right all the same. A page is one call to the
index; every entry of it goes through the calls that `clearIndexedEntry` and
`sessionView` make for it, with `Concurrency` workers of `mapWithConcurrency`. A
rejected call fails the request at once, and the workers that are left go on behind the
answer (`Moved`, `Begun`). A binding is a pair of a binding id and a generation, because
the calls name both. `steady` is history: what was bound and listed when the request
began, and has been the same ever since. The digests are the numbers `1 .. Sessions`, in
the order of the index's primary key. Names with `SP` are those that `SearchBatch` has
as well: the proofs of both are in one module.

### Configuration and catalog

`ConfigCache` has one action per stretch between two awaits of `loadConfig`, which
reads the clock once, when it begins. `kv` is the document as the isolate's reads find it;
how long the store takes to spread a new one is not the gateway's. Three facts about the
code are in the model as they are: a load that began earlier and answers later
overwrites what a faster one stored; a load that fails gives whatever is cached by
then until five seconds after its own beginning, be that later or earlier than before; a document that
`parseConfig` refuses is treated as a failure to read it. `current` and `failed` are history.

`Routes` translates the layers of routes and the aggregation of catalogs. The fields of a
configuration that no route depends on (URLs, retries, web search) are left out, so
`parseConfig` is that of `config.ts` on the fields that are kept.

In `ModelCatalog` a request loads, is refused or looked up, and collects. Waiting for
digests and for the services' bodies touches no shared state, so authentication and the
cache's `read` are one step, and so are the answers and `write`. Which services are in is left
open (`SUBSET open`): their health lives in the objects of `ServiceHealth`, and a
catalog must be right whatever it says. The cache as it is: at its limit it evicts its
oldest entry also when the key to write is there already, a key that is written again
keeps its place, and an answer of some of the services is kept as one of all.

## 3. Runs

| Run | Bounds, and why they are enough | Shows |
| --- | --- | --- |
| `service_health` | one service, one key, threshold 3, window 2, cooldown 3, time 0..8 | objects share only the clock; three windows and two cooldowns fit |
| `sticky_routing` | two services with two keys and one, priorities 0 and 1, every availability, every preference | all relations of two priorities at both levels |
| `session_affinity` | two tasks, one list or single clear, TTL 2, generations to 3, three bindings, faults | a late task of each of two earlier bindings meets the third; generations run out |
| `session_affinity_live` | the same without faults, clear-all, 4 attempts, fairness | index and object agree in the end |
| `registered_is_listed`, `clear_one_clears` | as above, without faults | expected violations, see 5 |
| `inference` | two requests, two services, three keys, two calls at a time (6 in the code), one retry, cooldown 2, time 0..2, threshold 1, faults | one request's updates meet the other at every point of its selection, also between a read and its answer; a cooldown can be extended and its first end still come; threshold 1 lets one request cool a service for the other |
| `responses_websocket` | queue of 2, one retry, 4 frames, 3 messages, impolite client | overflow, a second request, and each kind of event next to each await |
| `responses_websocket_live` | 3 frames, 3 messages, polite client, fairness | every connection comes to an end or to an upstream, but for one that waits for the body of a refusal, which ends with its client |
| `search_batch` | 4 queries (the limit of the code), 2 workers, 2 pieces per answer, 4 per batch | the budget binds before the limit of the answers does |
| `session_pages` | 4 sessions, one of them restless, pages of 3, 2 workers, one clear and one list, 2 bindings, rejections, fairness of the clear | two pages with the restless row on either side of the cursor; a worker takes a second entry; a clear meets a list at every call |
| `model_catalog` | 2 requests, 2 documents, 2 services, 2 clients, 3 askers, a cache of 2, all times to live 1, time 0..2 | slow loads overlap, entries expire and are evicted, a request collects under the document that was replaced |

`CHECK_DEADLOCK FALSE` is said where the system may stop: a closed connection, a
batch that is done, requests that are answered. Bounds are guards of the actions
they bound (`MaxTime`, `MaxBindings`, `MaxFrames`, `MaxMessages`).

`MCModelCatalog` has an assumption of its own, which TLC evaluates: documents that
differ from an accepted one by one change that would lead a request astray are refused by
`parseConfig`, one for each of its checks. The run uses the symmetry of its two
requests; none of its properties is about liveness.

Fairness, and what justifies it: `waitUntil` keeps tasks running and
the runtime retries alarms (`SessionAffinity`); queued callbacks run, handshakes
time out after `UPSTREAM_HANDSHAKE_TIMEOUT_MS` and configuration, selection and
health calls return or throw (`ResponsesWebSocket`; the alarm's time comes even
if it is delivered early before, hence strong fairness for that one step). The read of
the body of a refusal is not fair: `upstreamErrorText`
(`responses-websocket-proxy.ts:711`, `websocket-protocol.ts:231-251`, `body.ts:57-58`)
waits for the upstream, the timer of the attempt was cleared with the headers
(`proxy.ts:96-104`), and the controller that could abort it was dropped
(`responses-websocket-proxy.ts:656-659`). `SessionEnds` therefore exempts a session
while it waits there and its client stays. Timers fire
and an aborted fetch rejects (`SearchBatch`); calls of a clear to other objects return or are
rejected (`SessionPages`; a client that lists need not come back for the next page).
Clients, operators and failures are never fair. `Inference` states no fairness: HTTP
inference sets no timeout of its own, so nothing in the code makes an upstream answer.

## 4. Proofs

All for every value of the constants that their assumptions allow: any thresholds,
times, numbers of services, tasks and requests.

`ServiceHealthProofs`. `TypeCorrect`, `CoolingEarned`, `BurstsCool`,
`KeysCoolFromLastFailure` and `Implementation` (of `Cooldowns`, call by call: reads,
successes, clears and failures of either kind are what they are called there). The
invariants are not inductive: that `failures` has reached the threshold says nothing of
when. The strengthening ties each record to its history: the record counts exactly the
tail of the failures that count, its window starts at the first of that tail, and
whatever lies before is at least one window older than it. `Invariance` proves it.

`StickyRoutingProofs`. `TypeCorrect`, `AlwaysBest`, `Stickiness` and `ShortMoves` (a
session that still has its key and whose service is among the best changes no more than
its key; one that lost its key may go to a tied service) for all candidate lists in
which no service and no key of a service occurs twice, which `config.ts` enforces. They
rest on lemmas about `Affinity` alone: the code's search by maxima finds exactly `Best`,
and a stored target is kept exactly when it is in it.

`SessionAffinityProofs`. `TypeCorrect`, `Implementation` (of `Binding`), `NeverAhead`,
`StaysListed`, `SparesLater` (of clears that name the row they read) and `Covered`. The
argument is the invariant behind `Order`: every entry in flight (in the row, a task, a
request) was issued; until a restart it names a binding no newer than the record;
entries with the same generation name the same binding; and a record that is registered
has its entry in the row, or a binding that is newer. `Implementation` needs only that
ids are issued once.

`InferenceProofs`. `InferenceCorrect` proves `InferenceInv`, and `TypeCorrect`,
`RetriesDoNotCount`, `NoTargetOut` and `NoneInPassedOver` follow from it.

- `Known` relates what a request has read to what was so at some moment since it came:
  what it found in was in, could not be read or was prolonged, and each service and key
  it is done with was found in or was out. `AnswerOf` carries that over the time an
  answer is on its way: a snapshot that shows a cooldown ends when the object's cooldown
  does, unless the object was in meanwhile or its cooldown was moved, so a verdict
  reached by the clock at its arrival is right but for that. With the lemmas on
  `Choices` (a target is of the best of the list) and on `Offered` (the list is the
  route without what was not found in, in its order) this gives `NoTargetOut` and
  `NoneInPassedOver`.
- `Reports` and `Counts` are behind `RetriesDoNotCount`: a request has at most one
  update that counts against a service and has it only when it is over, and a service
  has counted no more failures than there are such updates. Successes, reads, clears and
  the end of a window only lower the count, and the bound stays.
- `ImplementsHealth`: `Spec` implements the specification of `ServiceHealth`, step by
  step. Whatever requests do at once to the health objects, `CoolingEarned`,
  `BurstsCool` and `KeysCoolFromLastFailure` hold of them.

`ResponsesWebSocketProofs`. `ProxyCorrect` proves the invariant `ProxyInv`, and
`TypeCorrect`, `NeverStuck`, `NoneLeftOpen`, `FramesPass`, `CountedOnce`, `BlameIsFair`,
`OneDirection` and `HeardBeforeLoss` follow from it. None of the properties is inductive
alone, since each says something of one phase that depends on what an earlier await left
behind. The parts: `Counted` (the counter of frames is the length of the queue until a
frame too many closes the session) is what bounds the queue; `InHand` and `Sockets`
(which awaits belong to which phase, and when there is an upstream) are what makes every
continuation find the phase it tests for, and give `FramesPass`; with `Awaited` (the
alarm is set while the first frame is awaited, and the loss of an open session's
upstream is queued or in hand) they give `NeverStuck`; `Upstream` (the loss is the last
event; what was said before it is delivered or waits) gives `HeardBeforeLoss`;
`Outcomes` gives `CountedOnce`; `Blame` (an active response has a failure or an answer
still to come) gives `BlameIsFair`. The proof has a lemma per action. `BreakIsRecorded`
is `LossIsRecorded` and needs two more. `Turns` says that a client that awaits its
answers has one question under way: it waits in the queue, is being asked, is owed an
answer, or has one on its way; while it is owed one the response is active, so a loss
finds it active. `Verdicts` says that what is recorded is a success or a failure.

`FanOutProofs`, the batch. `BatchCorrect` proves `BatchInv`; `TypeCorrect`, `Whole`,
`NothingMore` and `WithinBudget` are its theorems. That an answer is whole needs `Held`:
every query that was taken is answered, in some worker's hands, or given up by an abort.
When all have stopped without one, `Employed` says that all queries were taken, so all
are answered. `Caused` ties the first error to the history of errors no abort has
brought about. `WithinBudget` needs `Budgeted`: the budget has consumed the sum of what
was kept of all answers.

`FanOutProofs`, the pages. `PagesCorrect` proves `PagesInv`; `PagesTyped`, `ClearsAll`
and `ListsAll` are its theorems. `Bindings` says that neither a session's record nor its
row names a binding that was not issued. `Orderly` says that the cursor separates: what
was listed is below what the page in hand has, which is not beyond the cursor, so
nothing is listed twice. `Reached` says that no steady session is left behind: once the
cursor is past it, it is listed, or the page in hand has it and has not been answered
otherwise. A clear lists nothing (`Silent`), so when a clear is over no session can have
been steady. The lemma on a page (the rows behind the cursor, the `Limit` least of them,
and the last one as the next cursor) is where `Filter` is reasoned about.

`ModelCatalogProofs`. `PayloadIsRoutable` and `NothingIsMissing` are about the
aggregation alone: for every configuration that `parseConfig` accepts and every set of
services that answers, the catalog has, of what they listed, exactly what may be asked
for. `CurrentIsServed` bounds the age of a configuration through `LoadCorrect`: the
cache knows nothing that was out of the store for longer than the time to live, except
by a load that failed. `ShownIsRoutable` adds that every entry of the cache is routable
under the document its key names; it does not depend on the order of the entries, on
`MaxEntries` or on the clock. `GoodOnesStay` does: by `Listed` the order names each key
of the cache once, and there are at most `MaxEntries`, so that eviction takes the oldest
and no other. `TypeCorrect` adds the shapes of entries and answers (`Typed`).

`ArraysProofs`. Induction is available to these proofs only as the fact that a nonempty
set of naturals has a least member (`Least`). From it come the highest priority of a
list (`Greatest`), and that a function defined from one position to the next exists and
satisfies its equations (`Recursion`). `FilterKeeps` says what a filter leaves: its
entries are those of the positions kept, in their order, each once; `SumGrows` says what
one summand changes. The models have `Filter` and `SumOf` where they could have had
`SelectSeq`, `SetToSortSeq` and a fold, of which nothing could be proved.

Only model-checked: the liveness of `IndexConverges`, `SessionEnds`, `EveryBatchEnds`
and `EveryClearEnds`, for which fairness and `ENABLED` are out of the prover's reach;
and the two properties that the runs of section 5 refute, which no theorem could state.
Every other property of the runs is stated by a theorem.

## 5. Findings

- `registered_is_listed`: `GET /sessions` "lists bindings" (`src/README.md:204`). A
  clear deletes the record and with it the generation; the next binding starts at 1. A
  registration of an older binding that is under way, with a higher generation,
  overwrites the new binding's row and is taken back with it, while the new record is
  marked `index_registered`. Nothing registers it again until it moves or expires.
- `clear_one_clears`: `DELETE /sessions/{session_id}` "clears one URL-encoded session
  ID" (`src/README.md:206`). When the binding has just moved and its index task is
  under way, the index names its predecessor, the object refuses to delete what the
  index names, and the answer is `deleted: 0` while the binding stays.

Not findings, since no doc or comment says otherwise, but stated by the models:

- At the last generation `resolve` throws and routing falls back to a choice without
  affinity.
- `TargetWasIn` holds for the moment of the reads and not for the moment of the fetch,
  since a target may be cooled between them.
- A key whose cooldown is extended while a snapshot of it is on its way is found in at
  the end of the cooldown in that snapshot, though it was out all along (`prolonged`).
- An upstream that refuses the handshake and never ends the body of its refusal holds
  the session in `connecting` until the client leaves.
- A session whose key is gone may move to a tied service, although its own has another
  key as good (`affinity.ts:166-168`).
- A clear of one session that finds no row deletes whatever binding there is by then
  (`clearManaged`).
- A success that began before a streak of failures ends the cooldown they earned.

## 6. Not modelled

Conversions and validation (request bodies, the formats of catalog entries, URLs,
retries and web search of a configuration, search payloads, logs, headers, encoded
cursors) keep no state, and no modelled part depends on them. The management listing of
health only reads. The capabilities that WebSocket and search requests demand of a
service filter a candidate list before the modelled choice and are left out of `Routes`. The
health updates of catalog calls go to the objects `ServiceHealth` models, whose calls come
in any order there. The growth of the buffer in `body.ts` is left out of `SearchBatch`,
which counts the pieces. A crash of the WebSocket object is the platform's (see 2).
The scripts and `models.json` are offline.

## 7. Plan

Done: health, affinity, sessions, inference, WebSocket, search batch, session pages,
configuration and catalog, and the proofs of section 4. Left, most important first:

1. What the liveness properties rest on and is safety: a round of an index task that ends
   leaves the index in agreement with the object or another task under way; an awaited call of a connection has a
   continuation that is enabled.
2. Refinements between the parts: a target that `Inference` chooses with a session is one that
   `StickyRouting` may bind; a page of `SessionPages` against the row of `SessionAffinity`.
3. The growth of the body buffer and the management listing of health.
