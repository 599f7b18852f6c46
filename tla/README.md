# Wappa in TLA+

Wappa is an asynchronous framework for WhatsApp Business applications: FastAPI takes the webhooks, tasks of the event loop run the handlers of the application, and caches, databases, HTTP clients and event streams are shared by all of them. This directory models the parts whose correctness depends on the order in which things happen, checks the models with TLC and proves what matters most with TLAPS.

Paths below are relative to `src/wappa/` unless they start with `docs/`.

## 1. The system

### How a message goes through it

A webhook request enters `api/controllers/webhook_controller.py`, which hands it to `InboundRuntime.accept_webhook` (`core/inbound/runtime.py`). The runtime builds a context (messenger, caches, database sessions) and gives the dispatch to the `BackgroundWorkTracker`, which makes a task of it; the request is answered at once. The task opens an SSE scope, logs the message (which stages its event), runs the handler of the application, and post-processes. The handler sends through a messenger, whose pipeline runs the SSE middleware; it reads and writes caches; it opens database sessions. Expired keys of Redis, external webhooks, cron schedules and sends through the API start other tasks in the same tracker. At the end of the application the builder runs the shutdown hooks in the order of their priorities: the tracker refuses new work, is drained, and then the shared resources are closed.

There is one event loop. Two coroutines interleave where one suspends: at a network round trip, a thread, a lock that is taken, a sleep. Several processes share Redis and Postgres. The first step of every module here was to find these suspensions; what lies between two of them is one action.

### Inventory

| Component | State | Operations | Hard behaviour | What makes it correct |
|---|---|---|---|---|
| Versioned table cache (`persistence/versioned_table_cache.py`) | a counter row and one physical table per generation, all with TTLs | get, upsert, create_if_absent, replace_if, update_field, renew_ttl, delete, bump_version | two round trips per operation; counter and rows expire on their own | a bump hides every older row; the counter outlives the rows it hid |
| JSON table cache (`persistence/json`) | one file per inbox: rows, one expiry; one lock | the same, and increments, lists, delete_table | an operation is several holds of the lock; failing writes | conditional writes have one winner; rows do not vanish |
| Redis caches (`persistence/redis`) | hashes with TTLs | Lua transitions, hash commands | read-modify-write of lists; errors are swallowed | the contract of the table cache |
| Memory caches (`persistence/memory`) | dictionaries, expiry times, a sweeper task | as above | expiry between two sweeps | as above, and no expired row is read |
| Session lifecycle (`core/lifecycle/session_lifecycle.py`) | outbound and media HTTP client, draining flag | get, recreate, begin_drain, close | loss and recreation; a drain during a suspended construction | close leaves no client; nobody uses a closed one |
| Messenger factory (`domain/factories/messenger_factory.py`) | cache of messengers by inbox | create_messenger | waits for the credential store | no stale messenger; none in a drain |
| Work tracker (`core/lifecycle/background_work_tracker.py`) | task set, draining flag | track, drain | tasks that start tasks, ignore cancellation, end late | resources outlive the work |
| Builder and plugins (`core/factory`, `core/plugins`) | hooks by priority | startup, shutdown | order across plugins | the order 90, 85, 80, 70, 30 … 10 |
| Postgres sessions (`database/session_manager.py`) | engine, pool | get_session, get_read_session, initialize, cleanup | cancellation at every suspension, dead connections, retries | nothing left behind; only what succeeded is committed |
| SSE hub (`core/sse/event_hub.py`, `api/routes/sse.py`) | subscriptions, bounded queues | subscribe, publish, unsubscribe, shutdown, stream | slow clients, clients that leave, closing | order; only overflow loses, oldest first; streams end |
| SSE scope (`core/sse/context.py`, `handlers.py`, middleware) | staged event, identity | stage, enrich, flush, publish | a flush is a task of its own; drain; failing handlers | published once, and before the replies |
| Inbound runtime (`core/inbound/runtime.py`, the webhook controller) | none | accept, dispatch | redelivered webhooks, a drain, failing stores, failing handlers | what the platform is told is what happened |
| Expiry listener (`core/expiry`) | subscription, attempts, handler registry | set, delete, connect, listen, dispatch, reconnect | lost connections and notifications, drain | a trigger fires at most once; what was heard runs; the listener recovers and can be stopped |
| Credential store (`domain/services`) | Redis hash per inbox, with a TTL | get, validate, invalidate | fill against invalidation, two commands to write one hash | revoked credentials disappear |
| Messenger and Template transport (`messaging`) | none but a cached messenger | send, upload, re-upload, download, mark as read | outcome of a request that may have arrived, a session that is lost | no false rejection, no second send, no false success |
| External webhooks, cron, rate limiter, Redis notifications | registries, a scheduler, windows, subscriptions | one handler each | tracker and shutdown | accepted or refused as a whole |
| Processors, schemas, routes, CLI | none that is shared | parsing, formatting, HTTP | — | data, not order |

`PROJECT.json` lists every component with its status, and the hazards of the code line by line with the properties that are about them.

## 2. Modules

| Module | Models | Composes / extends |
|---|---|---|
| `VersionedTable` | the versioned table cache over a backend with atomic commands | — |
| `VersionedTable_proofs` | its theorems | `VersionedTable` |
| `RowContract` | abstract: what `ITableCache` promises of rows | — |
| `JsonTable` | the JSON table cache, hold by hold | implements `RowContract` |
| `RowStore` | what the next two have in common: rows, answers, histories | — |
| `MemoryTable`, `RedisTable` | the table cache of the other two backends | extend `RowStore`, implement `RowContract` by `INSTANCE … WITH` |
| `Tables` | the table cache of an application: one of the three backends, chosen when it is built | extends `RowStore`, composes `JsonTable`, `MemoryTable`, `RedisTable` |
| `Tables_proofs` | theorems about all three, the refinement included | `Tables` |
| `SessionLifecycle` | HTTP clients and messengers | — |
| `Shutdown` | tracker, tasks and shutdown hooks | extends `SessionLifecycle` |
| `Shutdown_proofs` | theorems about both | `Shutdown` |
| `DbSession` | one `async with get_session()` of any number of units on one pool | — |
| `DbSession_proofs` | its theorems | `DbSession` |
| `EventHub` | subscriptions, queues and streams | — |
| `EventScope` | what dispatches publish on the hub, and the drain | extends `EventHub` |
| `EventScope_proofs` | theorems about both | `EventScope` |
| `ExpiryListener` | expiry triggers, the listener that hears of them, the hook that stops it | — |
| `ExpiryListener_proofs` | its theorems | `ExpiryListener` |
| `Messenger` | calls to the platform, the results of the messenger, the outcomes of the Template transport | — |
| `Messenger_proofs` | its theorems | `Messenger` |
| `CredentialStore` | a database row, its copy in Redis, lookups, invalidation | — |
| `Inbound` | webhooks from the platform to the tracker | extends `CredentialStore` |
| `Inbound_proofs` | theorems about both | `Inbound` |
| `MC…` | the constants TLC needs | one module each |

Operators whose comment begins with "Mutated form" are no part of a specification: each is the operator after it with a plausible mistake, kept to show that a property notices.

### From code to state and actions

**VersionedTable.** `bumps` and `counterTtl` are the counter row, `rows[g][k]` the row of key `k` under `<table>@v<g>`. `Begin` is the first round trip (`_table`), which fixes the generation; `Get`, `Upsert`, … are the second; `Tick` is the passing of the time all TTLs are counted in. A row and an operation carry the `epoch` (bumps ever made) and `life` (epoch of the last expiry of the counter) of the counter read they come from. These two are history variables and decide nothing; nor does `given`, the TTL a row was last written with, which a caller may choose larger than the counter's. The fields of a row are not held: the comparison in `replace_if` is a free choice. With `ReadsFail` a failed counter read is generation 1, as in the code; the run and the theorems but `TypeCorrect` take counter reads that work.

**JsonTable.** `file` is the one cache file, `lock` its `asyncio.Lock`, `task[p]` the continuation of coroutine `p`: the rows it has read (`snap`), the row it is about to write, the keys it still has to delete. Uncontended holds that do one thing are one step; `create_if_absent` and `replace_if` keep the lock from their read to their write. A file that cannot be read or holds no JSON reads as `{}` (`ReadsFail`, `Seen`), and the write that follows replaces the file: `missed` are the rows it will erase unseen, of which `tally` forgets the increments (`Kept`). A row is who wrote it and how often it was incremented. `RowContract` maps a row to the caller whose whole-row write it holds.

**MemoryTable.** `rows` is the dictionary of one namespace. No operation on it suspends, so each is one step; what remains is time. `left` counts down to `expires_at`; the row stays after that until a read drops it or the sweeper comes (`DropIfLapsed`, `DropLapsed`). `set_ttl` does not look at the expiry it replaces, so `RenewTtl` also brings a lapsed row back; the contract has that as an action of its own (`Renew`).

**RedisTable.** `rows` are hashes with TTLs at the server. A command, a pipeline in MULTI and a Lua script are one step each; an upsert gives a hash that is there some of its fields, the counter perhaps among them. `append_to_list` is a read and a write, and the deletion of a table scans a page and deletes it. With `RepliesLost` the server does its part and the caller is told False, None or an exception.

**Tables.** `backend` is what `create_cache_factory` has chosen, once. What is required of rows is stated here, of whichever backend it is, and proved once. The JSON backend has two entries: `json`, in which any coroutines write their rows conditionally, and `json_alone`, in which one coroutine has every operation, on a disk whose reads and writes may fail. `reply` is what the last write was answered; a plain write clears it, which tells it from a renewal.

**SessionLifecycle and Shutdown.** Clients are numbered as they are made. `call[p]` is a coroutine suspended in the credential store, with the session it got before; `held[p]` the messenger it has in hand; `cache` the cache of the one long-lived factory. `work[p]` goes from request to tracked task to done or cancelled; `hook` is the shutdown hook that runs. Each hook that waits has an action for the end of the wait and one for its timeout. An `aclose()` that raises leaves `close()` where it is (`CloseBreaks`, `closing = "broken"`), and the application ends all the same.

**DbSession.** `pc[u]` is the place of a unit in `_managed_session`, `lent` the connections out of the pool, `tx[u]` the transaction as Postgres sees it. `_shielded` gives each teardown statement three ends: done, failed or timed out (the statement may have arrived), and cancelled by `Task.cancel()`, which the shield of anyio does not hold off. The close of a half-open session may fail, too (`DiscardCut`): its connection is in no unit and not in the pool either (`leaked`).

**EventHub and EventScope.** An event is named by its place in `log`. `queue[c]` is the bounded queue, with 0 for `stream_closed`; `stream[c]` is the response, which may be given up before it is iterated. A message has its staged event (`pending`) and its flush task (`flush`); `FlushIncoming` is `flush_incoming_sse`, called from enrichments, sends and the end of the handler. The ready queue of asyncio is first in, first out, so a flush task runs before a suspended send resumes: that is the guard `flush[m] # "ready"` of `SendReturns`. A send refused by its own validation does not suspend (`SendRefused`); `hasty` are the places in the log of such replies that came before the flush task had run, a history variable.

**ExpiryListener.** `trigger[k]` is the key at the server; each time it is set is another life of it, a number the program does not know. `pubsub` is the subscription the connection manager has, `leaked` those it had before: a new one takes the place of the old one, which is neither closed nor given back to its pool. `notify` is whether the server tells of expired keys: `connect` switches it on, a CONFIG SET that is refused is logged and the listener subscribes all the same, and a server that restarts forgets it while the client resubscribes by itself (`Resume`), to silence. `Hearing` is a listener that is subscribed and told. `Fail` is the `except Exception` of the loop, where every exception, the refusal of a draining tracker included, is taken for a lost connection. Redis tells only those who are subscribed: what expires at another moment is `lost`.

**Messenger.** An operation is a sequence of `Legs`, each one HTTP request. `net` are requests the platform may still carry out, also after their caller has given up; `answer[s]` is the response on its way. `SendReturns`, `UploadReturns`, `DownloadReturns`, `InfoReturns`, `StreamReturns` and `MarkReturns` are what each handler makes of its response; `NoAnswer` is a request that got none. `result` is what the messenger returns, `outcome` what `InboxTemplateTransport` makes of it. A host calls again when, and only when, the outcome says that nothing was sent (`Resend`). A 2xx without an id need not come from a platform that did anything (`TurnDown`); `mark_as_read` and the opening of a stream look no further than the status (`Unread`). A middleware may end a call with a result or an exception of its own (`MiddlewareEnds`), or call `next` again after a failure (`MiddlewareRetries`, the callers in `Retrying`). `carried` counts what the platform did; `doubt` notes that a gateway, a malformed body or a middleware hid it.

**CredentialStore and Inbound.** `row` is the row of the host, `cached` its hash in Redis. `look[p]` is the round trip coroutine `p` waits for: `hgetall`, `select`, `hset`, `expire`; each may fail, the writes also after they took effect (`FailAfter`). The host changes the row and invalidates the cache at two different moments. `request[p]` is the place of a request in `build_dispatch_context`: it validates the inbox, may look the recipient of a status up, and builds a messenger, for which the factory validates the inbox again and then reads its credentials. After that there is no await up to the answer, so that `Accept` is one step. The platform delivers a webhook until it is answered 200 while it still waits (`waited`). What becomes of a tracked task is the matter of `Shutdown` and `EventScope`.

## 3. Runs

| Run | Instance | Question |
|---|---|---|
| `versioned` | one key, two callers, row TTLs 2 and 5, counter TTL 4, two bumps | do the generations hold inside one life of the counter, and does the counter outlive the rows it hid, but for the excess of a TTL larger than its own? |
| `tables` | two coroutines, two rows, one of three backends; or one coroutine on the JSON backend with every operation, an expiring file and reads and writes that fail | one winner, the winner's row stays, increments are kept but where a failed read erases them, the contract is implemented |
| `json_lostclaim` | two coroutines, a claim against an upsert of another row | is a claim exclusive? No: see 6 |
| `shutdown` | two pieces of work that may start each other, three clients, one inbox | order of closing, no client left, no messenger in a drain, the shutdown ends |
| `shutdown_stale` | the same | does the messenger cache heal itself? No: see 6 |
| `dbsession` | three units, two connections, one retry | nothing left behind, nothing wrongly committed, the teardown ends |
| `dbsession_commit` | two units, one connection | does returning mean committed? No: see 6 |
| `sse` | a message with up to three sends, a report, one filtered client, queue of two | queues, order, exactly-once, closing |
| `expiry` | two keys, one with a handler, each set twice; two failures, a pool of two, no limit of attempts or two, a CONFIG SET that may be refused | at most one run, what was heard runs, recovery, an end |
| `transport` | a coroutine with a messenger and two hosts, one of them the same coroutine, the other with a middleware that tries again, two attempts | no false rejection, no second send, no false success |
| `transport_rejected` | one host, one attempt | does "rejected" prove that nothing was sent? No: see 6 |
| `inbound` | a status and a payload that is refused, two requests at a time, one change of the credentials, each webhook given up once | revoked credentials, what the platform is told, an end to stale copies |

**Bounds, and why they are enough.** Every bound is a CONSTANT marked "bound" in its module. *VersionedTable*: a counter that expires and is bumped again needs two bumps; rows are independent, so one key; two callers give every overlap of two round trips; row TTL 2 with a flight of 2 ends with the counter at the latest, and 5 is larger than the counter's 4, so that `Excess` is 0 and 3. *Tables*: a row is lost by a write of another row, so two keys; two coroutines are enough for two winners, and the theorems hold for any number; `MaxCount` 2 gives an increment room after a reset, and in the Redis backend (`MaxHashCount`, also 2) one that was acknowledged beside one that was not; TTL 1 and none give every order of expiry and access; the answers of Redis may be lost (`RepliesLost`). *Shutdown*: one piece of work that runs and one that it starts or that races it; three clients are the first session, its successor and a media client. *DbSession*: one unit more than connections, one retry. *EventScope*: two places and up to five publications overflow the queue at every offset; the filter selects the identity that only an enrichment resolves. *ExpiryListener*: two lives of a key are one that was heard and one that replaced it; two failures use up a limit of two attempts or a pool of two connections; with a pool of two and no limit the listener starves, a case `Recovers` names. *Messenger*: one attempt that was lost and one that follows it, by the host or by its middleware; one coroutine has every operation, without a retrying middleware: a second file operation on top of the first is covered by the theorems alone. *Inbound*: one change is what a late fill needs (read before it, written after the invalidation); a webhook given up once is delivered while the first request still runs; two requests at a time, which are then two deliveries of one webhook, or of two. The theorems below hold without the bounds of their modules.

Symmetry is used only in runs without liveness properties.

**Fairness, and why the code justifies it.** *Shutdown* assumes weak fairness of the hooks once the shutdown has begun and none at all of the work: the builder awaits one hook after the other, and each waits with a timeout. *DbSession* assumes it only of the timeouts of `_shielded` and of dropping a half-open session; Postgres never has to answer. *EventScope* assumes that a scheduled flush task runs, that a response is iterated or given up, and that an open stream goes on taking events. A client that disconnects may leave the last one to nobody; the wait for the queue has a timeout, so the loop of `stream_events` comes round in any case. Handlers have no fairness: none of the properties needs one to end. *ExpiryListener* assumes that the loop runs the listener's task and that the server answers a connect it does not fail; triggers, failures and the shutdown have none. *Inbound* assumes that a request gets on (a command of Redis or the database answers or fails) and that a TTL ends; the platform and the host may stop at any time. *VersionedTable*, the tables and *Messenger* have no liveness property and no fairness.

Deadlock is checked in all runs but those of `EventScope`, where everything is over when the hub is closed and the streams have ended, and of `ExpiryListener`, where everything is over when the hook has stopped the listener and no trigger is left to set. `Shutdown` and `DbSession` state their end (`Terminated`, `AllOver`) as a step, so a state in which everybody waits would be found.

## 4. What the properties say

* **Generations** — `BumpInvalidatesWithinOneLife`: an operation meets rows of exactly its own generation as long as the counter lives; of rows of an earlier life it says nothing, since their numbers are used again. `CounterOutlivesOrphans` and `LapseIsCold`: the factor 4 of `VERSION_TTL_FACTOR` does what its comment says for `default_ttl`; an orphan with a TTL of its caller's outlives the counter by that TTL's excess and no longer. Both limits are findings, see 6.
* **Claims** — `ExclusiveClaim`, `ClaimPersists`: one caller is told CREATED, and its row stays until deletion or expiry. `ImplementsContract`: each operation decides and writes in one step of `RowContract`; that a lapsed row of the memory backend can be renewed is a step of its own there, until a caller was told that the row is missing. `NoLostIncrement`: acknowledged increments stay through deletions, expiry, lost answers and failed writes; the one exception, by name, is what a failed read of the JSON file makes the next write erase. Of the JSON backend these hold for applications that only write conditionally, or of one coroutine: see 6.
* **Shutdown** — `NoClientLeft`: after `close` no client is open, and after one that raised at most the session. `CloseAfterWork`: the hooks that dispose of resources come after every tracked task that was not cancelled. `NoMessengerInDrain`: not even to who waited for the session when the drain began. `ShutdownEnds`.
* **Database** — `NothingLeftBehind`: neither a transaction nor a connection outlives its unit, if its close got through; what a failed discard leaves is counted against the pool (`Taken`). `OnlyReturnedCommit`: a failed or cancelled body is not committed. `TeardownEnds`: without any answer from Postgres.
* **Events** — `InOrder`, `OnlyOldestMissed`, `NoneLeftSubscribed`, `ClosedHubIsEmpty`, `StreamsEnd` for the hub; `IncomingOnce`, `IncomingFirst`, `HandledIsReported` for the scope. `IncomingFirst` has two exceptions, each a disagreement with `core/sse/handlers.py:144` (see 6): the reply that was refused at once, and it alone (`hasty`), and the message whose event the drain dropped (`lost`).
* **Expiry** — `RunsOnce`: a handler starts at most once for a life of its trigger and never for one that was deleted or set again in time. `HeardRuns`: what reached the subscription runs, unless the connection breaks, the listener fails or the process drains. `Recovers`: after a failure the listener hears again; the exceptions, each a disjunct that stands for one thing the documents do not say (see 6), are attempts used up, which no success gives back, a pool used up by the subscriptions it did not close, and a CONFIG SET that was refused. `CancelEnds`: a cancelled listener ends from wherever it is.
* **Sends** — `RejectedIfKnown`: a template reported rejected or not started was not carried out and never will be, unless something hid the platform's answer: a gateway, a body of another shape, a middleware. `SentOnce`: a host that resends only what was not sent sends once, also if its middleware had tried again before. `SuccessIsReal`: a success was carried out leg by leg, also over a session that was lost in between; where nothing but the status of the response is looked at, a 2xx is believed.
* **Inbound** — `AnswerIsTrue`: a webhook answered 200 has its task, and there are no further tasks but those of deliveries the platform did not wait for; a refusal has left nothing behind. `OnlyLateFillRevives`: after an invalidation revoked credentials come back only by a fill that read them before. `ChangeTakesEffect`: once the host is quiet the cache ends up without what is not in the row, except for a hash whose writer stopped before EXPIRE.

## 5. What is proved

The theorems hold for every value of the constants that satisfies the assumptions of the modules (`VersionedTableAssumption`, `RowStoreAssumption`, `TablesAssumption`, `SessionAssumption`, `DbAssumption`, `QueueAssumption`, `SendsAssumption`, `KindsAssumption`, `ExpiryAssumption`, `MessengerAssumption`, `StoreAssumption`, `InboundAssumption`): sizes and TTLs are natural numbers, queues and pools have a place, there is a row, a TTL and a webhook to speak of, a dispatch is either a message or a report. Every safety invariant and every action property that a passing run checks is the statement of a theorem.

**VersionedTable_proofs.** `TypeCorrect` and `ExactWithinOneLife` come from the invariant `Accounted`. It says that the histories account for the counter (`epoch = life + bumps`) and that every live row and every operation carries the generation its epoch and life give. The property alone is not inductive: it says nothing of rows no operation looks at yet. `MarginHolds` and `LapseFindsV1Empty` assume of the constants only that counter reads do not fail, and nothing of the TTLs callers pass: they bound what is left of an orphan by the counter and by what its own TTL and flight exceed the counter's TTL. The invariant `Covered` adds that an operation in flight on an old generation has a bounded age, so what it still writes is covered too.

**Tables_proofs.** `IInv` is the invariant of the backend that was chosen. `TypeCorrect`, `OneWinner`, `WinnerKeepsRow` and `IncrementsKept` follow from it; `MeetsContract` is the refinement: initial states are initial states of `RowContract`, and every step maps to a step of it or to a stutter.

* *Memory and Redis* (`MemoryInv`, `RedisInv`): a row that has a winner is there (in memory: and has not lapsed) and has exactly one. Neither `ExclusiveClaim` nor `ClaimPersists` is inductive alone, for a second caller is told CREATED exactly when the row of the first has gone unnoticed. The refinement has one case per operation, on lemmas about what a write, a drop and the clock do to the holder of a row. Lost answers of Redis are puts of the contract, without an answer, and the update of a row that is there is a put of its holder. `MeetsContract` has no hypothesis: the clock of the memory backend is the contract's `Lapse`, a renewal of a lapsed row its `Renew`, and `MemoryTimeStep` shows that no other row comes back with it.
* *JSON, conditional writes* (`JsonInv`): `JsonHold` says that the coroutine that has the lock decides on a copy of exactly what the file holds, and that every other coroutine is between operations; `JsonClaims` is the invariant of the claims, on what the file holds. The claims alone are not inductive: the whole file is written back from the copy, so a row is safe because nobody else has written since the copy was taken.
* *JSON, a coroutine alone* (`AloneInv`): `Counted` says that the file holds at least what was acknowledged of every row, and `Pending` that so does whatever the coroutine is about to write, its own row excepted where that is being rewritten: it may have a write to make of rows that have expired since they were read, and then nothing acknowledged is left. Of the rows in `missed` it says nothing, for their increments go with the write; every other row keeps its own through failed reads and writes.

**Shutdown_proofs.** `Invariant` proves `IInv`: an open client is one the lifecycle knows (`ClientsKnown`), `close` passes them in its order, stops where one raises, and only in a drain (`ClosingInOrder`), and the flags and the set of pending tasks follow the hooks (`HooksInOrder`). From it `TypeCorrect`, `NoClientIsLeft`, `ResourcesOutliveWork` and the action property `NoMessengerWhileDraining`. `ShutdownAdvances` and `CoreNeverStuck` are the safety half of `ShutdownEnds`: the hooks go one way along a finite order, whatever the work does, and the only hook without a timeout, which closes the clients, always has a step to do.

**DbSession_proofs.** `IInv` adds to the types that `lent` is finite, that no unit has a transaction before its body nor a connection between attempts, and that a unit in its commit has returned. `TypeCorrect` includes the limit of the pool, which needs cardinalities. `UnitsLeaveNothing` and the action property `CommittedReturned` follow. `TransactionsAreHeld` adds that an open transaction is on a connection the pool counts as lent and that nothing is decided before the teardown; `OutcomesStand` follows, that what was committed or undone stays so through the rollback and the close. `TeardownGoesOn` is the safety half of `TeardownEnds`.

**EventScope_proofs.** `MessageInv(m)` relates the place of a handler, the staged event and the flush task to what the log holds of the message; it yields `IncomingPublishedOnce` and `IncomingPublishedFirst`, the latter reply by reply: the replies not in `hasty` come after the message whatever the others did. `StreamInv(c)` says that the queue is ordered, newer than everything sent out, unclosed as long as the client is subscribed, and empty before; it yields `StreamsInOrder` and `EndedUnsubscribed`. `OldestInv(c)` is inductive relative to it and yields `OverflowDropsOldest`. Both rest on `EnqueueShifts`, which says where each event is after an overflow. `ClosedHubStaysEmpty` is inductive by itself; relative to it `ClosingReachesStreams` says that a stream that is open is subscribed, or has the closing event last in its queue, the safety half of `StreamsEnd`. `FlushInv(m)` adds to `MessageInv(m)` in which phases a flush is under way or was dropped; `HandledNotForgotten` follows, the safety half of `HandledIsReported`.

**ExpiryListener_proofs.** `IInv` says where a life of a trigger can be: held by the server, in the buffer, or past both. The life the server holds is the last that was set; neither it nor one in the buffer has been dropped or run; a life yet to come has neither; and the buffer has none twice. `RunsOnce` alone does not say why the next notification is not a second one. `TypeCorrect` includes the bound of the delay and that the listener never holds more connections than its pool has. `NothingForgotten` is the safety half of `HeardRuns`: relative to `IInv`, every life of a trigger with a handler is held by the server, in the buffer, withdrawn, lost, or run; what was lost has run nothing and will not. It has one lemma per way in which lives move (dropped, expired, dispatched, lost with a buffer), on what the members of a sequence become when its head is taken, its end extended, or it is cut in two. `CancellationIsHeard` is the safety half of `CancelEnds`: a listener that was cancelled still has the cancellation to notice or is on its way out. `AttemptsAreEnough` is that of `Recovers`: relative to `StopIsHeard`, the connections held are no more than the failures so far and the one it listens on (`Counted`), so a listener that nobody stops ends only at its limit, and a pool with a connection for each attempt always has one left for the next; if it listens and does not hear, its connection is broken, the CONFIG SET was refused or the server has lost it.

**Messenger_proofs.** `Known(s)` says what is known of the message of `s` as long as nothing hid it: it has at most one request, which is carried out at most once and not any more once it was; nothing was carried out or is under way before the request is posted, after an answer or a result that refuses it, and where the transport says that it was not sent. What a middleware tries again was rejected or hidden, and then `doubt` says so: a retry is a call that begins anew in `Known(s)`. `Real(s)` ties a success to the legs carried out, leg by leg, and `InTurn(s)` says that result and outcome are written when the call is that far. `RejectedTruly`, `SentAtMostOnce` and `SuccessHappened` follow.

**Inbound_proofs.** `IInv` has three parts besides the types. `Fills`: the hash holds nothing revoked unless a late fill has put it there, no lookup knows of a revocation that has not happened yet, and what was revoked was in the row; `OnlyLateFillRevives` alone says nothing of the hash that the next lookup will hit. `WaitsOnce`: the platform waits for at most one delivery of a webhook, which is under way and not answered. `Accounted(w)`: the tasks of `w` and the requests that may still make one unheard (`Unheard`) are together no more than the deliveries given up, and one more if `w` was answered; without the requests under way `AnswerIsTrue` is not inductive, for an unheard request makes its task after it was given up. From these `TypeCorrect`, `RevivedByLateFill` and `AnsweredTruly`, which hold without fairness and without the bounds of the run on requests and webhooks. `HashesEnd` is the safety half of `ChangeTakesEffect`: a hash without a TTL has a writer that is about to give it one, or a fill failed between the two commands. What `ChangeTakesEffect` adds to it, that the writer gets on and the TTL ends, is fairness.

**Only model-checked.** Liveness (`ShutdownEnds`, `TeardownEnds`, `HandledIsReported`, `StreamsEnd`, `HeardRuns`, `CancelEnds`, `Recovers`, `ChangeTakesEffect`): the proof system does not reason about ENABLED, on which fairness rests. Each has a safety half among the theorems above, which says what a state or a step must be so that only progress is missing; what the runs add is that progress is made. There are no recursive operators, so no proof by induction over data is missing.

## 6. Where code and documents differ

`PROJECT.json` quotes the sentences. Four runs end with a counterexample:

1. **A claim may be lost** (`json_lostclaim`). `set` reads the file in one hold of the lock and writes it in another; a row created in between is erased.
2. **A messenger may stay stale** (`shutdown_stale`). The cache asks whether the present session is open, not whether it is the one the messenger was built with.
3. **A failed COMMIT is swallowed** (`dbsession_commit`). `_shielded` logs it and the caller returns as if its work were stored.
4. **A template reported as rejected may have been sent** (`transport_rejected`). The trace: the platform carries the send out, its 2xx has a body of another shape, the `ValueError` is taken for an invalid request. An HTTP error status of a gateway, 502 and 504 included, does the same as a rejection by the platform.

The others are exceptions that a property of a passing run names. Each is as narrow as it could be made, and without it the run fails.

5. **Versioned tables**: a row with a TTL larger than the counter's outlives it and comes back in generation 1 (`CounterOutlivesOrphans`, `Excess`); after the counter has expired the next bumps use its numbers again, and a row of such a generation is found again (`BumpInvalidatesWithinOneLife`, one life).
6. **JSON tables**: a file that cannot be read is rewritten without what it held (`NoLostIncrement`, `Kept`); two coroutines that increment lose each other's increments, through the window of item 1 (`NoLostIncrement`, one coroutine).
7. **Memory tables**: `set_ttl` brings a row back that has expired (`ImplementsContract`, `Renew`).
8. **Shutdown**: `drain` gives up on tasks it has cancelled, and what they use is closed under them (`CloseAfterWork`); a client whose `aclose()` raises leaves the session open (`NoClientLeft`, `broken`).
9. **Events**: a reply may come before its message, if it is refused at once, or without it, in a drain (`IncomingFirst`, `hasty`, `lost`).
10. **Expiry**: attempts are never reset, failed subscriptions never closed, a refused CONFIG SET never tried again (`Recovers`, a disjunct each).
11. **Transport**: what a middleware raises after the platform has accepted the message is an outcome that denies it (`RejectedIfKnown`, `doubt`).

Met on the way, and not in the models, which hold neither identities nor whole payloads: the enrichment of a status also replaces the identity of a status that has a BSUID (`core/inbound/runtime.py:405`), and of a payload with several messages only the first is dispatched (`processors/whatsapp_processor.py:449`). Both are listed as hazards.

## 7. Not modelled, and why

* Contents: payloads, keys, encodings, validation, the text of frames and logs. Most of `processors`, `webhooks`, `schemas` and of the WhatsApp handlers is of this kind; a payload of `Inbound` is a message, a status, or refused. It is the larger part of the repository by lines, and it has no state.
* Libraries: redis-py, SQLAlchemy, httpx, the cron scheduler, FastAPI. The modules have what Wappa sees of them.
* Time: TTLs are counted in ticks or end at any moment; other timeouts may end at any moment while the work they wait for has not.
* State, user and AI state caches: the commands of the tables on one key each, with nothing new to interleave.
* `JsonTable`: a caller cancelled during a rename, whose thread goes on without the lock. `create_if_absent` with a failing write answers CREATED and writes nothing; the module has that step (`WritesFail`), the instance of the claims takes a disk that works, reads included. What a failed read does to claims is the loss of the whole file, item 6 of the list above.
* `VersionedTable`: the run and its theorems take counter reads that work; with `ReadsFail` an operation whose read failed is in generation 1 and meets the rows there, a hazard no property covers.
* `DbSession`: engine initialization with its retries, read replicas, health checks.
* `EventScope`: the replacement of the default handlers by plugins, custom event types, several inboxes per client.
* `ExpiryListener`: the application context and the errors of the handlers, several processes that all hear the same key (each runs its handler).
* `Messenger`: deletion of media, streaming to the caller, temporary files. An exception whose text happens to contain `131062` is taken for a rejection (`utils/error_helpers.py:34`); texts are not held. An empty 2xx to a send is a success without an id to the caller of the messenger, and indeterminate to the transport: `SuccessIsReal` speaks of successes with an id.
* `Inbound`: verification of the subscription, external webhooks, several messages in one payload, the settings credential store, which has no cache. A hash without `is_active` or a token is no hit in the code; as one HSET writes them all, only somebody else's write could leave such a hash, and `Hit` takes every hash for a whole one.
* Command line, examples, authentication and rate limits.

## 8. Plan

Done, in the order of importance: the versioned table, the three table backends with their contract, shutdown with the session lifecycle, database sessions, event streams, the expiry listener, the messenger with the Template transport, the credentials with the inbound requests, and the theorems above.

What would come next:

1. `DbEngine` — initialization, retries, cleanup and read sessions, extending `DbSession`.
2. `Notifications` — publication and the subscriber that runs until Redis closes, composed with `Shutdown`.
3. `ExpiryListener` for several processes, each with its tracker, over one server.
