# Verification of restaurant-pos

TLA+ specifications of the parts of restaurant-pos that are hard to get right
and hard to test, TLC configurations that check them on small instances, and
TLAPS proofs of what matters most. Paths are relative to the repository
(`apps/`, `packages/`, `docs/`), where this directory calls them `src/...` in
`PROJECT.json`.

- [1. The system](#1-the-system): components, state, operations, hazards
- [2. The modules](#2-the-modules): which module models which code, and how
- [3. What is checked](#3-what-is-checked): runs, bounds, fairness
- [4. What is proved](#4-what-is-proved): theorems, assumptions, invariants
- [5. Where code and documents differ](#5-where-code-and-documents-differ)
- [6. What is left out, and the plan](#6-what-is-left-out-and-the-plan)

## 1. The system

A terminal (a browser, possibly offline) queues *mutations* of orders and sends
them one after the other to the API. The API decides each in one PostgreSQL
transaction, which also writes an outbox row. Worker processes copy outbox rows
to one topic of a Redpanda (Kafka) cluster. From the topic, the kitchen
consumer of the worker builds a projection and enqueues print jobs, and the
realtime consumer of the API broadcasts events to the screens, which reload
what they show.

```
terminal queue --POST /mutations--> write path --(same tx)--> outbox
     ^  409/200                                                 | publisher
     |                                                          v
 screens <--socket-- realtime consumer <----------------- topic order.events
                                                                | kitchen consumer
                     printer <-- print worker <-- queue <-- kitchen projection
```

### Inventory

| Component | State it keeps | Operations | What is hard | What makes it correct |
|---|---|---|---|---|
| Order rules `packages/domain` | none | `decide`, `isValidTransition` | precedence of the refusals; repeats | used as operators by the write path |
| **Order write path** `apps/api/src/modules/orders` | `orders`, `order_items`, `payments`, `processed_mutations`, `outbox_events`, `conflict_log` | `applyMutation` and the outcomes it settles outside its transaction | decisions on unlocked reads, READ COMMITTED, repeats of lost answers, id reuse, crashes | each version announced once, each mutation has its effect at most once, answers are true, tenants are separate |
| **Outbox publisher** `apps/worker/src/modules/events` | `outbox_events` (claims, attempts, outcome), `outbox_controls` | `publishOnce` (claim, send, mark, fail, release), pause, replay | leases against slow passes, sends that land late, crashes between send and mark | per-order order, at-least-once, a dead letter blocks nothing, an outage is cheap |
| Broker session and supervisor `apps/worker/src/shared` | one session per worker: up, dead, torn down | `guardTransport`, `supervise` | a session dies under a pass, silently or announced; a replacement appears | a pass sends only on the session it started with, and a dead session is replaced |
| **Kitchen projection** `apps/worker/src/modules/kitchen` | `processed_events`, `kitchen_tickets` | `applyKitchenEvent`, `enqueueTicket` | duplicates, late and replayed events | a ticket never moves back, no record is skipped, a ticket is enqueued at most once by its consumer |
| **Print pipeline** `apps/worker/src/modules/printing` | `print_jobs`, the BullMQ queue, the printer's ledger | `processPrintJob`, `reconcilePrintJobs`, dead-letter retry | print done but not recorded; enqueue lost after commit; restarts | a ticket is printed once, or ends as a dead letter, and is never forgotten |
| **Terminal sync** `apps/web/src/sync`, `persistence`, `stores/order.ts` | IndexedDB: queue, snapshots, pointer; memory: a mirror of the queue, the order on screen | commands, passes, halts, discard, rebase, canonical reads, hydrate | lost answers, failed disk writes, a tab that dies, a rebase half done, a hydration beside the operator | intents apply in order, none is forgotten or left unsent, a halt stops its order, a discard is final |
| **Realtime fan-out** `apps/api/src/modules/realtime`, `apps/web/src/realtime`, `stores/connection.ts`, `stores/kitchen.ts` | `processed_events`, rooms; the gate's seen versions, the rounds of the loader, the commands in doubt; the transport of a screen | consume, mark, emit, gate, coalesced load, refetch, kitchen commands, choose and change the transport | a broadcast lost for good, loads that finish late, answers after the screen was left | the rail never moves back and ends with what was heard; an unanswered command is kept; one connection, on the transport that is wanted |
| Conflict resolutions `apps/api/src/modules/orders` | `conflict_log.resolved_*` | record a resolution | a report overtaken by a fresh conflict | no row is closed over a mutation that is still queued |
| Feature flags `apps/api/src/modules/config` | `feature_flags`, a Redis payload and an invalidation counter | read through, toggle, invalidate, fill | a fill with rows read before a toggle; Redis commands that fail or come late | after a confirmed toggle nobody is answered with older rows |
| Service worker `apps/web/src/sw`, `src/pwa` | caches by build, the worker that is active or installing | install, activate, navigation, update banner | pages of an older build, builds replaced during an installation, a browser that is closed | a stored document has its bundle, a page of the build before keeps its own |
| Presence `apps/api/src/modules/realtime`, `debug` | entries in Redis with a lifetime | beat by socket or POST, eager delete | a socket whose loss is noticed after the terminal came back | in the end those who work are listed, nobody else |
| Process lifecycle `apps/worker/src/index.ts`, `apps/api/src/index.ts` | connections, timers, pools, what a shutdown waits for | start, supervise, probe, shut down | a stop in the middle of a connect, a pass, an outage, or of another stop | it ends with nothing left open; an outage does not end it |
| Reads and menu, debug panel, counters, screens | little or none | plain reads, presentation | - | - |

`PROJECT.json` lists them all with their status, and lists under `hazards` each
place of the code where something can go wrong that a test would hardly reach,
with the property that watches it.

## 2. The modules

| Module | Models | Extends / instantiates |
|---|---|---|
| `OrderDomain` | `packages/domain/src/decide.ts`, `status.ts` | - |
| `OrderWritePath` | `applyMutation` and everything it calls | `OrderDomain` |
| `OrderWritePath_proofs` | theorems about it | `OrderWritePath`, TLAPS |
| `MCOrderWritePath` | request pools and a price list for TLC | `OrderWritePath` |
| `OrderedEventLog` | what the publisher promises the readers of the topic (abstract) | - |
| `OutboxPublisher` | `publishOnce`, sessions, pause, replay | instantiates `OrderedEventLog` |
| `OutboxPublisher_proofs` | theorems about it | `OutboxPublisher`, TLAPS |
| `MCOutboxPublisher` | model values and symmetries for TLC | `OutboxPublisher` |
| `TicketBoard` | what the kitchen consumer promises the print pipeline (abstract) | - |
| `KitchenProjection` | the kitchen consumer group, `applyKitchenEvent`, `eachMessage` | instantiates `OrderedEventLog` (its input), `TicketBoard` (what it implements) |
| `KitchenProjection_proofs` | theorems about it | `KitchenProjection`, TLAPS |
| `MCKitchenProjection` | the life of an order for TLC | `KitchenProjection` |
| `PrintPipeline` | print jobs, queue, sweep, manual retry, printer | instantiates `TicketBoard` (its input) |
| `PrintPipeline_proofs` | theorems about it | `PrintPipeline`, TLAPS |
| `MCPrintPipeline` | model values for TLC | `PrintPipeline` |
| `TerminalSync` | the queue of a terminal, the engine that drains it, reloads, leaving the route | - |
| `ConflictLog` | `conflict_log` and the reports that close its rows | `TerminalSync` |
| `TillTaps` | the quantity of one line through queue and projection | `TerminalSync` |
| `TerminalSync_proofs` | theorems about what the terminal sends, and what it keeps | `TerminalSync`, TLAPS |
| `TerminalAtRest_proofs` | theorems about reloads, idle queues, the log and the taps | `ConflictLog`, `TillTaps`, `TerminalSync_proofs` |
| `MCTerminalSync` | the terminal in six settings for TLC | `ConflictLog`, `TillTaps` |
| `LiveRail` | realtime consumer, socket, gate, coalescing loader | `OrderDomain` |
| `KitchenCommands` | the commands of the kitchen display | `LiveRail` |
| `MCKitchenCommands` | the display in five scenarios for TLC | `KitchenCommands` |
| `FeatureFlags` | the flag, its cache, the requests that read and write it | - |
| `ClientTransport` | the connection store of a screen | - |
| `Rollout` | the two composed, from the row to the screen | `FeatureFlags`, `ClientTransport` |
| `Realtime_proofs` | theorems about rail, commands, flags and connection | `KitchenCommands`, `Rollout`, TLAPS |
| `MCRollout` | toggles and restaurants for TLC | `Rollout` |
| `ShellCache`, `MCShellCache` | the service worker and its browser | - |
| `ShellCache_proofs` | theorems about it | `ShellCache`, TLAPS |
| `WorkerProcess` | start, supervision and shutdown of the worker | - |
| `ApiProcess` | the same of an API process, with its probes | - |
| `Presence` | which terminals are listed as working | - |
| `MCProcesses` | the last three, one at a time, for TLC | the three |

### OrderWritePath

The six tables are six variables; `handler[h]` is the state of one request in
progress. `orders[o]` is the row or `NoRow`; `lines[o][p]` the quantity of the
line for product `p` (0: no line; the API keeps one line per product).
`handler[h].pc` names the next statement of the code:

| `pc` | code (`mutation-handler.ts`) | actions |
|---|---|---|
| `idle` | - | `Receive` |
| `reading`, `readingLines` | `loadOrderSnapshot`, two SELECTs | `ReadOrder`, `ReadLines` |
| `checking` | `runMutation`: tenant, `processed_mutations`, existence, `decide` | `RejectCrossTenant`, `AnswerFromRecord`, `OrderNotFound`, `DecideOnSnapshot` |
| `writing` | `applyEffect`, the inserts, COMMIT | `CreateOrder`, `LoseCreation`, `ApplyChange`, `LoseVersionGuard`, `UnknownProduct`, `PaymentKeyTaken`, `LoseIdRace` |
| `raced` | `racedOutcome` after a unique violation | `AnswerRaced` |
| `conflicting`, `readingCanonical`, `loggingConflict` | `conflictOutcome` | `FindProcessed`, `ReadCanonicalRow`, `LogConflict` |
| `confirming` | `alreadyAppliedOutcome` | `Confirm` |
| `replied` | the route sends the answer | `Finish` |

*What is one step.* Transactions are READ COMMITTED: a SELECT sees what was
committed when it ran, so each is an action and anything may happen between
two. The writes and the COMMIT are one action: the first write (insert of the
order, or the guarded `UPDATE orders`) takes the row lock of the order, a
concurrent writer of the same order waits for it and then re-evaluates its
guard on the committed row, and nobody sees an uncommitted row. Writers of
different orders meet only in `payments.mutation_id` and
`processed_mutations`, in this order everywhere, so they do not deadlock; the
one that commits second is `PaymentKeyTaken` or `LoseIdRace`. `Confirm` is one
action for the same reason: it locks the row first (`SELECT ... FOR UPDATE`).
The read of `processed_mutations` in `runMutation` is taken together with the
checks that follow it: nothing between them waits, and a record that appears
after it is `LoseIdRace`.

*Requests.* `Requests` is the set of mutations clients may send, each any
number of times. Two assumptions are made of clients and no more. `Receive`: a
client never names a version the order has not had (its versions come from
answers). `ClientsAssumption`: an id belongs to one tenant, and identical
content under one id has one base version. An id reused with other content or
another order is not excluded, nor is a creation by two tenants of one id.

*Data.* Prices and names are abstracted by the constant `LinesTotal(_)`; a
request hash is the tuple of what `requestHash` hashes; timestamps, metadata and
the conflict log's columns other than the request are left out.

### OutboxPublisher

An event is `<<order, version>>`. The columns of `outbox_events` are the sets
`published`, `dead`, `due` (`next_attempt_at` has passed) and the functions
`owner` (`claimed_by`), `lapsed` (`claim_until` has passed), `attempts`. A pass
of worker `w` goes through `pc[w]`: `idle` - `choosing` (before
`reasonToStop`) - `sending` - `landed` - `acked` or `failed` - back, and
`releasing` when it stops early. Time is the phases it passes through: the
budget of a pass is `fresh` or `overdue`, a claim has lapsed or not, a backoff
has elapsed or not; the one relation between the clocks is the one the code
establishes, that a claim of a pass cannot lapse while its budget is fresh
(`LEASE_SAFETY`).

- *Claim* is one action for `claimBatch`. `FOR UPDATE SKIP LOCKED` may skip any
  candidate, so it takes any non-empty set of at most `BatchSize` candidates;
  a candidate that changed after the snapshot of the subquery is rechecked when
  it is locked.
- *Sends* may fail after the record was stored, or before it is stored later:
  `stray` holds sends nobody waits for, which land at any time or never. A
  duplicate of a record changes nothing in `onTopic`; readers must deduplicate.
- *Sessions.* `alive[w]` is `isTransportAlive()` of the session the pass started
  with, `session[w]` the one the supervisor holds.
- *Replay* may pick any published row: the code takes the one published last.
- `markPublished` and `recordFailure` are not guarded on the claim, and are
  modelled so; `disowned` remembers what they did to others.
- Left out: `reclaim_count` and `last_error` (nothing reads them), the publish
  delay (part of `BudgetSpent`), the wording of `worker_id` (a worker that is
  restarted claims under a new id; the model keeps the old one, which only lets
  it release a claim of its former self that it does not hold in its batch - it
  does not, the batch is empty).

`OrderedEventLog` is the abstract specification: events are appended,
delivered in order, or abandoned. `OutboxPublisher!ImplementsLog` maps
`onTopic` to what was delivered and `everDead` to what was abandoned.

### KitchenProjection

The chain is composed by its abstractions. The topic is `OrderedEventLog`,
which `OutboxPublisher` implements; `log` adds to it the records themselves,
duplicates included, and thereby their order, late ones in it. What the
projection does to `kitchen_tickets` implements `TicketBoard`, which is all the
print pipeline knows. So three models of moderate size stand for one that
could not be checked.

- *The group.* One partition, since an order's records are all in one. The
  coordinator's view (`assigned`, `offset`) and the members' (`joined`, `pos`,
  `pc`) are kept apart: a member that was given up for dead (`Rebalance`) goes
  on handling records until it notices (`NoticeLoss`). Its offset commits are
  refused. Offsets are committed for records whose `eachMessage` resolved
  (`Return`), at any later time or never.
- *The transaction* is one action (`ApplyNew` or `SkipDuplicate`): its first
  statement inserts the primary key of `processed_events`, so a second
  delivery of the event waits there until the first has committed or rolled
  back, and the updates of a ticket are conditional single statements.
- *Ticket.* The state and `source_event_version`; table and items are copied
  from the payload.
- *Enqueue.* `enqueueTicket` swallows every error, so `Enqueue` always goes on;
  what becomes of the job is `PrintPipeline!Announce`.
- `Life[o]` lists the event types of an order's versions. `LifeAssumption` says
  that they send the order to the kitchen at most once and that nothing follows
  `OrderCancelled`: `OrderDomain` lets an order be sent from `OPEN` only, nothing
  leads back there, and `CANCELLED` leads nowhere (`StatusMovesLegally` is
  proved).

### PrintPipeline

`job[o]` is the row of `print_jobs` (`state`, `attempt_count`), `stale` the rows
last updated longer than `PRINT_STALE_MS` ago. A ticket is identified by its
hash; its lines are frozen once the order is sent (`LinesFreeze` is proved) and
the table never changes, so an order has one hash, and `o` stands for the row,
the BullMQ job id and the idempotency key. The print worker of process `w`
(BullMQ's default concurrency, 1) goes through `pc[w]`:

| `pc` | code (`print-processor.ts`) | actions |
|---|---|---|
| `idle` | - | `Take` |
| `reading` | insert or read the row, decide | `OpenRow` |
| `printing` | `printer.print` until the device decides | `Emit`, `PrinterOffline`, `RequestLost` |
| `printed`, `failed` | the answer, or its loss | `RecordPrinted`, `AnswerLost`, `RecordFailure`, `StatementFails` |
| `returning`, `throwing` | back in BullMQ | `Complete`, `FailJob` |

- *The queue* is BullMQ as the code configures it: an add is absorbed by a job
  that exists, a job is retried `MaxAttempts` times and removed when it ends.
  A job whose worker died, or is so slow that its lock lapsed, is taken for
  stalled: another worker gets it, or it is dropped, and the slow worker goes
  on (`Stall`). Redis may come back empty (`QueueLost`), and an enqueue that
  was given up may still land (`drifting`).
- *The sweep* reads and then enqueues one ticket after the other; a failed
  enqueue ends the pass. `LIMIT` is not modelled: a pass takes all.
- *The printer* remembers keys until the API restarts. The eviction of the
  oldest of 500 keys is not modelled, it forgets less than a restart.
  `failing` is the switch *Fail Printer*. A request that was aborted may still
  arrive (`loose`).
- Time passes freely: a row may go stale while its job is merely slow.
- The manual retry resets and then enqueues; a crash in between is
  `RetryEnqueue` failing.

### TerminalSync

The terminal against a server that does what `OrderWritePath` proves: a
mutation id takes effect at most once (`taken`), a creation is repeated as
`APPLIED`, a base version that does not fit is a conflict, and the answer carries
a version of the order (`Answer`, `Process`).

| State | Code |
|---|---|
| `rows`, `cached`, `pointer` | the tables `pendingMutations`, `orders`, `syncMetadata` of IndexedDB |
| `mirror`, `current`, `shown` | `queue`, `currentOrderId`, `order` of the store |
| `call[c]` | an `attempt()` in progress, for a pass, a rebase, or a command with no row |
| `pass`, `rebase` | the engine's loop and what it has read; `rebase()` |
| `hydration`, `reading` | `hydrate()`, and the answer of a `refetch()` on its way |
| `loose` | requests nobody waits for, which may still arrive |
| `visit` | the route of the till: open, how often it was left; `detach`, `releaseTerminal` |

An *intent* is what the operator asked for; its number is its `createdAt`, which
`queueStamp` makes strictly increasing, and a rebase keeps. `<<intent, k>>` is
its `k`-th mutation id. Of a snapshot only the version counts. The rules of
`decide()` refuse the changes of kind `invalid`, flatly: what else they do is
`OrderDomain`'s. What an order on screen is projected at (`Projected`) is
`projectQueue` with that simplification, and gives the base version of the next
command, as in the code.

Each `await` of the engine that matters is a step: the row is labelled and the
request sent; the server decides; the answer is cached and shown; the row is
deleted, or the group halted. Between any two, the operator, the other
terminal, a trigger, a read, the end of the tab or of the visit may come. The
engine and the store outlive the route and the component does not: the flag
that disables Rebase while one runs is the component's, so after leaving and
coming back a second rebase may run beside the first (`Rebases`).

*Taken together.* The link of a command that is stored (label, row, mirror) is one
step, and so are a trigger and the read of the queue. Triggers that would
find nothing to send or to show, and reads that would bring nothing new, are
left out: they change nothing. The buttons that wait for their own pass
(`commit`) are modelled as free again at once, except Rebase; this allows more
than the screen does. The read that ends a hydration is `AskOrder`, at any time.
*Assumed.* Writes to the cache and the pointer do not fail, those to the queue
may. An answer "offline" is the same as a lost one.

`ConflictLog` adds the server's `conflict_log` and the reports: a Discard or a
Rebase reports the ids that were held before and are not in the mirror any more
(`reportResolution`), nobody waits for it, and it closes the rows of those ids
whenever it arrives. `blind` marks what was reported with the screen closed,
when the mirror is empty whatever the queue holds.

`TillTaps` adds the quantity of one line. A snapshot is its version, so the
quantities the server has had, version by version, say what each snapshot holds.
A + or - carries the *absolute* number that the projection shows when its link of
the chain runs. `TapsAddUp` says that the server has what was tapped, plus what the
other terminal added, of every order whose mutations all took effect as they
were formed. It excepts `blurred` orders, which have a step planned over a
projection that folds a mutation onto a snapshot that has it already, which is the
finding `taps_twice`, or over a snapshot older than the one on disk (`ScreenIsOld`),
which a hydration can put on the screen (section 5); and `strayed` ones.
`ProjectedQuantity` is a recursive function over the numbers of the intents, so
that it can be reasoned about. The removal that a - makes of the last one is left out.

### LiveRail, KitchenCommands

From the events of an order to the rail of the kitchen display. An order is
the sequence of its kitchen statuses, a ticket what they were at a version, so
the rows of a read are versions. The projection and the realtime group read the
topic independently: `Project` and `Mark`/`Emit` are separate. `Mark` commits
`processed_events` before `Emit` broadcasts, so a crash between them loses the
broadcast for good. The display is its socket (`link`), the broadcasts on their
way (`inbox`), the gate's versions (`heard`) and the coalescing loader: two loops
(a call that finds `running` set joins it, and the running one goes again), each
with a round of at most `Attempts` reads against the versions it was asked
for. A round that never saw them gives up (`waived`) and raises the banner; that
is the exception in `HeardIsShown`.

`KitchenCommands` adds `dispatch()` await by await: saved or not, sent, processed,
answered or lost, deleted; the identity on the card (`pending`) and on disk; the
busy mark of the mounted screen; leaving, coming back, reloading, and the
hydration of commands. A request that was given up may still be served
(`straying`). The server is `OrderDomain`'s transition and the version guard.

Left out: the banners; the lagging one, which a later load clears; a refetch at
reconnect against a projection that lags, which nothing corrects
(`connection.ts:136` takes what it gets); a broadcast between connect and join;
switching restaurants in the loader; the microtasks between the end of the loop
and `running = undefined`; answers that are neither an effect nor a conflict, which settle a command and load
nothing.

### FeatureFlags, ClientTransport, Rollout

`FeatureFlags` is `flag-store.ts`, `resolve-flags.ts` and `redis-flag-cache.ts`: a reader looks
in Redis (payload and counter at one moment), reads the row on a miss, and fills
with the counter it saw; a toggle writes the row and then raises the counter and
drops the payload; each script is one action, and any command may fail or, a
fill, arrive late (`delayed`). Rows carry the number of the write they show;
`told` is the last write whose invalidation was confirmed.

`ClientTransport` is `stores/connection.ts`: `start` with its generation,
`open`, `teardown`, the flag poll, the two latches of the debug page. What the
code compares by generation numbers the model keeps as a mark `current` on
requests and connections. `Rollout` composes them: a request of the screen is a
handler of the flags, and the answer goes through `resolveFor` (the bucket of
the restaurant against the percentage).

Left out: a restart of Redis between a miss and its fill (the counter is gone with the
payload), and every flag but `realtime.websocket_push`.

### ShellCache

Builds are numbers; a build's document names one bundle. The server has the
files of the build deployed now. `caches` is the CacheStorage, by the build a cache is
named for: its document, its bundles, and the cache it was created after, which the
deletion of old generations goes by. A worker is named by the build of its script. The browser's part - which worker controls a page, when one is
installed, activated, stopped with its promises - is modelled from how the code uses it.
`failed`, `broken` and `inherited` remember what was out of reach when it was asked
for, and what a page had from the cache of another generation, which is served and
not copied: the properties speak about the rest.

Left out: the menu cache, caches of other origins' code, writes to the cache that
fail. A worker whose precache failed in part lives on the generation before
(`broken`), for which nothing is claimed.

### WorkerProcess, ApiProcess, Presence

The life of the two processes, with each `await` of their shutdown a step.
`WorkerProcess`: the supervisor and its session (connect, dead, backoff,
teardown), the publisher loop, the health server, the print worker, and
`shutdown()`, which two signals may call twice. `ApiProcess`: the realtime
consumer's supervisor, the disposable Redis client of the health probe, the
memoised admin client of the lag panel, `shutdown()`. What a pass or a print
attempt writes is not repeated here. A second trigger in the API ends the pool
twice, which sets `exitCode`; the model has it and no property forbids it.

`Presence` counts time in beats: an entry lives three beats, so it expires only
while nothing renews it. Left out: two tabs of one terminal, and the deletes that a
shutting down instance fires without waiting.

## 3. What is checked

| Run | Result | Question |
|---|---|---|
| `lifecycle` | pass | Two handlers and the requests of two pools. One order through a whole life (create, item changes, send, kitchen transitions, pay, cancel), each request repeated at will; and two tenants with two orders, reused mutation ids, raced and repeated creations and an unknown product. Are versions, events, payments, conflicts and answers consistent after every interleaving, and does nobody see another's order? |
| `order` | pass | Two workers, two events of one order, two attempts, one fault: is the log ordered, does the publisher implement `OrderedEventLog`, and does the backlog drain under fairness? |
| `batch` | pass | Two workers, batches of two over two orders: does a lease keep workers apart, and does an outage cost one attempt? |
| `kitchen` | pass | Two members, four events of one order, five records, two faults: does the ticket show the latest event, is no record skipped, and does the consumer implement `TicketBoard`? |
| `print` | pass | Two workers, one ticket, two attempts, two faults: is `PRINTED` true, is paper doubled only by a printer that forgot, does is every live ticket settled in the end? |
| `queue` | pass | One terminal in four settings, another terminal beside it, one fault (an answer lost, a disk write failed, a reload, a refused command): is an intent ever applied out of order, forgotten, left unsent, applied behind a halt, applied after its discard, or applied twice without a doubtful rebase; does a report close the conflict of a mutation that is still queued; do taps add up, version by version? |
| `rebase_twice` | violation | Does a stable mutation id keep an intent from being applied twice? |
| `taps_twice` | violation | Does every tap on + count once? |
| `rollout` | pass | One screen and one operator, a toggle, one fault of Redis or of the network: does a confirmed toggle hold for every later read, does the screen never have two connections, and does it settle on the transport the flag says? |
| `rail` | pass | A kitchen display in five scenarios: does the rail never move back, show what it heard, keep every command without an answer, and give every ticket back to the operator? |
| `shell` | pass | A browser, three builds, an outage, a quit: has every stored document its bundle, keeps a page of the build before its own, does an installation end? |
| `processes` | pass | The worker, an API process and presence: does a stop at any moment end with nothing left open, does the worker come back from outages, does presence settle? |

Every property of a passing run has a *mutant*: a variant of one definition
that a plausible bug would produce (a dropped guard, a forgotten reset), kept
beside the definition as its "faulty variant". With it in place, TLC finds
the property violated; a property no mutant breaks would say nothing. The
configurations that are not in the table are the further counterexamples of
section 5.

*Bounds of the write path.* Two handlers: every race in the code is between a
handler and one committed change of another; a third adds no new kind of
interleaving, and the proofs hold for any number. One order carries the
lifecycle since rows of different orders meet only through mutation ids, which
is what the second pool of `lifecycle` is about; a behaviour takes its requests
from one pool, since their ids are different and so are their questions. The
first pool contains, for each version from 1 to 5, a request that fits, and for
the versions 1 and 2 several that compete. Versions are bounded by the pool, as
each needs a request of its base. 1.9 million states.

*Bounds of the publisher.* Two workers, since a claim involves its holder and
one other. Two events of one order are what ordering needs; two orders of one
event are what a batch needs (a batch holds one event of an order at most).
`MaxFaults` bounds crashes, lost sessions, slow passes, failed statements,
pauses and replays together; one is enough for every counterexample below, and
the safety theorems hold for any number. `CHECK_DEADLOCK FALSE`: with the
backlog published and no fault left the publisher may have nothing to do.

*Fairness* of the publisher and the printer (`FairSpec`, used by `order` and
`print`). For the publisher, weak fairness of what each
process does by itself: `publisherLoop` runs for ever (`index.ts:142-191`), so
a pass goes on; a send is answered or times out (`sendWithinLease`, the
kafkajs request timeout), so `BrokerStep` happens; the supervisor retries for
ever (`broker-supervisor.ts:53-95`) and the switch is polled on a timer; leases
and backoffs are timestamps, so they pass. No fairness is assumed of commits,
of stray records, of faults, or that a send succeeds: a send that fails for
ever ends as a dead letter. That no fault follows a fault for ever is
`MaxFaults`.

For the print pipeline, weak fairness of the processor, the sweep (a timer
re-armed in `finally`, `reconcile.ts:160-194`), the steps that enqueue, BullMQ's
delays and stalled check, and of rows growing old. The switch may stay on for
ever, requests may be lost for good: the ceiling ends that. `KitchenProjection`
is checked for safety only.

*Bounds of the kitchen and the printer.* Two members, since a record is
handled by its holder and at most a zombie at once. Five records of four
events leave room for a duplicate anywhere, and the life is the one where
order matters most: create, send, prepare, cancel. One ticket: rows, keys
and jobs of different tickets never meet, except that a failed enqueue ends a
pass of the sweep over several, which the next pass makes up for. Two attempts
are the least with a retry before the ceiling. Two faults put one into the
recovery from another. `CHECK_DEADLOCK FALSE`: with everything handled nothing
is left to do.

*Bounds of the terminal.* The run has four settings of the same model
(`MCTerminalSync`), so that each part meets what concerns it and not the product
of all. `stays`: two orders, three intents, one change of another terminal or
one fault - on one order both - and a screen that is never left; two orders, so
that one may be halted while the other goes on. `presses`: one order, two intents, nothing goes wrong,
and the route is left and opened again, which is how a second Rebase can run
beside the first. `logs`: one order, two intents, the log of conflicts,
and two of: changes of another terminal, a fault. `taps`: one order, three
intents, a change and a fault, the quantities. Three intents leave room for a
head, a follower and a command in between. Three ids let an intent be rebased
twice, with two intents of one order; elsewhere there are two. Wider bounds were explored once, with the same
result: in `stays` three ids and a change and a fault on two orders (2.5 million
states), in `logs` two changes and a fault. The log with the visits and faults together
(`leaves`) was explored with one change over 2.8 million states, without a
violation of `ClosedHasLeft`, and `crosses`, a visit with a third mutation, is what
`NeverOvertaken` of section 5 needs; they are not part of the run. 1.8 million states. No
fairness is assumed: that a trigger is not lost is stated as a safety property
(`NothingIsLeftBehind`), because nothing in the engine retries by itself.

*Rollout.* One screen, two requests at once, one operator; one toggle, one flip of
a latch, one mount, one tick of the poll in flight and one fault (a Redis command
that fails or comes late, an answer that is lost): each race in the code is
between two of these. 730,000 states. Fairness: requests are served and
answered, the Redis TTL passes, the timer of the flag poll ticks
(`connection.ts`, `startFlagPoll`). Nothing is assumed of the operator, nor
that a late fill arrives. The theorem `Immediate` holds for any bounds.

*Rail.* Five scenarios instead of one product: two instances and three events of
one order, so that broadcasts overtake each other; two tickets; a display that is
reloaded and left while two commands are lost, with nothing broadcast; the same
with two versions of the order; and a command amid broadcasts. One fault in those
that have any. 550,000 states. Fairness: the projection and the consumers go on,
a round of the loader ends (its reads time out), sockets reconnect, requests and
disk writes end. Not: that an operator presses, or that an instance emits the
event it had marked when it died.

*Shell.* One tab, three builds (two generations are kept, so the third deletes
something), three navigations, one outage, one quit. 1.0 million states. Fairness:
the browser goes on with an installation it began.

*Processes.* The three share no state, and a behaviour is about one of them. Two
triggers of a stop, two overlapping health requests, two faults; two terminals
and two instances for presence, with four moves and three faults. 67,000 states.
Fairness: timers fire and promises settle, since each has a bound in the code -
kafkajs ends a connect within its retries, a pass ends within its lease
(`sendWithinLease`), a print attempt within its timeout, a ping within
`commandTimeout`; socket.io reconnects, and an entry of Redis expires.
`WorkerComesBack` alone needs three assumptions of the world: the switch is not
paused for ever, outages of Redis end, and events keep coming, since a
connection that broke without a word is noticed by the send that fails.
`CHECK_DEADLOCK FALSE` in all four, as a process may be stopped, a screen closed
and a display left alone.

## 4. What is proved

TLAPS checks the theorems of the `_proofs` modules for every value of the
constants: any number of orders, tenants, requests, handlers, workers, and any
bound.

### OrderWritePath_proofs

Assumed: `RequestsAssumption` (what the zod schema lets through and that
`NULL` is not a value), `TotalAssumption` (an order without lines costs
nothing), `ClientsAssumption` (above), and for `TypeCorrect` that totals are
natural numbers.

| Theorem | Property | Rests on |
|---|---|---|
| `TypeCorrect` | `TypeOK` | `Grounded` |
| `MovesAreLegal`, `LinesFreeze` | `StatusMovesLegally`, `LinesFrozenOnceSent` | `Grounded` |
| `EventsFollowVersions` | `OutboxFollowsVersions` | `EventsInv` |
| `PaymentsMatch`, `TotalsFollow` | `PaymentsMatchOrders`, `TotalsFollowLines` | `MoneyInv` |
| `TenantsAreIsolated`, `ConflictsHadNoEffect`, `AcknowledgementsAreTrue` | `TenantIsolation`, `ConflictMeansNoEffect`, `AcknowledgedIsTrue` | `ToldInv` |

The argument. None of the properties is inductive, because the decision is
taken on a snapshot read before any lock. `Grounded` says what that snapshot
is worth: the row a handler holds is never ahead of the order; if its version
equals the order's, the row *and the lines* equal the order's; and a handler in
the middle of its reads is at or past its base version. The guarded bump (`WHERE version =
baseVersion`) then closes the gap: a handler that succeeds has base = current
version <= version of the snapshot <= current version, so its decision was
taken on the very state it changes, torn read or not. That gives legal moves and
frozen lines. `EventsInv` adds that every event has a record with its mutation
id, so the primary key of `processed_mutations` excludes a second effect.
`MoneyInv` adds that an order without a row has no lines and no total, and a
total that follows the lines, from which the amount read before the bump is the
amount after it (a payment changes no line). `ToldInv` says what may have been
told: a request in the conflict log is `Doomed` - its base is behind the order,
or the rules refuse it for good - and every reply is justified by a
record or by the order it carries.

### OutboxPublisher_proofs

Assumed: `ConstantsAssumption`, `NullAssumption`.

| Theorem | Property | Rests on |
|---|---|---|
| `TypeCorrect` | `TypeOK` | `Typed` |
| `PublishedOnlyWhenRecorded`, `EventsInOrder` | `PublishedIsOnTopic`, `OrderKept` | `OrderInv` |
| `Refinement` | `ImplementsLog` | `OrderInv`, step by step |
| `Exclusion` | `ExclusiveWithinLease` | `HeldInv` |
| `OutagesAreCheap` | `OutageCostsOneAttempt` | `ChargeInv` |

`OrderInv` ties every place an event can be in (claimed, being sent, in
`stray`, on the topic, published) to its predecessors being on the topic or
dead-lettered before; the step that needs it is `Claim`, where the SQL's
"no earlier unsettled row" is the only guard. `HeldInv` says that an event in a
fresh batch is claimed by that worker and not lapsed unless it was disowned.
`ChargeInv` says that a pass that was charged has lost its session and so
does not send again.

### KitchenProjection_proofs

Assumed: `ConstantsAssumption`, `LifeAssumption`. Of the topic nothing is assumed
but the actions of `OrderedEventLog`.

| Theorem | Property | Rests on |
|---|---|---|
| `TypeCorrect` | `TypeOK` | the typing parts of `IInv` |
| `NothingSkipped` | `OffsetCoversProcessed` | `DoneInv` |
| `TicketsMoveForward` | `TicketNeverMovesBack` | `IInv` |
| `Refinement` | `ImplementsBoard` | `OriginInv`, `AnnouncedOnce`, step by step |
| `TicketsAreLatest` | `TicketIsLatest` | `LatestInv` |

The argument. `DoneInv` says that everything behind a member, holder or zombie,
is processed; a member starts at the committed offset, so the two parts of it
support each other. `OriginInv` says that a ticket exists only if the event that
sends its order was processed: so the first processing of that event finds no
ticket, and creates one, and only that member announces it (`AnnouncedOnce`);
and a cancelled ticket has the last version there is, so it stays cancelled,
which the board promises. `LatestInv` needs one more fact, `FirstInv`: events are
processed for the first time in the order of their first records, whichever
members do it. Hence, if the record that creates the ticket came before those of
later events of the order, it is also processed before them, and from then
on the version guard alone keeps the ticket at the latest.

### PrintPipeline_proofs

Assumed: `ConstantsAssumption`.

| Theorem | Property | Rests on |
|---|---|---|
| `TypeCorrect` | `TypeOK` | the typing parts of `IInv`, `AttemptsLeft` |
| `PrintedIsTrue` | `PrintedIsOut` | `ToldInv` |
| `PaperBounded` | `PaperIsBounded` | `LedgerInv` |
| `CeilingHolds` | `RetryableHasAttemptsLeft` | `AttemptsLeft` |

`AttemptsLeft` (a row that may be opened is below the ceiling) is what keeps the
count in its range, since `OpenRow` adds one, and a worker that writes the
outcome of an attempt that others have overtaken keeps it, because its number is
at most the ceiling and `FailureState` decides on that number. `ToldInv` is the
step between the device and the row: a worker that was told "printed" was told
so by a printer whose paper holds the ticket, now or from an earlier request.
`LedgerInv` counts paper against the lives of the ledger: a key it holds was
printed once in this life, and each restart accounts for at most one more.

### TerminalSync_proofs

Assumed: `ConstantsAssumption`.

| Theorem | Property | Rests on |
|---|---|---|
| `TypeCorrect` | `TypeOK` | `Inv` |
| `StoredKept` | `StoredIsNotForgotten` | `Inv` |
| `InQueueOrder` | `QueueOrder` | `Inv`, `ReleasedInOrder`, `InTurn` |
| `HaltsHold` | `HaltStops` | the same |
| `TwiceOnlyInDoubt` | `DoubledOnlyInDoubt` | `Inv`, `OnceInv` |
| `DiscardHolds` | `DiscardIsFinal` | the same |

The argument. Even the types need an invariant of the whole terminal: the next
base version is projected from the mirror, the screen and the rows, a halted
head is put back by a rebase under a new id, and only an order the server knows
may be read. `Inv` says of each place a mutation can be in - row, mirror, pass,
rebase, call, a request nobody waits for - what is true of it there: it is of an
intent that was formed (`Genuine`), it was stored unless it is a direct send,
its order exists or the creation of it is ahead of it in the same place
(`CreateQueued`, `CreateAhead`), and no snapshot is ahead of the server
(`NothingIsAhead`). A mutation that is called applied had its effect
(`CallTrue`), so the row that `DeleteRow` deletes is not forgotten; a row that
was replaced stays.

For the order `ReleasedInOrder` says that whatever was *released* - had its
effect, is being sent by a pass or a rebase, was read as a head to be reissued,
or may still arrive - has only settled rows before it, where a row is settled
if its intent had its effect or was put back by a rebase that left it in doubt.
A row is released as the least of its group by a rebase, which is direct, or as
the next of a pass. For that `InTurn` says that a pass still holds, of each order
it holds a mutation of, every row before it that is not settled; it holds
because a pass reads groups whole, takes them in order, and a halt ends
the group (`Remaining`). A mutation behind a halt without effect is not released
then, so it takes no effect (`HaltsHold`). The exception for rows put back is
necessary: without it the proof fails at `Reissue`, and TLC shows why
(`NeverOvertaken`, section 5).

That an intent takes effect once needs more than the record of processed ids. A
row that is put back or discarded drops an id, and its request may still arrive:
it must then be too late. `OnceInv` has two halves that support each other.
`Identities` says where ids are: each *live* request - held by a caller or the
network, in the hands of a pass or a rebase, in a row - has an id that was minted
for its intent, two of the same id have the same base, an id the server took
is behind its order for good, a stored change in flight is recorded as tried
or is behind (`HeldTried`), and so an id that was dropped while in no doubt is
behind (`DroppedIsBehind`): the server answers 409 to it for ever. `Bases` says on which versions
they are based: a request that is sent for a row is based on a version its order
has had (`SentReached`), so a 409 to it means that the order is past it and not
before it. Without that the first half is not inductive, as a request ahead of
its order, once refused, could still fit later. Rows and mirror may
well be ahead, as the screen projects the next version from the last row; then
an earlier row of the order, not taken yet, leads there (`ReachedFrom`), and the
same holds within a pass (`ToDoReached`). The first row of a group therefore
rests on the server alone, and only first rows are sent.

### TerminalAtRest_proofs

Assumed: `ConstantsAssumption`. The invariants of `TerminalSync_proofs` are cited here.

| Theorem | Property | Rests on |
|---|---|---|
| `ReloadShows` | `ReloadShowsQueue` | `Inv`, `ShowInv` |
| `NothingLeft` | `NothingIsLeftBehind` | `Inv`, `OnceInv`, `ShowInv`, `LeftInv` |
| `LogTypeCorrect`, `ClosedLeft` | `ClosedHasLeft` of `LogSpec` | `Inv`, `OnceInv`, `LogInv` |
| `TapTypeCorrect`, `EffectsAsPlanned` | types, `Ledger` of `TapSpec` | `Ground` |
| `TapsAdd` | `TapsAddUp` of `TapSpec` | `Ground`, `TapsInForm` |

`ReloadShowsQueue` is about disk alone, and its invariant is about the screen:
a command is staged on what the screen shows, so wherever the screen shows an
order there must be the create or a snapshot behind it. `ShowInv` says so of each
place that may stand in for the disk - the rows, the mirror, the order on screen,
what a hydration read, the answer the pass has cached and is about to settle. The
mirror may be stale only while a pass is on that will read the queue again
(`MirrorShows`), and pruning waits for the pass to end. The proof failed at first:
a rebase whose screen was left puts the create of an order back, the screen mirrors
it, and it is settled by that rebase, with no pass on; a "New order" and a prune drop
the snapshot, and a later command is staged on a create that is only in the mirror.
The property now excepts an order whose create was put back; TLC had not reached
this within the bounds.

For `NothingIsLeftBehind` the question is who will take care of a row. `LeftInv`
names four answers (`InHand`): the pass has it; a rebase of its order has read it
or is about to; it stands behind a halt, its own or an earlier one, that the pass
will not mark as sent; or another pass was asked for which will find it. Each step hands a
row from one to the next: a pass that halts leaves what is behind the halt, a
reissue turns a halted head into one the rebase sends, and a trigger during a pass
is remembered in `again`. When no pass runs and no rebase is of the order, only the
halt is left. The hard steps are `DeleteRow` and `HaltQueue`, where the
caller's request must be that of the row and not of one put back since; there
`OnceInv` tells them apart.

`ClosedLeft` is about the terminal together with the log, whose steps are steps of the
terminal (`LogStepIsStep`). `LogInv` says that what a rebase holds was minted
for its order, that what a report names has gone (`ReportedGone`), and what one has
closed too. Ids are minted once and never come back to a row (`RowsStand`), so it does
not matter how late a report arrives. A report of a screen that was left is `blind`.

`TapsAdd` is about the terminal together with the quantities (`TapStepIsStep`). The
difficulty is that a + says how many and not how many more. It adds one only if
the number it was planned over is the number the server has when it arrives, and the
two are computed in different ways: one is a snapshot with the mirrored
queue folded onto it, the other is what the server did, version by version,
some of it while the request was on its way.

`Ground` holds of every order. The first id of an intent stands for the base it was
planned on (`Stamped`), a success is newer than its base and is cached before
the row goes (`SeenIsNew`), and `Ledger` keeps the books: an intent that took
effect and was never given a second id did so once, on the version it was planned
on, and did to the quantity what was planned (`TookAsPlanned`). `Ledger` is the theorem
`EffectsAsPlanned`; it holds of such intents in any order, however many answers are lost
and whatever is rebased beside them.

`TapsInForm` is about orders *in form* (`InForm`): no mutation reissued, overtaken or
planned on the base of another, so that all of them took effect as formed or
still may. An order that is out of form stays out, so an order that is in
form after a step was in form before it; `TapsAddUp` speaks of orders in
form only, and no step has to restore anything. Of those,

- `Chained` says that queue, mirror and disk fit together: the rows are based one
  on the other, the first on the cached version (`RowsChained`); what the screen
  mirrors is queued, or settled by a pass that will still say so (`MirrorQueued`); the
  mirror is all of the queue or nothing (`MirrorWhole`); the screen has no version the
  disk has not (`ScreenCached`).
- `PlannedWell` says that a step was planned along a path of versions from the one on
  screen to its base, each of which is an own mutation that leads from one version to
  the next (`PlannedThrough`). It holds when the step is planned, by `Chained`, if
  neither `FoldedTwice` nor `ScreenIsOld`: then the fold meets exactly the rows
  between. It stays true, as plans do not change.
- `AddedSoFar` is the sum. When a step arrives on its base, each version of
  its path was made by the mutation the fold had assumed there (`Ledger`, and the
  bases are distinct), so the quantities agree (the path is compared at its least
  point of disagreement, which stands for an induction), and the step adds one.

Without `ScreenIsOld` the proof stopped at a step planned just after a hydration, and
TLC shows that the property was false there (section 5).

### Realtime_proofs: the rail and its commands

Assumed: `RailAssumption`, `CommandsAssumption`.

| Theorem | Property | Rests on |
|---|---|---|
| `CommandsTypeCorrect` | `CommandsTypeOK` | `Inv` |
| `UnansweredKept` | `UnansweredIsKept` | `CommandInv` |
| `RailOnlyAdvances` | `RailNeverMovesBack` | `LoaderInv` |

`LoaderInv` says that one loop runs at a time, and that the rows a round has read
are `Recent`: no older than what the rail shows, no newer than the table. A
round reads after the rail was last replaced, as the only loop is the one that
replaces it, so what it brings is never older. `CommandInv` says that every id in
hand was minted (`MintedInv`), that a dispatch which goes on to delete a row is of
a settled command (`CallsInv`), and hence that what was sent and not
settled is on the disk or could not be saved (`KeptInv`), whatever the card
shows.

### Realtime_proofs: the rollout

Assumed: `FlagsAssumption`, `ClientAssumption`, `RolloutAssumption`.

| Theorem | Property | Rests on |
|---|---|---|
| `TypeCorrect` | `TypeOK` | `Typed` |
| `Immediate` | `ToggleIsImmediate` | `Current` |
| `RolloutImplementsFlags` | `RolloutSpec => Spec` | step by step |
| `RolloutImmediate` | `ToggleIsImmediate` of `RolloutSpec` | the two above |
| `RolloutTypeCorrect`, `OneConnectionHolds` | `RolloutTypeOK`, `OneConnection` | `Linked` |

The argument. `Current` says of each place a row can be in - the payload, a fill
that is delayed, a handler that has looked, missed, or is about to fill - that it is
no older than what was told when its version of the counter was read, as long as
that version is still the counter. An invalidation raises the counter, so every
older fill loses its claim at that moment, however late it arrives; a handler that
arrives afterwards (`since`) starts at or past the write. Failed commands change
nothing of that: a reader without a version does not fill, and a toggle whose
invalidation failed was not told. `RolloutSpec` implements `Spec` of
`FeatureFlags`, as a request of the screen is a handler of it; so the guarantee
carries over to the screen. `Linked` says that a stopped store waits for no
answer, so that only a store that is running opens a connection, and it
replaces the one there is.

### ShellCache_proofs

Assumed: `ShellAssumption`.

| Theorem | Property | Rests on |
|---|---|---|
| `ShellTypeCorrect` | `TypeOK` | `Inv` |
| `DocumentsKeepBundles` | `DocumentsHaveBundles` | `Documents`, `Ages` |
| `OldPagesKept` | `OldPageKeepsItsBundle` | `PagesHave`, `Newer`, `Ages` |

For any number of builds, of which TLC sees three. `DocumentsHaveBundles` is not
inductive: the document of one cache may have its bundle in another, which is
deleted first. `Documents` says that the bundle is in a cache *at least as new*,
or on its way into one; caches are deleted from the oldest on (`Ages`: nothing
but its own installation is newer than the active worker), so it stays as long
as the document does. `PagesHave` says which cache a page relies on: that of its
own worker until the takeover, and then one of the generation that is kept,
unless the cache of a worker that was never installed whole took the place of it
(`Newer`). Two facts came out of the attempts: the cache of a broken installation
counts as a generation, hence `broken`; and a bundle may be served from the cache
of another generation without being copied, hence `inherited`
(`OneGenerationIsEnough`, section 5).

### Only model-checked

Liveness is out of the prover's reach: `BacklogDrains`, `TicketsSettle`,
`TransportSettles`, `HeardIsShown`, `TicketIsUsable`, `InstallationEnds` and the
four properties of `processes`. Every safety property of a passing run is proved. The violations of section 5 are model-checked by their nature.

Conversely some theorems state properties that no run checks any more, since
they follow from others or are shallower: `LinesFrozenOnceSent`,
`TotalsFollowLines`, `PublishedIsOnTopic`, `TicketNeverMovesBack`,
`RetryableHasAttemptsLeft` and the type invariants. They stay, as the proofs of
the others rest on the same invariants.

## 5. Where code and documents differ

Registered, each with a violated property:

1. **A rebase can apply an intent twice** (`rebase_twice`). A step is applied,
   the delete of its row fails on disk, which `guarded` swallows, and the loop of
   `rebase` takes the same row for its next head: a new mutation id at the fresh
   version, so the server has no reason to refuse it. The same follows from a
   step whose answer is lost when Rebase is pressed again. `engine.ts:334-337`
   guards against it where the reissue fails and nowhere else.
   `DoubledOnlyInDoubt` says that there is no other way to double an effect.
2. **A tap on + can count twice, with nothing going wrong** (`taps_twice`). An
   applied snapshot is adopted at once, and the mirror of the queue is read again
   only at the end of the pass (`engine.ts:261`). In between the projection folds the applied
   mutation onto a snapshot that has it, and a + then plans an absolute quantity that is
   one too many (`order.ts:644`), which the server applies. The comment at
   `order.ts:622-636` says that the line "by then includes every earlier tap";
   `order.ts:78` calls a stale mirror "a display bug". `TapsAddUp` says that taps add
   up otherwise, but for the case seen while proving it, below.

### Further counterexamples

Configurations beside the registered runs; `tlc -config X.cfg M` shows each.

3. **A 409 can carry an order that never existed** (`MCOrderWritePath_torn.cfg`,
   `CanonicalIsCommitted`). `conflictOutcome` reads the row and the lines in two
   statements outside a transaction. The comment at `mutation-handler.ts:375` promises
   what is "actually committed". The next reload corrects the client's copy.
4. **A late record need not be a duplicate** (`MCOutboxPublisher_late.cfg`,
   `LateIsDuplicate`). A send that timed out on the last attempt is dead-lettered,
   the successor is published, and then the record lands.
   `outbox-publisher.ts:104-107` excludes that. Readers that gate on versions are safe; the
   kitchen projection is not gated for the first event of a ticket. If that record
   is the `OrderSentToKitchen` of an order cancelled meanwhile, `createTicket` makes
   a live ticket that nothing cancels; `TicketIsLatest` excepts it by
   `CreatedInOrder`.
5. **A dead letter can be undone by a worker that was too slow**
   (`MCPrintPipeline_undone.cfg`, `OnlyHumansUndoDeadLetters`). `recordFailure` writes by hash
   alone, with the attempt number read before the print. When BullMQ takes the job of a
   slow worker for stalled, another may reach the ceiling first; the slow one then
   sets the row back to `FAILED`, and the sweep prints on. `print-processor.ts:11` says
   "which only a human undoes". The ticket still settles (`TicketsSettle`).
6. **A hydration can take the screen away from a new order**
   (`MCTerminalSync_hydrate.cfg`, `HydrationKeepsTheScreen`). `hydrate` asks whether a
   snapshot is held; an order just created has none, so the cached order is adopted
   over it. `order.ts:399-403` and `test/hydration.test.ts:288` say otherwise; the test
   gives the new order a snapshot. A prune at that moment also drops the cache
   of the order on screen, hence the exception `strayed` in `ReloadShowsQueue`.
7. **A rebase that ends with the screen closed closes the conflict it is still in**
   (`MCTerminalSync_blind.cfg`, `NeverClosedEarly`). With no terminal active `refreshQueue`
   empties the mirror (`order.ts:195-200`), so `reportResolution` finds nothing queued and reports all ids,
   against `order.ts:732-736`. `ClosedHasLeft` says that this is the only way.
8. **A reload without a network can go back to an older build**
   (`MCShellCache_rollback.cfg`, `NeverRollsBack`). A navigation stores the document in the cache of
   its own build (`service-worker.ts:207-208`), but without a network it is looked for in every
   cache in the order of creation (`:223`), so the generation that is kept for older pages
   answers first, although "the last good document" is promised (`:200`) and a page is at
   most one build behind (`:42-44`).
9. **Two commands of a ticket can be in doubt** (`MCKitchenCommands_doubt.cfg`,
   `OneInDoubt`). A late answer deletes whatever command the order holds by now
   (`kitchen.ts:299` deletes by order), so a third can be minted beside the second.
   `KitchenView.vue:70-72` means to prevent it.
10. **A connection can outlive its screen** (`MCRollout.cfg`, with
    `NoneOutlivesItsScreen` for its invariant and no other property). A screen that is left while it still restores what it
    shows starts the store afterwards. `connection.ts:63-68` says that it cannot
    outlive the `stop()`.
11. **A Kafka admin client can be forgotten while it is open** (`MCProcesses_lag.cfg`,
    `AdminIsRemembered`). The late rejection of a connect that was given up sets
    `connecting = undefined` (`consumer-lag.ts:65-68`) and forgets the client that
    replaced it, against `:40-44` and `:63-64`.

12. **A later mutation can overtake one that a rebase puts back**
    (`MCTerminalSync_overtaken.cfg`, `NeverOvertaken`). A rebase has read the halted
    head; the route is left and opened again, which frees the buttons; the head is
    discarded, a newer change is formed and sent; then the rebase puts the old
    row back (`local-store.ts:457-467` does not ask whether it is still there) under a new id.
    `docs/spec.md:618` says "sync in order for the same order". `QueueOrder`
    and `HaltStops` except what was put back so by `doubted`; the attempt to prove
    them without the exception led here.
13. **One generation of slack need not be enough** (`MCShellCache_inherited.cfg`,
    `OneGenerationIsEnough`). `cacheFirst` serves a bundle from the cache of any generation
    and does not copy it (`service-worker.ts:244-257`), so a page whose worker is
    new may live off the cache of an older one, which the next takeover deletes;
    the comment at `:42-44` says a page can only be one build behind.

Seen while proving `ReloadShowsQueue`: a create that a rebase puts back after its screen was
left can be settled with the mirror unread, and a command staged on it is
then queued with neither create nor snapshot on disk (section 4).

Seen while proving `TapsAddUp`: `readTerminalState` reads the pointer, the snapshot and the
queue one after the other and in no transaction (`local-store.ts:280-297`), and `hydrate`
adopts that snapshot afterwards (`order.ts:416-426`) and reads the queue once more
(`order.ts:430`). If the browser comes online in between, a pass (`PosView.vue:259`)
applies the first mutation, caches version 2 without showing it, as the screen has
no order yet (`order.ts:224`), and deletes the row. The screen then shows version 1 with
the queue that follows version 2, until `refetch` answers. A + tapped then is planned on
the right base over a quantity that is one too small; the server accepts it, and an
add is lost: create, add, add, + end at 2 and not at 3. TLC reaches it with four
intents and one fault (setting `taps`, without `ScreenIsOld` in `Tap`).

Seen while modelling, and not checked: `detach()` waits in the chain behind a direct send
that hangs, and may run after the route was opened again, emptying the screen
(`order.ts:850-862`, `:170-173`). `recordFailure` of the publisher updates an event by
id, so a pass whose lease ran out clears the claim of the worker that took over
(`outbox-publisher.ts:369-395` against `:84-85`); `ExclusiveWithinLease` excepts it by
`disowned`, order survives it, and an event may be sent by two workers at once.

## 6. What is left out, and the plan

The plan, most important first.

1. `OrderDomain`, `OrderWritePath`: the core. *Done, proved.*
2. `OrderedEventLog`, `OutboxPublisher`: *done, proved.*
3. `TicketBoard`, `KitchenProjection`, `PrintPipeline`: *done, proved.* Left: the
   limit of a pass of the sweep, and the eviction of old keys by the printer.
4. `TerminalSync`, `ConflictLog`, `TillTaps`: *done, safety proved.* Left: switching terminals in place, a second tab on the same
   database, the arms of the simulator.
5. `LiveRail`, `KitchenCommands`: *done, safety proved.*
6. `FeatureFlags`, `ClientTransport`, `Rollout`: *done, safety proved.*
7. `ShellCache`: *done, safety proved.* Left: the menu cache. `WorkerProcess`,
   `ApiProcess`, `Presence`: *done, model-checked; their properties are liveness.*

Not modelled, with the reason: reads and menu (plain SELECTs, which change
nothing; the kitchen commands enter the write path), the debug panel and the simulator
(switches for a demonstration; the replay and the pause are in the publisher, the
latches in `ClientTransport`, Fail Printer in the printer), counters and logs,
the wording and layout of the screens, scripts and deployment. In the terminal a
hydration whose terminal was left before it ended may still relabel rows as queued, and the
prune of an older hydration may meet the route opened again; both are left out, as
hydrations of one visit at a time are what the code expects.
