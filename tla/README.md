# SecOps-AI: specification and proofs

SecOps-AI sniffs packets (or replays a capture), assembles them into bidirectional flows,
classifies every completed flow, stores a row per packet and per flow in SQLite, and shows
them in a web console with LLM-backed triage, reports and chat. This directory holds TLA+
models of its concurrent core, of the life of its container and of the console in front of
it, TLC configurations that check them on small instances, and TLAPS proofs of the main safety
properties for all values of the parameters.

Run inside this directory:

    tlc -workers 2 -config MCCapture.cfg MCCapture        # any MC*.cfg with its module
    tlapm Capture_proofs.tla                              # any *_proofs.tla

## 1. Inventory of the system

    sniffer / replay_pcap ──offer / put_blocking──▶ N shard queues ──get──▶ N enrichment workers
                                                                     │  (one FlowTracker each)
        enrichment cache ◀── lookups (HTTP on a miss) ───────────────┤
        alerts.consider ◀── every classified flow (webhook) ─────────┤
        socket.io ◀── verdict events ────────────────────────────────┤
                                                                     ▼ submit
                                               write queue ──▶ one DB-writer thread ──▶ SQLite
                                                                                         ▲
        Flask routes: read pages, stats(); triage / report write one row directly ───────┤
             ▲                                                                            │
        browser: pages of the feed, live events; login, register                          │
        entrypoint.sh: migrate ─▶ seed an empty database by replay ─▶ serve ──────────────┘

| Component (source) | State | Operations | What is hard | What makes it correct |
|---|---|---|---|---|
| Capture queue (`pipeline.py` 45-190) | N bounded queues, `offered`, `dropped`, `ignored` | `offer`, `put_blocking`, `get`, `task_done`, `join`, `stats` | counters and queue change in separate steps, with three kinds of threads | nothing lost uncounted; bounded; per-flow order; the sniffer never blocks; `stats()` adds up |
| Flow tracker (`flow_tracker.py`) | table of open flows | `update`, `expire`, `flush` | direction, teardown, re-opening, both timeouts, timestamps out of order | each packet in one flow; direction fixed by the first packet; no flow overstays or leaves without reason |
| Workers and replay (`app_groq.py` 123-205, 447-691) | `_idle_expiry_enabled`, flush events, a tracker per shard | worker loop, `replay_pcap`, `_flush_all_flows`, `_expire_idle_flows` | flags read by other threads, sentinels, timeouts, exceptions at any step | replay computes what one thread would, an aborted one up to one cut per shard; "done" means done; all flows come out |
| DB writer (`pipeline.py` 245-369) | write queue, batch, open transaction, counters | `submit`, `drain`, `stop`, `run`, `_flush` | failing flushes, no rollback, barrier versus partial batch, full queue | rows once and in order, honest counters, `drain()` a barrier, no row waits for ever |
| Enrichment cache (`enrichment.py`) | TTL cache, `_inflight` events | `_cached_lookup` | unregister, wake-up and store are separate lock regions; entries expire between two reads | no overlapping calls, no lost wake-up, bounded calls, every lookup returns |
| Alerts (`alerts.py`) | throttle slots, seen techniques | `consider` | concurrent workers around a slow webhook; two triggers share two sets | no storm; new-technique once; nothing swallowed |
| Triage, reports (`triage.py`, `reports.py`, routes) | `triage_json`, `report_json` columns, the loop's budget | POST `/triage/<id>`, `/report/<id>` | check-then-act around an LLM call of many seconds; a save that fails | tool budget; what was shown is found again and not paid for twice; every request ends |
| Incident index and chat (`rag.py`) | documents, `_last_id` | `sync`, `retrieve` | rows committed between two reads of the sync; a read that breaks off; other requests' rebuilds | a chat misses no detection; duplicates go away |
| Migrations, start-up (`migrations.py`, `docker/entrypoint.sh`) | schema ledger, legacy table, what is committed of either | `migrate`, seed test, replay of the demo captures, serve | SQLite commits DDL and DML differently; a kill between any two statements; every process migrates again | idempotence: no row copied twice or lost, no ledger entry without its columns, no detection seeded twice, the console comes up in the end |
| Login (`auth.py`) | failure window per address, `users` | `/login`, `/register` | concurrent attempts between check and note; a kill around a commit | wrong guesses per window are bounded between the successes and restarts that forget them; a refusal has its cause in the window; confirmed accounts are kept |
| Feed (`storage.py`, `static/js/console.js`, the worker's emit) | the committed table, the socket, page, filter and rows on the screen | `fetch_detections`, `refreshFeed`, `onLiveDetection`, page and filter controls | answers overtake each other, events before or without their row, rows inserted while paging | the screen is always one answer's whole page under live rows, and fits the controls if that answer is the newest; turning pages skips nothing |
| Dossier (`reports.py`, `storage.py`) | four result sets | `build_dossier` | each statement has a snapshot of its own | sections, counts, timeline and stated gaps agree |
| Rate tracker, drop monitor, metrics | samples | read only | – | – |
| Other queries and routes, classifier, LLM client, training, tools | none shared | reads, formatting, numerics | see "Not modelled" | – |

`PROJECT.json` lists the hazards this code has, at the line where each one bites, with the
properties that cover it.

## 2. Modules

| Module | Models | Correspondence |
|---|---|---|
| `ShardQueues` | `DropCounterQueue` × N | variables `queue`, `unfinished`, `offered`, `dropped` per shard; each operator is one atomic step of a method (one lock region or one `queue.Queue` call) |
| `Capture` | sniffer, workers (queue side), `stats()` | `offer()` is `OfferCount`, then `OfferPut`, or `OfferFull` and `OfferDrop`; `stats()` is `StatsBegin`, `StatsEnd` with the counter lock (`reader`) held between them |
| `PerFlowChannel` | what the sharded queue promises | per flow one lossy FIFO; refusal only at capture. `Capture` implements it (`Channel`, a refinement mapping from the queue and the history variables) |
| `FlowTable` | `flow_tracker.py` as operators | `Update`, `Expire`, `Flush` return the new table and the completed flows |
| `FlowTracker` | one tracker under arbitrary traffic | `Ingest`, `IdleExpire`, `FlushAll` |
| `Pipeline` | `ShardQueues` + `FlowTable` + producer + worker loops | producer program counter `pc` follows `replay_pcap`; worker `state[s]` follows `_enrichment_worker`; `mode` selects the sniffer, lossless replay or replay with `drop_on_overflow` |
| `Subsequences` | a list filtered by a test | `Only(seq, S)`, by the loop that appends what passes; used by `Capture`, `DbWriter`, `Pipeline`, `Feed` and `Dossier` |
| `DbWriter` | `BatchedDBWriter` and SQLite as it uses it | `pc` follows `run()` and `_flush()`; `tx` is the connection's open transaction, `db` what is committed |
| `Enrichment` | `_cached_lookup` | one action per lock region, event call or HTTP call; the geo and the reputation cache are two instances of it |
| `Alerts` | `consider()` | `Pass` or `Alert` is the lock region, `Posted` the end of the webhook |
| `TriageAgent` | the loop of `run_triage` as operators | `used` and `round` are its `calls_used` and the round of its `for`; a message asks for some calls, is a report, or is neither |
| `IncidentIndex` | the state of `Bm25Index` and what `sync()` does to it | `docs` is `_docs`, of which the id matters; `lastId` is `_last_id`; `Shrunk` is the test for a rebuild |
| `Console` | the request threads of `/triage`, `/report` and `/chat`, with both modules above | `pc[r]` is where a handler is: `ask` (at the model), `save`, `commit` (the UPDATE is made, not committed), `sync`, `select` (inside the index's lock, between its two reads), `retrieve`; `agent`, `read`, `draft`, `maxId` are the handler's locals |
| `Schema` | the database as `migrations.py` sees it, as operators | objects, added columns, ledger, and for each row of the old table how many copies the new tables hold; `Base`, `Later`, `Additions` are the module's lists in their order |
| `Startup` | `migrate()` inside `entrypoint.sh` | `at` is the place in `migrate()`, `stage` the one in the script; `view` is what the connection sees, `disk` what is committed, `open` whether it is in a transaction. `Define` is DDL (autocommitted outside a transaction), `Write` an INSERT, `Rollback` what a kill does |
| `Login` | `/login` and `/register` on the server's threads | `thread[t].pc` is where a request is: before the throttle (`check`, with the clock it has read), before the password check (`verify`), at the INSERT, its commit, its answer |
| `Service` | `Startup` and `Login` over one life of the container | logins only while the console serves; a kill forgets the throttle (`Forget`) and rolls back |
| `Feed` | worker, writer, route and browser around the detection feed | `Classify` submits the row and `Emit` sends the event, as `_handle_completed_flow` does; `Count` and `Select` are the two statements of `fetch_detections`; `RefreshFeed`, `Render`, `LiveDetection` are `console.js` |
| `Dossier` | `build_dossier` for a row of that feed | `ReadNext` is one statement; `Events`, `Timeline`, `NoPrior` are what is concluded. It extends `Feed`, whose writer commits between the statements |
| `MC*` | model-checking instances | model values, small traffic |
| `*_proofs` | theorems | extend the module they are about |

The pipeline is cut at its queues. `Capture` looks into `offer()` and the counters, where
`Pipeline` takes `offer()` in two steps and looks at trackers, replay and failures; both use
the queue operators of `ShardQueues`. `Handle` in `Pipeline` submits a row, which is `Submit`
of `DbWriter`; `Drain` is its `DrainCall` to `DrainReturns`. The lookups that `Track` and
`Handle` make are `Enrichment`, the alert of `Handle` is `Alerts`; what these do to a worker
is return, or raise (`TelemetryRaises`, `HandleRaises`).

`Service` starts from every database the repository can have left behind (`Earlier`): none,
one made by `db_create.py`, one from before the split with or without a `type` column and with
or without an archive of an earlier split, and one of any later version. A seed is seen through
the rows its own writer commits (`SeedBatch`), of which any suffix may be missing at the end.

`Feed` and `Dossier` start where `DbWriter` ends, too: a submitted row is committed with the
batch, or never. The order of `table` is that of the ids and of the timestamps, which the one
writer gives.

`Console` starts where `DbWriter` ends: `WriterCommits` is the commit of a batch with
detections. All triage and report requests are about one detection, `Focus`: handlers of
different detections share only the write lock, which `SaveFails` may refuse at any time. The
row, the evidence, the prompts and the answers are left out, except whether a report was
written from a row that had a triage. Tools only read, so a round of them is a step of the
thread alone. Requests are numbered in the order in which they are accepted.

Packets are records of endpoints, protocol, one flag and a timestamp; a flow keeps the set of
its packets' numbers in each direction, of which the code's counters are the cardinalities.
Payload bytes, SYN and ACK counts, HTTP contents, rows' columns and log lines are left out.
History variables (marked in the modules) only record; no guard reads them.

Definitions marked "Seeded bug" are plausible mistakes in the definition that follows; each
property is violated when the one named in `PROJECT.json` ("mutants") replaces it. No
specification uses them.

## 3. Runs

| Run | Instance | Shows |
|---|---|---|
| `capture` | 2 shards × 2 slots, 2 flows under every hash, 4 packets, 1 `stats()` | `Accounted`, `FlowOrder`, `SnapshotAddsUp`, `OfferReturns` (workers may stop for good), `IsPerFlowChannel` |
| `flow_tracker` | 4 packet kinds, 4 packets, gaps -1, 1, 2; idle 2, active 3 | `ConversationsPartitioned`, `NothingOverdue`, `EmittedForAReason` |
| `pipeline` | 3 captures, 3 modes, 2 shards × 1 slot, every hash, 1 exception | `OnePlace`, `FlowsStayWhole`, `ReplayIsReference`, `DoneMeansComplete`, `EverythingSettles` |
| `replay_determinism` | the same | **violated**: `CountsDeterministic` |
| `worker_survival` | the same | **violated**: `WorkersContinue` |
| `db_writer` | 3 rows, 2 tables, queue 2, batch 2, 1 `drain()`, 1 SQLite error | `RowOnce`, `TableOrder`, `WrittenIsHonest`, `DrainIsBarrier`, `RowsLeave` |
| `drain_commits` | the same | **violated**: `DrainMeansCommitted` |
| `enrichment` | 3 threads, 2 addresses, room for 1, 4 lookups, 1 expiry | `SingleFlight`, `CallsBounded`, `LookupsReturn` |
| `alerts` | 2 workers, sources, techniques; window 2, clock to 4, 3 alerts | `NoStorm`, `NewTechniqueIsFirst`, `NoTechniqueMissed` |
| `console` | 3 requests of any kind, 2 tool calls, messages of up to 3, 2 detections, 1 failing read | `AnsweredIsSeen`, `NothingMissed`, `HealsWhenQuiet`, `RequestsEnd` |
| `service` | 1 old row of each kind, 2 captures, 2 kills; 2 threads, 4 requests, 2 failures, window 1, clock to 2 | `RowsMovedOnce`, `SchemaComplete`, `SeededOnce`, `ThrottleExact`, `AccountsKept`, `BootCompletes` |
| `feed` | 3 stored detections and 1 new, 2 verdicts, 2 rows per page and section, 3 requests, 1 of them perhaps a report | `ScreenIsOneAnswer`, `NoneSkipped`, `ReportAddsUp`, `TimelineIsTrue` |

`pipeline` and `db_writer` also check their module's `TypeOK`; the other modules' type
invariants are proved (section 5). `CHECK_DEADLOCK FALSE` stands in every configuration because
the instances end: packets, rows, lookups, requests, pages and time are bounded, and a replay is
over when it is done. That nothing hangs before its end is what the liveness properties say.

Why the bounds are enough to be interesting:

* `capture`: with two slots and four packets a shard fills, drops, drains and accepts again,
  and the two flows share a shard under some hashes and not under others.
* `flow_tracker`: four packets open, close (RST, FIN in both directions), re-open from the
  other side, idle out, exceed the active timeout, and arrive with a timestamp in the past.
* `pipeline`: `Pause` stops longer than the idle timeout with another flow's packet in the
  pause, `Close` has a frame that is not routed and a teardown, `Again` re-opens a closed
  conversation from the other side. One slot per shard makes replay wait and sniffing drop;
  one exception can hit any step that may raise.
* `db_writer`: full queue, full and partial batch, batches of one and two statements, failure
  at each row and at the commit, `drain()` and `stop()` anywhere, a connection that fails.
* `enrichment`: a thread may look up twice, a third one joins, and an entry is evicted by the
  other address or expires at any moment.
* `alerts`: two windows, so a slot is claimed, blocks, and is claimed again.
* `console`: three requests let two syncs surround a third request's retrieval, let a request
  open a detection before, during and after another one's save, and let a report come before
  or after the triage; a message with three calls meets a budget of two; the second detection
  is committed at any moment, inside a sync too, and one read fails at any point.

* `service`: two kills, so a process that died in `migrate()` is followed by one that dies at
  any later or earlier statement, or in a seed; two captures, so that the seed can die in one
  and go on with the other, or be found half done. Two failures allowed and four requests on two
  threads: both can be past the check, and a third and fourth find the window full and, two
  ticks on, open again.
* `feed`: two pages of two rows, of which an insertion moves one to the other page; three
  requests are two pages and one that overtakes them; and a dossier whose sections hold two rows
  of up to four, so that the limit cuts in some and not in others.

What the three violations say (details in `PROJECT.json`, "findings"):

* `replay_pcap` calls replay's counts deterministic. Expiry of a flow needs a later packet on
  the same tracker, and which flows share a tracker depends on Python's per-process string
  hash. Within one process, repeated replays do agree (`ReplayIsReference`, `pc = "done"`).
* The worker loop logs an exception and "continues", except when it comes out of the idle
  expiry, which runs in the `except queue.Empty` clause outside that `try`.
* `drain()` returns True after a flush that failed. It is still a barrier (`DrainIsBarrier`).

Behaviour the models show and no property rules out, some of it against what the repository
says. The properties state what the code does keep; the statements they fall short of are quoted
here and not checked as violations of their own:

* `_cached_lookup` deregisters the leader before it stores, so a thread in between calls again:
  a window can see one call per thread (`CallsBounded`), though never two at once
  (`SingleFlight`). That is not the "one network call per IP per TTL window" of its docstring
  (`enrichment.py` 102), of the module's (10-11), of `config.py` 134 and of the repository's
  `README.md` 581-584.
* A replay that breaks off can be cut by the wall clock, once per shard: a worker's `get()` raises
  `queue.Empty`, the producer puts the last packets, the reader raises, `finally` turns expiry on
  (671-672), and only then the worker reads the flag (557). It expires the flows whose last
  packets are on its queue, which is the fragmentation that `_expire_idle_flows` says is
  disabled during replay (551-555). `ReplayIsReference` allows this cut and no other.
* The throttle forgets the failures of an address when a login from it succeeds (`auth.py` 189),
  and all of them at a restart. "After this many failed attempts from one address inside the
  window, /login answers 429" (`config.py` 174-175; the repository's `README.md` 655 says "5 failed attempts per
  IP in 5 minutes") therefore holds between two of these only: within one window, each of them
  allows the full number again. `ThrottleExact` counts every failure there ever was, and bounds
  them by that number times one more than the times they were forgotten. The check is also read
  before the password is verified, so each concurrent request may add one.
* Nothing orders the answers of `refreshFeed()`. The answer for the page left behind may arrive
  last; it is then shown under the number, the filter and the buttons that are current when it
  arrives, until the next refresh. Live rows are added by the current page and filter, so they can
  stand on top of another page's rows, although "live rows only make sense on the newest page
  with a matching filter" (`console.js` 534). `ScreenIsOneAnswer` says what holds even then (one
  answer's whole page, under live rows, each row once), and that all fits when the newest answer
  is the one on the screen.
* The buttons are set when an answer arrives, from its count. Live rows push old ones off a full
  page (548) and leave the buttons alone, so "next" can stay disabled on the only page although
  there are more rows than fit.
* `sync()` reads the maximum id before the rows. A detection committed in between is indexed,
  lies above `_last_id`, and is indexed again by the next sync. The rebuild test counts
  documents, so it goes away with the sync after that (`HealsWhenQuiet`), and nothing is missed
  (`NothingMissed`).
* Two triages of one detection that overlap both call the model, and the later save stays; a
  save that fails leaves the next request to pay again; a report saved before the first triage
  keeps saying that none was run; a rebuild whose read fails can leave the index empty for the
  other chat request that was about to retrieve.
* When a full shard drops the first packet of a flow, the answer that gets through makes the
  responder the initiator (`Pipeline`).
* A seed that is cut short is not resumed: once one detection is committed the seed test says
  "not empty", and the captures that were still to come stay missing. Telemetry committed before
  the first detection is there twice after the next boot (`SeededOnce` is about detections).
* In the feed a detection can be on the screen twice, as a live row and from a page that was read
  after its commit, or not at all, when its event was lost in a reconnection; a page can hold
  more rows than its total counts, since COUNT is read before the rows.
* A report that is asked for through the API on a detection that is not suspicious, of a source
  with one suspicious row, says that there is none "beyond this one". From the console, where
  only suspicious rows have the button, the sentence is right (`TimelineIsTrue`).
* Under gunicorn (`docker/entrypoint.sh`) `app_groq` is imported, and `start_pipeline()` is
  called only by `__main__`: the container shows what was replayed and captures nothing.

## 4. Fairness

* `Capture`: the sniff thread finishes the `offer()` it is in, and `stats()` releases its lock;
  both only compute. Workers owe nothing, so `OfferReturns` does not lean on them.
* `Pipeline`: weak fairness of the producer and of each worker (daemon threads that the
  interpreter schedules; blocking calls are guards), of the wait's timeout, and strong
  fairness of an idle worker reading the clock late enough once the flag is on: it polls every
  0.25 s, and time passes. Exceptions, damaged files and drops are never forced.
* `DbWriter`: weak fairness of the writer thread; a `drain()` blocked on a full queue gets a
  slot eventually (strong, as slots come and go), and returns once its event is set. Errors
  and timeouts are not forced.
* `Enrichment`: a thread inside a lookup proceeds; its HTTP calls have timeouts. Nothing
  obliges a wait to time out.
* `Console`: weak fairness of each request that was accepted: threads run, calls to the model
  have a timeout, a save waits for the lock for a limited time only and then fails, and the
  index's lock is held for two reads. Which answer the model gives is never forced: the loop
  ends because its rounds are bounded, and the forced call that follows them is the last.
* `Service`: weak fairness of the start-up sequence (`Starting`): a script that runs goes on.
  Kills are never forced, and there are at most `MaxCrashes`: `BootCompletes` says that the
  console comes up once they have ended, not that it comes up between them. Nobody has to log in.
* `Alerts`, `FlowTracker`, `Feed`, `Dossier`: safety only. (The browser never asks again by
  itself, so no liveness could be claimed of the feed.)

## 5. Proofs

| Module | Theorems | Argument |
|---|---|---|
| `Capture_proofs` | `TypeCorrect`, `NothingVanishes`, `MemoryBound`, `FlowsStayInOrder`, `StatsAddUp`, `ShardsAreChannels` | `IInv` adds to the properties `Numbered` (the packet in hand is newer than all before it, without which appending it would not keep `FlowOrder`) and `LockedRead` (the counters read by `stats()` cannot move while it holds their lock, without which its second read could not be compared with its first). `ShardsAreChannels` is the refinement of `PerFlowChannel`, step by step: an `offer()` that ends in `OfferPut` is a `Put` of the packet's flow, one that ends in `OfferDrop` a `Refuse`, a worker's `get()` a `Get` of the flow of the head of its shard, and every other step stutters. A flow's channel is what `Only` keeps of its shard's queue, and a step at the ends of the queue is one at the ends of the flow's part (`OnlyAppend`, `OnlyHeadTail`) |
| `DbWriter_proofs` | `WriterTypes`, `EveryRowOnce`, `TablesKeepOrder`, `WrittenNeverOvercounts`, `DrainWaitsForAll` | One `IInv` for all. `Located`: along the whole path, from the database through the open transaction and the batch back to the queue, rows have different numbers, and those of one table increasing ones; grouping lets rows overtake rows of other tables only (`GroupSplit`). `Leftovers`: the open transaction holds rows of the batch being flushed or of failed batches, which is why `drain()` may answer over a transaction that nobody rolled back. `Counting`: what is executed and what is left add up to the batch, exactly as long as nothing failed. `Barriers`: what a `drain()` must wait for is ahead of its barrier wherever the barrier is, and is committed or failed when it is signalled |
| `Subsequences_proofs` | lemmas | What `Only` keeps of a sequence: it commutes with appending, concatenation, head and tail, keeps the order, and splits a sequence into two. Shown by induction over the length of the sequence, which goes through sets of numbers (`SetInduction`: a set of numbers that has 0 and the successor of each of its members has them all), for the library's induction theorem takes an operator |
| `Pipeline_proofs`, first half | of `FlowTracker`: `TrackerTypes`, `FlowsPartition`, `NoneOverstays`, `NoneLeavesEarly` | `update`, `expire` and `flush` do the same two things to the table: at most one flow counts a packet, then some flows leave. `Sound` is kept by each half on its own, on tables that need not be the state's: every flow is `Faithful` to the packets it counted, they are `Apart`, they have `Covered` all packets, and `Ordered` says that a conversation's flows follow one another, without which a packet that re-opens one could not be put after the teardown. `Fresh`: nothing that is over stays in the table |
| `Pipeline_proofs`, second half | of `Pipeline`: `PipelineTypes`, `EveryPacketHasOnePlace`, `ConversationsStayWhole`, `ReplayMatchesReference`, `DoneIsComplete` | One `IInv`, said of each shard. `Located`: the shard's packets are, oldest first, in its flows, in its worker's hand and on its queue, without which a packet could reach the tracker after a later one. `SoundAt`: the flows of a shard, at whatever stage of handling, share no packet and are ordered within a conversation, which only that shard sees. `Flushing`: how far joins, sentinels and waits have come, and that behind them nothing is left; `ModeControl`: the expiry flag is on only before a replay's first packet and after its end. `Reference`: the tracker is where a pass over the packets it has had is, and once a flush or the wall clock has taken flows out for good, open and completed flows together are what the pass ends with. The pass may have begun anew once (`ReferenceFrom`, at `cut`), and only in a replay that broke off: a worker that is `quiet` then and still has packets to come has not been cut yet, and one that was cut does not find its queue empty before they are over. A cut takes all open flows, because the capture's packets are past by the idle timeout (`PipelineAssumption`). The lemmas on tables are those of the first half; that the packets a tracker has had are a growing part of the capture, those on `Only` |
| `Worker_proofs` | of `Enrichment`: `TypeCorrect`, `CallsNeverOverlap`, `NoLostWakeUp`, `LoadIsBounded`; of `Alerts`: `AlertsTypes`, `StormSuppressed`, `NewTechniqueOnce`, `EveryTechniqueAlerted` | `Registered`: the thread registered for an address is the one fetching it, and conversely; `LeaderOnlyInWait`: who waits on a leader is in `wait`, so the leader's `SetEvent` reaches all its followers. `OtherTypes` is the cache's half, for the types. `LoadInv`, for `LoadIsBounded`: as long as an address is not cached, every call counted for it belongs to a thread that has still to store. The alerts: `SlotsClaimed` and `ClaimsArePast` tie the throttle slots to the alerts sent; `SeenIsSent` ties the seen techniques to them; `ClaimedIsSeen` is why a throttled detection never carries a new technique |
| `Console_proofs` | `TypeCorrect`, `BudgetHolds`, `ShownIsNotPaidAgain`, `NothingIsMissed`, `IndexHeals` | `Typed` adds `DraftsFit` (what is about to be saved is of the request's kind) to the types; `Paid` ties what was shown to what is stored, without which a later request would not be known to find it; `IndexInvariant`: the index covers the table up to its last id and holds nothing else, and `ReadsInOrder`: the maximum read inside the lock is no smaller than any earlier one, so a sync that ends cannot take rows from a request that is about to retrieve. Lemmas on the index say what a sync leaves (`SyncResult`, `PartResult`); that a sequence covering 1..n has at least n elements (`LongEnough`) is why the rebuild test finds every duplicate |
| `Service_proofs` | `TypeCorrect`, `RowsAreMovedOnce`, `SchemaIsComplete`, `SeedsOnce`, `AccountsAreKept`, `GuessesAreBounded` | `StartupInv` says of each place in `migrate()` what the connection sees (`Unmoved`, `Half`, `Moved`, `Recorded`) and that what is committed is before the split or after it: from the first copy to the ledger all is one transaction, so a kill anywhere leaves `DiskInv`. `DemoInv`: what the seed has still to write holds no detection. `AccountInv`: one request at a time is between INSERT and commit, and one that has committed is the only one for its name. For the throttle, `Kept`: what it holds is the end of the fresh failures, those since it last forgot, and what it has popped is too old for every window that has not ended. `Bounded`: a window that has not ended has room for all the requests already past the check, which is why the bound survives a check that is stale when the failure is noted; a window that has ended can gain nothing. `Paid` (in `HistoryInv`) carries that over to all failures there ever were: the fresh ones of a window are at most one allowance, and when they are forgotten within the window, that forgetting pays for them; one that comes after the window has ended leaves at most the allowance of the window itself. `Justified`: the failures a refusal counts in its own window, which are fresh ones, reach the limit |
| `Dossier_proofs` | of `Feed`: `FeedScreen`, `PagingSkipsNone`; of `Dossier`: `ReportReads`, `ReportNumbers`, `TimelineComplete`; of both: `TypeCorrect` | Detections are numbered as they are submitted, so the table is `Increasing` and only grows at its end (`TableGrows`, `Grown`). A page is then said by the length the filtered table had when it was read (`ReadBack`), which no commit changes any more; an answer is `Honest` if there is such a length, no less than what it counted. `FeedInv`: `Numbered` (no request is answered twice, and none remembers an answer that is still on its way), `Current` (the newest request is for what the controls say, without which the last answer could be another page's), `Screen` (live rows of events that were delivered, each once, over the rows of one answer: all of them, or as many as a page has room for), `UpToDate` (once the newest is rendered, the controls, both buttons and the live rows are those of its page) and `Adjoining`: between the page on the screen and the answer asked for from it lies no row. When the second page is read the table is at least as long as it was for the first, so its offset reaches no further down than just below that one; rows that come later come above both. The report only reads (`ReportReads`), so `FeedInv` carries over. `Told` says what each of its statements leaves: a section is `Listed` in the table, and whatever is counted or listed later is counted in a table no shorter (`ListedFits`: a list without repetitions is no longer than one that has all its elements); `HistoryFull`: the history is complete or full, and what did not fit is older, so that appending the reported detection keeps the order. That the timeline is what sorting gives needs that there is a permutation to choose (`Sortable`) |

They assume only the constants' named assumptions (`ShardQueuesAssumption`,
`CaptureAssumption`, `FlowTableAssumption`, `FlowTrackerAssumption`, `EnrichmentAssumption`,
`AlertsAssumption`, `AgentAssumption`, `ConsoleAssumption`, `RowsAssumption`,
`StartupAssumption`, `LoginAssumption`, `DbWriterAssumption`, `PipelineAssumption`, `FeedAssumption`,
`DossierAssumption`) and hold for any number of shards, flows, packets, captures, threads, addresses,
workers, techniques, verdicts, requests, detections and any capacity, timeout, window, budget, page
or section size.
Each follows the same lines: `Init` establishes the invariant, one lemma per action (or per
group of actions that touch the same part) preserves it, the last theorem combines them.

`PipelineAssumption` says what the inputs are: captures are sequences of packets numbered from 1,
a sentinel is no packet, and the wall clock of a replay is past every packet of the capture by at
least the idle timeout (`_expire_idle_flows` has a capture of years ago in mind).

`ReplayMatchesReference` is about a recursive function, the pass over a shard's packets (`After`).
That the function exists, and that one packet more at the end is one more `Given` (`AfterAppend`),
is shown by `SetInduction` over the length of the share; the invariant then follows the tracker
packet by packet.

The proofs about `Feed` and `Dossier` are about the sizes of lists that a filter makes, which are
recursive functions too: `Only` is one, and its lemmas (`Subsequences_proofs`) are all the others use.

Every invariant and every action property that a passing run checks is proved, and so is the
refinement of `PerFlowChannel`. Model-checked only: the liveness properties (`OfferReturns`,
`EverythingSettles`, `RowsLeave`, `LookupsReturn`, `RequestsEnd`, `BootCompletes`), which need
ENABLED.

## 6. Not modelled

* Rate tracker, drop monitor, system metrics: they sample and report.
* Classification and attribution: numeric inference; a worker sees a result or an exception.
* SQL text, HTML, Markdown and prompts: formatting. The aggregates behind the charts and the
  exports are single reads of committed rows.
* Flask, Socket.IO, cachetools, SQLite, scapy: external; modelled by how this code uses them.
* `reset()` of the cache and of the alerts: no caller outside the tests.
* The shutdown sentinel `None` of the workers: nothing sends it.
* `start_pipeline`: the models begin with the threads running.
* Sessions, CSRF tokens, password hashing: Flask's and werkzeug's. `/logout` clears the
  caller's own cookie.
* The write lock that requests and the writer's transaction share is seen only as a save that
  may fail (`SaveFails`, `InsertRefused`), not as one lock across the modules.
* Training and the tools under `scripts/`: sequential, offline.
* What the console's requests say: evidence, prompts, answers, their validation and scores.
  A message of the model is one of the outcomes the handler distinguishes.
* The browser's modals, charts and other pages: rendering. Two triage modals opened one after
  the other race as two pages of the feed do; each answer names its detection.

## 7. Plan

Done: the ingestion path, from the packet to the committed row, with the cache and the alerts
beside it; the console's requests to the language model; the container's start-up and the
login; the feed and the dossier. What could come next:

1. **One lock**: the writer's transaction, the saves of triage and report and the sign-up share
   SQLite's write lock; a composition would say who can wait for whom.
2. **Breadth**: the rate tracker and the drop monitor as readers of the queue's counters.
