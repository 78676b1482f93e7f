# Formal models of the trace aggregator

TLA+ models of the multi-agent trace aggregator in `src/trace-aggregator/`: an SDK
that emits spans and decisions from agents, a gRPC collector that makes them
durable and batches them into ClickHouse, an engine that reconstructs the causal
graph of each trace and assigns blame, an API, and the SLO and alerting workers
with their incident lifecycle. Paths below are relative to `src/trace-aggregator/`.

Contents: 1 the system, 2 the plan, 3 how the modules correspond to the code,
4 what the runs show, 5 what is proved, 6 assumptions and limits.

## 1. The system

### Components, state and operations

| Component | State | Operations | Concurrency and failure | What makes it correct |
|---|---|---|---|---|
| Collector: batch writer (`collector/writer.py`) | WAL directory, asyncio queue, current batch, stop flag, metrics | `submit_nowait`, `_run`, `_flush`, `_replay_wal_into_queue`, `start`, `stop` | coroutines on one event loop; crash between any two steps; ClickHouse down or answer lost; `os.remove` failing; queue full | an acknowledged row is never lost; a row is in memory once; duplicates only by faults; every row eventually stored; stop ends |
| Collector: servicer (`collector/server.py`) | ingest statistics, open streams | `RecordSpan`, `RecordDecision`, streams, `serve` | starts writers before, stops them after the gRPC server | answers "accepted" only for a durable row |
| Collector: manual replay (`collector/replay_wal.py`) | the same WAL directory | one pass over the files | a second process beside a running collector | rows inserted before their file goes (but see section 4) |
| SDK: shipper (`sdk/client.py`) | bounded queue, worker thread, channel, stop event | `emit_span`, `emit_decision`, `_run`, `shutdown` | agent threads, worker thread, atexit on the main thread; RPC deadline | never blocks the agent; sends an item at most once; drains at exit |
| SDK: trace context (`sdk/core.py`, `sdk/instrument.py`, reducers in `demo/pipeline.py`) | vector clock and parent in the graph state | node wrapper, decision wrapper, merge at fan-in | parallel branches, node failure and retry | a clock says exactly what its node saw; parents are real |
| Engine: reconstruction (`engine/dag.py`) | none (pure) | order, parents, frontier | spans missing, duplicated, retried | whatever is missing, edges are causal and no causality is lost |
| Engine: blame (`engine/blame.py`, `engine/blame_v2.py`) | none (pure) | shares of cost and errors, amplification | failing spans with effects | the agents' shares are parts of one whole |
| Engine: worker (`engine/worker.py`) | tables `reconstructed_traces`, `decision_edges`; a pool of tasks | poll, read, stamp, insert, insert edges | rows arriving between reads, twice or late; a failed call, a crash, a clock step between any two of them | no span counted twice, no visible row goes back, active traces catch up |
| API (`api/main.py`, `api/cursor.py`) | the cursor in the request | list, detail, stream, incidents | rows replaced while a client pages | nothing skipped or repeated |
| Alerting: incidents (`alerting/incidents.py`) | `tracing.incidents`, one visible row per key | `record_alert`, `acknowledge`, `resolve`, `auto_resolve_stale` | read, then insert, with nothing in between to order actors | no alert storm; each opening paged; quiet incidents resolve |
| Alerting: worker (`alerting/worker.py`) | none across restarts | rules, record, webhook, sweep | crash between insert and webhook; rows changing between a rule's two queries | as above; what the engine gives up is named, and nothing else, whatever the host's time zone |
| SLO (`slo/`) | table `slo_status` | evaluate every objective | processes on timers of their own, down at any time; missing data; counters older than the objective's window | a lasting outage is alerted, no breach is missed, a recovery goes quiet |
| Schema (`db/init_db.py`) | table engines | create, migrate | deduplication on merge, `FINAL` reads | a reader sees the last write |

Also in the repository and without a state machine of their own: taxonomy and
calibration tables, authentication and governance checks, scripts, the
React client, and early copies of four files at the top level. `PROJECT.json` lists all
of them with the reason each is left out.

### How they interact

    agent --emit--> SDK queue --worker thread, unary gRPC--> collector servicer
      --submit_nowait--> WAL file + asyncio queue --_run/_flush--> ClickHouse
      --poll--> engine --reconstructed_traces, decision_edges--> ClickHouse
      --query--> API, SLO worker --slo_status--> alerting worker
      --record_alert / webhook--> incidents <--ack, resolve-- API

The SDK and the collector share the outcome of a unary RPC. Collector restarts share the
WAL directory. Alerting worker and API share the incident row, which both read and
write back whole. The engine, the API and the SLO worker share only tables.

### Hard behaviours

`PROJECT.json` lists each hazard at its line. In short: a crash between two effects
(insert and file removal, insert and webhook); an answer lost after its request took
effect; stale reads written back; the exit handler racing the worker thread; bounded
queues at their limit; rows that nothing in a running process takes up again; polling
windows and clocks that pass over late rows.

## 2. Plan

| Stage | Modules | Question | State |
|---|---|---|---|
| 1a | `DurableIngest`, `BatchWriter`, `BatchWriterProofs`, `DataLemmas` | is an acknowledged row ever lost or multiplied? | done |
| 1b | `SpanShipper`, `SpanShipperProofs` | what reaches the collector, once, and at exit? | done |
| 1c | `Incidents`, `IncidentsProofs` | who is paged, how often, who is resolved? | done |
| 1d | `CausalDag`, `TraceRun`, `TraceRunProofs` | do clocks say what a node saw, and does the graph built of the spans at hand say the same? | done |
| 2a | `CausalDag`, `TraceRun` (decisions, failing nodes), `Blame`, `TraceBlame`, `MCTraceBlame` | do a decision's edges lead to its effects, is blame a share of the whole? | done |
| 2b | `TraceTable`, `EngineWorker`, `EngineWorkerProofs` | what may a reader of the engine's tables count on? | done |
| 2c | `TraceListing`, `TraceListingProofs` | does a client that pages see everything, once? | done |
| 2d | `SloAlerts`, `MCSloAlerts`, `SloAlertsProofs` | do the windows of four processes fit together? | done |
| 3a | proofs of `MetricsAccountForRows`, `ShutdownRaisesOnlyAfterFailedRpc`, `BlameIsAShare`; stale edges | are all safety invariants true for every value of the constants? | done |
| 3b | theorems on reconstruction and blame in `TraceRunProofs` | what do `engine/dag.py` and the scores promise of any set of spans, not only of those a run emits? | done |
| 4 | ranking arguments: while stopping, replaying or paging, what is left never grows | which part of the liveness properties is provable without fairness? | left |

The order is that of the damage an error would do: durability first, then delivery, then
paging, then the meaning of what was stored and who notices when it is missing. There are two
abstract specifications: `DurableIngest`, which `BatchWriter` implements, and `TraceTable`, which
`EngineWorker` implements and `TraceListing` extends, so that the listing is checked against any
engine that keeps the promise. No module declares a RECURSIVE operator, so that all of them can
be proved about. The manual replay and the trace stream were planned and have been dropped:
neither does anything (section 4, "Met while reading").

## 3. Modules and code

**`DurableIngest`** is the promise in the docstring of `collector/writer.py`, and no
more: rows become durable (`Admit`), may be acknowledged when they do, durable rows
are delivered in batches (`Deliver`), any number of times, and never become undurable.

**`BatchWriter`** is `collector/writer.py` under `serve()` of `collector/server.py`.

| TLA+ | Code |
|---|---|
| `wal`, `queue`, `buf`, `stopped`, `metrics` | the `.json` files, `self._queue`, `_run`'s `buf`, `self._stopped`, `WriterMetrics` |
| `copies`, `acked` | the table (an append-only MergeTree), the submissions answered `True` |
| `SubmitRejected`, `SubmitQueued`, `SubmitQueueFull` | the three ways through `submit_nowait` |
| `Get`, `Timeout` with `AfterWake` | `_run`'s `wait_for(queue.get())` and the tests after it |
| `InsertApplied`, `InsertReturns`, `InsertFails`, `UnlinkNext` | `_flush`: the insert is executed, its answer arrives or it raises (executed or not), each file is removed or its removal fails |
| `Start` with `ReplayOrder` | `_replay_wal_into_queue`, which has no `await` and runs before the server accepts calls; it takes the oldest files, as many as fit |
| `Stop`, `Exit` | `serve()`'s shutdown and `stop()` |
| `Crash`, `CrashInSubmit`, `DbDown`, `DbUp` | the environment |

A step is the code between two awaits, except that each file removal is a step of its own,
because the process can die in between. `phase` is the place of the one `_run` task.

**`SpanShipper`** is `sdk/client.py`: the agent's `Emit`, the worker thread
(`Loop`, `Get`, `GetTimesOut`, `Call`, `RpcReturns`, `RpcFails`), the collector's handler as
its environment (`Accept`, `Reject`), and `shutdown()` split at every access to
shared state (`BeginShutdown`, `DrainEnds`, `SetStopped`, `SignalWorker`, `CheckChannel`,
`CloseChannel`, `Exit`). Here a step is the code of one thread between two accesses to the
queue, the stop event or `self._channel`, since threads can switch anywhere. A request
whose sender gave up stays on `wire` and may be handled later.

**`Incidents`** is `alerting/incidents.py` with the loop of `alerting/worker.py`
(`RulesRaise` to `AutoResolve`, one action per query and per insert), the API's ack and
resolve endpoints (`ApiFetch`, `ApiAck`, `ApiResolve`) and `Interrupted`, a worker that
dies or a pass cut short by an exception. `row` is the visible row of one incident key.
Whether a rule fires is the environment's choice.

**`CausalDag`** is `engine/dag.py` as operators on a set of spans: `Precedes` is `_precedes`,
`Frontier` is `_causal_frontier_parents`, `Parents` and `Gaps` are what `reconstruct_dag` and
`detect_gaps` return. The order in which a node's parents are listed is left out, and so is the
primary parent that the serialised form picks by it.

**`TraceRun`** is one run of a workflow of instrumented nodes, with `CausalDag` applied to the spans
that have arrived.

| TLA+ | Code |
|---|---|
| `channel` | `_vector_clock` and `_parent_span_id` in the shared state |
| `input`, `Schedule` | the state that LangGraph gives to the nodes of one superstep; the set of nodes is the workflow's choice |
| `MergeClock`, `MergeParent` | the reducers `_merge_vector_clock` and `_merge_parent_span` of `demo/pipeline.py`, applied to the state's value and what a node returns |
| `BeginSpan` | `begin_span` |
| `Return`, `Fail` | the wrapper of `instrument_node`: the span is emitted in both cases, the state updated only in the first |
| `Receive` | a span becomes visible to `fetch_spans`, which drops duplicates; in any order, or never |

`step` and the `step` field of a span are history: they say in which superstep a span ran, hence what
it had seen, and no guard that models code reads them.

A decision's edges are `Targets` in `CausalDag` (`_collect_descendants` and the choice of targets in
`_write_decision_edges`, over the children that `reconstruct_dag` links), and `DecisionSource` the span
that the demo's `_maybe_emit_decision` names.

**`Blame`** has the scores of `engine/blame.py` and `engine/blame_v2.py` as operators on spans, brought to a
common denominator so that they are integers; **`TraceBlame`** evaluates them on what has arrived of a
run. What a span costs is a constant, a number for each id, of which nothing is assumed; **`MCTraceBlame`**
gives the values TLC uses. The bootstrap interval of version 2, statistics of random resamples, is left out.

**`TraceTable`** is what readers of `reconstructed_traces` may count on: one visible row a trace, replaced
only by one that is no older, misses no span of it and keeps the time of the first reconstruction.

**`EngineWorker`** is `engine/worker.py` between the collector's tables and its own.

| TLA+ | Code |
|---|---|
| `rawSpans`, `rawDecisions`, `last`, `fresh` | `raw_spans` with its duplicates, `raw_decisions`, the newest `ingested_at` of a trace, and whether `find_active_traces` sees it |
| `row`, `Winner` | `reconstructed_traces` read with `FINAL` |
| `edges`, `WithEdges` | `decision_edges`, from which nothing is ever removed |
| `FindActive` | a pass of `run_loop`; `with ThreadPoolExecutor` waits for the tasks of the one before |
| `FetchSpans`, `FetchDecisions`, `Stamp`, `InsertTrace`, `InsertEdges` | `reconstruct_one` of one trace, split at every call to ClickHouse and at the clock |
| `FirstReconstructed` | `_resolve_first_reconstructed_at` and the cap after it |
| `Deduplicated` | the idempotency keys of `fetch_spans` |
| `TaskFails`, `Crash`, `ClockBack`, `Expire` | a call that raises, a process that is killed and restarted, a clock that is set back, time passing |
| `Legacy`, `LegacyRow` | rows from before `ALTER TABLE ... ADD COLUMN first_reconstructed_at`, which `setup` leaves at the epoch |
| `Measured`, `Lag` | `_reconstruction_lags_ms` and `_reconstruction_latency_ms` of `slo/evaluator.py`; the query leaves out traces whose last span is older than `RECON_LAG_ACTIVE_SEC`, which `Measured` does not: what is said of each measured trace holds of those the query takes |

Inside a trace, spans are numbered in the order they ran: which of them are effects of a decision is settled
in `TraceRun` (`ImpactIsEffects`), so `TargetsAmong` takes the later ones.

**`TraceListing`** extends `TraceTable` with a client of `list_traces`: `Past` is the `WHERE` of the cursor,
`IsPage` the `ORDER BY ... LIMIT`, `IsNextCursor` the cursor made of the last row shown when one row more
than the limit was read. `steady` and `times` are history: what a client could expect to see, and has seen.

**`SloAlerts`** has the clocks and windows of four processes. A unit of time is a minute, the interval of the
SLO worker.

| TLA+ | Code |
|---|---|
| `age`, `Flush`, `Eligible`, `Rebuild` | the age of a trace's newest span, the flush that stores spans, `LOOKBACK_SEC` of the engine, a trace's first reconstruction |
| `debt`, `AcceptRow`, `RejectRow`, `Flush`, `FlushFails` | the counters of `WriterMetrics` that the ingest and the flush objective divide, since the collector started: `submit_nowait` writes the WAL or cannot, `_flush` stores a batch or fails |
| `GoodRatio`, `Completed`, `Passing`, `Evaluate`, `verdicts` | the signals of both ratios and of trace completion, `evaluate_all`, `_persist` into `slo_status` |
| `ReadSpans`, `ReadRows`, `Old` | the two queries of `_rule_stuck_traces`, between which the engine may insert |
| `Zone` | what `datetime.now()` of the alerting worker's host is ahead of the UTC that ClickHouse gives; the query's horizon goes by ClickHouse's clock, the age the rule computes by both |
| `Breach`, `Latest` | `_rule_slo_breach`: K failed of the last N |
| `Toggle`, `PollFails` | a collector, its disk, the engine or ClickHouse that goes down and comes back; a query that raises |

A ratio of successes to all is at least 0.99 exactly if there are 99 successes for each failure. So
`debt` is one number a ratio, tolerance * failures - successes: the ratio is good if it is not positive, and
a collector that starts has none. `touched`, `named`, `owed`, `silent` and `unread` are history and bounds.
**`MCSloAlerts`** gives `Zone` for a host east of UTC.

**`DataLemmas`** holds what the proofs share about data: `Append`, `Head` and `Tail` of sequences that hold
nothing twice, induction over numbers and finite sets, maximal elements of strict orders, and sums over
finite sets; the `...Proofs` modules hold the theorems of section 5.

`PROJECT.json` maps every definition to its lines. Definitions whose comment says
"Mutant of X" are variants of an action with a plausible programming error; they are part of no
specification and show, substituted for X, that the property named with them fails.

## 4. Runs

| Run | Constants | Checks | Shows |
|---|---|---|---|
| `batch_writer` | 4 rows, queue 2, batch 2, 2 faults | `TypeOK`, `NoAcceptedRowLost`, `MemoryBackedByWal`, `DuplicatesNeedFaults`, `MetricsAccountForRows`, `ImplementsDurableIngest`, `EventuallyStored`, `StopCompletes` | crashes, outages and failed removals in any order lose no acknowledged row; duplicates are bounded by faults; the counters add up; the writer implements the promise; with restarts every acknowledged row is stored, and a stop ends |
| `batch_writer_auto_replay` | 1 row | `RunningCollectorReplays` violated | a running collector never replays a failed flush |
| `span_shipper` | 4 items, queue 2, 2 faults | `TypeOK`, `AtMostOnce`, `DrainLosesAtMostOne`, `ShutdownRaisesOnlyAfterFailedRpc`, `EventuallyShipped`, `ShutdownTerminates` | no duplicates from the SDK; the worker survives; exit always ends and, drained in time, misses at most one item |
| `span_shipper_drain` | 2 items, no faults | `DrainsOnShutdown` violated | that one item can be lost with a healthy collector |
| `incidents` | 2 requests, 3 alerts, 1 fault | `NoAlertStorm`, `OpeningsArePaged`, `OccurrencesNotOvercounted`, `QuietIncidentResolves` | pages are bounded by resolutions, only an interruption loses a page, a quiet incident ends resolved |
| `incidents_reopening` | 1 request, 2 alerts | `ReopeningPages` violated | a stale write undoes a resolution without a page |
| `trace_run` | 2 agents with 2 nodes each, 4 spans | `TypeOK`, `ClocksAreCausality`, `EdgesAreCausal`, `EveryCauseIsAncestor`, `GapsMeanLoss`, `ImpactIsEffects`, `BlameIsAShare` | clocks are exact; of any part of the spans, the reconstruction neither invents nor loses causality; a reported gap is a missing span; decisions point to their effects; blame adds up to no more than the whole |
| `trace_run_parent` | 2 agents, 3 spans | `ParentIsPreviousNode` violated | the explicit parent may be an older span than the previous node's |
| `engine_worker` | 2 traces of 2 spans, one with a legacy row, 1 worker, 3 span rows, 1 decision, 2 times, 1 fault | `TypeOK`, `NoSpanCountedTwice`, `OnlyLoopsGoStale`, `ImplementsTraceTable`, `ChurnIsNotLag`, `EventuallyCurrent`, `EdgesFollow` | replayed rows are not spans; no visible row goes back in time or in spans; rebuilding is not measured as lag; edges that no pass produces any more are loops; rows and edges of active traces catch up |
| `trace_listing` | 3 traces, 3 times, pages of 1 | `NothingSkipped`, `NoTraceTwice`, `ListingEnds` | a client that pages while traces are rebuilt, also in one millisecond, misses no steady trace and sees none twice; it comes to an end |
| `slo_alerts` | UTC; 1 trace, windows of 1 unit, horizon 3, 1 of 2 verdicts, 1 failed flush, 1 rejected row | `NamedTracesAreLost`, `LostTracesAreNamed`, `NoBreachForgotten`, `OutageIsAlerted`, `RecoveryQuiets` | the windows neither overlap nor leave a gap; a breach does not slip between polls; a lasting outage of the collector is alerted; a recovery ends every alert, that of a ratio as soon as traffic outweighs the failures |
| `slo_alerts_east` | east of UTC by the rule's age, windows of 2 | `NamedTracesAreStuck` violated | a trace is stuck as soon as its first span is stored |

### The bounds

Every bound is a constant: `MaxRows`, `MaxItems`, `MaxAlerts` and `MaxFaults` cap counters
that grow for ever in the program; `QUEUE_MAX` and `BATCH_SIZE` are the program's own
limits, made small. Two rows fill a batch and two the queue, so four overflow the queue
while a batch is in flight, and a WAL longer than the queue is replayed in part. Two faults are
enough for a crash in a replay that follows an outage, or an answer lost and a failed removal. Four items fill the SDK's queue and overflow
it with one in the worker's hands. Three alerts and two requests allow an incident to be opened,
resolved by one request, re-opened and changed by the other's stale write while the
worker is in the middle of its own; the interruption may hit any of these. Four spans are
enough for a fan-out and its join, a chain, branches of unequal length in rounds, two nodes of
one agent in parallel (equal clocks) and a node that fails beside one that does not, with every
subset of the spans received and every order of their ids; ids have different costs, and a span may get any of them, so that blame is
computed for different distributions of latency and tokens.

In `engine_worker` three rows are two spans and a duplicate, or two duplicates, of one trace or of
both; one of the traces has the row of an old installation. One worker and two traces make a
task wait while rows arrive; with two times a row can be rebuilt in the millisecond of the last
one, later or, after the clock went back, earlier; the one fault may hit any step. In
`trace_listing` three traces with pages of one need three answers, with rebuilds between them and
ties at every time. In `slo_alerts` the windows keep the order they have in the code (the engine's and
the objective's equal, the stuck rule's not below them, the horizon beyond) with the sizes made small,
and K + `MaxUnread` <= N, as the code's 3 and 5 give for two evaluations that are not read. The windows do not
couple traces, so one is enough. One failure of each ratio is counted, weighing as much as one success
(`AcceptTolerance` and `FlushTolerance` are 999 and 99 in the program), and `MaxCredit` is 0: no success is
kept in store, the worst case for what the properties say of a failure. A larger debt takes longer to outweigh and
nothing else. A local time is hours from UTC, the stuck rule's age five minutes and its horizon sixty: a
zone east of UTC adds at least its age, which is what `MCSloAlerts` gives, and one west takes away at least its
horizon, which is what `NothingNamedWest` assumes.

All safety invariants, both refinements and `ChurnIsNotLag` are proved for all values (section 5; those of
`SloAlerts` for the time zones in which they hold), so for them the bounds only decide how soon an error would be found. `TypeOK` of `Incidents`, `TraceListing` and `SloAlerts` is proved and not listed in a run.

Deadlock is not checked where a system really may stop: a process that exits (`span_shipper`), a run
that ends (`trace_run`), and models in which only bounded environments move the rest
(`engine_worker`, `trace_listing`, `slo_alerts`).

### Fairness

- `BatchWriter`: the event loop keeps running `_run` (`Get`, `Timeout`, `Flush`, `Exit`): asyncio
  schedules a ready task, `wait_for` has a timeout and the driver's call returns or raises.
  `DbUp`, `Start` and, for `EventuallyStored`, `Stop` are the operator's and the
  platform's: ClickHouse comes back, a dead collector is restarted, and a running one is
  now and then stopped. No fairness on submissions, crashes or outages.
  `RunningCollectorReplays` is refuted without the fairness on `Stop`, in behaviours in which
  the collector just keeps running.
- `SpanShipper`: both threads are scheduled and the collector serves its requests; the RPC has a
  deadline and the drain loop too. No fairness on emitting or exiting.
- `Incidents`: the worker polls for ever and time passes. A request need not be sent, nor get
  as far as its insert, so no request is fair.
- `TraceRun` has no liveness property and no fairness: a run may stop and spans may be lost.
- `EngineWorker`: the loop catches every exception and polls again, the pool runs what was
  submitted, the clock goes on; a process that dies is restarted. No fairness on arrivals, expiry or
  faults. The liveness properties promise nothing of a trace that leaves the window first,
  because nothing in the code does (`LostTracesAreNamed` says who notices).
- `TraceListing`: the client asks for the next page; the engine need not do anything.
- `SloAlerts`: the engine rebuilds an active trace, the SLO worker evaluates, the alerting worker
  polls, each for as long as it can. Time goes on although it may wait again and again for a
  poll to end (strong fairness of `Tick`). No fairness on rows and flushes or on parts going down and up.
  `RecoveryQuiets` has a premise instead, `Traffic`: rows keep being accepted and batches stored; without it
  an alert of a ratio may stay for ever. `OutageIsAlerted` takes an engine that runs: one that is restarted
  over and over within its first pass may keep a trace waiting, and a unit of the model does not end before a
  running engine has had its pass.

### Divergences found

1. The runbook (`docs/runbook.md:202`) and a docstring (`collector/writer.py:164`) say that a
   running collector replays the WAL before flushes; the loop never rescans the directory,
   so rows of a failed flush, and rows acknowledged on a full queue, wait for a restart.
   `EventuallyStored` shows that restarts suffice.
2. `shutdown()` looks at the queue only, so the item the worker has just taken is lost at exit
   although `sdk/client.py:7` promises a drain. `DrainLosesAtMostOne` shows that it is only one.
3. `record_alert` writes back the state it read, so a resolution in between is undone
   without a page, against `alerting/incidents.py:7`. `NoAlertStorm` and
   `QuietIncidentResolves` show that this causes no storm and does not last.
4. `_merge_parent_span` (`demo/pipeline.py:66`) is the reducer of the state's parent, so it compares
   a new span id with the one already there and keeps the smallest id of the whole run, whereas
   `sdk/instrument.py:17` makes the span just emitted the parent of the next node. The graph is not
   misled, because the causal frontier is added to every explicit parent (`EdgesAreCausal`,
   `EveryCauseIsAncestor`); a reader of `parent_span_id` alone is.
5. The stuck rule (`alerting/worker.py:186-193`) subtracts timestamps that ClickHouse gives in UTC from
   `datetime.now()`, the local time of the host on which `docs/runbook.md:92` starts the worker. East of UTC a
   trace is "stuck without reconstruction for >= 5m" as soon as its first span is stored, if a poll comes before the
   engine's pass (`NamedTracesAreStuck`). The tests take their times from `datetime.now()` too, so that the
   zone cancels out.
   West of UTC the same subtraction makes every age an hour too small, at least, and the rule's query
   takes nothing older than an hour: no trace is ever named (theorem `NothingNamedWest`). In UTC
   `NamedTracesAreLost` and `LostTracesAreNamed` hold, and they are proved for the zones that do not
   break them: the first in UTC and west of it, the second in UTC and east of it.

### Met while reading

No run shows these: they concern code the models leave out, or no document states the opposite.

- `engine/worker.py:372-433` builds reason chains of fifteen values for sixteen columns. Every
  insert into `decision_reason_chains` is refused, the root-cause endpoint has nothing to show, and
  the task of every trace with decisions ends in an exception, after row and edges were written.
- `instrument_decision` and `decide_then_act` (`sdk/instrument.py:94`, `135`) pass `tenant_id` to an
  `emit_decision` without such a parameter: with a trace in the state they raise a TypeError. The
  demo calls `emit_decision` itself.
- `collector/replay_wal.py` names twelve columns for rows of thirteen values, so that every insert is
  refused and no file removed; `docs/runbook.md:205`, `248` and `290` recommend it.
- `stream_traces` (`api/main.py:543`) has a query parameter in braces inside an f-string, which raises,
  so every stream ends with an error event. The older listing at `api/main.py:277-465` is unreachable.
- The shipper takes every item off its queue and drops it after one failed RPC, while
  `docs/runbook.md:219` says spans stay in the buffer during an outage.
- A span that comes after the first reconstruction is measured by the latest rebuild, which keeps
  moving while the trace is hot: up to 120 s of the engine's own churn count as lag, above the threshold
  of the p95 objective. `ChurnIsNotLag`, like `TODO.md:514-523`, is about the other spans.
- The lag objectives pass with 0 when nothing is reconstructed, and the latency objective when the API
  cannot be reached; the rule that `slo/evaluator.py:244-246` refers to does not exist.
- A trace whose late spans arrived while the engine was down has a row, so it is neither incomplete nor
  stuck, and once it leaves the window its row stays without them. `EventuallyCurrent` excludes it
  by its `~fresh`.
- `aggregate_blame` (`api/main.py:957-1038`) reads without `FINAL`: a trace counts once for every
  rebuild that is not yet merged away.
- The amplification of blame never applies to what the SDK emits, since a failed span has no
  descendants (`ErrorsHaveNoDescendants`); if it did, scores could exceed the 100 of the comment at
  `engine/blame_v2.py:63`, though never 120 (`AmplifiedScoresBounded`).
- Edges of an earlier pass are never removed from `decision_edges` (`engine/worker.py:310`). What stays
  behind is harmless: an edge of a decision to its own span (`OnlyLoopsGoStale`).
- The ingest and flush ratios have a window of 15 minutes (`slo/spec.py:12`, `52`, `62`), but are taken over
  counters that start with the collector (`collector/metrics.py:101-126`, `slo/evaluator.py:118-142`). A flush
  that failed in an outage keeps the objective failing until ninety-nine have succeeded for it, or the
  collector is restarted; with little traffic the alert outlives the outage by hours. Scenario 6 of the runbook
  (`docs/runbook.md:301`) meets this alert and puts it down to stale rows of `slo_status`; to truncate the table, as
  it advises, does not end it, because the new evaluations fail too. That is why `RecoveryQuiets` needs
  its premise `Traffic`.
- The replay order of the WAL follows the wall clock in its file names; no reader relies on it.

## 5. Proofs

Checked by TLAPS, for every value of the constants that satisfies the modules' assumptions: bounds are
naturals, capacities and page sizes positive, a trace has a span, in `SloAlerts` the windows are in the
order the code's defaults have and the time zone is any, and in `TraceBlame` the agents are finitely many and a span's latency and
tokens are naturals (`UInt32` columns in `db/init_db.py`). Nothing else is assumed, except that three
theorems of `SloAlertsProofs` are about some time zones only and say which.

| Module | Theorem | Establishes |
|---|---|---|
| `BatchWriterProofs` | `TypeCorrect`, `Durability`, `MemoryBacked`, `BoundedDuplication` | `TypeOK`, `NoAcceptedRowLost`, `MemoryBackedByWal`, `DuplicatesNeedFaults` |
| | `CountersBalance` | `MetricsAccountForRows` |
| | `Refinement` | `Spec => ImplementsDurableIngest` |
| `SpanShipperProofs` | `TypeCorrect`, `NoDuplicateFromSdk`, `DrainBound`, `RaiseNeedsFault` | `TypeOK`, `AtMostOnce`, `DrainLosesAtMostOne`, `ShutdownRaisesOnlyAfterFailedRpc` |
| `IncidentsProofs` | `TypeCorrect`, `NoStorm`, `PagesFollowOpenings`, `CountsAreSound` | `TypeOK`, `NoAlertStorm`, `OpeningsArePaged`, `OccurrencesNotOvercounted` |
| `TraceRunProofs`, any finite set of spans | `FrontierCovers`, `GapsExact` | every causal predecessor is on the frontier or before it; the gaps are the spans that have a predecessor and lack their parent |
| | `SuccessorsAreDescendants`, `DescendantsExact` | the reconstruction loses no causality, whatever the explicit parents; it invents none if these precede their children |
| | `ScoresAreShares`, `AmplifiedScoresBounded` | scores add up to at most 100, those of version 2 to at most 120 |
| `TraceRunProofs`, the spans of a run | `TypeCorrect`, `ClocksExact` | `TypeOK`, `ClocksAreCausality` |
| | `ReconstructionSound`, `ReconstructionComplete`, `GapsReal` | `EdgesAreCausal`, `EveryCauseIsAncestor`, `GapsMeanLoss` |
| | `DecisionEdgesExact`, `ErrorsHaveNoDescendants`, `BlameShares` | `ImpactIsEffects`; that a failed span has no effects; `BlameIsAShare` |
| `EngineWorkerProofs` | `TypeCorrect`, `CountedOnce`, `ChurnSettled`, `StaleEdgesAreLoops` | `TypeOK`, `NoSpanCountedTwice`, `ChurnIsNotLag`, `OnlyLoopsGoStale` |
| | `Refinement` | `Spec => ImplementsTraceTable` |
| `TraceListingProofs` | `TypeCorrect`, `NoneSkipped`, `NoneTwice` | `TypeOK`, `NothingSkipped`, `NoTraceTwice` |
| `SloAlertsProofs` | `TypeCorrect`, `NoBreachSlips` | `TypeOK`, `NoBreachForgotten` |
| | `NamedAreLost`, `LostAreNamed` | `NamedTracesAreLost` if `Lookback + Zone <= Stuck`; `LostTracesAreNamed` if `Zone >= 0` |
| | `NothingNamedWest` | the stuck rule names nothing if `Horizon + Zone <= Stuck` |

Each follows from an inductive invariant, `IInv`, and one lemma per action.

*Batch writer.* `NoAcceptedRowLost` is not inductive: a file may go only because its row is
stored. `FlushedRowsStored` says that the rows being unlinked are those of an executed insert;
`MemoryBackedByWal`, `PhaseInv` and `OnlySubmitted` (numbers not yet handed out are nowhere) keep a
new or replayed row from being taken for another. `CopiesInv` strengthens the bound on
duplicates: a row whose file is still there has no more copies than there were faults, unless it is
in the insert just executed. The refinement maps `durable` to the rows on disk or in the table;
the only steps that are not stutters are the accepting submissions, `CrashInSubmit` and `InsertApplied`.
`MetricsAccountForRows` is inductive beside `IInv`, which says that a row is in memory once, so that
the size of what is pending changes by what the counters change by; both are sets' cardinalities and
sequences' lengths, which is why `AppendFacts`, `TailFacts` and `DisjointSizes` are cited throughout.

*Span shipper.* `PlaceInv`: an item is on the queue, in the worker's hands, on the wire or with the
collector, in one place only, which gives `AtMostOnce`. `RunningInv`: until the drain ends,
nothing closes the channel and what is unshipped is queued or in hand; `DrainedInv`: when the
drain ended on an empty queue, at most one item can be unshipped from then on. `CloseInv`: nobody but
`shutdown()` closes the channel, and between its test and its `close()` the worker can have
forgotten the channel only because of an RPC that failed by itself.

*Incidents.* `OpeningsInv`: a resolved row, visible or in the worker's hands, stands for a
resolution no opening has used. `PagesInv`: a page needs an opening. `CountInv` bounds the
count in every copy of the row that somebody holds.

*Trace run.* `LevelInv`: clocks come in levels, one increment above the state a superstep started
from, and earlier spans are below that state; from this follows that clocks are exact. `ParentInv`:
a parent is the id of a span of an earlier step, and only spans of the first step have none.

*Reconstruction.* `Precedes` is a strict partial order on clocks, and every nonempty part of a finite
set has a last and a first span in it (`FirstAndLast`, from `MaximalElement`, by induction over finite
sets). So a predecessor that is not on the frontier precedes one that is; so there is a frontier as soon as
there is a predecessor; and the first among the successors of a span that would not be its
descendants has a frontier parent that is a descendant or the span itself, a contradiction. These
theorems assume only distinct ids and clocks over the same agents. The run's properties are their
instances: explicit and inferred parents ran in an earlier step, so no cycle closes, and once
everything has arrived every span after the first step has its explicit parent.

*Blame.* A score is a sum of products over a common denominator. The sums over agents and over spans are
folds; `Total` gives them the laws of addition, and the spans of an agent and of the agents before it
are disjoint parts of all spans. Hence the agents' latencies, tokens and errors add up to no more than those
of all, and weighted with 50, 30 and 20 % to no more than the whole. Version 2
at most doubles the third, which bounds its sum by 120 %; on a run it leaves it as it is, since no
span is later than a failed one: a failing node ends its run.

*Decisions.* The closure under children of a decision's span is the set of later spans (`DescendantsExact`).

*Engine worker.* `TaskFits`: a task that has read its spans has read all of the visible row's, and the times
it has taken follow from that row. That holds because one task at a time rebuilds a trace, the row
is faithful to `raw_spans`, and `raw_spans` only grows. `RowStep` then says how a row may follow another,
which the refinement and `ChurnIsNotLag` share. When the clock went back the old row wins: a
stutter of `TraceTable`. `EdgeInv`: a task holds only decisions that are recorded, and writes edges from them to
later spans it has read, or to themselves, so that an edge stays true whatever comes after.

*Listing.* What was shown is not after the cursor and, being moved only towards the start, stays so
(`ShownInv`); what is steady and not yet shown is after it (`SteadyInv`).

*Windows.* While a poll is between its queries no unit ends, so a suspect is as old as it was or has a new
span (`PollInv`); what was old enough at the last poll is named or has a row (`SeenInv`, in terms of
`silent`). By the host's clock a named trace has the rule's age (`NamedInv`); that this is beyond the engine's window
is the condition on the zone in `NamedAreLost`, and that the rule sees a trace when it has that age is the
one in `LostAreNamed`. Where the horizon is reached before the rule's age, no trace is old, and so none is
suspected, named or alerted. `OwedInv`: the K failures an objective owes lie behind no more
verdicts than are unread, for whatever reason they failed.

*Only model-checked.* The liveness properties (`EventuallyStored`, `StopCompletes`, `EventuallyShipped`,
`ShutdownTerminates`, `QuietIncidentResolves`, `EventuallyCurrent`, `EdgesFollow`, `ListingEnds`,
`OutageIsAlerted`, `RecoveryQuiets`), since the installed provers handle neither fairness nor ENABLED
of these actions; and the five violations, which are counterexamples. The induction theorems of the library
take an operator as a parameter, which no installed prover can instantiate. `DataLemmas` states
induction with sets instead (a nonempty set of numbers has a least one; a family of subsets of a finite set is
all of them if it has each one whose smaller parts it has), which is enough for every fold here, because
their combining operators are fixed.

## 6. Assumptions and limits

- A renamed WAL file is durable. The code does not fsync the directory; a power loss of the
  host is below the program and not modelled.
- WAL file names sort by submission and never collide: they are the wall clock in milliseconds,
  the process id and the monotonic clock in nanoseconds, and the wall clock does not step back.
- A row that was submitted is a row ClickHouse takes, also after its detour through JSON: the
  protobuf field types are those of the columns (`db/init_db.py`), and a row holds only
  numbers, strings, lists and maps. An insert fails only because ClickHouse is out of reach.
- An insert is executed whole or not at all. An insert that ClickHouse executes after the
  collector has died is not distinguished from one executed just before: no state between
  the two is visible to the collector.
- The writers of spans and of decisions are independent copies of one model: separate
  directories, queues and tables.
- The coroutine `submit` of the writer has no caller and is left out.
- `atexit` runs after all non-daemon threads have ended, so nothing is emitted during
  `shutdown()`. Agents that emit from daemon threads are outside the model.
- The ClickHouse server's clock, which sets `updated_at`, is monotone; then the visible row of a
  `FINAL` read is the last one inserted.
- Incident keys do not influence each other, so one is modelled. A time is the number of the
  last alert; `horizon` is the last alert older than `AUTO_RESOLVE_SEC`. Several rules
  raising the same key in one pass are the same as one pass after another, except that the
  sweep comes once.
- A webhook that fails is logged and forgotten by the code, so `pages` counts attempts.
- LangGraph, a library, runs a workflow in supersteps: the nodes of one step read the state as it was
  when the step began, and what they return is merged by the reducers, the state's value on the left,
  before the next step. A node that raises ends the run after the nodes beside it. No retry
  policy is used in the repository; a retried node would see the parent id its first attempt wrote.
- Span ids are random, so their order is arbitrary. An agent missing in a clock counts 0, as
  in `_precedes`. An explicit parent is looked up among the spans of the trace only.
- One engine runs, and a pass ends before the next begins (the pool is closed by its `with`). The
  engine host's clock may step back; the ClickHouse server's does not.
- A span's duplicates carry its idempotency key, as `build_span` sets it, and are equal otherwise.
- ClickHouse compares the cursor's timestamp as a time: the `+00:00` of `cursor.py` is taken as it is
  written.
- In `SloAlerts` the ClickHouse server keeps UTC and gives its times without a zone, and the engine, the
  objectives and the query of the stuck rule go by its clock; only the age that the stuck rule computes goes by
  another, which differs from it by a constant (`Zone`: no change to or from summer time).
- An engine's pass, an evaluation and a poll take less than a unit; the alerting worker polls at least every
  `MaxSilent` units and misses at most `MaxUnread` evaluations. With fewer than a hundred active traces, 99 %
  of them is all of them. A flush fails when ClickHouse is down, for however short a time, and a row is
  rejected when the disk cannot be written. Of the objectives, the percentiles of reconstruction lag and API latency are
  left out, so `RecoveryQuiets` is about the other three: a lag that late spans keep high (section 4) may go
  on being alerted.

### Not modelled

- *Manual WAL replay, trace stream, reason chains*: they change nothing (section 4).
- *Authentication, governance, taxonomy, calibration*: stateless checks and tables.
- *Streaming RPCs, row mapping, metadata*: the same calls to the writer for each message; conversions.
- *Histograms, percentiles, the bootstrap, latency objectives*: floating-point statistics.
- *The remaining API endpoints, the listing's filters, reports, the user interface*: single queries
  and presentation.
- *Rules for tokens and error bursts*: one query with a threshold each; when they fire is the
  environment's choice in `Incidents`.
- *Creating and migrating tables, TTLs*: run once, before everything else.
