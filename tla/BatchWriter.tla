---------------------------- MODULE BatchWriter ----------------------------
(***************************************************************************)
(* The collector's WAL-backed batch writer (collector/writer.py) as it is  *)
(* driven by the gRPC servicer and by serve() (collector/server.py).       *)
(*                                                                         *)
(* Three places hold a row: its WAL file, the in-memory asyncio queue with *)
(* the batch taken from it, and the ClickHouse table.  A row is the number *)
(* of its submission, so WAL file names, which start with the submission   *)
(* time, sort as the rows do.  All coroutines share one event loop: a step *)
(* below is the code between two awaits, except that every WAL file is     *)
(* removed by a step of its own, because the process can die in between.   *)
(***************************************************************************)
EXTENDS Naturals, Sequences, Functions

CONSTANTS
    MaxRows,      \* bound: submissions attempted in a behaviour
    QUEUE_MAX,    \* capacity of the in-memory queue
    BATCH_SIZE,   \* rows that trigger a flush without waiting for the interval
    MaxFaults     \* bound: crashes, outages and failed file removals together

ASSUME ConstantsAssumption ==
    /\ MaxRows \in Nat
    /\ QUEUE_MAX \in Nat \ {0}
    /\ BATCH_SIZE \in Nat \ {0}
    /\ MaxFaults \in Nat

Rows == 1..MaxRows

VARIABLES
    submitted,  \* submissions attempted so far
    acked,      \* rows for which submit_nowait returned True
    wal,        \* rows whose .json file is in the WAL directory
    queue,      \* self._queue
    buf,        \* _run's buf; while files are removed, the paths still to remove
    phase,      \* where the process and its _run task are, see Phases
    stopped,    \* self._stopped
    copies,     \* [Rows -> Nat], copies of the row in the ClickHouse table
    dbUp,       \* whether the collector can reach ClickHouse
    metrics,    \* the WriterMetrics counters of this process
    faults      \* faults so far, bounded by MaxFaults

vars == <<submitted, acked, wal, queue, buf, phase, stopped, copies, dbUp,
          metrics, faults>>

Phases == {
    "down",      \* no collector process
    "collect",   \* _run awaits queue.get() or its timeout
    "insert",    \* _flush awaits client.insert, not yet executed by ClickHouse
    "applied",   \* ClickHouse executed the insert, the answer is on its way
    "unlink",    \* _flush is removing WAL files; the event loop is busy
    "done"}      \* _run has returned, the process is about to exit

Counters == {"accepted", "rejected", "queue_full", "replayed",
             "flush_ok", "flush_failed", "rows_flushed"}

ZeroMetrics == [c \in Counters |-> 0]

Stored == {r \in Rows : copies[r] > 0}

InMemory == Range(queue) \cup Range(buf)

Init ==
    /\ submitted = 0
    /\ acked = {}
    /\ wal = {}
    /\ queue = <<>>
    /\ buf = <<>>
    /\ phase = "down"
    /\ stopped = FALSE
    /\ copies = [r \in Rows |-> 0]
    /\ dbUp = TRUE
    /\ metrics = ZeroMetrics
    /\ faults = 0

Fault ==
    /\ faults < MaxFaults
    /\ faults' = faults + 1

-----------------------------------------------------------------------------
(* Submission: RecordSpan/RecordDecision call submit_nowait.  serve() stops *)
(* the gRPC server before it stops the writers, so nothing is submitted to  *)
(* a stopped writer, and nothing while the event loop is busy.              *)

Serving == phase \in {"collect", "insert", "applied"} /\ ~stopped

\* Every attempt opens a WAL file under a new name.
NewSubmission ==
    /\ Serving
    /\ submitted < MaxRows
    /\ submitted' = submitted + 1

\* The counters that delta names grow by what it says.
Count(delta) ==
    metrics' = [c \in Counters |->
                   metrics[c] + (IF c \in DOMAIN delta THEN delta[c] ELSE 0)]

\* _write_wal raises: the caller is told False, no file remains.
SubmitRejected ==
    /\ NewSubmission
    /\ Count([rejected |-> 1])
    /\ UNCHANGED <<acked, wal, queue, buf, phase, stopped, copies, dbUp, faults>>

\* The WAL file is on disk and the row is acknowledged, then put_nowait.
Accept(r) ==
    /\ wal' = wal \cup {r}
    /\ acked' = acked \cup {r}
    /\ UNCHANGED <<buf, phase, stopped, copies, dbUp, faults>>

\* Mutant of SubmitQueued: an unbounded queue.
SubmitQueuedUnbounded ==
    /\ NewSubmission
    /\ Accept(submitted')
    /\ queue' = Append(queue, submitted')
    /\ Count([accepted |-> 1])

SubmitQueued ==
    /\ NewSubmission
    /\ Accept(submitted')
    /\ Len(queue) < QUEUE_MAX
    /\ queue' = Append(queue, submitted')
    /\ Count([accepted |-> 1])

\* Mutant of SubmitQueueFull: the overflow is not counted.
SubmitQueueFullUncounted ==
    /\ NewSubmission
    /\ Accept(submitted')
    /\ Len(queue) >= QUEUE_MAX
    /\ Count([accepted |-> 1])
    /\ UNCHANGED queue

\* put_nowait raises QueueFull: the row is accepted all the same and stays,
\* for the rest of this process, on disk only.
SubmitQueueFull ==
    /\ NewSubmission
    /\ Accept(submitted')
    /\ Len(queue) >= QUEUE_MAX
    /\ Count([accepted |-> 1, queue_full |-> 1])
    /\ UNCHANGED queue

-----------------------------------------------------------------------------
(* _run: collect rows, flush when the batch is full or the interval is over.*)

\* Where _run may be after it woke up with batch b: a full batch is flushed;
\* a smaller one when FLUSH_INTERVAL_SEC is over, which real time decides; a
\* stopped loop leaves and flushes what it holds.
AfterWake(b) ==
    IF Len(b) >= BATCH_SIZE \/ (stopped /\ b # <<>>) THEN {"insert"}
    ELSE IF stopped THEN {"done"}
    ELSE {"collect", "insert"}

\* Where _run goes on after a flush, with an empty buf.
AfterFlush == IF stopped THEN "done" ELSE "collect"

Get ==
    /\ phase = "collect"
    /\ queue # <<>>
    /\ buf' = Append(buf, Head(queue))
    /\ queue' = Tail(queue)
    /\ phase' \in AfterWake(buf')
    /\ UNCHANGED <<submitted, acked, wal, stopped, copies, dbUp, metrics, faults>>

\* q lists the oldest files of the WAL by name, as many as the queue takes.
ReplayOrder(q) ==
    /\ \A i, j \in DOMAIN q : i < j => q[i] < q[j]
    /\ \A r \in wal \ Range(q) :
          Len(q) = QUEUE_MAX /\ \A i \in DOMAIN q : q[i] < r

\* Mutant of Timeout: the replay that the docstring of _replay_wal_into_queue
\* (writer.py:164-166) describes, run again before a flush.
TimeoutReplays ==
    /\ phase = "collect"
    /\ queue = <<>>
    /\ buf # <<>> \/ stopped
    /\ \E n \in 0..QUEUE_MAX : \E q \in [1..n -> wal] :
          ReplayOrder(q) /\ queue' = q
    /\ phase' \in AfterWake(buf) \ {"collect"}
    /\ UNCHANGED <<submitted, acked, wal, buf, stopped, copies, dbUp, metrics, faults>>

\* Mutant of Timeout: the loop looks at the stop flag only with rows in hand.
TimeoutIgnoresStop ==
    /\ phase = "collect"
    /\ queue = <<>>
    /\ buf # <<>>
    /\ phase' \in AfterWake(buf) \ {"collect"}
    /\ UNCHANGED <<submitted, acked, wal, queue, buf, stopped, copies, dbUp,
                   metrics, faults>>

\* wait_for times out on an empty queue; without a batch and without a stop
\* the loop just waits again.
Timeout ==
    /\ phase = "collect"
    /\ queue = <<>>
    /\ buf # <<>> \/ stopped
    /\ phase' \in AfterWake(buf) \ {"collect"}
    /\ UNCHANGED <<submitted, acked, wal, queue, buf, stopped, copies, dbUp,
                   metrics, faults>>

\* ClickHouse executes the insert of the whole batch.
InsertApplied ==
    /\ phase = "insert"
    /\ dbUp
    /\ copies' = [r \in Rows |-> IF r \in Range(buf) THEN copies[r] + 1 ELSE copies[r]]
    /\ phase' = "applied"
    /\ UNCHANGED <<submitted, acked, wal, queue, buf, stopped, dbUp, metrics, faults>>

\* client.insert returns; record_flush(ok=True).
InsertReturns ==
    /\ phase = "applied"
    /\ dbUp
    /\ Count([flush_ok |-> 1, rows_flushed |-> Len(buf)])
    /\ phase' = "unlink"
    /\ UNCHANGED <<submitted, acked, wal, queue, buf, stopped, copies, dbUp, faults>>

\* Mutant of InsertFails: the files are removed whether or not the insert worked.
InsertFailsUnlinks ==
    /\ phase \in {"insert", "applied"}
    /\ ~dbUp
    /\ Count([flush_failed |-> 1])
    /\ phase' = "unlink"
    /\ UNCHANGED <<submitted, acked, wal, queue, buf, stopped, copies, dbUp, faults>>

\* _connect or client.insert raises, executed or not: the rows leave memory
\* and stay on disk.
InsertFails ==
    /\ phase \in {"insert", "applied"}
    /\ ~dbUp
    /\ Count([flush_failed |-> 1])
    /\ buf' = <<>>
    /\ phase' = AfterFlush
    /\ UNCHANGED <<submitted, acked, wal, queue, stopped, copies, dbUp, faults>>

\* Mutant of UnlinkNext: the removal loop misses the last file of the batch.
UnlinkMissesLast ==
    /\ phase = "unlink"
    /\ wal' = IF Len(buf) = 1 THEN wal ELSE wal \ {Head(buf)}
    /\ buf' = Tail(buf)
    /\ phase' = IF Len(buf) = 1 THEN AfterFlush ELSE "unlink"
    /\ UNCHANGED <<submitted, acked, queue, stopped, copies, dbUp, metrics, faults>>

\* os.remove of the next file of the batch; an error is logged and ignored.
UnlinkNext ==
    /\ phase = "unlink"
    /\ \/ wal' = wal \ {Head(buf)} /\ UNCHANGED faults
       \/ Fault /\ UNCHANGED wal
    /\ buf' = Tail(buf)
    /\ phase' = IF Len(buf) = 1 THEN AfterFlush ELSE "unlink"
    /\ UNCHANGED <<submitted, acked, queue, stopped, copies, dbUp, metrics>>

-----------------------------------------------------------------------------
(* The life of the process.                                                 *)

\* Everything in memory goes with the process.
LoseMemory ==
    /\ queue' = <<>>
    /\ buf' = <<>>
    /\ stopped' = FALSE
    /\ metrics' = ZeroMetrics
    /\ phase' = "down"

\* Mutant of Start: replayed files are removed once their rows are queued.
StartConsumesWal ==
    /\ phase = "down"
    /\ \E n \in 0..QUEUE_MAX : \E q \in [1..n -> wal] :
          /\ ReplayOrder(q)
          /\ queue' = q
          /\ wal' = wal \ Range(q)
          /\ metrics' = [ZeroMetrics EXCEPT !["replayed"] = n]
    /\ phase' = "collect"
    /\ UNCHANGED <<submitted, acked, buf, stopped, copies, dbUp, faults>>

\* Mutant of Start: no replay.
StartWithoutReplay ==
    /\ phase = "down"
    /\ phase' = "collect"
    /\ UNCHANGED <<submitted, acked, wal, queue, buf, stopped, copies, dbUp,
                   metrics, faults>>

\* serve() builds the writer and starts it: _replay_wal_into_queue has no
\* await and is scheduled before the gRPC server, so it runs to its end before
\* the first submission, on an empty queue.
Start ==
    /\ phase = "down"
    /\ \E n \in 0..QUEUE_MAX : \E q \in [1..n -> wal] :
          /\ ReplayOrder(q)
          /\ queue' = q
          /\ metrics' = [ZeroMetrics EXCEPT !["replayed"] = n]
    /\ phase' = "collect"
    /\ UNCHANGED <<submitted, acked, wal, buf, stopped, copies, dbUp, faults>>

\* SIGTERM: the gRPC server has stopped, stop() sets the flag and awaits _run.
Stop ==
    /\ phase \in {"collect", "insert", "applied"}
    /\ ~stopped
    /\ stopped' = TRUE
    /\ UNCHANGED <<submitted, acked, wal, queue, buf, phase, copies, dbUp,
                   metrics, faults>>

\* stop() returns and serve() ends; rows still queued are left to their files.
Exit ==
    /\ phase = "done"
    /\ LoseMemory
    /\ UNCHANGED <<submitted, acked, wal, copies, dbUp, faults>>

Crash ==
    /\ phase # "down"
    /\ Fault
    /\ LoseMemory
    /\ UNCHANGED <<submitted, acked, wal, copies, dbUp>>

\* The process dies inside submit_nowait, after os.replace and before the
\* answer: the row is durable and nobody was told.  (Before os.replace only a
\* .tmp file is left, which no glob matches: that is Crash.)
CrashInSubmit ==
    /\ NewSubmission
    /\ Fault
    /\ wal' = wal \cup {submitted'}
    /\ LoseMemory
    /\ UNCHANGED <<acked, copies, dbUp>>

DbDown ==
    /\ dbUp
    /\ Fault
    /\ dbUp' = FALSE
    /\ UNCHANGED <<submitted, acked, wal, queue, buf, phase, stopped, copies, metrics>>

DbUp ==
    /\ ~dbUp
    /\ dbUp' = TRUE
    /\ UNCHANGED <<submitted, acked, wal, queue, buf, phase, stopped, copies,
                   metrics, faults>>

Submit == SubmitRejected \/ SubmitQueued \/ SubmitQueueFull
Flush == InsertApplied \/ InsertReturns \/ InsertFails \/ UnlinkNext

Next ==
    \/ Submit \/ Get \/ Timeout \/ Flush
    \/ Start \/ Stop \/ Exit \/ Crash \/ CrashInSubmit
    \/ DbDown \/ DbUp

Spec == Init /\ [][Next]_vars
-----------------------------------------------------------------------------
(* Safety                                                                   *)

\* The types and bounds of the variables: the queue never exceeds QUEUE_MAX,
\* a batch never BATCH_SIZE, and only a running process holds anything.
TypeOK ==
    /\ submitted \in 0..MaxRows
    /\ acked \subseteq Rows
    /\ wal \subseteq Rows
    /\ queue \in Seq(Rows) /\ Len(queue) <= QUEUE_MAX
    /\ buf \in Seq(Rows) /\ Len(buf) <= BATCH_SIZE
    /\ phase \in Phases
    /\ stopped \in BOOLEAN
    /\ copies \in [Rows -> Nat]
    /\ dbUp \in BOOLEAN
    /\ metrics \in [Counters -> Nat]
    /\ faults \in 0..MaxFaults

\* Every row whose submitter was told "accepted" is on disk or in ClickHouse,
\* whatever crashed, failed or overflowed since (writer.py:58-64: the ACK is
\* based on the WAL write, the file goes only after a successful flush).
NoAcceptedRowLost == acked \subseteq wal \cup Stored

\* Within one process a row is in memory at most once, and as long as it is,
\* its WAL file exists: the startup replay, the submissions and the flush
\* never hand the same row to two inserts, and no file is removed early.
MemoryBackedByWal ==
    /\ IsInjective(queue) /\ IsInjective(buf)
    /\ Range(queue) \cap Range(buf) = {}
    /\ InMemory \subseteq wal

\* ClickHouse holds a second copy of a row only after a crash, an outage or a
\* failed file removal, and at most one more copy for each of them: graceful
\* restarts, full queues and replays alone never duplicate a row.
DuplicatesNeedFaults == \A r \in Rows : copies[r] <= 1 + faults

\* The /metrics counters account for every row of this process: what was
\* accepted or replayed is queued, buffered, flushed, counted as queue_full,
\* or was in a batch whose flush failed.
MetricsAccountForRows ==
    LET pending == Len(queue) + (IF phase = "unlink" THEN 0 ELSE Len(buf))
        accounted == pending + metrics["rows_flushed"] + metrics["queue_full"]
        inbound == metrics["accepted"] + metrics["replayed"]
    IN  /\ accounted <= inbound
        /\ metrics["flush_failed"] = 0 => accounted = inbound

\* The writer implements the durability promise: a row is durable while it is
\* on disk or in ClickHouse.
Promise == INSTANCE DurableIngest WITH durable <- wal \cup Stored

\* Every step of the writer admits one new row, delivers one batch of durable
\* rows or changes nothing of the promise; in particular no step, crash or
\* file removal makes a durable row undurable.
ImplementsDurableIngest == Promise!Spec

-----------------------------------------------------------------------------
(* Liveness                                                                 *)

\* The event loop keeps running _run while the process lives; client.insert
\* returns or raises.  Nothing makes it crash, stop or receive submissions.
CollectorFairness ==
    /\ WF_vars(Get)
    /\ WF_vars(Timeout)
    /\ WF_vars(Flush)
    /\ WF_vars(Exit)

\* ClickHouse comes back and somebody restarts a collector that is down.
EnvironmentFairness == WF_vars(DbUp) /\ WF_vars(Start)

CollectorSpec == Spec /\ CollectorFairness /\ EnvironmentFairness

\* The operator, besides, restarts the collector over and over (docs/runbook.md,
\* scenario 2): a running collector is eventually stopped.
RestartingSpec == CollectorSpec /\ WF_vars(Stop)

\* With restarts, every accepted row reaches ClickHouse, the ones a failed
\* flush or a full queue left on disk included.
EventuallyStored == \A r \in Rows : r \in acked ~> r \in Stored

\* A graceful stop comes to its end: the await of _run in stop() returns
\* whatever the queue holds and whether ClickHouse answers.
StopCompletes == stopped ~> phase = "down"

\* docs/runbook.md:202: the running collector replays the WAL by itself.  A row
\* it accepted is stored if it just keeps running and ClickHouse comes back.
RunningCollectorReplays ==
    \A r \in Rows :
        (r \in acked /\ [](phase # "down" /\ ~stopped)) ~> r \in Stored
=============================================================================
