---------------------------- MODULE EngineWorker ----------------------------
(***************************************************************************)
(* The engine's worker (engine/worker.py) between the append-only tables   *)
(* of the collector and the tables it derives from them (db/init_db.py).   *)
(*                                                                         *)
(* A pass looks for the traces with a span younger than LOOKBACK_SEC and   *)
(* rebuilds them in parallel, each in steps of its own: two reads, a       *)
(* timestamp, two inserts.  Rows arrive meanwhile, late and more than once *)
(* (a replayed WAL file is inserted again, BatchWriter).  Any of the calls *)
(* may fail, the process may be killed and is started again, and the       *)
(* host's clock may be set back.  What is inside a trace is in CausalDag   *)
(* and TraceRun: here its spans are numbered in the order they ran.        *)
(*                                                                         *)
(* The reconstruction lag that the SLO evaluator computes from both tables *)
(* (slo/evaluator.py) is defined on the same state.                        *)
(***************************************************************************)
EXTENDS Naturals, FiniteSets

CONSTANTS
    NumTraces,      \* traces, numbered as their ids compare
    NumSpans,       \* spans of a trace
    Deciding,       \* spans in which a decision is taken
    Workers,        \* MAX_RECON_WORKERS
    Legacy,         \* traces whose row is from before the column first_reconstructed_at
    MaxRows,        \* bound: span rows that arrive
    MaxDecisions,   \* bound: decisions that arrive
    MaxTime,        \* bound: where the clock stops
    MaxFaults       \* bound: failed tasks, crashes and clock steps

ASSUME EngineAssumption ==
    /\ NumTraces \in Nat /\ NumSpans \in Nat \ {0}
    /\ Legacy \subseteq 1..NumTraces
    /\ Deciding \subseteq 1..NumSpans
    /\ Workers \in Nat \ {0} /\ MaxTime \in Nat \ {0}
    /\ MaxRows \in Nat /\ MaxDecisions \in Nat /\ MaxFaults \in Nat

Traces == 1..NumTraces
Spans == 1..NumSpans
Times == 1..MaxTime
Epoch == 0                      \* first_reconstructed_at of rows from before the column
NoRow == [at |-> Epoch, first |-> Epoch, rows |-> {}]

VARIABLES
    rawSpans,       \* raw_spans: how many rows each span of a trace has
    rawDecisions,   \* raw_decisions: the spans whose decisions have a row
    last,           \* when the trace's last span row came
    fresh,          \* that row is younger than LOOKBACK_SEC
    row,            \* reconstructed_traces, read with FINAL: the row of a trace
    edges,          \* decision_edges: pairs of source and target span
    task,           \* what the engine holds of a trace it rebuilds
    now,            \* the clock of the engine's host, in milliseconds
    faults          \* faults that have happened

storeVars == <<rawSpans, rawDecisions, last, fresh>>
derivedVars == <<row, edges>>
vars == <<storeVars, derivedVars, task, now, faults>>

-----------------------------------------------------------------------------
(* The tables                                                               *)

\* The spans of a trace that have at least one row.
Present(t) == {k \in Spans : rawSpans[t][k] > 0}

\* Mutant of Deduplicated: every row is a span.
NotDeduplicated(copies) == UNION {{<<k, i>> : i \in 1..copies[k]} : k \in Spans}

\* The rows fetch_spans keeps: of each idempotency key the one ingested last.
Deduplicated(copies) == {<<k, copies[k]>> : k \in {j \in Spans : copies[j] > 0}}

SpansOf(rows) == {r[1] : r \in rows}

\* ReplacingMergeTree(reconstructed_at): of two rows of a trace the one with the
\* higher version is read; of equal versions the one inserted last.
Winner(old, new) == IF old = NoRow \/ old.at <= new.at THEN new ELSE old

\* Mutant of FirstReconstructed: no cap.
FirstReconstructedUncapped(old, at) ==
    IF old = NoRow THEN at ELSE IF old.first = Epoch THEN old.at ELSE old.first

\* Mutant of FirstReconstructed: the column's default is taken for a time.
FirstReconstructedRaw(old, at) == IF old = NoRow \/ at < old.first THEN at ELSE old.first

\* _resolve_first_reconstructed_at, and the cap in reconstruct_one: the first
\* time is carried on; a row that has none yet lends its own time.
FirstReconstructed(old, at) ==
    LET first == IF old.first = Epoch THEN old.at ELSE old.first
    IN  IF old = NoRow \/ at < first THEN at ELSE first

\* Mutant of TargetsAmong: the source need not have a row.
TargetsWithoutSource(d, present) ==
    LET later == {k \in present : d < k}
    IN  IF later # {} THEN later ELSE {d}

\* Spans that a decision in span d is held to have influenced: TraceRun shows
\* them to be the later ones, or d itself while none has arrived.
TargetsAmong(d, present) ==
    LET later == {k \in present : d < k}
    IN  IF d \in present /\ later # {} THEN later ELSE {d}

EdgesFor(decisions, present) ==
    UNION {{<<d, k>> : k \in TargetsAmong(d, present)} : d \in decisions}

\* decision_edges: of the rows of a decision and a target the newest is read; no row
\* is ever removed.
WithEdges(old, new) == old \cup new

NoTask == [phase |-> "none", rows |-> {}, decisions |-> {}, at |-> Epoch, first |-> Epoch]

LegacyRow == [at |-> 1, first |-> Epoch, rows |-> {<<1, 1>>}]

Init ==
    /\ rawSpans = [t \in Traces |-> [k \in Spans |-> IF t \in Legacy /\ k = 1 THEN 1 ELSE 0]]
    /\ row = [t \in Traces |-> IF t \in Legacy THEN LegacyRow ELSE NoRow]
    /\ rawDecisions = [t \in Traces |-> {}]
    /\ last = [t \in Traces |-> IF t \in Legacy THEN 1 ELSE 0]
    /\ fresh = [t \in Traces |-> FALSE]
    /\ edges = [t \in Traces |-> {}]
    /\ task = [t \in Traces |-> NoTask]
    /\ now = 1
    /\ faults = 0

-----------------------------------------------------------------------------
(* The collector's tables: rows arrive, grow old                            *)

RowsArrived == LET n(t) == UNION {{<<t, k, i>> : i \in 1..rawSpans[t][k]} : k \in Spans}
               IN  Cardinality(UNION {n(t) : t \in Traces})

Ingest(t, k) ==
    /\ RowsArrived < MaxRows
    /\ rawSpans' = [rawSpans EXCEPT ![t][k] = @ + 1]
    /\ last' = [last EXCEPT ![t] = IF @ < now THEN now ELSE @]
    /\ fresh' = [fresh EXCEPT ![t] = TRUE]
    /\ UNCHANGED <<rawDecisions, derivedVars, task, now, faults>>

\* A decision's row does not make its trace active: only spans are looked at.
IngestDecision(t, d) ==
    /\ d \notin rawDecisions[t]
    /\ Cardinality(UNION {{t2} \X rawDecisions[t2] : t2 \in Traces}) < MaxDecisions
    /\ rawDecisions' = [rawDecisions EXCEPT ![t] = @ \cup {d}]
    /\ UNCHANGED <<rawSpans, last, fresh, derivedVars, task, now, faults>>

Expire(t) ==
    /\ fresh[t]
    /\ fresh' = [fresh EXCEPT ![t] = FALSE]
    /\ UNCHANGED <<rawSpans, rawDecisions, last, derivedVars, task, now, faults>>

-----------------------------------------------------------------------------
(* The engine                                                               *)

Running == {t \in Traces : task[t].phase \notin {"none", "queued"}}

\* Mutant of Active: what has been rebuilt once is done.
ActiveOnce == {t \in Traces : fresh[t] /\ row[t] = NoRow}

Active == {t \in Traces : fresh[t]}

\* A pass: the pool of the one before is closed when its last task has ended.
FindActive ==
    /\ Active # {}
    /\ \A t \in Traces : task[t] = NoTask
    /\ task' = [t \in Traces |-> IF t \in Active THEN [NoTask EXCEPT !.phase = "queued"] ELSE NoTask]
    /\ UNCHANGED <<storeVars, derivedVars, now, faults>>

FetchSpans(t) ==
    /\ task[t].phase = "queued"
    /\ Cardinality(Running) < Workers
    /\ task' = [task EXCEPT ![t].phase = "spans", ![t].rows = Deduplicated(rawSpans[t])]
    /\ UNCHANGED <<storeVars, derivedVars, now, faults>>

FetchDecisions(t) ==
    /\ task[t].phase = "spans"
    /\ task' = [task EXCEPT ![t].phase = "decisions", ![t].decisions = rawDecisions[t]]
    /\ UNCHANGED <<storeVars, derivedVars, now, faults>>

\* reconstruct_one reads the clock and looks for the row the trace has so far.
Stamp(t) ==
    /\ task[t].phase = "decisions"
    /\ task' = [task EXCEPT ![t].phase = "stamped", ![t].at = now,
                            ![t].first = FirstReconstructed(row[t], now)]
    /\ UNCHANGED <<storeVars, derivedVars, now, faults>>

InsertTrace(t) ==
    /\ task[t].phase = "stamped"
    /\ row' = [row EXCEPT ![t] = Winner(@, [at |-> task[t].at, first |-> task[t].first,
                                            rows |-> task[t].rows])]
    /\ task' = [task EXCEPT ![t].phase = "inserted"]
    /\ UNCHANGED <<storeVars, edges, now, faults>>

\* Mutant of InsertEdges: a trace that has edges keeps them.
InsertEdgesOnce(t) ==
    /\ task[t].phase = "inserted"
    /\ edges' = [edges EXCEPT ![t] = IF @ # {} THEN @
                                     ELSE EdgesFor(task[t].decisions, SpansOf(task[t].rows))]
    /\ task' = [task EXCEPT ![t] = NoTask]
    /\ UNCHANGED <<storeVars, row, now, faults>>

\* _write_decision_edges.  A trace with decisions then has its chains refused (15
\* values for 16 columns) and its task raises, which ends it like a return does.
InsertEdges(t) ==
    /\ task[t].phase = "inserted"
    /\ edges' = [edges EXCEPT ![t] = WithEdges(@, EdgesFor(task[t].decisions, SpansOf(task[t].rows)))]
    /\ task' = [task EXCEPT ![t] = NoTask]
    /\ UNCHANGED <<storeVars, row, now, faults>>

Fault ==
    /\ faults < MaxFaults
    /\ faults' = faults + 1
    /\ UNCHANGED <<storeVars, derivedVars>>

\* One of the task's calls to ClickHouse raises: the pass goes on without it.
TaskFails(t) ==
    /\ task[t] # NoTask
    /\ task' = [task EXCEPT ![t] = NoTask]
    /\ Fault /\ UNCHANGED now

\* The process dies, and its container is started again.
Crash ==
    /\ \E t \in Traces : task[t] # NoTask
    /\ task' = [t \in Traces |-> NoTask]
    /\ Fault /\ UNCHANGED now

Tick ==
    /\ now < MaxTime
    /\ now' = now + 1
    /\ UNCHANGED <<storeVars, derivedVars, task, faults>>

ClockBack ==
    /\ now > 1
    /\ now' = now - 1
    /\ Fault /\ UNCHANGED task

EngineStep(t) ==
    \/ FetchSpans(t)
    \/ FetchDecisions(t)
    \/ Stamp(t)
    \/ InsertTrace(t)
    \/ InsertEdges(t)

Next ==
    \/ \E t \in Traces, k \in Spans : Ingest(t, k)
    \/ \E t \in Traces, d \in Deciding : IngestDecision(t, d)
    \/ \E t \in Traces : Expire(t) \/ EngineStep(t) \/ TaskFails(t)
    \/ FindActive
    \/ Crash
    \/ Tick
    \/ ClockBack

\* A loop that catches everything, a pool that runs what was submitted, and a
\* clock that goes on.
Fairness ==
    /\ WF_vars(FindActive)
    /\ \A t \in Traces : WF_vars(EngineStep(t))
    /\ WF_vars(Tick)

Spec == Init /\ [][Next]_vars /\ Fairness

-----------------------------------------------------------------------------
(* The lag objective                                                        *)

\* The traces _reconstruction_lags_ms may measure: rebuilt since their last span.  The
\* query takes those of them whose last span is younger than RECON_LAG_ACTIVE_SEC; what
\* is said here of each of them holds of those.
Measured == {t \in Traces : row[t] # NoRow /\ last[t] <= row[t].at}

\* Mutant of Lag: the time since the last of the rebuilds.
LagOfLatest(t) == row[t].at - last[t]

\* _reconstruction_latency_ms: the time to the first rebuild if no span came
\* after it, else, and for rows that do not tell, to the latest.
Lag(t) ==
    IF row[t].first # Epoch /\ last[t] <= row[t].first
      THEN row[t].first - last[t]
      ELSE row[t].at - last[t]

-----------------------------------------------------------------------------
(* Properties                                                               *)

RowType == [at : 0..MaxTime, first : 0..MaxTime, rows : SUBSET (Spans \X Nat)]

TaskType ==
    [phase : {"none", "queued", "spans", "decisions", "stamped", "inserted"},
     rows : SUBSET (Spans \X Nat), decisions : SUBSET Deciding, at : 0..MaxTime, first : 0..MaxTime]

\* The tables hold rows of the model's spans and times, and no row was first rebuilt
\* after it was last rebuilt.
TypeOK ==
    /\ rawSpans \in [Traces -> [Spans -> Nat]]
    /\ rawDecisions \in [Traces -> SUBSET Deciding]
    /\ last \in [Traces -> 0..MaxTime]
    /\ fresh \in [Traces -> BOOLEAN]
    /\ row \in [Traces -> RowType]
    /\ edges \in [Traces -> SUBSET (Spans \X Spans)]
    /\ task \in [Traces -> TaskType]
    /\ \A t \in Traces : row[t].first <= row[t].at /\ task[t].first <= task[t].at
    /\ now \in Times
    /\ faults \in 0..MaxFaults

\* A replayed row is not a second span: whatever was inserted twice, and however
\* passes and inserts interleave, the totals of a trace, its blame and its DAG
\* are made of one row per span, and of rows that are in raw_spans.
NoSpanCountedTwice ==
    \A t \in Traces :
        /\ \A r, s \in row[t].rows : r[1] = s[1] => r = s
        /\ \A r \in row[t].rows : r[2] \in 1..rawSpans[t][r[1]]

\* The edges of earlier passes that no later one produces, and nothing removes, are
\* those of a decision to its own span, from before its effects arrived: whatever
\* a pass missed, any other edge leads from a decision that was recorded in a
\* span that has arrived to a later one that has too (engine/worker.py:310).
OnlyLoopsGoStale ==
    \A t \in Traces : \A e \in edges[t] :
        /\ e[1] \in rawDecisions[t]
        /\ e[1] = e[2] \/ (e[1] < e[2] /\ {e[1], e[2]} \subseteq Present(t))

\* The table as its readers see it.
Visible == [t \in Traces |-> [at |-> row[t].at, first |-> row[t].first, spans |-> SpansOf(row[t].rows)]]

Table == INSTANCE TraceTable WITH table <- Visible

\* What readers see of a trace never goes back, to an earlier time, which would
\* move it down in the listing, or to fewer spans; and the time of its first
\* reconstruction, which the SLOs are computed from, is settled by its first row:
\* no later pass, failed task, restart or clock step moves it.
ImplementsTraceTable == Table!TableSpec

\* TODO.md:514: an active trace is rebuilt with every pass, and none of that is lag.
\* While no span comes to a trace whose last one came before its first rebuild, its
\* lag stays as first measured, also for a row from before the column.
ChurnIsNotLag ==
    [][\A t \in Measured :
          (last'[t] = last[t] /\ last[t] <= (IF row[t].first = Epoch THEN row[t].at ELSE row[t].first))
              => t \in Measured' /\ Lag(t)' = Lag(t)]_vars

\* The listing's row catches up with raw_spans for every trace that stays active:
\* a span that arrives between two reads of a pass, or whose pass failed, is in a
\* later one.  A trace that falls out of the window first is given up.
EventuallyCurrent ==
    \A t \in Traces, k \in Spans :
        (fresh[t] /\ k \in Present(t)) ~> (k \in SpansOf(row[t].rows) \/ ~fresh[t])

\* The edges follow the decisions and the spans of an active trace, though they
\* are written after the row and a failure in between leaves a row without them.
EdgesFollow ==
    \A t \in Traces : \A e \in {p \in Spans \X Spans : p[1] < p[2]} :
        (fresh[t] /\ e[1] \in rawDecisions[t] /\ {e[1], e[2]} \subseteq Present(t))
            ~> (e \in edges[t] \/ ~fresh[t])
=============================================================================
