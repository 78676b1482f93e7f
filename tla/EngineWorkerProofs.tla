--------------------------- MODULE EngineWorkerProofs ---------------------------
(***************************************************************************)
(* The engine's table keeps its promises for every number of traces, spans *)
(* and workers, whatever fails.  One task at a time rebuilds a trace, so   *)
(* that the row it read when it took its time is the one it replaces; and  *)
(* raw_spans only grows, so that it has read every span of that row.       *)
(***************************************************************************)
EXTENDS EngineWorker, TLAPS

\* One row for a span, and a row of raw_spans.
Faithful(rows, t) ==
    /\ \A r, s \in rows : r[1] = s[1] => r = s
    /\ \A r \in rows : r[2] \in 1..rawSpans[t][r[1]]

\* What a task holds of its trace fits the row it is about to replace.
TaskFits(t) ==
    /\ task[t].phase \in {"spans", "decisions", "stamped"} =>
          SpansOf(row[t].rows) \subseteq SpansOf(task[t].rows)
    /\ task[t].phase = "stamped" =>
          task[t].at \in Times /\ task[t].first = FirstReconstructed(row[t], task[t].at)

TraceInv(t) ==
    /\ row[t] = NoRow \/ row[t].at \in Times
    /\ Faithful(row[t].rows, t) /\ Faithful(task[t].rows, t)
    /\ TaskFits(t)

IInv == TypeOK /\ \A t \in Traces : TraceInv(t)

\* How one row may follow another.
RowStep(old, new) ==
    \/ new = old
    \/ /\ new.at \in Times
       /\ IF old = NoRow THEN new.first = new.at
          ELSE /\ old.at <= new.at
               /\ new.first = IF old.first = Epoch THEN old.at ELSE old.first
               /\ SpansOf(old.rows) \subseteq SpansOf(new.rows)

\* Times are numbers.
LEMMA TimesAreNumbers ==
    /\ Times \subseteq Nat /\ 0 \notin Times /\ Times \subseteq 0..MaxTime /\ MaxTime \in Nat
    /\ 0 \in 0..MaxTime /\ Epoch \in 0..MaxTime
  BY EngineAssumption DEF Times, Epoch

\* What fetch_spans keeps of the rows of a trace: one row of each span that has any.
LEMMA DeduplicatedIs ==
    ASSUME NEW copies \in [Spans -> Nat]
    PROVE  /\ Deduplicated(copies) \subseteq Spans \X Nat
           /\ \A r, s \in Deduplicated(copies) : r[1] = s[1] => r = s
           /\ \A r \in Deduplicated(copies) : r[2] \in 1..copies[r[1]]
           /\ SpansOf(Deduplicated(copies)) = {k \in Spans : copies[k] > 0}
  <1> DEFINE some == {k \in Spans : copies[k] > 0}
  <1>1. Deduplicated(copies) = {<<k, copies[k]>> : k \in some}
    BY DEF Deduplicated
  <1>2. \A k \in some : k \in Spans /\ copies[k] \in Nat /\ copies[k] \in 1..copies[k]
    OBVIOUS
  <1>3. \A r \in Deduplicated(copies) : r[1] \in some /\ r = <<r[1], copies[r[1]]>> /\ r[2] = copies[r[1]]
    BY <1>1
  <1>4. SpansOf(Deduplicated(copies)) = some
    <2>1. SpansOf(Deduplicated(copies)) \subseteq some
      BY <1>3 DEF SpansOf
    <2>2. ASSUME NEW k \in some PROVE k \in SpansOf(Deduplicated(copies))
      <3>1. <<k, copies[k]>> \in Deduplicated(copies)
        BY <1>1
      <3> QED BY <3>1 DEF SpansOf
    <2> QED BY <2>1, <2>2
  <1> QED BY <1>2, <1>3, <1>4

\* The spans of faithful rows are in raw_spans.
LEMMA FaithfulArePresent ==
    ASSUME TypeOK, NEW t \in Traces, NEW rows \in SUBSET (Spans \X Nat), Faithful(rows, t)
    PROVE  SpansOf(rows) \subseteq Present(t)
  <1> SUFFICES ASSUME NEW r \in rows PROVE r[1] \in Spans /\ rawSpans[t][r[1]] > 0
    BY DEF SpansOf, Present
  <1>1. r[1] \in Spans /\ r[2] \in 1..rawSpans[t][r[1]]
    BY DEF Faithful
  <1>2. rawSpans[t][r[1]] \in Nat
    BY <1>1 DEF TypeOK
  <1> QED BY <1>1, <1>2

\* The time a row's trace was first rebuilt is not after the row.
LEMMA FirstReconstructedIs ==
    ASSUME NEW old \in RowType, NEW at \in Times
    PROVE  /\ FirstReconstructed(old, at) \in 0..MaxTime
           /\ FirstReconstructed(old, at) <= at
  <1>1. old.at \in Nat /\ old.at <= MaxTime /\ old.first \in Nat /\ old.first <= MaxTime
    BY EngineAssumption DEF RowType
  <1>2. at \in Nat /\ at <= MaxTime
    BY EngineAssumption DEF Times
  <1> QED BY <1>1, <1>2, EngineAssumption DEF FirstReconstructed

\* A trace of which nothing changed.
LEMMA Untouched ==
    ASSUME NEW t \in Traces, TraceInv(t),
           row'[t] = row[t], task'[t] = task[t], rawSpans'[t] = rawSpans[t]
    PROVE  TraceInv(t)'
  BY DEF TraceInv, Faithful, TaskFits

\* A trace whose task has ended.
LEMMA TaskEnds ==
    ASSUME NEW t \in Traces, TraceInv(t),
           row'[t] = row[t], task'[t] = NoTask, rawSpans'[t] = rawSpans[t]
    PROVE  TraceInv(t)'
  BY DEF TraceInv, Faithful, TaskFits, NoTask

\* The initial tables and tasks have their types.
LEMMA InitType == Init => TypeOK
  <1> SUFFICES ASSUME Init PROVE TypeOK
    OBVIOUS
  <1>1. rawSpans \in [Traces -> [Spans -> Nat]]
    BY DEF Init
  <1>2. NoRow \in RowType /\ NoTask \in TaskType
    BY TimesAreNumbers DEF NoRow, NoTask, RowType, TaskType
  <1>3. LegacyRow \in RowType
    <2>1. 1 \in Spans /\ 1 \in 0..MaxTime
      BY EngineAssumption DEF Spans
    <2>2. {<<1, 1>>} \in SUBSET (Spans \X Nat)
      BY <2>1
    <2>3. Epoch \in 0..MaxTime
      BY TimesAreNumbers
    <2> QED BY <2>1, <2>2, <2>3 DEF RowType, LegacyRow
  <1>4. row \in [Traces -> RowType]
    BY <1>2, <1>3 DEF Init
  <1>5. \A t \in Traces : row[t].first <= row[t].at /\ task[t].first <= task[t].at
    BY DEF Init, LegacyRow, NoRow, NoTask, Epoch
  <1>6. last \in [Traces -> 0..MaxTime]
    BY EngineAssumption DEF Init
  <1>7. now \in Times /\ faults \in 0..MaxFaults
    BY EngineAssumption DEF Init, Times
  <1> QED BY <1>1, <1>2, <1>4, <1>5, <1>6, <1>7 DEF Init, TypeOK

\* The initial tables fit.
LEMMA InitInv == Init => IInv
  <1> SUFFICES ASSUME Init, NEW t \in Traces PROVE TraceInv(t)
    BY InitType DEF IInv
  <1>1. 1 \in Times /\ 1 \in Spans
    BY EngineAssumption DEF Times, Spans
  <1>2. task[t] = NoTask /\ task[t].phase = "none" /\ task[t].rows = {}
    BY DEF Init, NoTask
  <1>3. CASE t \in Legacy
    <2>1. row[t].at = 1 /\ row[t].rows = {<<1, 1>>} /\ rawSpans[t][1] = 1
      <3>1. rawSpans[t][1] = 1
        BY <1>1, <1>3 DEF Init
      <3>2. row[t] = LegacyRow
        BY <1>3 DEF Init
      <3> QED BY <3>1, <3>2 DEF LegacyRow
    <2>2. Faithful(row[t].rows, t)
      BY <2>1 DEF Faithful
    <2>3. Faithful(task[t].rows, t) /\ TaskFits(t)
      BY <1>2 DEF Faithful, TaskFits
    <2> QED BY <1>1, <2>1, <2>2, <2>3 DEF TraceInv
  <1>4. CASE t \notin Legacy
    <2>1. row[t] = NoRow /\ row[t].rows = {}
      BY <1>4 DEF Init, NoRow
    <2> QED BY <1>2, <2>1 DEF TraceInv, Faithful, TaskFits
  <1> QED BY <1>3, <1>4

\* A row more is a new copy: what was read before is still in raw_spans.
LEMMA IngestInv ==
    ASSUME IInv, NEW t \in Traces, NEW k \in Spans, Ingest(t, k)
    PROVE  IInv'
  <1>1. rawSpans' \in [Traces -> [Spans -> Nat]] /\ last' \in [Traces -> 0..MaxTime]
        /\ fresh' \in [Traces -> BOOLEAN]
    BY TimesAreNumbers DEF IInv, TypeOK, Ingest
  <1>2. TypeOK'
    BY <1>1 DEF IInv, TypeOK, Ingest, derivedVars
  <1>3. ASSUME NEW u \in Traces PROVE TraceInv(u)'
    <2>1. row'[u] = row[u] /\ task'[u] = task[u] /\ TraceInv(u)
      BY DEF IInv, Ingest, derivedVars
    <2>2. \A j \in Spans : rawSpans[u][j] \in Nat /\ rawSpans'[u][j] \in Nat
                           /\ rawSpans[u][j] <= rawSpans'[u][j]
      BY DEF IInv, TypeOK, Ingest
    <2>3. row[u].rows \subseteq Spans \X Nat /\ task[u].rows \subseteq Spans \X Nat
      BY DEF IInv, TypeOK, RowType, TaskType
    <2>4. Faithful(row[u].rows, u)' /\ Faithful(task[u].rows, u)'
      BY <2>1, <2>2, <2>3 DEF TraceInv, Faithful
    <2> QED BY <2>1, <2>4 DEF TraceInv, TaskFits
  <1> QED BY <1>2, <1>3 DEF IInv

\* Decisions, age and clock are no part of the trace's invariant.
LEMMA EnvironmentInv ==
    ASSUME IInv,
           \/ \E t \in Traces, d \in Deciding : IngestDecision(t, d)
           \/ \E t \in Traces : Expire(t)
           \/ Tick \/ ClockBack
    PROVE  IInv'
  <1>1. UNCHANGED <<rawSpans, last, row, edges, task>>
    BY DEF IngestDecision, Expire, Tick, ClockBack, Fault, storeVars, derivedVars
  <1>2. rawDecisions' \in [Traces -> SUBSET Deciding] /\ fresh' \in [Traces -> BOOLEAN]
    <2>1. CASE \E t \in Traces, d \in Deciding : IngestDecision(t, d)
      BY <2>1 DEF IInv, TypeOK, IngestDecision
    <2>2. CASE \E t \in Traces : Expire(t)
      BY <2>2 DEF IInv, TypeOK, Expire
    <2>3. CASE Tick \/ ClockBack
      BY <2>3 DEF IInv, TypeOK, Tick, ClockBack, Fault, storeVars
    <2> QED BY <2>1, <2>2, <2>3
  <1>3. now' \in Times /\ faults' \in 0..MaxFaults
    <2>1. CASE Tick
      BY <2>1, EngineAssumption DEF IInv, TypeOK, Times, Tick
    <2>2. CASE ClockBack
      BY <2>2, EngineAssumption DEF IInv, TypeOK, Times, ClockBack, Fault
    <2>3. CASE UNCHANGED <<now, faults>>
      BY <2>3 DEF IInv, TypeOK
    <2> QED BY <2>1, <2>2, <2>3 DEF IngestDecision, Expire
  <1>4. TypeOK'
    BY <1>1, <1>2, <1>3 DEF IInv, TypeOK
  <1>5. \A t \in Traces : TraceInv(t)'
    BY <1>1, Untouched DEF IInv
  <1> QED BY <1>4, <1>5 DEF IInv

\* Tasks begin and end, and nothing else happens.
LEMMA TasksInv ==
    ASSUME IInv, FindActive \/ Crash \/ \E t \in Traces : TaskFails(t)
    PROVE  IInv'
  <1>1. UNCHANGED <<rawSpans, rawDecisions, last, fresh, row, edges, now>>
    BY DEF FindActive, Crash, TaskFails, Fault, storeVars, derivedVars
  <1> DEFINE queued == [NoTask EXCEPT !.phase = "queued"]
  <1>2. NoTask \in TaskType /\ queued \in TaskType /\ NoTask.first <= NoTask.at
        /\ queued.first <= queued.at /\ queued.rows = {} /\ queued.phase = "queued"
    BY TimesAreNumbers DEF NoTask, TaskType, Epoch
  <1>3. /\ task' \in [Traces -> TaskType]
        /\ \A u \in Traces : task'[u] \in {task[u], NoTask, queued}
    <2>1. CASE FindActive
      BY <1>2, <2>1 DEF FindActive
    <2>2. CASE Crash
      BY <1>2, <2>2 DEF Crash
    <2>3. CASE \E t \in Traces : TaskFails(t)
      BY <1>2, <2>3 DEF TaskFails, IInv, TypeOK
    <2> QED BY <2>1, <2>2, <2>3
  <1>4. faults' \in 0..MaxFaults
    BY EngineAssumption DEF IInv, TypeOK, FindActive, Crash, TaskFails, Fault
  <1>5. \A u \in Traces : task'[u].first <= task'[u].at
    BY <1>2, <1>3 DEF IInv, TypeOK
  <1>6. TypeOK'
    BY <1>1, <1>3, <1>4, <1>5 DEF IInv, TypeOK
  <1>7. ASSUME NEW u \in Traces PROVE TraceInv(u)'
    <2>1. TraceInv(u) /\ row'[u] = row[u] /\ rawSpans'[u] = rawSpans[u]
      BY <1>1 DEF IInv
    <2>2. CASE task'[u] = queued
      BY <1>2, <2>1, <2>2 DEF TraceInv, Faithful, TaskFits
    <2> QED BY <1>3, <2>1, <2>2, Untouched, TaskEnds
  <1> QED BY <1>6, <1>7 DEF IInv

\* fetch_spans reads every span of the row it will replace.
LEMMA FetchSpansInv ==
    ASSUME IInv, NEW t \in Traces, FetchSpans(t)
    PROVE  IInv'
  <1>1. UNCHANGED <<rawSpans, rawDecisions, last, fresh, row, edges, now, faults>>
    BY DEF FetchSpans, storeVars, derivedVars
  <1>2. rawSpans[t] \in [Spans -> Nat] /\ task[t] \in TaskType /\ TraceInv(t)
    BY DEF IInv, TypeOK
  <1> DEFINE new == [task[t] EXCEPT !.phase = "spans", !.rows = Deduplicated(rawSpans[t])]
  <1>3. task' = [task EXCEPT ![t] = new]
    BY DEF FetchSpans
  <1>4. new \in TaskType /\ new.at = task[t].at /\ new.first = task[t].first
        /\ new.phase = "spans" /\ new.rows = Deduplicated(rawSpans[t])
    BY <1>2, DeduplicatedIs DEF TaskType
  <1> HIDE DEF new
  <1>5. TypeOK'
    BY <1>1, <1>3, <1>4 DEF IInv, TypeOK
  <1>6. TraceInv(t)'
    <2>1. task'[t] = new /\ row'[t] = row[t]
      BY <1>1, <1>3 DEF IInv, TypeOK
    <2>2. row[t].rows \subseteq Spans \X Nat
      BY DEF IInv, TypeOK, RowType
    <2>3. SpansOf(row[t].rows) \subseteq SpansOf(new.rows)
      BY <1>2, <1>4, <2>2, FaithfulArePresent, DeduplicatedIs DEF IInv, TraceInv, Present
    <2>4. Faithful(new.rows, t)
      BY <1>2, <1>4, DeduplicatedIs DEF Faithful
    <2> QED BY <1>1, <1>2, <1>4, <2>1, <2>3, <2>4 DEF TraceInv, Faithful, TaskFits
  <1>7. \A u \in Traces \ {t} : TraceInv(u)'
    BY <1>1, <1>3, Untouched DEF IInv, TypeOK
  <1> QED BY <1>5, <1>6, <1>7 DEF IInv

\* fetch_decisions leaves the spans that were read.
LEMMA FetchDecisionsInv ==
    ASSUME IInv, NEW t \in Traces, FetchDecisions(t)
    PROVE  IInv'
  <1>1. UNCHANGED <<rawSpans, rawDecisions, last, fresh, row, edges, now, faults>>
    BY DEF FetchDecisions, storeVars, derivedVars
  <1>2. task[t] \in TaskType /\ rawDecisions[t] \subseteq Deciding /\ TraceInv(t)
    BY DEF IInv, TypeOK
  <1> DEFINE new == [task[t] EXCEPT !.phase = "decisions", !.decisions = rawDecisions[t]]
  <1>3. task' = [task EXCEPT ![t] = new]
    BY DEF FetchDecisions
  <1>4. new \in TaskType /\ new.at = task[t].at /\ new.first = task[t].first
        /\ new.phase = "decisions" /\ new.rows = task[t].rows
    BY <1>2 DEF TaskType
  <1> HIDE DEF new
  <1>5. TypeOK'
    BY <1>1, <1>3, <1>4 DEF IInv, TypeOK
  <1>6. TraceInv(t)'
    <2>1. task'[t] = new
      BY <1>3 DEF IInv, TypeOK
    <2> QED BY <1>1, <1>2, <1>4, <2>1 DEF TraceInv, Faithful, TaskFits, FetchDecisions
  <1>7. \A u \in Traces \ {t} : TraceInv(u)'
    BY <1>1, <1>3, Untouched DEF IInv, TypeOK
  <1> QED BY <1>5, <1>6, <1>7 DEF IInv

\* The times of the new row are those that follow from the old one.
LEMMA StampInv ==
    ASSUME IInv, NEW t \in Traces, Stamp(t)
    PROVE  IInv'
  <1>1. UNCHANGED <<rawSpans, rawDecisions, last, fresh, row, edges, now, faults>>
    BY DEF Stamp, storeVars, derivedVars
  <1>2. task[t] \in TaskType /\ row[t] \in RowType /\ now \in Times /\ TraceInv(t)
    BY DEF IInv, TypeOK
  <1> DEFINE new == [task[t] EXCEPT !.phase = "stamped", !.at = now,
                                    !.first = FirstReconstructed(row[t], now)]
  <1>3. task' = [task EXCEPT ![t] = new]
    BY DEF Stamp
  <1>4. new \in TaskType /\ new.at = now /\ new.first = FirstReconstructed(row[t], now)
        /\ new.phase = "stamped" /\ new.rows = task[t].rows
    BY <1>2, FirstReconstructedIs, TimesAreNumbers DEF TaskType
  <1>5. new.first <= new.at
    BY <1>2, <1>4, FirstReconstructedIs
  <1> HIDE DEF new
  <1>6. TypeOK'
    BY <1>1, <1>3, <1>4, <1>5 DEF IInv, TypeOK
  <1>7. TraceInv(t)'
    <2>1. task'[t] = new
      BY <1>3 DEF IInv, TypeOK
    <2> QED BY <1>1, <1>2, <1>4, <2>1 DEF TraceInv, Faithful, TaskFits, Stamp
  <1>8. \A u \in Traces \ {t} : TraceInv(u)'
    BY <1>1, <1>3, Untouched DEF IInv, TypeOK
  <1> QED BY <1>6, <1>7, <1>8 DEF IInv

\* The row that is read after the insert is the old one or one that may follow it.
LEMMA InsertTraceStep ==
    ASSUME IInv, NEW t \in Traces, InsertTrace(t)
    PROVE  /\ IInv'
           /\ RowStep(row[t], row'[t])
  <1>1. UNCHANGED <<rawSpans, rawDecisions, last, fresh, edges, now, faults>>
    BY DEF InsertTrace, storeVars
  <1>2. task[t] \in TaskType /\ row[t] \in RowType /\ TraceInv(t) /\ task[t].phase = "stamped"
    BY DEF IInv, TypeOK, InsertTrace
  <1> DEFINE new == [at |-> task[t].at, first |-> task[t].first, rows |-> task[t].rows]
             done == [task[t] EXCEPT !.phase = "inserted"]
  <1>3. task' = [task EXCEPT ![t] = done] /\ row' = [row EXCEPT ![t] = Winner(row[t], new)]
    BY DEF InsertTrace
  <1>4. done \in TaskType /\ done.at = task[t].at /\ done.first = task[t].first
        /\ done.phase = "inserted" /\ done.rows = task[t].rows
    BY <1>2 DEF TaskType
  <1>5. new \in RowType /\ new.at = task[t].at /\ new.first = task[t].first /\ new.rows = task[t].rows
    BY <1>2 DEF TaskType, RowType
  <1> HIDE DEF new, done
  <1>6. Winner(row[t], new) \in {row[t], new} /\ (Winner(row[t], new) # row[t] =>
           row[t] = NoRow \/ row[t].at <= new.at)
    BY DEF Winner
  <1>7. row'[t] = Winner(row[t], new) /\ task'[t] = done
    BY <1>3 DEF IInv, TypeOK
  <1>8. new.first <= new.at /\ row[t].first <= row[t].at
    BY <1>5 DEF IInv, TypeOK
  <1>9. TypeOK'
    <2>1. row' \in [Traces -> RowType] /\ task' \in [Traces -> TaskType]
      BY <1>2, <1>3, <1>4, <1>5, <1>6 DEF IInv, TypeOK
    <2>2. \A u \in Traces : row'[u].first <= row'[u].at /\ task'[u].first <= task'[u].at
      BY <1>3, <1>4, <1>5, <1>6, <1>7, <1>8 DEF IInv, TypeOK
    <2> QED BY <1>1, <2>1, <2>2 DEF IInv, TypeOK
  <1>10. TraceInv(t)'
    BY <1>1, <1>2, <1>4, <1>5, <1>6, <1>7 DEF TraceInv, Faithful, TaskFits
  <1>11. \A u \in Traces \ {t} : TraceInv(u)'
    BY <1>1, <1>3, Untouched DEF IInv, TypeOK
  <1>12. RowStep(row[t], row'[t])
    <2>1. CASE row'[t] = row[t]
      BY <2>1 DEF RowStep
    <2>2. CASE row'[t] # row[t]
      <3>1. row'[t] = new /\ (row[t] = NoRow \/ row[t].at <= new.at)
        BY <1>6, <1>7, <2>2
      <3>2. new.at \in Times /\ new.first = FirstReconstructed(row[t], new.at)
            /\ SpansOf(row[t].rows) \subseteq SpansOf(new.rows)
        BY <1>2, <1>5 DEF TraceInv, TaskFits
      <3>3. row[t].at \in Nat /\ row[t].first \in Nat /\ new.at \in Nat
        BY <1>2, <3>2, EngineAssumption DEF RowType, Times
      <3>4. CASE row[t] = NoRow
        BY <3>1, <3>2, <3>4 DEF RowStep, FirstReconstructed
      <3>5. CASE row[t] # NoRow
        <4>1. row[t].at <= new.at
          BY <3>1, <3>5
        <4>2. new.first = IF row[t].first = Epoch THEN row[t].at ELSE row[t].first
          BY <1>8, <3>2, <3>3, <3>5, <4>1 DEF FirstReconstructed
        <4> QED BY <3>1, <3>2, <3>5, <4>1, <4>2 DEF RowStep
      <3> QED BY <3>4, <3>5
    <2> QED BY <2>1, <2>2
  <1> QED BY <1>9, <1>10, <1>11, <1>12 DEF IInv

\* Edges lead from decisions to spans.
LEMMA InsertEdgesInv ==
    ASSUME IInv, NEW t \in Traces, InsertEdges(t)
    PROVE  IInv'
  <1>1. UNCHANGED <<rawSpans, rawDecisions, last, fresh, row, now, faults>>
    BY DEF InsertEdges, storeVars
  <1>2. task[t] \in TaskType /\ edges[t] \subseteq Spans \X Spans
    BY DEF IInv, TypeOK
  <1>3. task' = [task EXCEPT ![t] = NoTask] /\
        edges' = [edges EXCEPT ![t] = WithEdges(edges[t], EdgesFor(task[t].decisions, SpansOf(task[t].rows)))]
    BY DEF InsertEdges
  <1>4. task[t].decisions \subseteq Spans /\ SpansOf(task[t].rows) \subseteq Spans
    BY <1>2, EngineAssumption DEF TaskType, SpansOf, Spans
  <1>5. EdgesFor(task[t].decisions, SpansOf(task[t].rows)) \subseteq Spans \X Spans
    <2>1. ASSUME NEW d \in task[t].decisions
          PROVE  TargetsAmong(d, SpansOf(task[t].rows)) \subseteq Spans
      BY <1>4 DEF TargetsAmong
    <2> QED BY <1>4, <2>1 DEF EdgesFor
  <1>6. NoTask \in TaskType /\ NoTask.first <= NoTask.at
    BY TimesAreNumbers DEF NoTask, TaskType, Epoch
  <1>7. TypeOK'
    <2>1. edges' \in [Traces -> SUBSET (Spans \X Spans)]
      BY <1>2, <1>3, <1>5 DEF IInv, TypeOK, WithEdges
    <2>2. task' \in [Traces -> TaskType] /\ \A u \in Traces : task'[u].first <= task'[u].at
      BY <1>3, <1>6 DEF IInv, TypeOK
    <2> QED BY <1>1, <2>1, <2>2 DEF IInv, TypeOK
  <1>8. ASSUME NEW u \in Traces PROVE TraceInv(u)'
    <2>1. task'[u] = NoTask \/ task'[u] = task[u]
      BY <1>3 DEF IInv, TypeOK
    <2> QED BY <1>1, <2>1, Untouched, TaskEnds DEF IInv
  <1> QED BY <1>7, <1>8 DEF IInv

\* Every step keeps the invariant.
LEMMA StepInv == ASSUME IInv, [Next]_vars PROVE IInv'
  <1>1. ASSUME UNCHANGED vars PROVE IInv'
    <2>1. TypeOK'
      BY <1>1 DEF IInv, TypeOK, vars, storeVars, derivedVars
    <2>2. \A t \in Traces : TraceInv(t)'
      BY <1>1, Untouched DEF IInv, vars, storeVars, derivedVars
    <2> QED BY <2>1, <2>2 DEF IInv
  <1>2. ASSUME NEW t \in Traces, EngineStep(t) PROVE IInv'
    BY <1>2, FetchSpansInv, FetchDecisionsInv, StampInv, InsertTraceStep, InsertEdgesInv DEF EngineStep
  <1> QED BY <1>1, <1>2, IngestInv, EnvironmentInv, TasksInv DEF Next

\* Every step that changes a row changes one, and as RowStep says.
LEMMA StepRow ==
    ASSUME IInv, [Next]_vars
    PROVE  \/ UNCHANGED row
           \/ \E t \in Traces : /\ \A u \in Traces \ {t} : row'[u] = row[u]
                                /\ RowStep(row[t], row'[t])
  <1>1. CASE \E t \in Traces : InsertTrace(t)
    <2>1. PICK t \in Traces : InsertTrace(t)
      BY <1>1
    <2>2. \A u \in Traces \ {t} : row'[u] = row[u]
      BY <2>1 DEF InsertTrace, IInv, TypeOK
    <2> QED BY <2>1, <2>2, InsertTraceStep
  <1>2. CASE ~\E t \in Traces : InsertTrace(t)
    <2>1. CASE UNCHANGED vars
      BY <2>1 DEF vars, derivedVars
    <2>2. CASE Next
      BY <1>2, <2>2 DEF Next, EngineStep, Ingest, IngestDecision, Expire, FindActive, FetchSpans,
                        FetchDecisions, Stamp, InsertEdges, TaskFails, Crash, Tick, ClockBack, Fault,
                        derivedVars
    <2> QED BY <2>1, <2>2
  <1> QED BY <1>1, <1>2

\* The invariant holds in every behaviour.
THEOREM Invariance == Spec => []IInv
  <1> QED BY InitInv, StepInv, PTL DEF Spec

\* The variables keep their types, and no row was first rebuilt after it was last.
THEOREM TypeCorrect == Spec => []TypeOK
  <1>1. IInv => TypeOK
    BY DEF IInv
  <1> QED BY Invariance, <1>1, PTL

\* Duplicate rows of raw_spans never reach a rebuilt trace (engine/worker.py:128-157).
THEOREM CountedOnce == Spec => []NoSpanCountedTwice
  <1>1. IInv => NoSpanCountedTwice
    BY DEF IInv, TraceInv, Faithful, NoSpanCountedTwice
  <1> QED BY Invariance, <1>1, PTL

-----------------------------------------------------------------------------
(* The edges of decisions                                                   *)

\* A task holds recorded decisions only, and the table what OnlyLoopsGoStale says.
EdgeInv ==
    /\ \A t \in Traces : task[t].decisions \subseteq rawDecisions[t]
    /\ OnlyLoopsGoStale

\* raw_spans and raw_decisions only grow.
LEMMA RowsStay ==
    ASSUME IInv, [Next]_vars, NEW t \in Traces
    PROVE  Present(t) \subseteq Present(t)' /\ rawDecisions[t] \subseteq rawDecisions'[t]
  <1>1. CASE \E u \in Traces, k \in Spans : Ingest(u, k)
    <2>1. PICK u \in Traces, k \in Spans : Ingest(u, k)
      BY <1>1
    <2>2. rawDecisions' = rawDecisions /\ rawSpans' = [rawSpans EXCEPT ![u][k] = @ + 1]
      BY <2>1 DEF Ingest
    <2>3. rawSpans \in [Traces -> [Spans -> Nat]]
      BY DEF IInv, TypeOK
    <2>4. \A j \in Spans : /\ rawSpans[t][j] \in Nat
                           /\ rawSpans'[t][j] \in {rawSpans[t][j], rawSpans[t][j] + 1}
      BY <2>2, <2>3
    <2> QED BY <2>2, <2>4 DEF Present
  <1>2. CASE \E u \in Traces, d \in Deciding : IngestDecision(u, d)
    BY <1>2 DEF IngestDecision, IInv, TypeOK, Present
  <1>3. CASE UNCHANGED <<rawSpans, rawDecisions>>
    BY <1>3 DEF Present
  <1> QED
    BY <1>1, <1>2, <1>3 DEF Next, EngineStep, Expire, FindActive, FetchSpans, FetchDecisions,
       Stamp, InsertTrace, InsertEdges, TaskFails, Crash, Tick, ClockBack, Fault,
       storeVars, vars

\* The edges that a task writes are those OnlyLoopsGoStale allows.
LEMMA WrittenEdges ==
    ASSUME IInv, EdgeInv, NEW t \in Traces,
           NEW e \in EdgesFor(task[t].decisions, SpansOf(task[t].rows))
    PROVE  /\ e[1] \in rawDecisions[t]
           /\ e[1] = e[2] \/ (e[1] < e[2] /\ {e[1], e[2]} \subseteq Present(t))
  <1> DEFINE present == SpansOf(task[t].rows)
  <1>1. PICK d \in task[t].decisions : \E k \in TargetsAmong(d, present) : e = <<d, k>>
    BY DEF EdgesFor
  <1>2. PICK k \in TargetsAmong(d, present) : e = <<d, k>>
    BY <1>1
  <1>3. d \in rawDecisions[t]
    BY DEF EdgeInv
  <1>4. present \subseteq Present(t)
    BY FaithfulArePresent DEF IInv, TypeOK, TaskType, TraceInv
  <1>5. k = d \/ (d < k /\ d \in present /\ k \in present)
    BY DEF TargetsAmong
  <1> HIDE DEF present
  <1> QED BY <1>2, <1>3, <1>4, <1>5

\* A step never breaks EdgeInv.
LEMMA StepEdges == ASSUME IInv, EdgeInv, [Next]_vars PROVE EdgeInv'
  <1>1. \A t \in Traces : /\ Present(t) \subseteq Present(t)'
                          /\ rawDecisions[t] \subseteq rawDecisions'[t]
    BY RowsStay
  <1>2. ASSUME NEW t \in Traces PROVE task'[t].decisions \subseteq rawDecisions'[t]
    <2>1. task'[t].decisions \in {{}, task[t].decisions, rawDecisions[t]}
      <3>1. task \in [Traces -> TaskType] /\ NoTask.decisions = {}
        BY DEF IInv, TypeOK, NoTask
      <3>2. CASE FindActive \/ Crash
        BY <3>1, <3>2 DEF FindActive, Crash, NoTask
      <3>3. CASE \E u \in Traces : EngineStep(u) \/ TaskFails(u)
        <4>1. PICK u \in Traces : EngineStep(u) \/ TaskFails(u)
          BY <3>3
        <4>2. t # u => task'[t] = task[t]
          BY <3>1, <4>1 DEF EngineStep, FetchSpans, FetchDecisions, Stamp, InsertTrace, InsertEdges, TaskFails
        <4>3. task'[u].decisions \in {{}, task[u].decisions, rawDecisions[u]}
          BY <3>1, <4>1 DEF EngineStep, FetchSpans, FetchDecisions, Stamp, InsertTrace, InsertEdges,
             TaskFails, TaskType
        <4> QED BY <4>2, <4>3
      <3>4. CASE UNCHANGED task
        BY <3>4
      <3> QED BY <3>2, <3>3, <3>4 DEF Next, Ingest, IngestDecision, Expire, Tick, ClockBack, vars
    <2> QED BY <1>1, <2>1 DEF EdgeInv
  <1>3. ASSUME NEW t \in Traces, NEW e \in edges'[t]
        PROVE  /\ e[1] \in rawDecisions'[t]
               /\ e[1] = e[2] \/ (e[1] < e[2] /\ {e[1], e[2]} \subseteq Present(t)')
    <2>1. e \in edges[t] \/ e \in EdgesFor(task[t].decisions, SpansOf(task[t].rows))
      <3>1. CASE \E u \in Traces : InsertEdges(u)
        <4>1. PICK u \in Traces : InsertEdges(u)
          BY <3>1
        <4>2. edges \in [Traces -> SUBSET (Spans \X Spans)]
          BY DEF IInv, TypeOK
        <4> QED BY <1>3, <4>1, <4>2 DEF InsertEdges, WithEdges
      <3>2. CASE UNCHANGED edges
        BY <1>3, <3>2
      <3> QED
        BY <3>1, <3>2 DEF Next, EngineStep, Ingest, IngestDecision, Expire, FindActive, FetchSpans,
           FetchDecisions, Stamp, InsertTrace, TaskFails, Crash, Tick, ClockBack, Fault,
           derivedVars, vars
    <2>2. /\ e[1] \in rawDecisions[t]
          /\ e[1] = e[2] \/ (e[1] < e[2] /\ {e[1], e[2]} \subseteq Present(t))
      BY <2>1, WrittenEdges DEF EdgeInv, OnlyLoopsGoStale
    <2> QED BY <1>1, <2>2
  <1> QED BY <1>2, <1>3 DEF EdgeInv, OnlyLoopsGoStale

\* Whatever passes missed, failed or wrote twice, an edge that no later pass would
\* write is one of a decision to its own span (engine/worker.py:310).
THEOREM StaleEdgesAreLoops == Spec => []OnlyLoopsGoStale
  <1>1. Init => EdgeInv
    <2> SUFFICES ASSUME Init PROVE EdgeInv
      OBVIOUS
    <2>1. \A t \in Traces : task[t].decisions = {} /\ edges[t] = {}
      BY DEF Init, NoTask
    <2> QED BY <2>1 DEF EdgeInv, OnlyLoopsGoStale
  <1>2. IInv /\ EdgeInv /\ [Next]_vars => EdgeInv'
    BY StepEdges
  <1>3. EdgeInv => OnlyLoopsGoStale
    BY DEF EdgeInv
  <1> QED BY <1>1, <1>2, <1>3, Invariance, PTL DEF Spec

-----------------------------------------------------------------------------
(* The table its readers see *)

\* Readers see a row exactly of the traces that have one.
LEMMA VisibleRow ==
    ASSUME IInv, NEW t \in Traces
    PROVE  /\ Visible[t] = [at |-> row[t].at, first |-> row[t].first, spans |-> SpansOf(row[t].rows)]
           /\ (Visible[t] = Table!NoRow) <=> (row[t] = NoRow)
           /\ SpansOf(row[t].rows) \subseteq Spans
  <1>1. Visible[t] = [at |-> row[t].at, first |-> row[t].first, spans |-> SpansOf(row[t].rows)]
    BY DEF Visible
  <1>2. row[t] \in RowType /\ (row[t] = NoRow \/ row[t].at \in Times)
    BY DEF IInv, TypeOK, TraceInv
  <1>3. SpansOf(row[t].rows) \subseteq Spans
    BY <1>2 DEF RowType, SpansOf
  <1>4. CASE row[t] = NoRow
    <2>1. SpansOf(row[t].rows) = {} /\ row[t].at = Epoch /\ row[t].first = Epoch
      BY <1>4 DEF NoRow, SpansOf
    <2> QED BY <1>1, <1>3, <1>4, <2>1 DEF Table!NoRow, Epoch, Table!Epoch
  <1>5. CASE row[t] # NoRow
    <2>1. row[t].at # 0
      BY <1>2, <1>5, TimesAreNumbers
    <2>2. Visible[t] # Table!NoRow
      BY <1>1, <2>1 DEF Table!NoRow, Table!Epoch
    <2> QED BY <1>1, <1>3, <1>5, <2>2
  <1> QED BY <1>4, <1>5

\* The tables the engine starts with are those TraceTable starts with.
LEMMA InitRefines == Init => Table!TableInit
  <1> SUFFICES ASSUME Init, NEW t \in Traces
               PROVE  Visible[t] \in {Table!NoRow} \cup {r \in Table!Row : r.first = Table!Epoch}
    BY DEF Table!TableInit, Visible, Traces, Table!Traces
  <1>1. IInv
    BY InitInv
  <1>2. CASE row[t] = NoRow
    BY <1>1, <1>2, VisibleRow
  <1>3. CASE row[t] # NoRow
    <2>1. row[t].at = 1 /\ row[t].first = Epoch
      BY <1>3 DEF Init, LegacyRow
    <2>2. 1 \in Table!Times
      BY EngineAssumption DEF Table!Times
    <2>3. Visible[t] = [at |-> 1, first |-> 0, spans |-> SpansOf(row[t].rows)]
          /\ SpansOf(row[t].rows) \subseteq Table!Spans
      BY <1>1, <2>1, VisibleRow DEF Epoch, Spans, Table!Spans
    <2>4. Visible[t] \in Table!Row /\ Visible[t].first = Table!Epoch
      BY <2>2, <2>3 DEF Table!Row, Table!Epoch
    <2> QED BY <2>4
  <1> QED BY <1>2, <1>3

\* What follows by RowStep is a successor in TraceTable, or the same row.
LEMMA RowStepRefines ==
    ASSUME IInv, IInv', NEW t \in Traces, RowStep(row[t], row'[t])
    PROVE  Visible'[t] = Visible[t] \/ Visible'[t] \in Table!Successors(Visible[t])
  <1> DEFINE old == Visible[t]
             new == Visible'[t]
  <1>1. /\ old = [at |-> row[t].at, first |-> row[t].first, spans |-> SpansOf(row[t].rows)]
        /\ (old = Table!NoRow) <=> (row[t] = NoRow)
    BY VisibleRow
  <1>2. new = [at |-> row'[t].at, first |-> row'[t].first, spans |-> SpansOf(row'[t].rows)]
    BY DEF Visible
  <1>3. row'[t] \in RowType
    BY DEF IInv, TypeOK
  <1>4. SpansOf(row'[t].rows) \subseteq Spans
    BY <1>3 DEF RowType, SpansOf
  <1> HIDE DEF old, new
  <1>5. CASE row'[t] = row[t]
    BY <1>1, <1>2, <1>5 DEF old, new
  <1>6. CASE row'[t] # row[t]
    <2>1. row'[t].at \in Times /\ row'[t].first \in {Epoch} \cup Times
      BY <1>3, <1>6, EngineAssumption DEF RowStep, RowType, Times, Epoch
    <2>2. new \in Table!Row
      BY <1>2, <1>4, <2>1 DEF Table!Row, Table!Times, Times, Table!Epoch, Epoch, Table!Spans, Spans
    <2>3. CASE row[t] = NoRow
      <3>1. new.first = new.at
        BY <1>2, <1>6, <2>3 DEF RowStep
      <3> QED BY <1>1, <2>2, <2>3, <3>1 DEF Table!Successors, old, new
    <2>4. CASE row[t] # NoRow
      <3>1. old.at <= new.at /\ old.spans \subseteq new.spans
        BY <1>1, <1>2, <1>6, <2>4 DEF RowStep
      <3>2. new.first = Table!FirstTime(old)
        BY <1>1, <1>2, <1>6, <2>4 DEF RowStep, Table!FirstTime, Table!Epoch, Epoch
      <3> QED BY <1>1, <2>2, <2>4, <3>1, <3>2 DEF Table!Successors, old, new
    <2> QED BY <2>3, <2>4
  <1> QED BY <1>5, <1>6

\* The engine implements the table its readers count on (reconstruct_one,
\* engine/worker.py:458-533, over ReplacingMergeTree(reconstructed_at)): no restart,
\* failed task or clock step moves a trace back or loses it a span.
THEOREM Refinement == Spec => ImplementsTraceTable
  <1>1. ASSUME IInv, IInv', [Next]_vars PROVE [Table!TableNext]_Visible
    <2>1. CASE UNCHANGED row
      BY <2>1 DEF Visible
    <2>2. CASE \E t \in Traces : /\ \A u \in Traces \ {t} : row'[u] = row[u]
                                 /\ RowStep(row[t], row'[t])
      <3>1. PICK t \in Traces : /\ \A u \in Traces \ {t} : row'[u] = row[u]
                                /\ RowStep(row[t], row'[t])
        BY <2>2
      <3>2. \A u \in Traces \ {t} : Visible'[u] = Visible[u]
        BY <3>1 DEF Visible
      <3>3. Visible' = [Visible EXCEPT ![t] = Visible'[t]]
        BY <3>2 DEF Visible
      <3>4. Visible'[t] = Visible[t] \/ Visible'[t] \in Table!Successors(Visible[t])
        BY <1>1, <3>1, RowStepRefines
      <3>5. CASE Visible'[t] = Visible[t]
        BY <3>2, <3>5 DEF Visible
      <3>6. CASE Visible'[t] \in Table!Successors(Visible[t])
        BY <3>3, <3>6 DEF Table!TableNext, Table!Replace, Traces, Table!Traces
      <3> QED BY <3>4, <3>5, <3>6
    <2> QED BY <1>1, <2>1, <2>2, StepRow
  <1> QED BY Invariance, InitRefines, <1>1, PTL DEF Spec, ImplementsTraceTable, Table!TableSpec

\* The lag of a trace is settled by its first rebuild (slo/evaluator.py:94-103).
THEOREM ChurnSettled == Spec => ChurnIsNotLag
  <1> DEFINE first(t) == IF row[t].first = Epoch THEN row[t].at ELSE row[t].first
  <1>1. ASSUME IInv, IInv', [Next]_vars, NEW t \in Measured, last'[t] = last[t], last[t] <= first(t)
        PROVE  t \in Measured' /\ Lag(t)' = Lag(t)
    <2>1. t \in Traces /\ row[t] # NoRow /\ last[t] <= row[t].at
      BY <1>1 DEF Measured
    <2>2. row[t] \in RowType /\ last[t] \in Nat
      BY <1>1, <2>1, EngineAssumption DEF IInv, TypeOK
    <2>3. row[t].at \in Nat /\ row[t].first \in Nat
      BY <2>2, EngineAssumption DEF RowType
    <2>4. RowStep(row[t], row'[t])
      BY <1>1, <2>1, StepRow DEF RowStep
    <2>5. CASE row'[t] = row[t]
      BY <1>1, <2>1, <2>5 DEF Measured, Lag
    <2>6. CASE row'[t] # row[t]
      <3>1. row'[t].at \in Times /\ row[t].at <= row'[t].at /\ row'[t].first = first(t)
        BY <2>1, <2>4, <2>6 DEF RowStep
      <3>2. row'[t].at \in Nat /\ row'[t].at # 0
        BY <3>1, TimesAreNumbers
      <3>3. t \in Measured'
        BY <1>1, <2>1, <2>2, <2>3, <3>1, <3>2 DEF Measured, NoRow, Epoch
      <3>4. row[t].at # 0
        BY <1>1, <2>1, TimesAreNumbers DEF IInv, TraceInv
      <3>5. row'[t].first # Epoch
        BY <2>3, <3>1, <3>4 DEF Epoch
      <3>6. Lag(t)' = row'[t].first - last[t]
        BY <1>1, <3>1, <3>5 DEF Lag
      <3>7. Lag(t) = first(t) - last[t]
        BY <1>1 DEF Lag
      <3> QED BY <3>1, <3>3, <3>6, <3>7
    <2> QED BY <2>5, <2>6
  <1>2. ASSUME IInv, IInv', [Next]_vars
        PROVE  [\A t \in Measured :
                  (last'[t] = last[t] /\ last[t] <= (IF row[t].first = Epoch THEN row[t].at ELSE row[t].first))
                      => t \in Measured' /\ Lag(t)' = Lag(t)]_vars
    BY <1>1, <1>2
  <1> QED BY Invariance, <1>2, PTL DEF Spec, ChurnIsNotLag
=============================================================================
