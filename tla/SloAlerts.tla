------------------------------ MODULE SloAlerts -----------------------------
(***************************************************************************)
(* Who notices that the pipeline stands still: the engine's polling        *)
(* window, the SLO worker's verdicts (slo/evaluator.py, slo/worker.py) and *)
(* the alerting worker's rules over both (alerting/worker.py).  They run   *)
(* in processes of their own, on clocks of their own windows: the engine   *)
(* gives a trace up LOOKBACK_SEC after its last span, the completion       *)
(* objective looks at it as long, the stuck rule takes it from             *)
(* STUCK_TRACE_MINUTES on, and a breach is K failed verdicts of the last N.*)
(* All but the stuck rule go by the clock of ClickHouse, which keeps UTC;  *)
(* the stuck rule goes by the local time of the host it runs on.           *)
(*                                                                         *)
(* A unit of time is the SLO worker's interval, a minute.                  *)
(***************************************************************************)
EXTENDS Integers, FiniteSets, Sequences

CONSTANTS
    Traces,
    Lookback,       \* engine LOOKBACK_SEC: 5 units
    Active,         \* SLO_TRACE_COMPLETION_ACTIVE_SEC: 5 units
    Stuck,          \* STUCK_TRACE_MINUTES: 5 units
    Horizon,        \* LOOKBACK_MIN * 4: 60 units
    K, N,           \* SLO_BREACH_THRESHOLD of SLO_BREACH_LOOKBACK: 3 of 5
    Zone,           \* local time of the alerting worker's host minus UTC
    AcceptTolerance,    \* accepted rows that outweigh one rejected: 999 for a threshold of 0.999
    FlushTolerance,     \* flushes that outweigh one failed: 99 for a threshold of 0.99
    MaxCredit,      \* bound: successes beyond these are not counted, so that a ratio
                    \* is never better than the collector's
    MaxDebt,        \* bound: failures that are not outweighed
    MaxSilent,      \* bound: units the alerting worker may go without a poll
    MaxUnread       \* bound: evaluations it may not have read

ASSUME AlertsAssumption ==
    /\ Lookback \in Nat \ {0} /\ Active \in Nat /\ Stuck \in Nat /\ Horizon \in Nat
    /\ Lookback <= Stuck /\ Stuck + MaxSilent < Horizon
    /\ K \in Nat \ {0} /\ N \in Nat /\ K + MaxUnread <= N
    /\ MaxSilent \in Nat \ {0} /\ MaxUnread \in Nat \ {0}
    /\ Zone \in Int
    /\ AcceptTolerance \in Nat \ {0} /\ FlushTolerance \in Nat \ {0}
    /\ MaxCredit \in Nat /\ MaxDebt \in Nat

\* The objectives on what the collector counts, as ratios since it started ...
Ratios == {"ingest_acceptance", "flush_success"}

\* ... and, with the completion of traces, those that say whether the pipeline runs.
\* Reconstruction lag and API latency, percentiles of durations, are left out.
Slos == Ratios \cup {"trace_completion"}

Parts == {"collector", "disk", "engine", "clickhouse"}

VARIABLES
    up,             \* the parts that run; disk: the collector's WAL can be written
    debt,           \* the counters of each ratio: tolerance * failures - successes
    age,            \* units since a trace's last span came; Horizon: none, or longer ago
    built,          \* the traces that have a row in reconstructed_traces
    verdicts,       \* slo_status: the last N values of passing of each objective, newest first
    evaluated,      \* the SLO worker has run in this unit
    polling,        \* the alerting worker is in a poll, and has read the spans
    suspects,       \* the old traces among them
    touched,        \* history: traces with a span since the poll read the spans
    firing,         \* alerts of its last poll: traces and objectives
    silent,         \* units since that poll
    unread,         \* evaluations since that poll
    named,          \* history: traces a poll has named, without a span since
    owed            \* history: objectives that failed K times running, and no poll has said so

pipelineVars == <<up, debt, age, built>>
alertVars == <<polling, suspects, touched, firing, silent, named>>
vars == <<pipelineVars, verdicts, evaluated, alertVars, unread, owed>>

Init ==
    /\ up = Parts
    /\ debt = [r \in Ratios |-> 0]
    /\ age = [t \in Traces |-> Horizon]
    /\ built = {}
    /\ verdicts = [s \in Slos |-> <<>>]
    /\ evaluated = FALSE
    /\ polling = FALSE /\ suspects = {} /\ touched = {}
    /\ firing = {}
    /\ silent = 0 /\ unread = 0
    /\ named = {} /\ owed = {}

-----------------------------------------------------------------------------
(* The pipeline                                                             *)

Tolerance(r) == IF r = "flush_success" THEN FlushTolerance ELSE AcceptTolerance

\* WriterMetrics: one more success, or failure, since the process started.
Succeeds(r) == debt' = [debt EXCEPT ![r] = IF @ > -MaxCredit THEN @ - 1 ELSE @]
Fails(r) ==
    /\ debt[r] + Tolerance(r) <= MaxDebt
    /\ debt' = [debt EXCEPT ![r] = @ + Tolerance(r)]

\* submit_nowait writes the row to the WAL, or cannot and rejects it.
AcceptRow ==
    /\ {"collector", "disk"} \subseteq up
    /\ Succeeds("ingest_acceptance")
    /\ UNCHANGED <<up, age, built, verdicts, evaluated, alertVars, unread, owed>>

RejectRow ==
    /\ "collector" \in up /\ "disk" \notin up
    /\ Fails("ingest_acceptance")
    /\ UNCHANGED <<up, age, built, verdicts, evaluated, alertVars, unread, owed>>

\* _flush: a batch with spans of the traces T, none if it is one of decisions,
\* gets into ClickHouse, or does not.
Flush(T) ==
    /\ {"collector", "clickhouse"} \subseteq up
    /\ Succeeds("flush_success")
    /\ age' = [t \in Traces |-> IF t \in T THEN 0 ELSE age[t]]
    /\ touched' = IF polling THEN touched \cup T ELSE touched
    /\ named' = named \ T
    /\ UNCHANGED <<up, built, verdicts, evaluated, polling, suspects, firing, silent, unread, owed>>

FlushFails ==
    /\ "collector" \in up /\ "clickhouse" \notin up
    /\ Fails("flush_success")
    /\ UNCHANGED <<up, age, built, verdicts, evaluated, alertVars, unread, owed>>

\* find_active_traces: ingested_at > now() - LOOKBACK_SEC.
Eligible(t) == age[t] < Lookback

Rebuild(t) ==
    /\ {"engine", "clickhouse"} \subseteq up
    /\ Eligible(t) /\ t \notin built
    /\ built' = built \cup {t}
    /\ UNCHANGED <<up, debt, age, verdicts, evaluated, alertVars, unread, owed>>

\* A part stops or is started; the counters are those of one collector process.
Toggle(p) ==
    /\ up' = IF p \in up THEN up \ {p} ELSE up \cup {p}
    /\ debt' = IF p = "collector" THEN [r \in Ratios |-> 0] ELSE debt
    /\ UNCHANGED <<age, built, verdicts, evaluated, alertVars, unread, owed>>

-----------------------------------------------------------------------------
(* The SLO worker                                                           *)

\* _signal_trace_completion: with fewer than a hundred active traces, 99 % is all.
Completed == \A t \in Traces : age[t] < Active => t \in built

\* Mutant of GoodRatio: without metrics there is no traffic, which passes.
GoodRatioUnreachable(r) == debt[r] <= 0

\* _signal_ingest_acceptance and _signal_flush_success: of the counters since the
\* collector started, whatever the objective's window, successes / (successes +
\* failures) >= threshold, and 1 without any; 0 when they cannot be fetched.
GoodRatio(r) == "collector" \in up /\ debt[r] <= 0

\* evaluate_all: passing of an objective.
Passing(s) == IF s \in Ratios THEN GoodRatio(s) ELSE Completed

\* Mutant of Latest: the oldest rows, an ORDER BY without DESC.
Earliest(history, passing) == IF Len(history) >= N THEN history ELSE <<passing>> \o history

\* The rows rn <= SLO_BREACH_LOOKBACK of an objective when one is added.
Latest(history, passing) ==
    LET all == <<passing>> \o history IN IF Len(all) > N THEN SubSeq(all, 1, N) ELSE all

FailedRunning(history) == Len(history) >= K /\ \A i \in 1..K : ~history[i]

\* run_once.  Without ClickHouse nothing is persisted, whatever was evaluated.
Evaluate ==
    /\ "clickhouse" \in up /\ ~evaluated /\ unread < MaxUnread
    /\ verdicts' = [s \in Slos |-> Latest(verdicts[s], Passing(s))]
    /\ owed' = owed \cup {s \in Slos : FailedRunning(verdicts'[s])}
    /\ evaluated' = TRUE
    /\ unread' = unread + 1
    /\ UNCHANGED <<pipelineVars, alertVars>>

-----------------------------------------------------------------------------
(* The alerting worker                                                      *)

\* Mutant of Old: the rule starts before the engine has given the trace up.
OldTooEarly(t) == age[t] + Zone + 1 >= Stuck /\ age[t] < Horizon

\* Mutant of Old: more than the minutes, not as many.
OldTooLate(t) == age[t] + Zone > Stuck /\ age[t] < Horizon

\* Ages _rule_stuck_traces alerts for: its query is bounded by the horizon, by the
\* clock of ClickHouse; the age it computes is datetime.now() of the host minus a
\* time that ClickHouse gave in UTC.
Old(t) == age[t] + Zone >= Stuck /\ age[t] < Horizon

\* Mutant of Breach: more than the threshold.
BreachStrict(history) == Cardinality({i \in 1..Len(history) : ~history[i]}) > K

\* _rule_slo_breach, whatever the age of the rows.
Breach(history) == Cardinality({i \in 1..Len(history) : ~history[i]}) >= K

\* The rule reads the spans first ...
ReadSpans ==
    /\ "clickhouse" \in up /\ ~polling
    /\ polling' = TRUE
    /\ suspects' = {t \in Traces : Old(t)} /\ touched' = {}
    /\ UNCHANGED <<pipelineVars, verdicts, evaluated, firing, silent, named, unread, owed>>

\* ... and then the rows of the traces, which the engine may have written since,
\* and the next rule the verdicts.
ReadRows ==
    /\ "clickhouse" \in up /\ polling
    /\ LET stuck == suspects \ built
           failing == {s \in Slos : Breach(verdicts[s])}
       IN  /\ firing' = stuck \cup failing
           /\ named' = named \cup (stuck \ touched)
           /\ owed' = owed \ failing
    /\ polling' = FALSE /\ suspects' = {} /\ touched' = {}
    /\ silent' = 0 /\ unread' = 0
    /\ UNCHANGED <<pipelineVars, verdicts, evaluated>>

\* A query raises: the loop logs it and sleeps.
PollFails ==
    /\ "clickhouse" \notin up /\ polling
    /\ polling' = FALSE /\ suspects' = {} /\ touched' = {}
    /\ UNCHANGED <<pipelineVars, verdicts, evaluated, firing, silent, named, unread, owed>>

-----------------------------------------------------------------------------

\* A unit ends.  Whatever runs has had a pass in it: the engine's takes seconds,
\* an evaluation and a poll too.
Tick ==
    /\ {"engine", "clickhouse"} \subseteq up => \A t \in Traces : Eligible(t) => t \in built
    /\ "clickhouse" \in up => evaluated
    /\ ~polling /\ silent < MaxSilent
    /\ age' = [t \in Traces |-> IF age[t] < Horizon THEN age[t] + 1 ELSE Horizon]
    /\ evaluated' = FALSE
    /\ silent' = silent + 1
    /\ UNCHANGED <<up, debt, built, verdicts, polling, suspects, touched, firing, named, unread, owed>>

Next ==
    \/ AcceptRow \/ RejectRow \/ FlushFails
    \/ \E T \in SUBSET Traces : Flush(T)
    \/ \E t \in Traces : Rebuild(t)
    \/ \E p \in Parts : Toggle(p)
    \/ Evaluate
    \/ ReadSpans \/ ReadRows \/ PollFails
    \/ Tick

Fairness ==
    /\ \A t \in Traces : WF_vars(Rebuild(t))
    /\ WF_vars(Evaluate) /\ WF_vars(ReadSpans) /\ WF_vars(ReadRows) /\ SF_vars(Tick)

Spec == Init /\ [][Next]_vars /\ Fairness

-----------------------------------------------------------------------------
(* Properties                                                               *)

\* The rule sees at most N verdicts of an objective, and the bounds hold.
TypeOK ==
    /\ up \subseteq Parts
    /\ debt \in [Ratios -> (-MaxCredit)..MaxDebt]
    /\ age \in [Traces -> 0..Horizon]
    /\ built \subseteq Traces
    /\ verdicts \in [Slos -> Seq(BOOLEAN)]
    /\ \A s \in Slos : Len(verdicts[s]) <= N
    /\ evaluated \in BOOLEAN
    /\ polling \in BOOLEAN /\ suspects \subseteq Traces /\ touched \subseteq Traces
    /\ firing \subseteq Traces \cup Slos
    /\ silent \in 0..MaxSilent /\ unread \in 0..MaxUnread
    /\ named \subseteq Traces /\ owed \subseteq Slos

\* Two windows in two processes meet: a trace the stuck rule has named is one the
\* engine has given up, so that without a new span it is never rebuilt and the
\* page was not premature.  It holds on a host that keeps UTC, or is west of it.
NamedTracesAreLost == \A t \in named : t \notin built /\ ~Eligible(t)

\* And no trace falls between them: one the engine has given up without a row is
\* named before the rule's own window loses sight of it, if the worker is never
\* silent for longer than MaxSilent.  It holds on a host that keeps UTC, or is
\* east of it.
LostTracesAreNamed ==
    \A t \in Traces : age[t] \in (Stuck + MaxSilent)..(Horizon - 1) => t \in built \cup named

\* The alert's text, alerting/worker.py:199: a named trace "appears stuck without
\* reconstruction for >= {STUCK_TRACE_MINUTES}m".  East of UTC it need not be.
NamedTracesAreStuck == \A t \in named : age[t] >= Stuck

\* An objective that has failed K times running still counts as breached when the
\* alerting worker comes to look, however it recovered meanwhile.
NoBreachForgotten == \A s \in owed : Breach(verdicts[s])

\* An outage of the collector that lasts is alerted for as long as it lasts, though
\* the metrics that would show it are the collector's own, and whatever its disk does.
\* (Without ClickHouse there is no alert: nothing can be written or read.)
OutageIsAlerted ==
    <>[](up \ {"disk"} = {"clickhouse", "engine"}) => <>[](Ratios \subseteq firing)

\* Rows keep coming and batches keep being stored, until the failures are outweighed.
Traffic == WF_vars(AcceptRow) /\ WF_vars(Flush({}))

\* Once everything runs and there is traffic, no old verdict, lost trace, ratio or
\* breach keeps alerting.  It takes the traffic: what failed before stays in the
\* ratios, though slo/spec.py:12 has window_minutes as the "lookback window for the
\* measurement", and is alerted for as long as it is not outweighed.
RecoveryQuiets ==
    <>[](up = Parts) /\ Traffic => <>[](firing = {})
=============================================================================
