---------------------------- MODULE SloAlertsProofs ----------------------------
(***************************************************************************)
(* What SloAlerts promises of the windows and of K of N, for every set of  *)
(* traces, every window, every bound and every time zone of the assumption *)
(* that a theorem does not exclude.  The invariants relate a poll's two    *)
(* reads and the unit it runs in: while a poll is under way no unit ends,  *)
(* so that a trace it suspects is as old as it was or has got a new span.  *)
(***************************************************************************)
EXTENDS SloAlerts, FiniteSetTheorems, TLAPS

\* A poll holds every trace of the rule's age, and none younger, but for those that
\* have got a span since it read.
PollInv ==
    /\ ~polling => suspects = {}
    /\ \A t \in suspects : t \in touched \/ age[t] + Zone >= Stuck
    /\ polling => \A t \in Traces : Old(t) => t \in suspects \cup touched
    /\ polling => \A t \in touched : age[t] = 0

\* A named trace is of the rule's age by the host's clock, and has no row if that is
\* beyond the engine's window.
NamedInv ==
    \A t \in named :
        /\ age[t] + Zone >= Stuck
        /\ Lookback + Zone <= Stuck => t \notin built

\* What was old enough when the last poll ended is named, or has a row, unless the
\* host's clock makes it younger than it is.
SeenInv ==
    Zone >= 0 =>
        \A t \in Traces :
            (age[t] < Horizon /\ Stuck + silent <= age[t]) => t \in built \cup named

WindowInv == TypeOK /\ PollInv /\ NamedInv /\ SeenInv

\* What Latest is: the new verdict, and behind it the old ones that fit.
LEMMA LatestIs ==
    ASSUME NEW h \in Seq(BOOLEAN), Len(h) <= N, NEW p \in BOOLEAN
    PROVE  /\ Latest(h, p) \in Seq(BOOLEAN)
           /\ Len(Latest(h, p)) = IF Len(h) + 1 > N THEN N ELSE Len(h) + 1
           /\ \A i \in 2..Len(Latest(h, p)) : Latest(h, p)[i] = h[i - 1]
  <1> DEFINE all == <<p>> \o h
  <1>1. all \in Seq(BOOLEAN) /\ Len(all) = Len(h) + 1
    OBVIOUS
  <1>2. \A i \in 2..Len(all) : all[i] = h[i - 1]
    OBVIOUS
  <1>3. N \in Nat \ {0}
    BY AlertsAssumption
  <1>4. Latest(h, p) = IF Len(all) > N THEN SubSeq(all, 1, N) ELSE all
    BY DEF Latest
  <1>5. CASE Len(all) > N
    <2>1. Latest(h, p) = SubSeq(all, 1, N)
      BY <1>4, <1>5
    <2> HIDE DEF all
    <2>2. SubSeq(all, 1, N) \in Seq(BOOLEAN) /\ Len(SubSeq(all, 1, N)) = N
      BY <1>1, <1>3, <1>5
    <2>3. \A i \in 1..N : SubSeq(all, 1, N)[i] = all[i]
      BY <1>1, <1>3, <1>5
    <2> QED BY <1>1, <1>2, <1>3, <1>5, <2>1, <2>2, <2>3
  <1>6. CASE ~(Len(all) > N)
    <2>1. Latest(h, p) = all
      BY <1>4, <1>6
    <2> HIDE DEF all
    <2> QED BY <1>1, <1>2, <1>3, <1>6, <2>1
  <1> QED BY <1>5, <1>6

\* A verdict is one of two.
LEMMA PassingIsBoolean == ASSUME NEW s \in Slos PROVE Passing(s) \in BOOLEAN
  <1>1. GoodRatio(s) \in BOOLEAN
    BY DEF GoodRatio
  <1>2. Completed \in BOOLEAN
    BY DEF Completed
  <1> QED BY <1>1, <1>2 DEF Passing

\* The initial state satisfies the invariant.
LEMMA InitWindow == Init => WindowInv
  <1> SUFFICES ASSUME Init PROVE WindowInv
    OBVIOUS
  <1>1. TypeOK
    <2>1. verdicts \in [Slos -> Seq(BOOLEAN)] /\ \A s \in Slos : Len(verdicts[s]) <= N
      BY AlertsAssumption DEF Init
    <2>2. age \in [Traces -> 0..Horizon]
      BY AlertsAssumption DEF Init
    <2>3. evaluated \in BOOLEAN /\ polling \in BOOLEAN
      BY DEF Init
    <2>4. silent \in 0..MaxSilent /\ unread \in 0..MaxUnread
      BY AlertsAssumption DEF Init
    <2>5. up \subseteq Parts /\ built = {} /\ suspects = {} /\ touched = {} /\ firing = {}
      BY DEF Init
    <2>6. named = {} /\ owed = {}
      BY DEF Init
    <2>7. debt \in [Ratios -> (-MaxCredit)..MaxDebt]
      BY AlertsAssumption DEF Init
    <2> QED BY <2>1, <2>2, <2>3, <2>4, <2>5, <2>6, <2>7 DEF TypeOK
  <1>2. PollInv
    BY DEF Init, PollInv
  <1>3. NamedInv
    BY DEF Init, NamedInv
  <1>4. SeenInv
    BY AlertsAssumption DEF Init, SeenInv
  <1> QED BY <1>1, <1>2, <1>3, <1>4 DEF WindowInv

\* A counted success or failure leaves a ratio's debt within its bounds.
LEMMA CountIsBounded ==
    ASSUME debt \in [Ratios -> (-MaxCredit)..MaxDebt], NEW r \in Ratios, Succeeds(r) \/ Fails(r)
    PROVE  debt' \in [Ratios -> (-MaxCredit)..MaxDebt]
  <1> USE AlertsAssumption
  <1>1. debt[r] \in (-MaxCredit)..MaxDebt
    OBVIOUS
  <1>2. CASE Succeeds(r)
    <2>1. (IF debt[r] > -MaxCredit THEN debt[r] - 1 ELSE debt[r]) \in (-MaxCredit)..MaxDebt
      BY <1>1
    <2> QED BY <1>2, <2>1 DEF Succeeds
  <1>3. CASE Fails(r)
    <2>1. Tolerance(r) \in Nat
      BY DEF Tolerance
    <2>2. debt[r] + Tolerance(r) \in (-MaxCredit)..MaxDebt
      BY <1>1, <1>3, <2>1 DEF Fails
    <2> QED BY <1>3, <2>2 DEF Fails
  <1> QED BY <1>2, <1>3

\* The counters of rows and of failed flushes say nothing of traces.
LEMMA CountWindow ==
    ASSUME WindowInv, AcceptRow \/ RejectRow \/ FlushFails
    PROVE  WindowInv'
  <1>1. "ingest_acceptance" \in Ratios /\ "flush_success" \in Ratios
    BY DEF Ratios
  <1>2. debt' \in [Ratios -> (-MaxCredit)..MaxDebt]
    BY <1>1, CountIsBounded DEF WindowInv, TypeOK, AcceptRow, RejectRow, FlushFails
  <1>3. UNCHANGED <<up, age, built, verdicts, evaluated, alertVars, unread, owed>>
    BY DEF AcceptRow, RejectRow, FlushFails
  <1>4. TypeOK'
    BY <1>2, <1>3 DEF WindowInv, TypeOK, alertVars
  <1> QED BY <1>3, <1>4 DEF WindowInv, PollInv, NamedInv, SeenInv, Old, alertVars

\* A span makes its trace young and takes its name back.
LEMMA FlushWindow ==
    ASSUME WindowInv, NEW T \in SUBSET Traces, Flush(T)
    PROVE  WindowInv'
  <1> USE AlertsAssumption
  <1>1. TypeOK'
    <2>1. debt' \in [Ratios -> (-MaxCredit)..MaxDebt]
      BY CountIsBounded DEF WindowInv, TypeOK, Flush, Ratios
    <2>2. age' \in [Traces -> 0..Horizon]
      BY DEF WindowInv, TypeOK, Flush
    <2>3. touched' \subseteq Traces /\ named' \subseteq Traces
      BY DEF WindowInv, TypeOK, Flush
    <2>4. UNCHANGED <<up, built, verdicts, evaluated, polling, suspects, firing, silent, unread, owed>>
      BY DEF Flush
    <2> QED BY <2>1, <2>2, <2>3, <2>4 DEF WindowInv, TypeOK
  <1>2. \A t \in Traces : age'[t] = IF t \in T THEN 0 ELSE age[t]
    BY DEF Flush
  <1>3. PollInv'
    <2>1. ~polling' => suspects' = {}
      BY DEF WindowInv, PollInv, Flush
    <2>2. CASE polling
      <3>1. touched' = touched \cup T /\ suspects' = suspects
        BY <2>2 DEF Flush
      <3>2. \A t \in suspects' : t \in touched' \/ age'[t] + Zone >= Stuck
        BY <1>2, <3>1 DEF WindowInv, TypeOK, PollInv
      <3>3. \A t \in Traces : Old(t)' => t \in suspects' \cup touched'
        BY <1>2, <2>2, <3>1 DEF WindowInv, PollInv, Old
      <3>4. \A t \in touched' : age'[t] = 0
        BY <1>2, <2>2, <3>1 DEF WindowInv, TypeOK, PollInv
      <3> QED BY <2>1, <3>2, <3>3, <3>4 DEF PollInv
    <2>3. CASE ~polling
      BY <2>1, <2>3 DEF PollInv, Flush
    <2> QED BY <2>2, <2>3
  <1>4. NamedInv'
    <2> SUFFICES ASSUME NEW t \in named'
                 PROVE  age'[t] + Zone >= Stuck /\ (Lookback + Zone <= Stuck => t \notin built')
      BY DEF NamedInv
    <2>1. t \in named \ T /\ t \in Traces /\ built' = built
      BY DEF WindowInv, TypeOK, Flush
    <2> QED BY <1>2, <2>1 DEF WindowInv, NamedInv
  <1>5. SeenInv'
    <2> SUFFICES ASSUME Zone >= 0, NEW t \in Traces, age'[t] < Horizon, Stuck + silent' <= age'[t]
                 PROVE  t \in built' \cup named'
      BY DEF SeenInv
    <2>1. silent' = silent /\ silent \in Nat /\ built' = built /\ named' = named \ T
      BY DEF WindowInv, TypeOK, Flush
    <2>2. t \notin T /\ age'[t] = age[t]
      BY <1>2, <2>1
    <2> QED BY <2>1, <2>2 DEF WindowInv, SeenInv
  <1> QED BY <1>1, <1>3, <1>4, <1>5 DEF WindowInv

\* The engine rebuilds only what is younger than its window.
LEMMA RebuildWindow ==
    ASSUME WindowInv, NEW t \in Traces, Rebuild(t)
    PROVE  WindowInv'
  <1> USE AlertsAssumption
  <1>1. TypeOK'
    BY DEF WindowInv, TypeOK, Rebuild, alertVars
  <1>2. PollInv'
    BY DEF WindowInv, PollInv, Rebuild, Old, alertVars
  <1>3. NamedInv'
    BY DEF WindowInv, TypeOK, NamedInv, Rebuild, Eligible, alertVars
  <1>4. SeenInv'
    BY DEF WindowInv, SeenInv, Rebuild, alertVars
  <1> QED BY <1>1, <1>2, <1>3, <1>4 DEF WindowInv

\* A poll takes every trace of the rule's age.
LEMMA ReadSpansWindow == ASSUME WindowInv, ReadSpans PROVE WindowInv'
  <1>1. TypeOK'
    BY DEF WindowInv, TypeOK, ReadSpans, pipelineVars
  <1>2. PollInv'
    BY DEF WindowInv, PollInv, ReadSpans, Old, pipelineVars
  <1>3. NamedInv' /\ SeenInv'
    BY DEF WindowInv, NamedInv, SeenInv, ReadSpans, pipelineVars
  <1> QED BY <1>1, <1>2, <1>3 DEF WindowInv

\* And names those of them that have no row.
LEMMA ReadRowsWindow == ASSUME WindowInv, ReadRows PROVE WindowInv'
  <1> USE AlertsAssumption
  <1>1. TypeOK'
    <2>1. firing' \subseteq Traces \cup Slos /\ named' \subseteq Traces /\ owed' \subseteq Slos
      BY DEF WindowInv, TypeOK, ReadRows
    <2>2. polling' \in BOOLEAN /\ suspects' = {} /\ touched' = {} /\ silent' = 0 /\ unread' = 0
      BY DEF ReadRows
    <2>3. UNCHANGED <<up, debt, age, built, verdicts, evaluated>>
      BY DEF ReadRows, pipelineVars
    <2> QED BY <2>1, <2>2, <2>3 DEF WindowInv, TypeOK
  <1>2. PollInv'
    BY DEF WindowInv, PollInv, ReadRows, pipelineVars
  <1>3. NamedInv'
    <2> SUFFICES ASSUME NEW t \in named'
                 PROVE  age'[t] + Zone >= Stuck /\ (Lookback + Zone <= Stuck => t \notin built')
      BY DEF NamedInv
    <2>1. CASE t \in named
      BY <2>1 DEF WindowInv, NamedInv, ReadRows, pipelineVars
    <2>2. CASE t \notin named
      <3>1. t \in suspects \ built /\ t \notin touched
        BY <2>2 DEF ReadRows
      <3>2. age[t] + Zone >= Stuck
        BY <3>1 DEF WindowInv, PollInv
      <3> QED BY <3>1, <3>2 DEF ReadRows, pipelineVars
    <2> QED BY <2>1, <2>2
  <1>4. SeenInv'
    <2> SUFFICES ASSUME Zone >= 0, NEW t \in Traces, age'[t] < Horizon, Stuck + silent' <= age'[t]
                 PROVE  t \in built' \cup named'
      BY DEF SeenInv
    <2>1. age[t] \in Nat /\ age' = age /\ built' = built /\ silent' = 0 /\ polling
      BY DEF WindowInv, TypeOK, ReadRows, pipelineVars
    <2>2. Old(t) /\ age[t] # 0
      BY <2>1 DEF Old
    <2>3. t \in suspects /\ t \notin touched
      BY <2>1, <2>2 DEF WindowInv, PollInv
    <2>4. t \in suspects \ built => t \in named'
      BY <2>3 DEF ReadRows
    <2> QED BY <2>1, <2>3, <2>4
  <1> QED BY <1>1, <1>2, <1>3, <1>4 DEF WindowInv

\* A unit that ends makes every trace and the last poll older by one.
LEMMA TickWindow == ASSUME WindowInv, Tick PROVE WindowInv'
  <1> USE AlertsAssumption
  <1>1. TypeOK'
    <2>1. age' \in [Traces -> 0..Horizon]
      BY DEF WindowInv, TypeOK, Tick
    <2>2. silent' \in 0..MaxSilent
      BY DEF WindowInv, TypeOK, Tick
    <2>3. evaluated' \in BOOLEAN
      BY DEF Tick
    <2>4. UNCHANGED <<up, debt, built, verdicts, polling, suspects, touched, firing, named, unread, owed>>
      BY DEF Tick
    <2> QED BY <2>1, <2>2, <2>3, <2>4 DEF WindowInv, TypeOK
  <1>2. \A t \in Traces : age[t] \in 0..Horizon /\ age'[t] = IF age[t] < Horizon THEN age[t] + 1 ELSE Horizon
    BY DEF WindowInv, TypeOK, Tick
  <1>3. PollInv'
    BY DEF WindowInv, PollInv, Tick
  <1>4. NamedInv'
    <2> SUFFICES ASSUME NEW t \in named'
                 PROVE  age'[t] + Zone >= Stuck /\ (Lookback + Zone <= Stuck => t \notin built')
      BY DEF NamedInv
    <2>1. t \in named /\ t \in Traces /\ built' = built
      BY DEF WindowInv, TypeOK, Tick
    <2> QED BY <1>2, <2>1 DEF WindowInv, NamedInv
  <1>5. SeenInv'
    <2> SUFFICES ASSUME Zone >= 0, NEW t \in Traces, age'[t] < Horizon, Stuck + silent' <= age'[t]
                 PROVE  t \in built' \cup named'
      BY DEF SeenInv
    <2>1. age[t] \in Nat /\ age'[t] = age[t] + 1 /\ silent' = silent + 1 /\ silent \in Nat
      BY <1>2 DEF WindowInv, TypeOK, Tick
    <2> QED BY <2>1 DEF WindowInv, SeenInv, Tick
  <1> QED BY <1>1, <1>3, <1>4, <1>5 DEF WindowInv

\* An evaluation changes nothing but the verdicts.
LEMMA EvaluateWindow == ASSUME WindowInv, Evaluate PROVE WindowInv'
  <1>1. verdicts' \in [Slos -> Seq(BOOLEAN)] /\ \A s \in Slos : Len(verdicts'[s]) <= N
    <2>1. \A s \in Slos : verdicts'[s] = Latest(verdicts[s], Passing(s))
      BY DEF Evaluate
    <2>2. ASSUME NEW s \in Slos
          PROVE  Latest(verdicts[s], Passing(s)) \in Seq(BOOLEAN) /\ Len(Latest(verdicts[s], Passing(s))) <= N
      <3>1. verdicts[s] \in Seq(BOOLEAN) /\ Len(verdicts[s]) <= N
        BY DEF WindowInv, TypeOK
      <3> QED BY <3>1, PassingIsBoolean, LatestIs, AlertsAssumption
    <2> QED BY <2>1, <2>2 DEF Evaluate
  <1>2. TypeOK'
    BY <1>1, AlertsAssumption DEF WindowInv, TypeOK, Evaluate, pipelineVars, alertVars
  <1>3. PollInv' /\ NamedInv' /\ SeenInv'
    BY DEF WindowInv, PollInv, NamedInv, SeenInv, Evaluate, Old, pipelineVars, alertVars
  <1> QED BY <1>2, <1>3 DEF WindowInv

\* The windows' invariant holds in every behaviour.
THEOREM WindowInvariance == Spec => []WindowInv
  <1>1. ASSUME WindowInv, [Next]_vars PROVE WindowInv'
    <2>1. ASSUME NEW p \in Parts, Toggle(p) PROVE WindowInv'
      <3>1. [r \in Ratios |-> 0] \in [Ratios -> (-MaxCredit)..MaxDebt]
        BY AlertsAssumption
      <3>2. TypeOK'
        BY <1>1, <2>1, <3>1 DEF WindowInv, TypeOK, Toggle, alertVars
      <3> QED BY <1>1, <2>1, <3>2 DEF WindowInv, PollInv, NamedInv, SeenInv, Toggle, Old, alertVars
    <2>2. ASSUME PollFails PROVE WindowInv'
      <3>1. TypeOK'
        BY <1>1, <2>2 DEF WindowInv, TypeOK, PollFails, pipelineVars
      <3> QED BY <1>1, <2>2, <3>1 DEF WindowInv, PollInv, NamedInv, SeenInv, PollFails, pipelineVars
    <2>3. ASSUME UNCHANGED vars PROVE WindowInv'
      BY <1>1, <2>3 DEF WindowInv, TypeOK, PollInv, NamedInv, SeenInv, Old, vars, pipelineVars, alertVars
    <2> QED BY <1>1, <2>1, <2>2, <2>3, CountWindow, FlushWindow, RebuildWindow, EvaluateWindow,
               ReadSpansWindow, ReadRowsWindow, TickWindow DEF Next
  <1> QED BY InitWindow, <1>1, PTL DEF Spec

\* No objective keeps more than N verdicts, and no bound is exceeded.
THEOREM TypeCorrect == Spec => []TypeOK
  <1>1. WindowInv => TypeOK
    BY DEF WindowInv
  <1> QED BY WindowInvariance, <1>1, PTL

\* Whatever the stuck rule names (alerting/worker.py:144-204), the engine has given
\* up (engine/worker.py:95-110), on a host that keeps UTC or is west of it: what its
\* clock adds to an age does not exceed the margin between the two windows.
THEOREM NamedAreLost ==
    ASSUME Lookback + Zone <= Stuck
    PROVE  Spec => []NamedTracesAreLost
  <1>1. WindowInv => NamedTracesAreLost
    <2> SUFFICES ASSUME WindowInv, NEW t \in named PROVE t \notin built /\ ~(age[t] < Lookback)
      BY DEF NamedTracesAreLost, Eligible
    <2>1. age[t] \in Int
      BY AlertsAssumption DEF WindowInv, TypeOK
    <2> QED BY <2>1, AlertsAssumption DEF WindowInv, NamedInv
  <1> QED BY WindowInvariance, <1>1, PTL

\* And whatever the engine has given up, the stuck rule names before its own window
\* ends, on a host that keeps UTC or is east of it, if the alerting worker polls at
\* least every MaxSilent units.
THEOREM LostAreNamed ==
    ASSUME Zone >= 0
    PROVE  Spec => []LostTracesAreNamed
  <1>1. WindowInv => LostTracesAreNamed
    <2> SUFFICES ASSUME WindowInv, NEW t \in Traces, age[t] \in (Stuck + MaxSilent)..(Horizon - 1)
                 PROVE  t \in built \cup named
      BY DEF LostTracesAreNamed
    <2>1. age[t] < Horizon /\ Stuck + silent <= age[t]
      BY AlertsAssumption DEF WindowInv, TypeOK
    <2> QED BY <2>1 DEF WindowInv, SeenInv
  <1> QED BY WindowInvariance, <1>1, PTL

\* West of UTC by as much as the stuck rule can see, which its window of an hour makes
\* every zone there, the rule is dead: no trace is named, and no alert is for one.
THEOREM NothingNamedWest ==
    ASSUME Horizon + Zone <= Stuck
    PROVE  Spec => [](named = {} /\ firing \subseteq Slos)
  <1> DEFINE Dead == suspects = {} /\ named = {} /\ firing \subseteq Slos
  <1>1. Init => Dead
    BY DEF Init
  <1>2. ASSUME WindowInv, Dead, [Next]_vars PROVE Dead'
    <2>1. \A t \in Traces : ~Old(t)
      BY <1>2, AlertsAssumption DEF WindowInv, TypeOK, Old
    <2>2. ASSUME AcceptRow \/ RejectRow \/ FlushFails \/ Evaluate PROVE Dead'
      BY <1>2, <2>2 DEF AcceptRow, RejectRow, FlushFails, Evaluate, alertVars
    <2>3. ASSUME NEW T \in SUBSET Traces, Flush(T) PROVE Dead'
      BY <1>2, <2>3 DEF Flush
    <2>4. ASSUME NEW t \in Traces, Rebuild(t) PROVE Dead'
      BY <1>2, <2>4 DEF Rebuild, alertVars
    <2>5. ASSUME NEW p \in Parts, Toggle(p) PROVE Dead'
      BY <1>2, <2>5 DEF Toggle, alertVars
    <2>6. ASSUME ReadSpans PROVE Dead'
      BY <1>2, <2>1, <2>6 DEF ReadSpans
    <2>7. ASSUME ReadRows PROVE Dead'
      BY <1>2, <2>7 DEF ReadRows
    <2>8. ASSUME PollFails \/ Tick \/ UNCHANGED vars PROVE Dead'
      BY <1>2, <2>8 DEF PollFails, Tick, vars, alertVars
    <2> QED BY <1>2, <2>2, <2>3, <2>4, <2>5, <2>6, <2>7, <2>8 DEF Next
  <1> QED BY WindowInvariance, <1>1, <1>2, PTL DEF Spec

-----------------------------------------------------------------------------
(* K of N *)

\* The K failed verdicts an objective still owes an alert for lie behind as many
\* others as the alerting worker has not read, at most.
OwedInv ==
    \A s \in owed : \E j \in 0..MaxUnread :
        /\ j < unread /\ j + K <= Len(verdicts[s])
        /\ \A i \in (j + 1)..(j + K) : verdicts[s][i] = FALSE

\* K failed verdicts running among those that are kept are a breach.
LEMMA RunIsBreach ==
    ASSUME NEW h \in Seq(BOOLEAN), NEW j \in Nat, j + K <= Len(h),
           \A i \in (j + 1)..(j + K) : h[i] = FALSE
    PROVE  Breach(h)
  <1> DEFINE run == (j + 1)..(j + K)
             failed == {i \in 1..Len(h) : ~h[i]}
  <1>1. K \in Nat /\ Len(h) \in Nat
    BY AlertsAssumption
  <1>2. IsFiniteSet(run) /\ Cardinality(run) = K
    <2>1. j + 1 \in Int /\ j + K \in Int /\ ~(j + 1 > j + K) /\ (j + K) - (j + 1) + 1 = K
      BY AlertsAssumption
    <2> QED BY <2>1, FS_Interval
  <1>3. IsFiniteSet(failed)
    <2>1. IsFiniteSet(1..Len(h))
      BY <1>1, FS_Interval
    <2> QED BY <2>1, FS_Subset
  <1>4. run \subseteq failed
    BY <1>1
  <1>5. Cardinality(run) <= Cardinality(failed)
    BY <1>3, <1>4, FS_Subset
  <1>6. Cardinality(failed) \in Nat
    BY <1>3, FS_CardinalityType
  <1> QED BY <1>1, <1>2, <1>5, <1>6 DEF Breach

\* Every objective owed counts as breached.
LEMMA OwedIsBreach == ASSUME TypeOK, OwedInv PROVE \A s \in owed : Breach(verdicts[s])
  <1> TAKE s \in owed
  <1>1. PICK j \in 0..MaxUnread :
           /\ j + K <= Len(verdicts[s])
           /\ \A i \in (j + 1)..(j + K) : verdicts[s][i] = FALSE
    BY DEF OwedInv
  <1>2. verdicts[s] \in Seq(BOOLEAN) /\ j \in Nat
    BY DEF TypeOK
  <1> QED BY <1>1, <1>2, RunIsBreach

\* A poll settles everything that is owed.
LEMMA ReadRowsOwed == ASSUME TypeOK, OwedInv, ReadRows PROVE OwedInv'
  <1>1. owed' = owed \ {s \in Slos : Breach(verdicts[s])}
    BY DEF ReadRows
  <1>2. owed' = {}
    BY <1>1, OwedIsBreach DEF TypeOK
  <1> QED BY <1>2 DEF OwedInv

\* One more verdict moves the failed ones back by one, and none of them out.
LEMMA EvaluateOwed == ASSUME TypeOK, OwedInv, Evaluate PROVE OwedInv'
  <1> SUFFICES ASSUME NEW s \in owed'
               PROVE  \E j \in 0..MaxUnread :
                         /\ j < unread' /\ j + K <= Len(verdicts'[s])
                         /\ \A i \in (j + 1)..(j + K) : verdicts'[s][i] = FALSE
    BY DEF OwedInv
  <1>1. s \in Slos /\ verdicts[s] \in Seq(BOOLEAN) /\ Len(verdicts[s]) <= N
    BY DEF Evaluate, TypeOK
  <1>2. unread \in Nat /\ unread' = unread + 1 /\ unread < MaxUnread
    BY AlertsAssumption DEF Evaluate, TypeOK
  <1> DEFINE new == Latest(verdicts[s], Passing(s))
  <1>3. verdicts'[s] = new
    BY <1>1 DEF Evaluate
  <1>4. /\ new \in Seq(BOOLEAN)
        /\ Len(new) = IF Len(verdicts[s]) + 1 > N THEN N ELSE Len(verdicts[s]) + 1
        /\ \A i \in 2..Len(new) : new[i] = verdicts[s][i - 1]
    BY <1>1, PassingIsBoolean, LatestIs
  <1> HIDE DEF new
  <1>5. CASE s \in owed
    <2>1. PICK j \in 0..MaxUnread :
             /\ j < unread /\ j + K <= Len(verdicts[s])
             /\ \A i \in (j + 1)..(j + K) : verdicts[s][i] = FALSE
      BY <1>5 DEF OwedInv
    <2>2. j + 1 \in 0..MaxUnread /\ j + 1 < unread' /\ (j + 1) + K <= Len(new)
      BY <1>1, <1>2, <1>4, <2>1, AlertsAssumption
    <2>3. ASSUME NEW i \in ((j + 1) + 1)..((j + 1) + K)
          PROVE  new[i] = FALSE
      <3>1. i \in 2..Len(new) /\ i - 1 \in (j + 1)..(j + K)
        BY <1>4, <2>2, AlertsAssumption
      <3> QED BY <1>4, <2>1, <3>1
    <2> QED BY <1>3, <2>2, <2>3
  <1>6. CASE s \notin owed
    <2>1. FailedRunning(new)
      BY <1>3, <1>6 DEF Evaluate
    <2>2. K <= Len(new) /\ \A i \in (0 + 1)..(0 + K) : new[i] = FALSE
      BY <1>4, <2>1, AlertsAssumption DEF FailedRunning
    <2>3. 0 \in 0..MaxUnread /\ 0 < unread'
      BY <1>2, AlertsAssumption
    <2> QED BY <1>3, <2>2, <2>3, AlertsAssumption
  <1> QED BY <1>5, <1>6

\* A breach of K verdicts running cannot slide out of the last N before the alerting
\* worker has read it (alerting/worker.py:207-264, SLO_BREACH_LOOKBACK), as long as
\* it misses no more than N - K evaluations.
THEOREM NoBreachSlips == Spec => []NoBreachForgotten
  <1>1. Init => OwedInv
    BY DEF Init, OwedInv
  <1>2. ASSUME WindowInv, OwedInv, [Next]_vars PROVE OwedInv'
    <2>1. ASSUME UNCHANGED <<verdicts, unread, owed>> PROVE OwedInv'
      BY <1>2, <2>1 DEF OwedInv
    <2>2. ASSUME AcceptRow \/ RejectRow \/ FlushFails PROVE OwedInv'
      BY <2>1, <2>2 DEF AcceptRow, RejectRow, FlushFails
    <2>3. ASSUME NEW T \in SUBSET Traces, Flush(T) PROVE OwedInv'
      BY <2>1, <2>3 DEF Flush
    <2>4. ASSUME NEW t \in Traces, Rebuild(t) PROVE OwedInv'
      BY <2>1, <2>4 DEF Rebuild
    <2>5. ASSUME NEW p \in Parts, Toggle(p) PROVE OwedInv'
      BY <2>1, <2>5 DEF Toggle
    <2>6. ASSUME ReadSpans \/ PollFails \/ Tick PROVE OwedInv'
      BY <2>1, <2>6 DEF ReadSpans, PollFails, Tick
    <2>7. ASSUME UNCHANGED vars PROVE OwedInv'
      BY <2>1, <2>7 DEF vars
    <2> QED BY <1>2, <2>2, <2>3, <2>4, <2>5, <2>6, <2>7, EvaluateOwed, ReadRowsOwed DEF Next, WindowInv
  <1>3. WindowInv /\ OwedInv => NoBreachForgotten
    BY OwedIsBreach DEF WindowInv, NoBreachForgotten
  <1> QED BY WindowInvariance, <1>1, <1>2, <1>3, PTL DEF Spec
=============================================================================
