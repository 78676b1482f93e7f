----------------------------- MODULE TraceTable -----------------------------
(***************************************************************************)
(* What the readers of reconstructed_traces may count on: each trace has   *)
(* at most one visible row, which is only ever replaced by one that is no  *)
(* older, misses no span of it, and remembers when the trace was first     *)
(* rebuilt.  EngineWorker implements it; TraceListing and SloAlerts build  *)
(* on it.                                                                  *)
(***************************************************************************)
EXTENDS Naturals

CONSTANTS
    NumTraces,      \* traces, numbered as their ids compare
    NumSpans,       \* spans of a trace, numbered in the order they ran
    MaxTime         \* bound: where the clock stops, in milliseconds

ASSUME TableAssumption == NumTraces \in Nat /\ NumSpans \in Nat /\ MaxTime \in Nat \ {0}

Traces == 1..NumTraces
Spans == 1..NumSpans
Epoch == 0                      \* first_reconstructed_at of rows from before the column
Times == 1..MaxTime
Row == [at : Times, first : {Epoch} \cup Times, spans : SUBSET Spans]
NoRow == [at |-> Epoch, first |-> Epoch, spans |-> {}]

VARIABLE table                  \* the row of each trace, read with FINAL

\* When a row's trace was first rebuilt; rows from before the column
\* first_reconstructed_at lend the only time they have.
FirstTime(r) == IF r.first = Epoch THEN r.at ELSE r.first

\* The rows that may follow the one the trace has.
Successors(old) ==
    {new \in Row :
        IF old = NoRow THEN new.first = new.at
        ELSE /\ old.at <= new.at
             /\ old.spans \subseteq new.spans
             /\ new.first = FirstTime(old)}

TableInit == table \in [Traces -> {NoRow} \cup {r \in Row : r.first = Epoch}]

Replace(t) == \E new \in Successors(table[t]) : table' = [table EXCEPT ![t] = new]

TableNext == \E t \in Traces : Replace(t)

TableSpec == TableInit /\ [][TableNext]_table
=============================================================================
