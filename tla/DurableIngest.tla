--------------------------- MODULE DurableIngest ---------------------------
(***************************************************************************)
(* What the collector promises the SDK about a row, free of files, queues  *)
(* and batches (collector/writer.py:55-65).  A row first becomes durable;  *)
(* only then may the call that submitted it be acknowledged; durable rows  *)
(* are delivered to ClickHouse, each any number of times (at least once,   *)
(* with readers deduplicating); and no step ever makes a durable row       *)
(* undurable again.                                                        *)
(***************************************************************************)
EXTENDS Naturals

CONSTANT Rows

VARIABLES
    acked,      \* rows whose submitter was told "accepted"
    durable,    \* rows that survive a crash of the collector
    copies      \* [Rows -> Nat], how many copies ClickHouse holds

vars == <<acked, durable, copies>>

Init ==
    /\ acked = {}
    /\ durable = {}
    /\ copies = [r \in Rows |-> 0]

\* A row becomes durable.  The acknowledgement goes with it or, when the
\* collector dies in between, is never sent.
Admit(r) ==
    /\ r \notin durable
    /\ durable' = durable \cup {r}
    /\ acked' \in {acked, acked \cup {r}}
    /\ UNCHANGED copies

\* One insert delivers one more copy of each row of a batch of durable rows.
Deliver(batch) ==
    /\ copies' = [r \in Rows |-> IF r \in batch THEN copies[r] + 1 ELSE copies[r]]
    /\ UNCHANGED <<acked, durable>>

Next ==
    \/ \E r \in Rows : Admit(r)
    \/ \E batch \in SUBSET durable : Deliver(batch)

Spec == Init /\ [][Next]_vars
=============================================================================
