---------------------------- MODULE TraceListing ----------------------------
(***************************************************************************)
(* A client pages through the traces (list_traces in api/main.py, with the *)
(* cursor of api/cursor.py) while the engine goes on replacing their rows  *)
(* (TraceTable), which moves a trace to the top of the listing.            *)
(***************************************************************************)
EXTENDS TraceTable, FiniteSets

CONSTANT Limit                  \* the page size

ASSUME ListingAssumption == Limit \in Nat \ {0}

VARIABLES
    cursor,     \* next_cursor of the last answer: a row's key, or End for null
    times,      \* how often the listing has shown each trace
    steady      \* traces that had a row at the first page and have it unchanged

listingVars == <<cursor, times, steady>>
vars == <<table, listingVars>>

Start == [at |-> MaxTime + 1, id |-> 0]     \* no cursor: every row comes after it
End == [at |-> Epoch, id |-> 0]             \* next_cursor: null
Many == 2                                   \* shown more than once

Init ==
    /\ TableInit
    /\ cursor = End
    /\ times = [t \in Traces |-> 0]
    /\ steady = {}

-----------------------------------------------------------------------------
(* list_traces                                                              *)

Listed == {t \in Traces : table[t] # NoRow}

\* What the query groups and sorts by: max(reconstructed_at) and the trace id.
Key(t) == [at |-> table[t].at, id |-> t]

\* ORDER BY latest_reconstructed_at DESC, trace_id DESC.
Precedes(a, b) == b.at < a.at \/ (b.at = a.at /\ b.id < a.id)

\* Mutant of Past: the cursor has no tie-breaker.
PastByTime(a, from) == a.at < from.at

\* Mutant of Past: the row the cursor was made from is in the next page again.
PastOrAt(a, from) == a.at < from.at \/ (a.at = from.at /\ a.id <= from.id)

\* The WHERE of a cursor: (latest_reconstructed_at, trace_id) < (ts, trace_id).
Past(a, from) == a.at < from.at \/ (a.at = from.at /\ a.id < from.id)

\* The page is the newest Limit of the rows.
IsPage(page, rows) ==
    IF Cardinality(rows) <= Limit THEN page = rows
    ELSE /\ Cardinality(page) = Limit
         /\ \A t \in page, u \in rows \ page : Precedes(Key(t), Key(u))

\* One row more than the limit is read to know whether there are more pages; the
\* cursor is the last row that is kept.
IsNextCursor(next, page, rows) ==
    IF page = rows THEN next = End
    ELSE \E t \in page : next = Key(t) /\ \A u \in page : ~Precedes(Key(t), Key(u))

OneMore(n) == IF n = 0 THEN 1 ELSE Many

Answer(from, before) ==
    LET rows == {t \in Listed : Past(Key(t), from)}
    IN  \E page \in SUBSET rows, next \in {Key(t) : t \in rows} \cup {End} :
            /\ IsPage(page, rows)
            /\ IsNextCursor(next, page, rows)
            /\ times' = [t \in Traces |-> IF t \in page THEN OneMore(before[t]) ELSE before[t]]
            /\ cursor' = next

FirstPage ==
    /\ cursor = End
    /\ Answer(Start, [t \in Traces |-> 0])
    /\ steady' = Listed
    /\ UNCHANGED table

NextPage ==
    /\ cursor # End
    /\ Answer(cursor, times)
    /\ UNCHANGED <<table, steady>>

-----------------------------------------------------------------------------

Rebuild(t) ==
    /\ Replace(t)
    /\ steady' = {u \in steady : table'[u] = table[u]}
    /\ UNCHANGED <<cursor, times>>

Next == FirstPage \/ NextPage \/ \E t \in Traces : Rebuild(t)

\* A client that began goes on; the engine need not.
Spec == Init /\ [][Next]_vars /\ WF_vars(NextPage)

-----------------------------------------------------------------------------
(* Properties                                                               *)

\* A cursor is the key of a row, or none.
TypeOK ==
    /\ table \in [Traces -> {NoRow} \cup Row]
    /\ cursor \in [at : {Epoch} \cup Times, id : {0} \cup Traces]
    /\ times \in [Traces -> 0..Many]
    /\ steady \subseteq Traces

\* A client that pages through to the end is shown every trace that was there
\* when it began and that the engine has not touched since, also among traces
\* rebuilt in the same millisecond.  (A trace that is rebuilt meanwhile moves
\* before the cursor, and is shown by the next listing.)
NothingSkipped == cursor = End => \A t \in steady : times[t] # 0

\* No listing shows a trace twice, though traces move while it goes on: they only
\* ever move towards its start.
NoTraceTwice == \A t \in Traces : times[t] <= 1

\* Paging ends however busy the engine is.
ListingEnds == cursor # End ~> cursor = End
=============================================================================
