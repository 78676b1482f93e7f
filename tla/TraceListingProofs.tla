--------------------------- MODULE TraceListingProofs ---------------------------
(***************************************************************************)
(* The listing skips nothing and repeats nothing, for every number of      *)
(* traces, page size and clock.  What was shown lies at or before the      *)
(* cursor and can only move away from what is still to come; what is       *)
(* steady and was not shown lies after it.                                 *)
(***************************************************************************)
EXTENDS TraceListing, TLAPS

\* While there is a cursor, no trace that was shown comes after it.
ShownInv ==
    cursor # End => \A t \in Traces : times[t] # 0 => t \in Listed /\ ~Past(Key(t), cursor)

\* A steady trace that was not shown comes after the cursor.
SteadyInv ==
    /\ steady \subseteq Listed
    /\ \A t \in steady : times[t] = 0 => cursor # End /\ Past(Key(t), cursor)

ListingInv == TypeOK /\ NoTraceTwice /\ ShownInv /\ SteadyInv

\* Listed traces have a row, and a key to sort by.
LEMMA KeyType ==
    ASSUME TypeOK, NEW t \in Listed
    PROVE  /\ t \in Traces /\ t \in Nat /\ table[t] \in Row
           /\ Key(t) = [at |-> table[t].at, id |-> t]
           /\ Key(t).at \in Times /\ Key(t).at \in Nat /\ Key(t).id = t
  <1>1. t \in Traces /\ table[t] \in Row
    BY DEF Listed, TypeOK
  <1>2. t \in Nat /\ table[t].at \in Times
    BY <1>1, TableAssumption DEF Traces, Row
  <1>3. Times \subseteq Nat
    BY TableAssumption DEF Times
  <1> QED BY <1>1, <1>2, <1>3 DEF Key

\* Times and ids of keys are numbers.
LEMMA KeysAreNumbers ==
    ASSUME NEW k \in [at : {Epoch} \cup Times, id : {0} \cup Traces]
    PROVE  k.at \in Nat /\ k.id \in Nat
  BY TableAssumption DEF Epoch, Times, Traces

\* One page: what the answer shows, and where it leaves the cursor.
LEMMA AnswerStep ==
    ASSUME TypeOK, NEW from, from.at \in Nat, from.id \in Nat,
           NEW before \in [Traces -> 0..1], Answer(from, before), UNCHANGED table,
           \A t \in Traces : before[t] # 0 => t \in Listed /\ ~Past(Key(t), from)
    PROVE  /\ cursor' \in [at : {Epoch} \cup Times, id : {0} \cup Traces]
           /\ times' \in [Traces -> 0..1]
           /\ ShownInv'
           /\ \A t \in Listed : (before[t] # 0 \/ Past(Key(t), from)) =>
                 (times'[t] = 0 => cursor' # End /\ Past(Key(t), cursor'))
  <1> DEFINE rows == {t \in Listed : Past(Key(t), from)}
  <1>1. PICK page \in SUBSET rows, next \in {Key(t) : t \in rows} \cup {End} :
           /\ IsPage(page, rows)
           /\ IsNextCursor(next, page, rows)
           /\ times' = [t \in Traces |-> IF t \in page THEN OneMore(before[t]) ELSE before[t]]
           /\ cursor' = next
    BY DEF Answer
  <1>2. \A t \in rows : t \in Listed /\ t \in Traces /\ Past(Key(t), from) /\ before[t] = 0
    BY DEF Listed
  <1>3. \A t \in Traces : times'[t] = IF t \in page THEN 1 ELSE before[t]
    BY <1>1, <1>2 DEF OneMore
  <1>4. times' \in [Traces -> 0..1]
    BY <1>1, <1>2, <1>3
  <1>5. \A t \in Listed : Key(t).at \in Times /\ Key(t).at \in Nat /\ Key(t).id = t
                          /\ t \in Nat /\ t \in Traces /\ Key(t) \in [at : Times, id : Traces]
    BY KeyType
  <1>6. cursor' \in [at : {Epoch} \cup Times, id : {0} \cup Traces]
    BY <1>1, <1>2, <1>5 DEF End
  <1>7. UNCHANGED <<Listed>> /\ \A t \in Traces : Key(t)' = Key(t)
    BY DEF Listed, Key
  <1>8. CASE page = rows
    <2>1. cursor' = End
      BY <1>1, <1>8 DEF IsNextCursor
    <2>2. ShownInv'
      BY <2>1 DEF ShownInv
    <2>3. \A t \in Listed : (before[t] # 0 \/ Past(Key(t), from)) => times'[t] # 0
      BY <1>3, <1>5, <1>8
    <2> QED BY <1>4, <1>6, <2>2, <2>3
  <1>9. CASE page # rows
    <2>1. PICK last \in page : next = Key(last) /\ \A u \in page : ~Precedes(Key(last), Key(u))
      BY <1>1, <1>9 DEF IsNextCursor
    <2>2. last \in Listed /\ Past(Key(last), from) /\ cursor' = Key(last)
      BY <1>1, <2>1
    <2>3. cursor' # End
      <3>1. Key(last).at # 0
        BY <1>5, <2>2, TableAssumption DEF Times
      <3> QED BY <2>2, <3>1 DEF End, Epoch
    <2>4. ASSUME NEW t \in Traces, times'[t] # 0
          PROVE  t \in Listed /\ ~Past(Key(t), cursor')
      <3>1. CASE t \in page
        <4>1. t \in Listed /\ ~Precedes(Key(last), Key(t))
          BY <2>1, <3>1
        <4> QED BY <1>5, <2>2, <4>1 DEF Precedes, Past
      <3>2. CASE t \notin page
        <4>1. t \in Listed /\ ~Past(Key(t), from)
          BY <1>3, <2>4, <3>2
        <4> QED BY <1>5, <2>2, <4>1 DEF Past
      <3> QED BY <3>1, <3>2
    <2>5. ShownInv'
      BY <1>7, <2>4 DEF ShownInv
    <2>6. ASSUME NEW t \in Listed, before[t] # 0 \/ Past(Key(t), from), times'[t] = 0
          PROVE  Past(Key(t), cursor')
      <3>1. t \in rows \ page
        BY <1>3, <1>5, <2>6
      <3>2. Precedes(Key(last), Key(t))
        BY <1>1, <1>9, <2>1, <3>1 DEF IsPage
      <3> QED BY <1>5, <2>2, <3>2 DEF Precedes, Past
    <2> QED BY <1>4, <1>6, <2>3, <2>5, <2>6
  <1> QED BY <1>8, <1>9

\* The first page starts above every row.
LEMMA FirstPageStep == ASSUME ListingInv, FirstPage PROVE ListingInv'
  <1> DEFINE none == [t \in Traces |-> 0]
  <1>1. TypeOK /\ Answer(Start, none) /\ UNCHANGED table /\ steady' = Listed
    BY DEF ListingInv, FirstPage
  <1>2. Start.at = MaxTime + 1 /\ Start.at \in Nat /\ Start.id \in Nat
    BY TableAssumption DEF Start
  <1>3. none \in [Traces -> 0..1] /\ \A t \in Traces : none[t] = 0
    OBVIOUS
  <1> HIDE DEF none
  <1>4. /\ cursor' \in [at : {Epoch} \cup Times, id : {0} \cup Traces]
        /\ times' \in [Traces -> 0..1]
        /\ ShownInv'
        /\ \A t \in Listed : (none[t] # 0 \/ Past(Key(t), Start)) =>
              (times'[t] = 0 => cursor' # End /\ Past(Key(t), cursor'))
    BY <1>1, <1>2, <1>3, AnswerStep
  <1>5. \A t \in Listed : Past(Key(t), Start)
    BY <1>1, <1>2, KeyType, TableAssumption DEF Past, Times
  <1>6. Listed' = Listed /\ Listed \subseteq Traces /\ \A t \in Traces : Key(t)' = Key(t)
    BY <1>1 DEF Listed, Key
  <1>7. SteadyInv'
    BY <1>1, <1>4, <1>5, <1>6 DEF SteadyInv, Past
  <1>8. TypeOK' /\ NoTraceTwice'
    BY <1>1, <1>4, <1>6 DEF TypeOK, NoTraceTwice, Many
  <1> QED BY <1>4, <1>7, <1>8 DEF ListingInv

\* The next pages start at the cursor.
LEMMA NextPageStep == ASSUME ListingInv, NextPage PROVE ListingInv'
  <1>1. TypeOK /\ Answer(cursor, times) /\ UNCHANGED <<table, steady>> /\ cursor # End
    BY DEF ListingInv, NextPage
  <1>2. cursor.at \in Nat /\ cursor.id \in Nat
    BY <1>1, KeysAreNumbers DEF TypeOK
  <1>3. times \in [Traces -> 0..1]
    BY DEF ListingInv, TypeOK, NoTraceTwice, Many
  <1>4. \A t \in Traces : times[t] # 0 => t \in Listed /\ ~Past(Key(t), cursor)
    BY <1>1 DEF ListingInv, ShownInv
  <1>5. /\ cursor' \in [at : {Epoch} \cup Times, id : {0} \cup Traces]
        /\ times' \in [Traces -> 0..1]
        /\ ShownInv'
        /\ \A t \in Listed : (times[t] # 0 \/ Past(Key(t), cursor)) =>
              (times'[t] = 0 => cursor' # End /\ Past(Key(t), cursor'))
    BY <1>1, <1>2, <1>3, <1>4, AnswerStep
  <1>6. Listed' = Listed /\ Listed \subseteq Traces /\ \A t \in Traces : Key(t)' = Key(t)
    BY <1>1 DEF Listed, Key
  <1>7. SteadyInv'
    BY <1>1, <1>5, <1>6 DEF SteadyInv, ListingInv, Past
  <1>8. TypeOK' /\ NoTraceTwice'
    BY <1>1, <1>5 DEF TypeOK, NoTraceTwice, Many
  <1> QED BY <1>5, <1>7, <1>8 DEF ListingInv

\* A rebuilt trace moves towards the start of the listing, away from the cursor.
LEMMA RebuildStep == ASSUME ListingInv, NEW r \in Traces, Rebuild(r) PROVE ListingInv'
  <1>1. PICK new \in Successors(table[r]) : table' = [table EXCEPT ![r] = new]
    BY DEF Rebuild, Replace
  <1>2. UNCHANGED <<cursor, times>> /\ steady' = {u \in steady : table'[u] = table[u]}
    BY DEF Rebuild
  <1>3. new \in Row /\ (table[r] # NoRow => table[r].at <= new.at) /\ new # NoRow
    <2>1. new \in Row /\ (table[r] # NoRow => table[r].at <= new.at)
      BY <1>1 DEF Successors
    <2>2. new.at # Epoch
      BY <2>1, TableAssumption DEF Row, Times, Epoch
    <2> QED BY <2>1, <2>2 DEF NoRow
  <1>4. TypeOK'
    BY <1>1, <1>2, <1>3 DEF ListingInv, TypeOK
  <1>5. NoTraceTwice'
    BY <1>2 DEF ListingInv, NoTraceTwice
  <1>6. Listed \subseteq Listed'
    BY <1>1, <1>3 DEF ListingInv, TypeOK, Listed
  <1>7. ShownInv'
    <2> SUFFICES ASSUME cursor # End, NEW t \in Traces, times[t] # 0
                 PROVE  t \in Listed' /\ ~Past(Key(t)', cursor)
      BY <1>2 DEF ShownInv, Past
    <2>1. t \in Listed /\ ~Past(Key(t), cursor)
      BY DEF ListingInv, ShownInv
    <2>2. Key(t).at \in Nat /\ Key(t).id = t /\ Key(t).at = table[t].at /\ table[t] # NoRow
      BY <2>1, KeyType DEF ListingInv, Listed, Key
    <2>3. Key(t)'.at = table'[t].at /\ Key(t)'.id = t
      BY DEF Key
    <2>4. table'[t].at \in Nat /\ table[t].at <= table'[t].at
      BY <1>1, <1>3, <2>2, TableAssumption DEF ListingInv, TypeOK, Row, Times
    <2>5. cursor.at \in Nat /\ cursor.id \in Nat
      BY KeysAreNumbers DEF ListingInv, TypeOK
    <2> QED BY <1>6, <2>1, <2>2, <2>3, <2>4, <2>5, TableAssumption DEF Past, Traces
  <1>8. SteadyInv'
    <2>1. \A t \in steady' : t \in steady /\ Key(t)' = Key(t)
      BY <1>2 DEF Key
    <2> QED BY <1>2, <1>6, <2>1 DEF ListingInv, SteadyInv, Past
  <1> QED BY <1>4, <1>5, <1>7, <1>8 DEF ListingInv

\* The listing's invariant holds in every behaviour.
THEOREM ListingInvariance == Spec => []ListingInv
  <1>1. Init => ListingInv
    <2> SUFFICES ASSUME Init PROVE ListingInv
      OBVIOUS
    <2>1. TypeOK
      BY DEF Init, TypeOK, TableInit, End, Many
    <2> QED BY <2>1 DEF Init, ListingInv, NoTraceTwice, ShownInv, SteadyInv
  <1>2. ASSUME ListingInv, [Next]_vars PROVE ListingInv'
    <2>1. ASSUME UNCHANGED vars PROVE ListingInv'
      BY <1>2, <2>1 DEF ListingInv, TypeOK, NoTraceTwice, ShownInv, SteadyInv, Listed, Key, Past,
                        vars, listingVars
    <2> QED BY <1>2, <2>1, FirstPageStep, NextPageStep, RebuildStep DEF Next
  <1> QED BY <1>1, <1>2, PTL DEF Spec

\* A cursor is the key of a row, or none.
THEOREM TypeCorrect == Spec => []TypeOK
  <1>1. ListingInv => TypeOK
    BY DEF ListingInv
  <1> QED BY ListingInvariance, <1>1, PTL

\* The tuple comparison of the cursor (api/main.py:174-177) shows every steady trace.
THEOREM NoneSkipped == Spec => []NothingSkipped
  <1>1. ListingInv => NothingSkipped
    BY DEF ListingInv, SteadyInv, NothingSkipped
  <1> QED BY ListingInvariance, <1>1, PTL

\* And none twice, moving or not.
THEOREM NoneTwice == Spec => []NoTraceTwice
  <1>1. ListingInv => NoTraceTwice
    BY DEF ListingInv
  <1> QED BY ListingInvariance, <1>1, PTL
=============================================================================
