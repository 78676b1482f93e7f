------------------------- MODULE BatchWriterProofs -------------------------
(***************************************************************************)
(* Proofs about BatchWriter for every number of rows, queue capacity,      *)
(* batch size and number of faults.                                        *)
(*                                                                         *)
(* No accepted row is lost because a file is removed only for a row that   *)
(* was stored; that holds because the rows being unlinked are those of the *)
(* last insert, which needs: memory holds each row once, every row in      *)
(* memory has its file, and a new submission takes a number never used.    *)
(* IInv is the conjunction of these facts.                                 *)
(***************************************************************************)
EXTENDS BatchWriter, DataLemmas, TLAPS

\* Submission numbers not handed out yet are unknown everywhere.
OnlySubmitted ==
    /\ acked \subseteq 1..submitted
    /\ wal \subseteq 1..submitted
    /\ Stored \subseteq 1..submitted

\* What each phase of _run says of its batch.
PhaseInv ==
    /\ phase = "down" => queue = <<>> /\ buf = <<>> /\ ~stopped
    /\ phase = "collect" => Len(buf) < BATCH_SIZE
    /\ phase \in {"insert", "applied", "unlink"} => buf # <<>>
    /\ phase = "done" => buf = <<>>

\* The rows of an executed insert are in ClickHouse.
FlushedRowsStored == phase \in {"applied", "unlink"} => Range(buf) \subseteq Stored

IInv ==
    /\ TypeOK
    /\ OnlySubmitted
    /\ PhaseInv
    /\ MemoryBackedByWal
    /\ FlushedRowsStored
    /\ NoAcceptedRowLost

\* A file still on disk was delivered by no insert that a fault did not spoil,
\* except the insert whose files are being removed right now.
CopiesInv ==
    /\ DuplicatesNeedFaults
    /\ \A r \in wal :
          \/ copies[r] <= faults
          \/ phase \in {"applied", "unlink"} /\ dbUp /\ r \in Range(buf)

-----------------------------------------------------------------------------
(* The startup replay.                                                      *)

\* The replay of Start lists distinct files of the WAL.
LEMMA ReplayFacts ==
  ASSUME NEW n \in 0..QUEUE_MAX, NEW q \in [1..n -> wal], ReplayOrder(q),
         wal \subseteq Rows
  PROVE  /\ q \in Seq(Rows) /\ Len(q) = n
         /\ IsInjective(q)
         /\ Range(q) \subseteq wal
  <1>1. n \in Nat
    BY ConstantsAssumption
  <1>2. q \in Seq(Rows) /\ Len(q) = n /\ DOMAIN q = 1..n
    BY <1>1
  <1>3. Range(q) \subseteq wal
    BY DEF Range
  <1>4. IsInjective(q)
    <2> SUFFICES ASSUME NEW a \in DOMAIN q, NEW b \in DOMAIN q, q[a] = q[b] PROVE a = b
      BY DEF IsInjective
    <2>1. q[a] \in Nat /\ q[b] \in Nat
      <3>1. q[a] \in wal /\ q[b] \in wal
        BY <1>2
      <3>2. Rows \subseteq Nat
        BY ConstantsAssumption DEF Rows
      <3> QED BY <3>1, <3>2
    <2>2. ~(a < b) /\ ~(b < a)
      BY <2>1 DEF ReplayOrder
    <2> QED BY <1>1, <2>2
  <1> QED BY <1>2, <1>3, <1>4

-----------------------------------------------------------------------------
(* The inductive invariant.                                                 *)

\* Nothing is submitted, on disk or in memory at the beginning.
LEMMA InitIInv == Init => IInv
  <1> SUFFICES ASSUME Init PROVE IInv
    OBVIOUS
  <1> USE DEF Init
  <1>1. TypeOK
    <2>1. <<>> \in Seq(Rows) /\ Len(<<>>) = 0
      OBVIOUS
    <2>2. metrics \in [Counters -> Nat]
      BY DEF ZeroMetrics
    <2>3. submitted \in 0..MaxRows /\ faults \in 0..MaxFaults
      BY ConstantsAssumption
    <2>4. 0 <= QUEUE_MAX /\ 0 <= BATCH_SIZE
      BY ConstantsAssumption
    <2>5. copies \in [Rows -> Nat] /\ acked \subseteq Rows /\ wal \subseteq Rows
          /\ phase \in Phases /\ stopped \in BOOLEAN /\ dbUp \in BOOLEAN
      BY DEF Phases
    <2> QED
      BY <2>1, <2>2, <2>3, <2>4, <2>5 DEF TypeOK
  <1>2. Stored = {}
    BY DEF Stored
  <1> QED
    BY <1>1, <1>2, EmptyFacts DEF IInv, OnlySubmitted, PhaseInv, MemoryBackedByWal,
       InMemory, FlushedRowsStored, NoAcceptedRowLost

\* A submission takes the number after the last one, which names no file, no
\* row in memory and no stored row.
LEMMA FreshRow ==
  ASSUME IInv, NewSubmission
  PROVE  /\ submitted' = submitted + 1 /\ submitted' \in 1..submitted' /\ submitted' \in Rows /\ submitted' \in 0..MaxRows
         /\ submitted' \notin wal /\ submitted' \notin acked
         /\ submitted' \notin Stored /\ submitted' \notin InMemory
         /\ 1..submitted \subseteq 1..submitted'
  <1>1. submitted \in Nat /\ submitted' = submitted + 1 /\ submitted' <= MaxRows
    BY ConstantsAssumption DEF IInv, TypeOK, NewSubmission
  <1>2. submitted' \notin 1..submitted
    BY <1>1
  <1> QED
    BY <1>1, <1>2, ConstantsAssumption
    DEF IInv, OnlySubmitted, MemoryBackedByWal, Rows

\* Counters stay numbers.
LEMMA CountType ==
  ASSUME NEW delta, metrics \in [Counters -> Nat],
         \A c \in DOMAIN delta : delta[c] \in Nat, Count(delta)
  PROVE  metrics' \in [Counters -> Nat]
  <1>1. \A c \in Counters : metrics[c] + (IF c \in DOMAIN delta THEN delta[c] ELSE 0) \in Nat
    OBVIOUS
  <1> QED BY <1>1 DEF Count

\* SubmitRejected leaves every row where it is.
LEMMA SubmitRejectedIInv == IInv /\ SubmitRejected => IInv'
  <1> SUFFICES ASSUME IInv, SubmitRejected PROVE IInv'
    OBVIOUS
  <1>1. NewSubmission /\ Count([rejected |-> 1])
        /\ UNCHANGED <<acked, wal, queue, buf, phase, stopped, copies, dbUp, faults>>
    BY DEF SubmitRejected
  <1>2. TypeOK'
    <2>1. metrics' \in [Counters -> Nat]
      BY <1>1, CountType DEF IInv, TypeOK
    <2> QED BY <1>1, <2>1, FreshRow DEF IInv, TypeOK
  <1>3. OnlySubmitted'
    BY <1>1, FreshRow DEF IInv, OnlySubmitted, Stored
  <1> QED
    BY <1>1, <1>2, <1>3 DEF IInv, PhaseInv, MemoryBackedByWal, InMemory,
       FlushedRowsStored, NoAcceptedRowLost, Stored

\* An accepted row gets its file before it enters the queue.
LEMMA SubmitQueuedIInv == IInv /\ SubmitQueued => IInv'
  <1> SUFFICES ASSUME IInv, SubmitQueued PROVE IInv'
    OBVIOUS
  <1>1. /\ NewSubmission
        /\ wal' = wal \cup {submitted'} /\ acked' = acked \cup {submitted'}
        /\ Len(queue) < QUEUE_MAX
        /\ queue' = Append(queue, submitted') /\ Count([accepted |-> 1])
        /\ UNCHANGED <<buf, phase, stopped, copies, dbUp, faults>>
    BY DEF SubmitQueued, Accept
  <1>2. /\ queue' \in Seq(Rows) /\ Len(queue') = Len(queue) + 1
        /\ Range(queue') = Range(queue) \cup {submitted'}
        /\ IsInjective(queue')
    BY <1>1, FreshRow, AppendFacts DEF IInv, TypeOK, MemoryBackedByWal, InMemory
  <1>3. TypeOK'
    <2>1. Len(queue') <= QUEUE_MAX
      BY <1>1, <1>2, ConstantsAssumption DEF IInv, TypeOK
    <2>2. metrics' \in [Counters -> Nat]
      BY <1>1, CountType DEF IInv, TypeOK
    <2> QED
      BY <1>1, <1>2, <2>1, <2>2, FreshRow DEF IInv, TypeOK
  <1>4. OnlySubmitted'
    BY <1>1, FreshRow DEF IInv, OnlySubmitted, Stored, TypeOK
  <1>5. PhaseInv'
    BY <1>1 DEF IInv, PhaseInv, NewSubmission, Serving
  <1>6. MemoryBackedByWal'
    BY <1>1, <1>2, FreshRow DEF IInv, MemoryBackedByWal, InMemory
  <1> QED
    BY <1>1, <1>3, <1>4, <1>5, <1>6 DEF IInv, FlushedRowsStored, NoAcceptedRowLost, Stored

\* A row that met a full queue is on disk only.
LEMMA SubmitQueueFullIInv == IInv /\ SubmitQueueFull => IInv'
  <1> SUFFICES ASSUME IInv, SubmitQueueFull PROVE IInv'
    OBVIOUS
  <1>1. /\ NewSubmission
        /\ wal' = wal \cup {submitted'} /\ acked' = acked \cup {submitted'}
        /\ Count([accepted |-> 1, queue_full |-> 1])
        /\ UNCHANGED <<queue, buf, phase, stopped, copies, dbUp, faults>>
    BY DEF SubmitQueueFull, Accept
  <1>2. metrics' \in [Counters -> Nat]
    <2> DEFINE d == [accepted |-> 1, queue_full |-> 1]
    <2>1. \A c \in DOMAIN d : d[c] \in Nat
      OBVIOUS
    <2> QED BY <1>1, <2>1, CountType DEF IInv, TypeOK
  <1>3. TypeOK'
    BY <1>1, <1>2, FreshRow DEF IInv, TypeOK
  <1>4. OnlySubmitted'
    BY <1>1, FreshRow DEF IInv, OnlySubmitted, Stored, TypeOK
  <1> QED
    BY <1>1, <1>3, <1>4 DEF IInv, PhaseInv, MemoryBackedByWal, InMemory,
       FlushedRowsStored, NoAcceptedRowLost, Stored

\* What AfterWake allows a loop that woke up with batch b.
LEMMA AfterWakeFacts ==
  ASSUME NEW b \in Seq(Rows), NEW p \in AfterWake(b), Len(b) <= BATCH_SIZE,
         stopped \in BOOLEAN
  PROVE  /\ p \in Phases \ {"down", "applied", "unlink"}
         /\ p = "collect" => Len(b) < BATCH_SIZE
         /\ p = "insert" => b # <<>> \/ ~stopped
         /\ p = "done" => b = <<>>
  <1>1. Len(b) \in Nat /\ BATCH_SIZE \in Nat \ {0}
    BY ConstantsAssumption
  <1> QED BY <1>1 DEF AfterWake, Phases

\* Get moves the head of the queue to the end of the batch.
LEMMA GetIInv == IInv /\ Get => IInv'
  <1> SUFFICES ASSUME IInv, Get PROVE IInv'
    OBVIOUS
  <1> DEFINE r == Head(queue)
  <1>1. /\ phase = "collect" /\ queue # <<>>
        /\ buf' = Append(buf, r) /\ queue' = Tail(queue)
        /\ phase' \in AfterWake(buf')
        /\ UNCHANGED <<submitted, acked, wal, stopped, copies, dbUp, metrics, faults>>
    BY DEF Get
  <1>2. /\ queue' \in Seq(Rows) /\ r \in Rows /\ Len(queue') = Len(queue) - 1
        /\ r \in Range(queue) /\ Range(queue) = Range(queue') \cup {r}
        /\ IsInjective(queue') /\ r \notin Range(queue')
    BY <1>1, TailFacts DEF IInv, TypeOK, MemoryBackedByWal
  <1>3. /\ buf' \in Seq(Rows) /\ Len(buf') = Len(buf) + 1 /\ buf' # <<>>
        /\ Range(buf') = Range(buf) \cup {r}
        /\ IsInjective(buf')
    BY <1>1, <1>2, AppendFacts DEF IInv, TypeOK, MemoryBackedByWal
  <1>4. Len(buf') <= BATCH_SIZE /\ Len(queue') <= QUEUE_MAX
    BY <1>1, <1>2, <1>3, ConstantsAssumption DEF IInv, TypeOK, PhaseInv
  <1>5. /\ phase' \in Phases \ {"down", "applied", "unlink", "done"}
        /\ phase' = "collect" => Len(buf') < BATCH_SIZE
    BY <1>1, <1>3, <1>4, AfterWakeFacts DEF IInv, TypeOK
  <1>6. TypeOK'
    BY <1>1, <1>2, <1>3, <1>4, <1>5 DEF IInv, TypeOK
  <1>7. PhaseInv'
    BY <1>3, <1>5 DEF PhaseInv
  <1>8. MemoryBackedByWal'
    BY <1>1, <1>2, <1>3 DEF IInv, MemoryBackedByWal, InMemory
  <1> QED
    BY <1>1, <1>5, <1>6, <1>7, <1>8 DEF IInv, OnlySubmitted, FlushedRowsStored,
       NoAcceptedRowLost, Stored

\* Timeout decides only where _run goes on.
LEMMA TimeoutIInv == IInv /\ Timeout => IInv'
  <1> SUFFICES ASSUME IInv, Timeout PROVE IInv'
    OBVIOUS
  <1>1. /\ phase = "collect" /\ (buf # <<>> \/ stopped)
        /\ phase' \in AfterWake(buf) /\ phase' # "collect"
        /\ UNCHANGED <<submitted, acked, wal, queue, buf, stopped, copies, dbUp,
                       metrics, faults>>
    BY DEF Timeout
  <1>2. /\ phase' \in Phases \ {"down", "collect", "applied", "unlink"}
        /\ phase' = "insert" => buf # <<>>
        /\ phase' = "done" => buf = <<>>
    BY <1>1, AfterWakeFacts DEF IInv, TypeOK
  <1> QED
    BY <1>1, <1>2 DEF IInv, TypeOK, OnlySubmitted, PhaseInv, MemoryBackedByWal,
       InMemory, FlushedRowsStored, NoAcceptedRowLost, Stored

\* The effect of an executed insert on the table.
LEMMA InsertFacts ==
  ASSUME IInv, InsertApplied
  PROVE  /\ copies' \in [Rows -> Nat]
         /\ Stored' = Stored \cup Range(buf)
  <1>1. /\ copies' = [r \in Rows |-> IF r \in Range(buf) THEN copies[r] + 1 ELSE copies[r]]
        /\ copies \in [Rows -> Nat]
        /\ Range(buf) \subseteq Rows
    BY DEF InsertApplied, IInv, TypeOK, MemoryBackedByWal, InMemory
  <1> QED BY <1>1 DEF Stored

\* An executed insert adds rows that have a file, hence submitted rows.
LEMMA InsertAppliedIInv == IInv /\ InsertApplied => IInv'
  <1> SUFFICES ASSUME IInv, InsertApplied PROVE IInv'
    OBVIOUS
  <1>1. /\ phase = "insert" /\ phase' = "applied"
        /\ UNCHANGED <<submitted, acked, wal, queue, buf, stopped, dbUp, metrics, faults>>
    BY DEF InsertApplied
  <1>2. TypeOK'
    BY <1>1, InsertFacts DEF IInv, TypeOK, Phases
  <1>3. OnlySubmitted'
    BY <1>1, InsertFacts DEF IInv, OnlySubmitted, MemoryBackedByWal, InMemory
  <1> QED
    BY <1>1, <1>2, <1>3, InsertFacts DEF IInv, PhaseInv, MemoryBackedByWal, InMemory,
       FlushedRowsStored, NoAcceptedRowLost

\* The answer of an insert changes counters only.
LEMMA InsertReturnsIInv == IInv /\ InsertReturns => IInv'
  <1> SUFFICES ASSUME IInv, InsertReturns PROVE IInv'
    OBVIOUS
  <1>1. /\ phase = "applied" /\ phase' = "unlink"
        /\ Count([flush_ok |-> 1, rows_flushed |-> Len(buf)])
        /\ UNCHANGED <<submitted, acked, wal, queue, buf, stopped, copies, dbUp, faults>>
    BY DEF InsertReturns
  <1>2. metrics' \in [Counters -> Nat]
    <2> DEFINE d == [flush_ok |-> 1, rows_flushed |-> Len(buf)]
    <2>1. Len(buf) \in Nat
      BY DEF IInv, TypeOK
    <2>2. \A c \in DOMAIN d : d[c] \in Nat
      BY <2>1
    <2> QED BY <1>1, <2>2, CountType DEF IInv, TypeOK
  <1> QED
    BY <1>1, <1>2 DEF IInv, TypeOK, Phases, OnlySubmitted, PhaseInv, MemoryBackedByWal,
       InMemory, FlushedRowsStored, NoAcceptedRowLost, Stored

\* A failed flush forgets the batch; its files stay.
LEMMA InsertFailsIInv == IInv /\ InsertFails => IInv'
  <1> SUFFICES ASSUME IInv, InsertFails PROVE IInv'
    OBVIOUS
  <1>1. /\ phase' = AfterFlush /\ buf' = <<>> /\ Count([flush_failed |-> 1])
        /\ UNCHANGED <<submitted, acked, wal, queue, stopped, copies, dbUp, faults>>
    BY DEF InsertFails
  <1>2. phase' \in {"collect", "done"}
    BY <1>1 DEF AfterFlush
  <1>3. metrics' \in [Counters -> Nat]
    BY <1>1, CountType DEF IInv, TypeOK
  <1>4. <<>> \in Seq(Rows) /\ Len(<<>>) = 0 /\ BATCH_SIZE \in Nat \ {0}
    BY ConstantsAssumption
  <1> QED
    BY <1>1, <1>2, <1>3, <1>4, EmptyFacts DEF IInv, TypeOK, Phases, OnlySubmitted, PhaseInv,
       MemoryBackedByWal, InMemory, FlushedRowsStored, NoAcceptedRowLost, Stored

\* A removed file is that of a stored row which memory holds no second time.
LEMMA UnlinkNextIInv == IInv /\ UnlinkNext => IInv'
  <1> SUFFICES ASSUME IInv, UnlinkNext PROVE IInv'
    OBVIOUS
  <1> DEFINE r == Head(buf)
  <1>1. /\ phase = "unlink" /\ buf' = Tail(buf)
        /\ phase' = IF Len(buf) = 1 THEN AfterFlush ELSE "unlink"
        /\ UNCHANGED <<submitted, acked, queue, stopped, copies, dbUp, metrics>>
        /\ \/ wal' = wal \ {r} /\ faults' = faults
           \/ wal' = wal /\ faults < MaxFaults /\ faults' = faults + 1
    BY DEF UnlinkNext, Fault
  <1>2. /\ buf # <<>>
        /\ buf' \in Seq(Rows) /\ Len(buf') = Len(buf) - 1
        /\ r \in Range(buf) /\ Range(buf) = Range(buf') \cup {r}
        /\ IsInjective(buf') /\ r \notin Range(buf')
    BY <1>1, TailFacts DEF IInv, TypeOK, PhaseInv, MemoryBackedByWal
  <1>3. Len(buf) \in Nat /\ Len(buf) <= BATCH_SIZE /\ BATCH_SIZE \in Nat \ {0}
    BY ConstantsAssumption DEF IInv, TypeOK
  <1>4. /\ phase' \in {"unlink", "collect", "done"}
        /\ phase' = "unlink" => buf' # <<>>
        /\ phase' # "unlink" => buf' = <<>> /\ Len(buf') = 0
    BY <1>1, <1>2, <1>3 DEF AfterFlush
  <1>5. TypeOK'
    <2>1. faults' \in 0..MaxFaults /\ Len(buf') <= BATCH_SIZE
      BY <1>1, <1>2, <1>3, ConstantsAssumption DEF IInv, TypeOK
    <2>2. phase' \in Phases /\ wal' \subseteq Rows
      BY <1>1, <1>4 DEF IInv, TypeOK, Phases
    <2> QED BY <1>1, <1>2, <2>1, <2>2 DEF IInv, TypeOK
  <1>6. OnlySubmitted' /\ PhaseInv'
    <2>1. OnlySubmitted'
      BY <1>1 DEF IInv, OnlySubmitted, Stored
    <2>2. PhaseInv'
      BY <1>3, <1>4 DEF PhaseInv
    <2> QED BY <2>1, <2>2
  <1>7. r \in Stored /\ r \notin Range(queue)
    BY <1>1, <1>2 DEF IInv, FlushedRowsStored, MemoryBackedByWal
  <1>8. MemoryBackedByWal'
    BY <1>1, <1>2, <1>7 DEF IInv, MemoryBackedByWal, InMemory
  <1>9. FlushedRowsStored' /\ NoAcceptedRowLost'
    BY <1>1, <1>2, <1>7 DEF IInv, FlushedRowsStored, NoAcceptedRowLost, Stored
  <1> QED BY <1>5, <1>6, <1>8, <1>9 DEF IInv

\* Start fills an empty memory with files of the WAL.
LEMMA StartIInv == IInv /\ Start => IInv'
  <1> SUFFICES ASSUME IInv, Start PROVE IInv'
    OBVIOUS
  <1>1. PICK n \in 0..QUEUE_MAX : \E q \in [1..n -> wal] :
          /\ ReplayOrder(q)
          /\ queue' = q
          /\ metrics' = [ZeroMetrics EXCEPT !["replayed"] = n]
    BY DEF Start
  <1>2. /\ queue' \in [1..n -> wal] /\ ReplayOrder(queue')
        /\ metrics' = [ZeroMetrics EXCEPT !["replayed"] = n]
    BY <1>1
  <1>3. /\ phase = "down" /\ phase' = "collect"
        /\ UNCHANGED <<submitted, acked, wal, buf, stopped, copies, dbUp, faults>>
    BY DEF Start
  <1>4. n \in Nat /\ n <= QUEUE_MAX
    BY ConstantsAssumption
  <1>5. /\ queue' \in Seq(Rows) /\ Len(queue') = n
        /\ IsInjective(queue') /\ Range(queue') \subseteq wal
    BY <1>2, ReplayFacts DEF IInv, TypeOK
  <1>6. metrics' \in [Counters -> Nat]
    BY <1>2, <1>4 DEF ZeroMetrics
  <1>7. TypeOK'
    BY <1>3, <1>4, <1>5, <1>6 DEF IInv, TypeOK, Phases
  <1>8. buf = <<>> /\ Len(buf) = 0 /\ 0 < BATCH_SIZE
    BY <1>3, ConstantsAssumption DEF IInv, PhaseInv
  <1>9. PhaseInv' /\ OnlySubmitted'
    BY <1>3, <1>8 DEF IInv, PhaseInv, OnlySubmitted, Stored
  <1>10. MemoryBackedByWal'
    BY <1>3, <1>5, <1>8, EmptyFacts DEF IInv, MemoryBackedByWal, InMemory
  <1> QED
    BY <1>3, <1>7, <1>9, <1>10 DEF IInv, FlushedRowsStored, NoAcceptedRowLost, Stored

\* Losing the memory of the process loses no row: what it held is on disk.
LEMMA LoseMemoryIInv ==
  ASSUME IInv, LoseMemory,
         submitted' \in 0..MaxRows, faults' \in 0..MaxFaults,
         wal' \subseteq Rows, wal \subseteq wal', wal' \subseteq 1..submitted',
         1..submitted \subseteq 1..submitted',
         UNCHANGED <<acked, copies, dbUp>>
  PROVE  IInv'
  <1>1. /\ queue' = <<>> /\ buf' = <<>> /\ stopped' = FALSE
        /\ metrics' = ZeroMetrics /\ phase' = "down"
    BY DEF LoseMemory
  <1>2. <<>> \in Seq(Rows) /\ Len(<<>>) = 0 /\ 0 <= QUEUE_MAX /\ 0 <= BATCH_SIZE
    BY ConstantsAssumption
  <1>3. metrics' \in [Counters -> Nat]
    BY <1>1 DEF ZeroMetrics
  <1>4. TypeOK'
    BY <1>1, <1>2, <1>3 DEF IInv, TypeOK, Phases
  <1> QED
    BY <1>1, <1>4, EmptyFacts DEF IInv, OnlySubmitted, PhaseInv, MemoryBackedByWal,
       InMemory, FlushedRowsStored, NoAcceptedRowLost, Stored

\* The rest of the process's life.
LEMMA LifeIInv == IInv /\ (Stop \/ Exit \/ Crash \/ CrashInSubmit) => IInv'
  <1> SUFFICES ASSUME IInv, Stop \/ Exit \/ Crash \/ CrashInSubmit PROVE IInv'
    OBVIOUS
  <1>1. CASE Stop
    BY <1>1 DEF Stop, IInv, TypeOK, OnlySubmitted, PhaseInv, MemoryBackedByWal,
       InMemory, FlushedRowsStored, NoAcceptedRowLost, Stored
  <1>2. CASE Exit
    BY <1>2, LoseMemoryIInv DEF Exit, IInv, TypeOK, OnlySubmitted
  <1>3. CASE Crash
    <2>1. faults' \in 0..MaxFaults
      BY <1>3, ConstantsAssumption DEF Crash, Fault, IInv, TypeOK
    <2> QED
      BY <1>3, <2>1, LoseMemoryIInv DEF Crash, IInv, TypeOK, OnlySubmitted
  <1>4. CASE CrashInSubmit
    <2>1. faults' \in 0..MaxFaults
      BY <1>4, ConstantsAssumption DEF CrashInSubmit, Fault, IInv, TypeOK
    <2>2. NewSubmission /\ LoseMemory /\ wal' = wal \cup {submitted'}
          /\ UNCHANGED <<acked, copies, dbUp>>
      BY <1>4 DEF CrashInSubmit
    <2>3. wal' \subseteq Rows /\ wal' \subseteq 1..submitted'
      BY <2>2, FreshRow DEF IInv, TypeOK, OnlySubmitted
    <2> QED
      BY <2>1, <2>2, <2>3, FreshRow, LoseMemoryIInv
  <1> QED BY <1>1, <1>2, <1>3, <1>4

\* ClickHouse going away and coming back.
LEMMA DbIInv == IInv /\ (DbDown \/ DbUp) => IInv'
  <1> SUFFICES ASSUME IInv, DbDown \/ DbUp PROVE IInv'
    OBVIOUS
  <1>1. /\ faults' \in 0..MaxFaults /\ dbUp' \in BOOLEAN
        /\ UNCHANGED <<submitted, acked, wal, queue, buf, phase, stopped, copies, metrics>>
    <2>1. faults \in 0..MaxFaults /\ MaxFaults \in Nat
      BY ConstantsAssumption DEF IInv, TypeOK
    <2>2. CASE DbDown
      <3>1. faults < MaxFaults /\ faults' = faults + 1
        BY <2>2 DEF DbDown, Fault
      <3>2. faults' \in 0..MaxFaults
        BY <2>1, <3>1
      <3> QED BY <2>2, <3>2 DEF DbDown
    <2>3. CASE DbUp
      BY <2>1, <2>3 DEF DbUp
    <2> QED BY <2>2, <2>3
  <1> QED
    BY <1>1 DEF IInv, TypeOK, OnlySubmitted, PhaseInv, MemoryBackedByWal,
       InMemory, FlushedRowsStored, NoAcceptedRowLost, Stored

\* IInv is inductive.
LEMMA NextIInv == IInv /\ [Next]_vars => IInv'
  <1> SUFFICES ASSUME IInv, [Next]_vars PROVE IInv'
    OBVIOUS
  <1>1. CASE Submit
    BY <1>1, SubmitRejectedIInv, SubmitQueuedIInv, SubmitQueueFullIInv DEF Submit
  <1>2. CASE Get \/ Timeout
    BY <1>2, GetIInv, TimeoutIInv
  <1>3. CASE Flush
    BY <1>3, InsertAppliedIInv, InsertReturnsIInv, InsertFailsIInv, UnlinkNextIInv DEF Flush
  <1>4. CASE Start \/ Stop \/ Exit \/ Crash \/ CrashInSubmit
    BY <1>4, StartIInv, LifeIInv
  <1>5. CASE DbDown \/ DbUp
    BY <1>5, DbIInv
  <1>6. CASE UNCHANGED vars
    BY <1>6 DEF vars, IInv, TypeOK, OnlySubmitted, PhaseInv, MemoryBackedByWal,
       InMemory, FlushedRowsStored, NoAcceptedRowLost, Stored
  <1> QED BY <1>1, <1>2, <1>3, <1>4, <1>5, <1>6 DEF Next

\* The invariant holds in every reachable state.
THEOREM Invariance == Spec => []IInv
  <1> QED BY InitIInv, NextIInv, PTL DEF Spec

\* Type correctness of the writer, the bounds of its queue and batch included.
THEOREM TypeCorrect == Spec => []TypeOK
  <1>1. IInv => TypeOK
    BY DEF IInv
  <1> QED BY Invariance, <1>1, PTL

\* No accepted row is ever lost: it is on disk or in ClickHouse.
THEOREM Durability == Spec => []NoAcceptedRowLost
  <1>1. IInv => NoAcceptedRowLost
    BY DEF IInv
  <1> QED BY Invariance, <1>1, PTL

\* Within one process every row is in memory at most once and backed by its file.
THEOREM MemoryBacked == Spec => []MemoryBackedByWal
  <1>1. IInv => MemoryBackedByWal
    BY DEF IInv
  <1> QED BY Invariance, <1>1, PTL

-----------------------------------------------------------------------------
(* Refinement of DurableIngest.                                             *)

\* A submission that gets its file admits one row.
LEMMA AdmitStep ==
  ASSUME IInv, NewSubmission, wal' = wal \cup {submitted'},
         acked' \in {acked, acked \cup {submitted'}}, UNCHANGED copies
  PROVE  Promise!Next
  <1>1. Promise!Admit(submitted')
    BY FreshRow DEF Promise!Admit, Stored
  <1> QED BY <1>1, FreshRow DEF Promise!Next

\* The writer implements the durability promise of DurableIngest: nothing the
\* writer does, no crash and no file removal included, makes a row that is on
\* disk or in ClickHouse disappear from both, or delivers any other row.
THEOREM Refinement == Spec => ImplementsDurableIngest
  <1>1. Init => Promise!Init
    <2> SUFFICES ASSUME Init PROVE Promise!Init
      OBVIOUS
    <2>1. Stored = {}
      BY DEF Init, Stored
    <2> QED BY <2>1 DEF Init, Promise!Init
  <1>2. IInv /\ [Next]_vars => [Promise!Next]_(Promise!vars)
    <2> SUFFICES ASSUME IInv, [Next]_vars PROVE Promise!Next \/ UNCHANGED Promise!vars
      OBVIOUS
    <2>1. CASE SubmitQueued \/ SubmitQueueFull
      <3>1. NewSubmission /\ Accept(submitted')
        BY <2>1 DEF SubmitQueued, SubmitQueueFull
      <3> QED BY <3>1, AdmitStep DEF Accept
    <2>2. CASE CrashInSubmit
      BY <2>2, AdmitStep DEF CrashInSubmit
    <2>3. CASE InsertApplied
      <3>1. Range(buf) \subseteq wal \cup Stored
        BY DEF IInv, MemoryBackedByWal, InMemory
      <3>2. /\ UNCHANGED <<acked, wal>>
            /\ copies' = [r \in Rows |-> IF r \in Range(buf) THEN copies[r] + 1 ELSE copies[r]]
        BY <2>3 DEF InsertApplied
      <3>3. Stored' = Stored \cup Range(buf)
        BY <2>3, InsertFacts
      <3>4. (wal \cup Stored)' = (wal \cup Stored)
        BY <3>1, <3>2, <3>3
      <3>5. Promise!Deliver(Range(buf))
        BY <3>2, <3>4 DEF Promise!Deliver
      <3> QED BY <3>1, <3>5 DEF Promise!Next
    <2>4. CASE UnlinkNext
      <3>1. /\ phase = "unlink" /\ wal' \in {wal, wal \ {Head(buf)}}
            /\ UNCHANGED <<acked, copies>>
        BY <2>4 DEF UnlinkNext
      <3>2. Head(buf) \in Stored
        BY <3>1, TailFacts DEF IInv, TypeOK, PhaseInv, FlushedRowsStored
      <3> QED BY <3>1, <3>2 DEF Promise!vars, Stored
    <2>5. CASE \/ SubmitRejected \/ Get \/ Timeout \/ InsertReturns \/ InsertFails
               \/ Start \/ Stop \/ Exit \/ Crash \/ DbDown \/ DbUp \/ UNCHANGED vars
      <3>1. UNCHANGED <<acked, wal, copies>>
        BY <2>5 DEF SubmitRejected, Get, Timeout, InsertReturns, InsertFails, Start,
           Stop, Exit, Crash, DbDown, DbUp, vars
      <3> QED BY <3>1 DEF Promise!vars, Stored
    <2> QED BY <2>1, <2>2, <2>3, <2>4, <2>5 DEF Next, Submit, Flush
  <1> QED BY <1>1, <1>2, Invariance, PTL DEF Spec, Promise!Spec, ImplementsDurableIngest

-----------------------------------------------------------------------------
(* Duplicates.                                                              *)

\* Faults only accumulate.
LEMMA FaultsGrow ==
  ASSUME IInv, [Next]_vars
  PROVE  faults \in Nat /\ faults' \in Nat /\ faults <= faults'
  <1>1. faults \in Nat
    BY DEF IInv, TypeOK
  <1>2. faults' = faults \/ faults' = faults + 1
    BY DEF Next, Submit, Flush, Fault, SubmitRejected, SubmitQueued, SubmitQueueFull, Accept,
       Get, Timeout, InsertApplied, InsertReturns, InsertFails, UnlinkNext,
       Start, Stop, Exit, Crash, CrashInSubmit, DbDown, DbUp, vars
  <1> QED BY <1>1, <1>2

\* A number not handed out yet has no copy.
LEMMA FreshHasNoCopy ==
  ASSUME IInv, NewSubmission
  PROVE  copies[submitted'] = 0
  <1>1. submitted' \in Rows /\ submitted' \notin Stored
    BY FreshRow
  <1>2. copies[submitted'] \in Nat /\ ~(copies[submitted'] > 0)
    BY <1>1 DEF Stored, IInv, TypeOK
  <1> QED BY <1>2

\* The steps that put a new file on disk; they insert nothing.
LEMMA CopiesSubmit ==
  ASSUME IInv, IInv', CopiesInv, NewSubmission, wal' = wal \cup {submitted'},
         faults' \in Nat, faults <= faults',
         UNCHANGED <<copies, dbUp>>,
         \/ UNCHANGED <<buf, phase>>
         \/ faults' = faults + 1
  PROVE  CopiesInv'
  <1>1. copies \in [Rows -> Nat] /\ faults \in Nat /\ wal' \subseteq Rows
    BY DEF IInv, TypeOK
  <1>2. DuplicatesNeedFaults'
    BY <1>1 DEF CopiesInv, DuplicatesNeedFaults
  <1>3. ASSUME NEW r \in wal'
        PROVE  \/ copies'[r] <= faults'
               \/ phase' \in {"applied", "unlink"} /\ dbUp' /\ r \in Range(buf')
    <2>1. r \in Rows /\ copies'[r] = copies[r] /\ copies[r] \in Nat
      BY <1>1
    <2>2. CASE r = submitted'
      BY <1>1, <2>2, FreshHasNoCopy
    <2>3. CASE r # submitted' /\ UNCHANGED <<buf, phase>>
      BY <1>1, <2>1, <2>3 DEF CopiesInv
    <2>4. CASE faults' = faults + 1
      BY <1>1, <2>1, <2>4 DEF CopiesInv, DuplicatesNeedFaults
    <2> QED BY <2>2, <2>3, <2>4
  <1> QED BY <1>2, <1>3 DEF CopiesInv

\* The steps that insert nothing and add no file: a row may leave the exempted
\* batch only if a fault was counted or its file went.
LEMMA CopiesKept ==
  ASSUME IInv, IInv', CopiesInv, UNCHANGED copies, wal' \subseteq wal,
         faults' \in Nat, faults <= faults',
         \/ faults' = faults + 1
         \/ /\ dbUp' = dbUp
            /\ \A r \in wal' :
                  phase \in {"applied", "unlink"} /\ r \in Range(buf)
                     => phase' \in {"applied", "unlink"} /\ r \in Range(buf')
         \/ ~dbUp
         \/ phase \notin {"applied", "unlink"}
  PROVE  CopiesInv'
  <1>1. copies \in [Rows -> Nat] /\ faults \in Nat /\ wal' \subseteq Rows
    BY DEF IInv, TypeOK
  <1>2. DuplicatesNeedFaults'
    BY <1>1 DEF CopiesInv, DuplicatesNeedFaults
  <1>3. ASSUME NEW r \in wal'
        PROVE  \/ copies'[r] <= faults'
               \/ phase' \in {"applied", "unlink"} /\ dbUp' /\ r \in Range(buf')
    <2>1. r \in wal /\ r \in Rows /\ copies'[r] = copies[r] /\ copies[r] \in Nat
      BY <1>1
    <2>2. CASE faults' = faults + 1
      BY <1>1, <2>1, <2>2 DEF CopiesInv, DuplicatesNeedFaults
    <2>3. CASE copies[r] <= faults
      BY <1>1, <2>1, <2>3
    <2>4. CASE /\ faults' # faults + 1
               /\ phase \in {"applied", "unlink"} /\ dbUp /\ r \in Range(buf)
      BY <2>4
    <2> QED BY <2>1, <2>2, <2>3, <2>4 DEF CopiesInv
  <1> QED BY <1>2, <1>3 DEF CopiesInv

\* An executed insert: its rows were in no earlier unspoiled insert.
LEMMA CopiesInsert ==
  ASSUME IInv, IInv', CopiesInv, InsertApplied
  PROVE  CopiesInv'
  <1>1. /\ phase = "insert" /\ dbUp /\ phase' = "applied"
        /\ copies' = [r \in Rows |-> IF r \in Range(buf) THEN copies[r] + 1 ELSE copies[r]]
        /\ UNCHANGED <<wal, buf, dbUp, faults>>
    BY DEF InsertApplied
  <1>2. /\ copies \in [Rows -> Nat] /\ faults \in Nat /\ wal \subseteq Rows
        /\ Range(buf) \subseteq wal
    BY DEF IInv, TypeOK, MemoryBackedByWal, InMemory
  <1>3. \A r \in wal : copies[r] <= faults
    BY <1>1 DEF CopiesInv
  <1>4. ASSUME NEW r \in Rows PROVE copies'[r] <= 1 + faults'
    <2>1. CASE r \in Range(buf)
      BY <1>1, <1>2, <1>3, <2>1
    <2>2. CASE r \notin Range(buf)
      BY <1>1, <1>2, <2>2 DEF CopiesInv, DuplicatesNeedFaults
    <2> QED BY <2>1, <2>2
  <1>5. ASSUME NEW r \in wal'
        PROVE  \/ copies'[r] <= faults'
               \/ phase' \in {"applied", "unlink"} /\ dbUp' /\ r \in Range(buf')
    <2>1. CASE r \in Range(buf)
      BY <1>1, <2>1
    <2>2. CASE r \notin Range(buf)
      BY <1>1, <1>2, <1>3, <2>2
    <2> QED BY <2>1, <2>2
  <1> QED BY <1>4, <1>5 DEF CopiesInv, DuplicatesNeedFaults

\* A step never breaks CopiesInv.
LEMMA NextCopiesInv == IInv /\ CopiesInv /\ [Next]_vars => CopiesInv'
  <1> SUFFICES ASSUME IInv, CopiesInv, [Next]_vars PROVE CopiesInv'
    OBVIOUS
  <1>1. IInv' /\ faults' \in Nat /\ faults <= faults'
    BY NextIInv, FaultsGrow
  <1>2. CASE SubmitQueued \/ SubmitQueueFull
    BY <1>1, <1>2, CopiesSubmit DEF SubmitQueued, SubmitQueueFull, Accept
  <1>3. CASE CrashInSubmit
    BY <1>1, <1>3, CopiesSubmit DEF CrashInSubmit, Fault
  <1>4. CASE InsertApplied
    BY <1>1, <1>4, CopiesInsert
  <1>5. CASE SubmitRejected \/ InsertReturns \/ Stop \/ UNCHANGED vars
    <2>1. /\ UNCHANGED <<copies, wal, buf, dbUp>>
          /\ phase \in {"applied", "unlink"} => phase' \in {"applied", "unlink"}
      BY <1>5 DEF SubmitRejected, InsertReturns, Stop, vars
    <2> QED BY <1>1, <2>1, CopiesKept
  <1>6. CASE Get \/ Timeout \/ Start \/ Exit
    <2>1. UNCHANGED <<copies, wal>> /\ phase \notin {"applied", "unlink"}
      BY <1>6 DEF Get, Timeout, Start, Exit
    <2> QED BY <1>1, <2>1, CopiesKept
  <1>7. CASE InsertFails \/ DbUp
    <2>1. UNCHANGED <<copies, wal>> /\ ~dbUp
      BY <1>7 DEF InsertFails, DbUp
    <2> QED BY <1>1, <2>1, CopiesKept
  <1>8. CASE Crash \/ DbDown
    <2>1. UNCHANGED <<copies, wal>> /\ faults' = faults + 1
      BY <1>8 DEF Crash, DbDown, Fault
    <2> QED BY <1>1, <2>1, CopiesKept
  <1>9. CASE UnlinkNext
    <2>1. phase = "unlink" /\ buf # <<>> /\ buf \in Seq(Rows)
      BY <1>9 DEF UnlinkNext, IInv, PhaseInv, TypeOK
    <2>2. /\ UNCHANGED <<copies, dbUp>> /\ buf' = Tail(buf)
          /\ wal' = wal \ {Head(buf)} \/ (wal' = wal /\ faults' = faults + 1)
          /\ phase' = IF Len(buf) = 1 THEN AfterFlush ELSE "unlink"
      BY <1>9 DEF UnlinkNext, Fault
    <2>3. Range(buf) = Range(buf') \cup {Head(buf)} /\ Len(buf') = Len(buf) - 1
          /\ buf' \in Seq(Rows)
      BY <2>1, <2>2, TailFacts
    <2>4. CASE wal' = wal /\ faults' = faults + 1
      BY <1>1, <2>2, <2>4, CopiesKept
    <2>5. CASE wal' = wal \ {Head(buf)}
      <3>1. Len(buf) = 1 => Range(buf') = {}
        BY <2>1, <2>3 DEF Range
      <3>2. \A r \in wal' : r \in Range(buf) => phase' = "unlink" /\ r \in Range(buf')
        BY <2>2, <2>3, <2>5, <3>1
      <3> QED BY <1>1, <2>2, <2>5, <3>2, CopiesKept
    <2> QED BY <2>2, <2>4, <2>5
  <1> QED
    BY <1>2, <1>3, <1>4, <1>5, <1>6, <1>7, <1>8, <1>9 DEF Next, Submit, Flush

\* A row has at most one copy more than there were faults: graceful restarts,
\* replays and full queues never duplicate a row.
THEOREM BoundedDuplication == Spec => []DuplicatesNeedFaults
  <1>1. Init => CopiesInv
    <2> SUFFICES ASSUME Init PROVE CopiesInv
      OBVIOUS
    <2>1. wal = {} /\ faults = 0 /\ \A r \in Rows : copies[r] = 0
      BY DEF Init
    <2> QED BY <2>1 DEF CopiesInv, DuplicatesNeedFaults
  <1>2. CopiesInv => DuplicatesNeedFaults
    BY DEF CopiesInv
  <1> QED BY <1>1, <1>2, NextCopiesInv, Invariance, PTL DEF Spec

-----------------------------------------------------------------------------
(* The counters of /metrics.                                                *)

\* The counters MetricsAccountForRows is about, and the rows of this process
\* on their way to an answer of ClickHouse.
Accepted == metrics["accepted"]
Replayed == metrics["replayed"]
Flushed == metrics["rows_flushed"]
Overflowed == metrics["queue_full"]
Failed == metrics["flush_failed"]
Pending == Len(queue) + (IF phase = "unlink" THEN 0 ELSE Len(buf))

\* They are numbers.
LEMMA AccountTypes ==
  ASSUME IInv
  PROVE  /\ Pending \in Nat /\ Len(queue) \in Nat /\ Len(buf) \in Nat
         /\ Accepted \in Nat /\ Replayed \in Nat /\ Flushed \in Nat
         /\ Overflowed \in Nat /\ Failed \in Nat
  <1>1. Len(queue) \in Nat /\ Len(buf) \in Nat
    BY DEF IInv, TypeOK
  <1>2. \A c \in Counters : metrics[c] \in Nat
    BY DEF IInv, TypeOK
  <1> QED
    BY <1>1, <1>2 DEF Pending, Accepted, Replayed, Flushed, Overflowed, Failed, Counters

\* MetricsAccountForRows, and what it says of the next state, in these terms.
LEMMA Account ==
  /\ MetricsAccountForRows
       <=> /\ Pending + Flushed + Overflowed <= Accepted + Replayed
           /\ Failed = 0 => Pending + Flushed + Overflowed = Accepted + Replayed
  /\ MetricsAccountForRows'
       <=> /\ Pending' + Flushed' + Overflowed' <= Accepted' + Replayed'
           /\ Failed' = 0 => Pending' + Flushed' + Overflowed' = Accepted' + Replayed'
  BY DEF MetricsAccountForRows, Pending, Accepted, Replayed, Flushed, Overflowed, Failed

\* The counters after a step that counts.
LEMMA Counted ==
  ASSUME IInv, NEW delta, Count(delta)
  PROVE  /\ \A c \in Counters \cap DOMAIN delta : metrics'[c] = metrics[c] + delta[c]
         /\ \A c \in Counters \ DOMAIN delta : metrics'[c] = metrics[c]
  <1>1. \A c \in Counters : metrics[c] \in Nat
    BY DEF IInv, TypeOK
  <1> QED BY <1>1 DEF Count

\* A step that leaves the counters alone and moves rows only between the queue
\* and the batch.
LEMMA AccountKept ==
  ASSUME MetricsAccountForRows, UNCHANGED metrics, Pending' = Pending
  PROVE  MetricsAccountForRows'
  BY Account DEF Accepted, Replayed, Flushed, Overflowed, Failed

\* A submission is counted where its row goes; a rejected row goes nowhere.
LEMMA AccountSubmit ==
  ASSUME IInv, MetricsAccountForRows, Submit
  PROVE  MetricsAccountForRows'
  <1>0. /\ Pending \in Nat /\ Len(queue) \in Nat /\ Len(buf) \in Nat
        /\ Accepted \in Nat /\ Replayed \in Nat /\ Flushed \in Nat
        /\ Overflowed \in Nat /\ Failed \in Nat
        /\ Pending + Flushed + Overflowed <= Accepted + Replayed
        /\ Failed = 0 => Pending + Flushed + Overflowed = Accepted + Replayed
    BY AccountTypes, Account
  <1>1. UNCHANGED <<buf, phase>>
    BY DEF Submit, SubmitRejected, SubmitQueued, SubmitQueueFull, Accept
  <1>2. CASE SubmitRejected
    <2>1. \A c \in Counters \ {"rejected"} : metrics'[c] = metrics[c]
      BY <1>2, Counted DEF SubmitRejected
    <2>2. UNCHANGED <<Accepted, Replayed, Flushed, Overflowed, Failed>>
      BY <2>1 DEF Counters, Accepted, Replayed, Flushed, Overflowed, Failed
    <2>3. Pending' = Pending
      BY <1>1, <1>2 DEF SubmitRejected, Pending
    <2>9. /\ Pending' + Flushed' + Overflowed' <= Accepted' + Replayed'
          /\ Failed' = 0 => Pending' + Flushed' + Overflowed' = Accepted' + Replayed'
      BY <1>0, <2>2, <2>3
    <2> QED BY <2>9, Account
  <1>3. CASE SubmitQueued
    <2>1. /\ metrics'["accepted"] = metrics["accepted"] + 1
          /\ \A c \in Counters \ {"accepted"} : metrics'[c] = metrics[c]
      BY <1>3, Counted DEF SubmitQueued, Counters
    <2>2. Accepted' = Accepted + 1 /\ UNCHANGED <<Replayed, Flushed, Overflowed, Failed>>
      BY <2>1 DEF Counters, Accepted, Replayed, Flushed, Overflowed, Failed
    <2>3. Pending' = Pending + 1
      <3>1. Len(queue') = Len(queue) + 1
        BY <1>3, FreshRow, AppendFacts DEF SubmitQueued, IInv, TypeOK
      <3>2. phase # "unlink"
        BY <1>3 DEF SubmitQueued, NewSubmission, Serving
      <3> QED BY <1>1, <3>1, <3>2, AccountTypes DEF Pending
    <2>9. /\ Pending' + Flushed' + Overflowed' <= Accepted' + Replayed'
          /\ Failed' = 0 => Pending' + Flushed' + Overflowed' = Accepted' + Replayed'
      BY <1>0, <2>2, <2>3
    <2> QED BY <2>9, Account
  <1>4. CASE SubmitQueueFull
    <2> DEFINE d == [accepted |-> 1, queue_full |-> 1]
    <2>1. Count(d) /\ DOMAIN d = {"accepted", "queue_full"}
          /\ d["accepted"] = 1 /\ d["queue_full"] = 1
      BY <1>4 DEF SubmitQueueFull
    <2> HIDE DEF d
    <2>2. /\ metrics'["accepted"] = metrics["accepted"] + 1
          /\ metrics'["queue_full"] = metrics["queue_full"] + 1
          /\ \A c \in Counters \ {"accepted", "queue_full"} : metrics'[c] = metrics[c]
      BY <2>1, Counted DEF Counters
    <2>3. /\ Accepted' = Accepted + 1 /\ Overflowed' = Overflowed + 1
          /\ UNCHANGED <<Replayed, Flushed, Failed>>
      BY <2>2 DEF Counters, Accepted, Replayed, Flushed, Overflowed, Failed
    <2>4. Pending' = Pending
      BY <1>1, <1>4 DEF SubmitQueueFull, Pending
    <2>9. /\ Pending' + Flushed' + Overflowed' <= Accepted' + Replayed'
          /\ Failed' = 0 => Pending' + Flushed' + Overflowed' = Accepted' + Replayed'
      BY <1>0, <2>3, <2>4
    <2> QED BY <2>9, Account
  <1> QED BY <1>2, <1>3, <1>4 DEF Submit

\* The answer of an insert moves its batch from pending to flushed; a failure
\* is counted as such, once, and its batch leaves the account.
LEMMA AccountFlush ==
  ASSUME IInv, MetricsAccountForRows, Flush
  PROVE  MetricsAccountForRows'
  <1>0. /\ Pending \in Nat /\ Len(queue) \in Nat /\ Len(buf) \in Nat
        /\ Accepted \in Nat /\ Replayed \in Nat /\ Flushed \in Nat
        /\ Overflowed \in Nat /\ Failed \in Nat
        /\ Pending + Flushed + Overflowed <= Accepted + Replayed
        /\ Failed = 0 => Pending + Flushed + Overflowed = Accepted + Replayed
    BY AccountTypes, Account
  <1>1. CASE InsertApplied
    <2>1. Pending' = Pending
      BY <1>1 DEF InsertApplied, Pending
    <2> QED BY <1>1, <2>1, AccountKept DEF InsertApplied
  <1>2. CASE InsertReturns
    <2> DEFINE d == [flush_ok |-> 1, rows_flushed |-> Len(buf)]
    <2>1. Count(d) /\ DOMAIN d = {"flush_ok", "rows_flushed"} /\ d["rows_flushed"] = Len(buf)
      BY <1>2 DEF InsertReturns
    <2> HIDE DEF d
    <2>2. /\ metrics'["rows_flushed"] = metrics["rows_flushed"] + Len(buf)
          /\ \A c \in Counters \ {"flush_ok", "rows_flushed"} : metrics'[c] = metrics[c]
      BY <2>1, Counted DEF Counters
    <2>3. /\ Flushed' = Flushed + Len(buf)
          /\ UNCHANGED <<Accepted, Replayed, Overflowed, Failed>>
      BY <2>2 DEF Counters, Accepted, Replayed, Flushed, Overflowed, Failed
    <2>4. Pending' = Len(queue) /\ Pending = Len(queue) + Len(buf)
      BY <1>2, AccountTypes DEF InsertReturns, Pending
    <2>9. /\ Pending' + Flushed' + Overflowed' <= Accepted' + Replayed'
          /\ Failed' = 0 => Pending' + Flushed' + Overflowed' = Accepted' + Replayed'
      BY <1>0, <2>3, <2>4
    <2> QED BY <2>9, Account
  <1>3. CASE InsertFails
    <2>1. /\ metrics'["flush_failed"] = metrics["flush_failed"] + 1
          /\ \A c \in Counters \ {"flush_failed"} : metrics'[c] = metrics[c]
      BY <1>3, Counted DEF InsertFails, Counters
    <2>2. Failed' = Failed + 1 /\ UNCHANGED <<Accepted, Replayed, Flushed, Overflowed>>
      BY <2>1 DEF Counters, Accepted, Replayed, Flushed, Overflowed, Failed
    <2>3. Pending' = Len(queue) /\ Pending = Len(queue) + Len(buf)
      <3>1. Len(buf') = 0 /\ queue' = queue /\ phase # "unlink"
        BY <1>3 DEF InsertFails
      <3> QED BY <3>1, AccountTypes DEF Pending
    <2>9. /\ Pending' + Flushed' + Overflowed' <= Accepted' + Replayed'
          /\ Failed' = 0 => Pending' + Flushed' + Overflowed' = Accepted' + Replayed'
      BY <1>0, <2>2, <2>3
    <2> QED BY <2>9, Account
  <1>4. CASE UnlinkNext
    <2>1. phase = "unlink" /\ queue' = queue /\ phase' # "unlink" => Len(buf') = 0
      <3>1. buf \in Seq(Rows) /\ buf # <<>> /\ buf' = Tail(buf)
            /\ phase' = IF Len(buf) = 1 THEN AfterFlush ELSE "unlink"
        BY <1>4 DEF UnlinkNext, IInv, TypeOK, PhaseInv
      <3>2. Len(buf') = Len(buf) - 1
        BY <3>1, TailFacts
      <3> QED BY <1>4, <3>1, <3>2 DEF UnlinkNext
    <2>2. Pending' = Pending
      BY <1>4, <2>1, AccountTypes DEF UnlinkNext, Pending
    <2> QED BY <1>4, <2>2, AccountKept DEF UnlinkNext
  <1> QED BY <1>1, <1>2, <1>3, <1>4 DEF Flush

\* A process begins with an empty batch and the rows it replayed, and ends with
\* nothing pending and nothing counted.
LEMMA AccountLife ==
  ASSUME IInv, MetricsAccountForRows, Start \/ Exit \/ Crash \/ CrashInSubmit
  PROVE  MetricsAccountForRows'
  <1>1. CASE Start
    <2>1. PICK n \in 0..QUEUE_MAX : \E q \in [1..n -> wal] :
            /\ ReplayOrder(q)
            /\ queue' = q
            /\ metrics' = [ZeroMetrics EXCEPT !["replayed"] = n]
      BY <1>1 DEF Start
    <2>2. /\ metrics' = [ZeroMetrics EXCEPT !["replayed"] = n]
          /\ Len(queue') = n /\ n \in Nat
      BY <2>1, ReplayFacts, ConstantsAssumption DEF IInv, TypeOK
    <2>3. Len(buf') = 0 /\ phase' # "unlink"
      BY <1>1 DEF Start, IInv, PhaseInv
    <2>4. Pending' = n
      BY <2>2, <2>3 DEF Pending
    <2> QED BY <2>2, <2>4 DEF MetricsAccountForRows, Pending, ZeroMetrics, Counters
  <1>2. CASE Exit \/ Crash \/ CrashInSubmit
    <2>1. queue' = <<>> /\ buf' = <<>> /\ metrics' = ZeroMetrics
      BY <1>2 DEF Exit, Crash, CrashInSubmit, LoseMemory
    <2> QED BY <2>1 DEF MetricsAccountForRows, ZeroMetrics, Counters
  <1> QED BY <1>1, <1>2

\* The counters a process shows on /metrics account for every row it accepted
\* or replayed, whatever was rejected, overflowed, flushed or failed before.
THEOREM CountersBalance == Spec => []MetricsAccountForRows
  <1>1. Init => MetricsAccountForRows
    BY DEF Init, MetricsAccountForRows, ZeroMetrics, Counters
  <1>2. IInv /\ MetricsAccountForRows /\ [Next]_vars => MetricsAccountForRows'
    <2> SUFFICES ASSUME IInv, MetricsAccountForRows, [Next]_vars
                 PROVE  MetricsAccountForRows'
      OBVIOUS
    <2>1. CASE Get
      <3>1. /\ Len(queue') = Len(queue) - 1 /\ Len(buf') = Len(buf) + 1
            /\ phase = "collect" /\ phase' # "unlink"
        <4>1. queue \in Seq(Rows) /\ buf \in Seq(Rows) /\ queue # <<>>
              /\ queue' = Tail(queue) /\ buf' = Append(buf, Head(queue))
          BY <2>1 DEF Get, IInv, TypeOK
        <4>2. Head(queue) \in Rows /\ Len(queue') = Len(queue) - 1
          BY <4>1, TailFacts
        <4>3. Len(buf') = Len(buf) + 1
          BY <4>1, <4>2, AppendFacts
        <4> QED BY <2>1, <4>2, <4>3 DEF Get, AfterWake
      <3>2. Pending' = Pending
        BY <3>1, AccountTypes DEF Pending
      <3> QED BY <2>1, <3>2, AccountKept DEF Get
    <2>2. CASE Timeout \/ Stop \/ DbDown \/ DbUp \/ UNCHANGED vars
      <3>1. UNCHANGED <<queue, buf, metrics>> /\ (phase' = "unlink" <=> phase = "unlink")
        BY <2>2 DEF Timeout, AfterWake, Stop, DbDown, DbUp, vars
      <3> QED BY <3>1, AccountKept DEF Pending
    <2> QED BY <2>1, <2>2, AccountSubmit, AccountFlush, AccountLife DEF Next
  <1> QED BY <1>1, <1>2, Invariance, PTL DEF Spec
=============================================================================
