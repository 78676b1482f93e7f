------------------------- MODULE SpanShipperProofs -------------------------
(***************************************************************************)
(* Proofs about SpanShipper for every number of items, queue capacity and  *)
(* number of faults: the collector accepts no item twice, and an exit whose*)
(* drain loop saw the queue empty misses at most one item.                 *)
(***************************************************************************)
EXTENDS SpanShipper, DataLemmas, TLAPS

Queued == Range(queue)

\* An item is in one place: on the queue, in the worker's hands, on the wire
\* or with the collector.  Numbers not handed out yet are nowhere.
PlaceInv ==
    /\ IsInjective(queue)
    /\ None \in Queued => life \notin {"running", "drain", "stop", "signal"}
    /\ \A i \in Queued : i <= emitted
    /\ \A i \in Items \cap Queued : i \notin wire /\ recorded[i] = 0 /\ i # item
    /\ worker = "call" => item \notin wire /\ recorded[item] = 0
    /\ item <= emitted
    /\ \A i \in wire : recorded[i] = 0 /\ i <= emitted
    /\ \A i \in Items : i > emitted => recorded[i] = 0

\* The worker's RPC is on the wire until it is handled.
RpcInv ==
    worker = "rpc" => item \in wire \/ recorded[item] > 0 \/ item \in lost

\* Until the drain ends nothing is missing: what is not shipped is queued or in
\* the worker's hands, and no one closes the channel.
RunningInv ==
    life \in {"running", "drain"} =>
        /\ channel # "closed"
        /\ Unshipped \subseteq Queued \cup {item}

\* After a drain in time only what the worker then held can be missing.
DrainedInv ==
    life \notin {"running", "drain"} /\ ~late =>
        \E i \in Items \cup {None} : Unshipped \subseteq {i}

IInv ==
    /\ TypeOK
    /\ AtMostOnce
    /\ PlaceInv
    /\ RpcInv
    /\ RunningInv
    /\ DrainedInv

-----------------------------------------------------------------------------
\* The invariant holds initially.
LEMMA InitIInv == Init => IInv
  <1> SUFFICES ASSUME Init PROVE IInv
    OBVIOUS
  <1> USE DEF Init
  <1>1. TypeOK
    <2>1. <<>> \in Seq(Items \cup {None}) /\ Len(<<>>) = 0
      OBVIOUS
    <2>2. emitted \in 0..MaxItems /\ faults \in 0..MaxFaults /\ 0 <= QUEUE_MAX
      BY ConstantsAssumption
    <2> QED BY <2>1, <2>2 DEF TypeOK, Lives
  <1>2. Unshipped = {}
    BY DEF Unshipped
  <1>3. Queued = {} /\ IsInjective(queue)
    BY EmptyFacts DEF Queued
  <1> QED
    BY <1>1, <1>2, <1>3
    DEF IInv, AtMostOnce, PlaceInv, RpcInv, RunningInv, DrainedInv, None

\* What the lemmas below use of the types.
LEMMA Types ==
  ASSUME IInv
  PROVE  /\ emitted \in Nat /\ faults \in Nat /\ item \in Nat /\ MaxItems \in Nat
         /\ 1..emitted \subseteq Items /\ Items \subseteq Nat /\ None \notin Items
         /\ queue \in Seq(Items \cup {None}) /\ Queued \subseteq Items \cup {None}
         /\ wire \subseteq Items /\ lost \subseteq Items
         /\ recorded \in [Items -> Nat]
  <1>1. /\ emitted \in 0..MaxItems /\ faults \in 0..MaxFaults
        /\ item \in Items \cup {None} /\ queue \in Seq(Items \cup {None})
        /\ wire \subseteq Items /\ lost \subseteq Items
        /\ recorded \in [Items -> Nat]
    BY DEF IInv, TypeOK
  <1>2. Queued \subseteq Items \cup {None}
    BY <1>1 DEF Queued, Range
  <1> QED BY <1>1, <1>2, ConstantsAssumption DEF Items, None

\* An item that was shipped or given up stays so, hence nothing goes missing
\* but by an emission.
LEMMA ShippedStays ==
  ASSUME emitted' = emitted,
         \A i \in 1..emitted : recorded[i] # 0 => recorded'[i] # 0,
         \A i \in 1..emitted : i \in wire => i \in wire' \/ i \in lost' \/ recorded'[i] # 0,
         lost \subseteq lost'
  PROVE  Unshipped' \subseteq Unshipped
  BY DEF Unshipped

\* A step that ships, takes or gives up what it likes keeps the account of what
\* may be missing, unless the queue or the worker's hands lose sight of it.
LEMMA MissingKept ==
  ASSUME IInv, Unshipped' \subseteq Unshipped,
         UNCHANGED <<life, late>>,
         life \in {"running", "drain"} =>
            channel' # "closed" /\ Unshipped' \subseteq Queued' \cup {item'}
  PROVE  RunningInv' /\ DrainedInv'
  BY DEF IInv, RunningInv, DrainedInv

-----------------------------------------------------------------------------
(* The agent and the worker.                                                *)

\* An emission takes a number that is nowhere yet.
LEMMA EmitStep == IInv /\ Emit => IInv'
  <1> SUFFICES ASSUME IInv, Emit PROVE IInv'
    OBVIOUS
  <1>1. /\ life = "running" /\ emitted' = emitted + 1 /\ emitted' <= MaxItems
        /\ UNCHANGED <<worker, item, channel, stopped, life, late, wire, recorded, faults>>
        /\ \/ Len(queue) < QUEUE_MAX /\ queue' = Append(queue, emitted') /\ lost' = lost
           \/ lost' = lost \cup {emitted'} /\ queue' = queue
    BY Types, ConstantsAssumption DEF Emit
  <1>2. emitted' \in Items /\ emitted' \in 0..MaxItems /\ emitted' # None
    BY <1>1, Types DEF Items, None
  <1>3. /\ emitted' \notin Queued /\ emitted' \notin wire /\ recorded[emitted'] = 0
        /\ emitted' # item
    <2>1. \A i \in Queued \cup wire \cup {item} : i <= emitted
      BY DEF IInv, PlaceInv
    <2>2. ~(emitted' <= emitted) /\ emitted' > emitted
      BY <1>1, Types
    <2> QED BY <1>2, <2>1, <2>2 DEF IInv, PlaceInv
  <1>4. /\ queue' \in Seq(Items \cup {None}) /\ Len(queue') <= QUEUE_MAX
        /\ IsInjective(queue')
        /\ Queued \subseteq Queued' /\ Queued' \subseteq Queued \cup {emitted'}
        /\ emitted' \in Queued' \cup lost'
    <2>1. CASE queue' = queue /\ lost' = lost \cup {emitted'}
      BY <2>1, Types DEF Queued, IInv, PlaceInv, TypeOK
    <2>2. CASE Len(queue) < QUEUE_MAX /\ queue' = Append(queue, emitted')
      <3>1. Len(queue) \in Nat /\ Len(queue) + 1 <= QUEUE_MAX
        BY <2>2, Types, ConstantsAssumption
      <3> QED BY <1>2, <1>3, <2>2, <3>1, Types, AppendFacts DEF Queued, IInv, PlaceInv
    <2> QED BY <1>1, <2>1, <2>2
  <1>5. lost' \subseteq Items
    BY <1>1, <1>2, Types
  <1>6. TypeOK'
    BY <1>1, <1>2, <1>4, <1>5 DEF IInv, TypeOK
  <1>7. AtMostOnce' /\ RpcInv'
    BY <1>1 DEF IInv, AtMostOnce, RpcInv
  <1>8. PlaceInv'
    <2>1. \A i \in Nat : i <= emitted => i <= emitted'
      BY <1>1, Types
    <2>2. \A i \in Queued' : i <= emitted'
      BY <1>1, <1>4, <2>1, Types DEF IInv, PlaceInv, None
    <2>3. \A i \in wire' : recorded'[i] = 0 /\ i <= emitted'
      BY <1>1, <2>1, Types DEF IInv, PlaceInv
    <2>4. item' <= emitted'
      BY <1>1, <2>1, Types DEF IInv, PlaceInv
    <2>5. \A i \in Items : i > emitted' => recorded'[i] = 0
      BY <1>1, Types DEF IInv, PlaceInv
    <2>6. None \notin Queued'
      BY <1>1, <1>2, <1>4 DEF IInv, PlaceInv
    <2>7. \A i \in Items \cap Queued' : i \notin wire' /\ recorded'[i] = 0 /\ i # item'
      BY <1>1, <1>3, <1>4 DEF IInv, PlaceInv
    <2>8. worker' = "call" => item' \notin wire' /\ recorded'[item'] = 0
      BY <1>1 DEF IInv, PlaceInv
    <2> QED BY <1>4, <2>2, <2>3, <2>4, <2>5, <2>6, <2>7, <2>8 DEF PlaceInv
  <1>9. Unshipped' \subseteq Queued' \cup {item'}
    <2> SUFFICES ASSUME NEW i \in Unshipped' PROVE i \in Queued' \cup {item'}
      OBVIOUS
    <2>1. i \in 1..emitted' /\ recorded'[i] = 0 /\ i \notin wire' /\ i \notin lost'
      BY DEF Unshipped
    <2>2. CASE i = emitted'
      BY <1>4, <2>1, <2>2
    <2>3. CASE i # emitted'
      <3>1. i \in 1..emitted
        BY <1>1, <2>1, <2>3, Types
      <3>2. i \in Unshipped
        BY <1>1, <2>1, <3>1 DEF Unshipped
      <3> QED BY <1>1, <1>4, <3>2 DEF IInv, RunningInv
    <2> QED BY <2>2, <2>3
  <1>10. RunningInv' /\ DrainedInv'
    BY <1>1, <1>9 DEF IInv, RunningInv, DrainedInv
  <1> QED BY <1>6, <1>7, <1>8, <1>10 DEF IInv

\* The loop test and the timeout of the queue's get move the worker only.
LEMMA LoopStep == IInv /\ (Loop \/ GetTimesOut) => IInv'
  <1> SUFFICES ASSUME IInv, Loop \/ GetTimesOut PROVE IInv'
    OBVIOUS
  <1>1. /\ UNCHANGED <<emitted, queue, item, channel, stopped, life, late, wire,
                       recorded, lost, faults>>
        /\ worker \in {"loop", "get"} /\ worker' \in {"loop", "get", "over"}
    BY DEF Loop, GetTimesOut
  <1>2. TypeOK'
    BY <1>1 DEF IInv, TypeOK
  <1> QED
    BY <1>1, <1>2 DEF IInv, AtMostOnce, PlaceInv, RpcInv, RunningInv, DrainedInv,
       Queued, Unshipped

\* The worker takes the item, or the stop signal, from the queue.
LEMMA GetStep == IInv /\ Get => IInv'
  <1> SUFFICES ASSUME IInv, Get PROVE IInv'
    OBVIOUS
  <1>1. /\ worker = "get" /\ queue # <<>> /\ item' = Head(queue) /\ queue' = Tail(queue)
        /\ worker' = IF item' = None THEN "over" ELSE "call"
        /\ UNCHANGED <<emitted, channel, stopped, life, late, wire, recorded, lost, faults>>
    BY DEF Get
  <1>2. /\ queue' \in Seq(Items \cup {None}) /\ item' \in Items \cup {None}
        /\ Len(queue') = Len(queue) - 1 /\ Len(queue) \in Nat
        /\ Queued = Queued' \cup {item'}
        /\ IsInjective(queue') /\ item' \notin Queued'
    BY <1>1, Types, TailFacts DEF Queued, IInv, PlaceInv
  <1>3. TypeOK'
    <2>1. Len(queue') <= QUEUE_MAX
      BY <1>2, ConstantsAssumption DEF IInv, TypeOK
    <2> QED BY <1>1, <1>2, <2>1 DEF IInv, TypeOK
  <1>4. AtMostOnce' /\ RpcInv'
    BY <1>1 DEF IInv, AtMostOnce, RpcInv
  <1>5. PlaceInv'
    <2>1. worker' = "call" => item' \in Items \cap Queued
      BY <1>1, <1>2
    <2> QED BY <1>1, <1>2, <2>1 DEF IInv, PlaceInv
  <1>6. Unshipped' \subseteq Unshipped
    BY <1>1, ShippedStays
  <1>7. item \notin Items
    BY <1>1, Types DEF IInv, TypeOK
  <1>8. Unshipped' \subseteq Items
    BY <1>1, Types DEF Unshipped
  <1>9. RunningInv' /\ DrainedInv'
    BY <1>1, <1>2, <1>6, <1>7, <1>8, MissingKept DEF IInv, RunningInv
  <1> QED BY <1>3, <1>4, <1>5, <1>9 DEF IInv

\* The worker sends the item, or loses it on a closed channel.
LEMMA CallStep == IInv /\ Call => IInv'
  <1> SUFFICES ASSUME IInv, Call PROVE IInv'
    OBVIOUS
  <1>1. /\ worker = "call"
        /\ UNCHANGED <<emitted, queue, stopped, life, late, recorded, lost, faults>>
        /\ \/ /\ channel = "closed" /\ worker' = "loop" /\ item' = None
              /\ UNCHANGED <<channel, wire>>
           \/ /\ channel # "closed" /\ worker' = "rpc" /\ channel' = "open"
              /\ wire' = wire \cup {item} /\ item' = item
    BY DEF Call
  <1>2. item \in Items /\ item \notin wire /\ recorded[item] = 0 /\ item <= emitted
    BY <1>1 DEF IInv, TypeOK, PlaceInv
  <1>3. TypeOK'
    BY <1>1, <1>2 DEF IInv, TypeOK
  <1>4. AtMostOnce' /\ RpcInv'
    BY <1>1 DEF IInv, AtMostOnce, RpcInv
  <1>5. PlaceInv'
    <2>1. None <= emitted
      BY Types DEF None
    <2> QED BY <1>1, <1>2, <2>1, Types DEF IInv, PlaceInv, Queued
  <1>6. Unshipped' \subseteq Unshipped
    BY <1>1, ShippedStays
  <1>7. life \in {"running", "drain"} =>
           channel' # "closed" /\ Unshipped' \subseteq Queued' \cup {item'}
    BY <1>1, <1>6 DEF IInv, RunningInv, Queued
  <1>8. RunningInv' /\ DrainedInv'
    BY <1>1, <1>6, <1>7, MissingKept
  <1> QED BY <1>3, <1>4, <1>5, <1>8 DEF IInv

\* The RPC ends: the item was handled, or is given up or cancelled.
LEMMA RpcStep == IInv /\ (RpcReturns \/ RpcFails) => IInv'
  <1> SUFFICES ASSUME IInv, RpcReturns \/ RpcFails PROVE IInv'
    OBVIOUS
  <1>1. /\ worker = "rpc" /\ worker' = "loop" /\ item' = None
        /\ UNCHANGED <<emitted, queue, stopped, life, late, wire, recorded>>
        /\ channel' \in {channel, "none"}
        /\ faults' \in {faults, faults + 1} /\ faults' <= MaxFaults
        /\ lost' \in {lost, lost \cup {item}}
        /\ \/ item \notin wire
           \/ item \in lost'
           \/ channel = "closed"
    <2>1. faults <= MaxFaults
      BY ConstantsAssumption DEF IInv, TypeOK
    <2>2. CASE RpcReturns
      BY <2>1, <2>2 DEF RpcReturns
    <2>3. CASE RpcFails
      BY <2>1, <2>3, Types, ConstantsAssumption DEF RpcFails, Fault
    <2> QED BY <2>2, <2>3
  <1>2. item \in Items
    BY <1>1 DEF IInv, TypeOK
  <1>3. TypeOK'
    <2>1. faults' \in 0..MaxFaults
      BY <1>1, Types, ConstantsAssumption
    <2> QED BY <1>1, <1>2, <2>1 DEF IInv, TypeOK
  <1>4. AtMostOnce' /\ RpcInv'
    BY <1>1 DEF IInv, AtMostOnce, RpcInv
  <1>5. PlaceInv'
    <2>1. None <= emitted
      BY Types DEF None
    <2> QED BY <1>1, <2>1, Types DEF IInv, PlaceInv, Queued
  <1>6. Unshipped' \subseteq Unshipped
    BY <1>1, ShippedStays
  <1>7. life \in {"running", "drain"} => item \notin Unshipped'
    BY <1>1 DEF IInv, RpcInv, RunningInv, Unshipped
  <1>8. life \in {"running", "drain"} =>
           channel' # "closed" /\ Unshipped' \subseteq Queued' \cup {item'}
    BY <1>1, <1>6, <1>7 DEF IInv, RunningInv, Queued
  <1>9. RunningInv' /\ DrainedInv'
    BY <1>1, <1>6, <1>8, MissingKept
  <1> QED BY <1>3, <1>4, <1>5, <1>9 DEF IInv

\* The collector handles a request, once.
LEMMA HandleStep == IInv /\ (\E i \in Items : Accept(i) \/ Reject(i)) => IInv'
  <1> SUFFICES ASSUME IInv, NEW i \in Items, Accept(i) \/ Reject(i) PROVE IInv'
    OBVIOUS
  <1>1. /\ i \in wire /\ wire' = wire \ {i}
        /\ UNCHANGED <<emitted, queue, worker, item, channel, stopped, life, late>>
        /\ recorded[i] = 0
    BY DEF Accept, Reject, Handle, IInv, PlaceInv
  <1>2. /\ \/ recorded' = [recorded EXCEPT ![i] = 1] /\ lost' = lost
           \/ recorded' = recorded /\ lost' = lost \cup {i}
        /\ faults' \in {faults, faults + 1} /\ faults' <= MaxFaults
    <2>1. CASE Accept(i)
      BY <1>1, <2>1, Types DEF Accept, IInv, TypeOK
    <2>2. CASE Reject(i)
      BY <1>1, <2>2, Types, ConstantsAssumption DEF Reject, Fault
    <2> QED BY <2>1, <2>2
  <1>3. /\ recorded' \in [Items -> Nat] /\ recorded'[i] \in {0, 1}
        /\ \A j \in Items : j # i => recorded'[j] = recorded[j]
        /\ recorded'[i] = 1 \/ i \in lost'
    BY <1>1, <1>2, Types
  <1>4. TypeOK'
    <2>1. faults' \in 0..MaxFaults
      BY <1>2, Types, ConstantsAssumption
    <2> QED BY <1>1, <1>2, <1>3, <2>1 DEF IInv, TypeOK
  <1>5. AtMostOnce'
    BY <1>3 DEF IInv, AtMostOnce
  <1>6. RpcInv'
    BY <1>1, <1>2, <1>3, Types DEF IInv, RpcInv, TypeOK, None
  <1>7. PlaceInv'
    <2>1. i \notin Queued /\ i <= emitted /\ ~(i > emitted)
      BY <1>1, Types DEF IInv, PlaceInv
    <2>2. worker = "call" => item # i /\ item \in Items
      BY <1>1, Types DEF IInv, PlaceInv, TypeOK
    <2> QED BY <1>1, <1>3, <2>1, <2>2, Types DEF IInv, PlaceInv, Queued
  <1>8. Unshipped' \subseteq Unshipped
    BY <1>1, <1>2, <1>3, Types, ShippedStays
  <1>9. RunningInv' /\ DrainedInv'
    BY <1>1, <1>8, MissingKept DEF IInv, RunningInv, Queued
  <1> QED BY <1>4, <1>5, <1>6, <1>7, <1>9 DEF IInv

-----------------------------------------------------------------------------
(* The main thread.                                                         *)

\* A step of the main thread that leaves the queue alone.
LEMMA MainStep ==
  ASSUME IInv,
         UNCHANGED <<emitted, queue, item, wire, recorded, lost, faults>>,
         worker' \in {worker, "dead"},
         life' \in Lives, stopped' \in BOOLEAN, late' \in BOOLEAN,
         channel' \in {"none", "open", "closed"},
         life' \in {"running", "drain", "stop", "signal"} =>
            life \in {"running", "drain", "stop", "signal"},
         RunningInv', DrainedInv'
  PROVE  IInv'
  <1>1. TypeOK'
    BY DEF IInv, TypeOK
  <1>2. AtMostOnce' /\ RpcInv' /\ PlaceInv'
    BY DEF IInv, AtMostOnce, RpcInv, PlaceInv, Queued
  <1> QED BY <1>1, <1>2 DEF IInv

\* shutdown() is entered.
LEMMA BeginStep == IInv /\ BeginShutdown => IInv'
  <1> SUFFICES ASSUME IInv, BeginShutdown PROVE IInv'
    OBVIOUS
  <1>1. /\ life = "running" /\ life' = "drain"
        /\ UNCHANGED <<emitted, item, wire, recorded, lost, faults, queue, worker,
                       channel, stopped, late>>
    BY DEF BeginShutdown, At
  <1>2. RunningInv' /\ DrainedInv'
    BY <1>1 DEF IInv, RunningInv, DrainedInv, Unshipped, Queued
  <1> QED BY <1>1, <1>2, MainStep DEF IInv, TypeOK, Lives

\* The drain loop ends: in time only with an empty queue, and then what is
\* missing is in the worker's hands.
LEMMA DrainStep == IInv /\ DrainEnds => IInv'
  <1> SUFFICES ASSUME IInv, DrainEnds PROVE IInv'
    OBVIOUS
  <1>1. /\ life = "drain" /\ life' = "stop" /\ late' = (queue # <<>>)
        /\ UNCHANGED <<emitted, item, wire, recorded, lost, faults, queue, worker,
                       channel, stopped>>
    BY DEF DrainEnds, At
  <1>2. ~late' => Unshipped' \subseteq {item}
    <2>1. ~late' => Queued = {}
      BY <1>1, EmptyFacts DEF Queued
    <2> QED BY <1>1, <2>1 DEF IInv, RunningInv, Unshipped
  <1>3. RunningInv' /\ DrainedInv'
    BY <1>1, <1>2 DEF IInv, TypeOK, RunningInv, DrainedInv
  <1> QED BY <1>1, <1>3, MainStep DEF IInv, TypeOK, Lives

\* The stop signal is put on the queue if there is room.
LEMMA SignalStep == IInv /\ SignalWorker => IInv'
  <1> SUFFICES ASSUME IInv, SignalWorker PROVE IInv'
    OBVIOUS
  <1>1. /\ life = "signal" /\ life' = "check"
        /\ UNCHANGED <<emitted, item, wire, recorded, lost, faults, worker,
                       channel, stopped, late>>
        /\ \/ Len(queue) < QUEUE_MAX /\ queue' = Append(queue, None)
           \/ queue' = queue
    BY DEF SignalWorker, At
  <1>2. /\ queue' \in Seq(Items \cup {None}) /\ Len(queue') <= QUEUE_MAX
        /\ IsInjective(queue') /\ Queued' \subseteq Queued \cup {None}
    <2>1. CASE queue' = queue
      BY <2>1, Types DEF Queued, IInv, PlaceInv, TypeOK
    <2>2. CASE Len(queue) < QUEUE_MAX /\ queue' = Append(queue, None)
      <3>1. Len(queue) \in Nat /\ Len(queue) + 1 <= QUEUE_MAX
        BY <2>2, Types, ConstantsAssumption
      <3>2. None \notin Queued
        BY <1>1 DEF IInv, PlaceInv
      <3> QED BY <2>2, <3>1, <3>2, Types, AppendFacts DEF Queued, IInv, PlaceInv
    <2> QED BY <1>1, <2>1, <2>2
  <1>3. TypeOK'
    BY <1>1, <1>2 DEF IInv, TypeOK, Lives
  <1>4. AtMostOnce' /\ RpcInv'
    BY <1>1 DEF IInv, AtMostOnce, RpcInv
  <1>5. PlaceInv'
    <2>1. None <= emitted /\ None \notin Items
      BY Types DEF None
    <2> QED BY <1>1, <1>2, <2>1 DEF IInv, PlaceInv
  <1>6. RunningInv' /\ DrainedInv'
    BY <1>1 DEF IInv, RunningInv, DrainedInv, Unshipped
  <1> QED BY <1>3, <1>4, <1>5, <1>6 DEF IInv

\* The rest of shutdown() and the end of the process.
LEMMA FinishStep == IInv /\ (SetStopped \/ CheckChannel \/ CloseChannel \/ Exit) => IInv'
  <1> SUFFICES ASSUME IInv, SetStopped \/ CheckChannel \/ CloseChannel \/ Exit PROVE IInv'
    OBVIOUS
  <1>1. /\ UNCHANGED <<emitted, item, wire, recorded, lost, faults, queue, late>>
        /\ life \in {"stop", "check", "close", "returned", "raised"}
        /\ life' \in {"signal", "close", "returned", "raised", "exited"}
        /\ life' = "signal" => life = "stop"
        /\ worker' \in {worker, "dead"}
        /\ stopped' \in {stopped, TRUE}
        /\ channel' \in {channel, "none", "closed"}
    BY DEF SetStopped, CheckChannel, CloseChannel, Exit, At
  <1>2. RunningInv' /\ DrainedInv'
    BY <1>1 DEF IInv, RunningInv, DrainedInv, Unshipped
  <1> QED BY <1>1, <1>2, MainStep DEF IInv, TypeOK, Lives

\* The invariant is inductive.
LEMMA NextIInv == IInv /\ [Next]_vars => IInv'
  <1> SUFFICES ASSUME IInv, [Next]_vars PROVE IInv'
    OBVIOUS
  <1>1. CASE UNCHANGED vars
    BY <1>1 DEF vars, IInv, TypeOK, AtMostOnce, PlaceInv, RpcInv, RunningInv,
       DrainedInv, Queued, Unshipped
  <1>2. CASE Next
    BY <1>2, EmitStep, LoopStep, GetStep, CallStep, RpcStep, HandleStep, BeginStep,
       DrainStep, SignalStep, FinishStep
    DEF Next, Work, Shutdown
  <1> QED BY <1>1, <1>2

-----------------------------------------------------------------------------
\* The inductive invariant holds in every reachable state.
THEOREM Invariance == Spec => []IInv
  BY InitIInv, NextIInv, PTL DEF Spec

\* The variables keep their types and bounds.
THEOREM TypeCorrect == Spec => []TypeOK
  <1>1. IInv => TypeOK
    BY DEF IInv
  <1> QED BY <1>1, Invariance, PTL

\* The collector accepts no item twice, however requests are delayed, answers
\* lost and channels replaced.
THEOREM NoDuplicateFromSdk == Spec => []AtMostOnce
  <1>1. IInv => AtMostOnce
    BY DEF IInv
  <1> QED BY <1>1, Invariance, PTL

\* An exit whose drain loop ended in time misses at most one item.
THEOREM DrainBound == Spec => []DrainLosesAtMostOne
  <1>1. IInv => DrainLosesAtMostOne
    <2> SUFFICES ASSUME IInv, life = "exited", ~late PROVE Cardinality(Unshipped) <= 1
      BY DEF DrainLosesAtMostOne
    <2>1. PICK i \in Items \cup {None} : Unshipped \subseteq {i}
      BY DEF IInv, DrainedInv
    <2>2. Unshipped = {} \/ Unshipped = {i}
      BY <2>1
    <2>3. Cardinality(Unshipped) \in {0, 1}
      BY <2>2, FS_EmptySet, FS_Singleton
    <2> QED BY <2>3
  <1> QED BY <1>1, Invariance, PTL

-----------------------------------------------------------------------------
(* The AttributeError of shutdown().                                        *)

\* The channel is closed by nobody but shutdown(), at its end.  The worker
\* forgets the channel after shutdown() found one only if an RPC failed by
\* itself: one cancelled by close() fails too late to harm.
CloseInv ==
    /\ channel = "closed" => life \in {"returned", "exited"}
    /\ life = "close" /\ channel = "none" => faults > 0
    /\ ShutdownRaisesOnlyAfterFailedRpc

\* CloseInv is preserved by every step.
LEMMA NextCloseInv == IInv /\ CloseInv /\ [Next]_vars => CloseInv'
  <1> SUFFICES ASSUME IInv, CloseInv, [Next]_vars PROVE CloseInv'
    OBVIOUS
  <1> USE DEF CloseInv, ShutdownRaisesOnlyAfterFailedRpc
  <1>1. faults \in Nat
    BY Types
  <1>2. CASE Call
    BY <1>2 DEF Call
  <1>3. CASE RpcFails
    <2>1. life' = life /\ channel' = "none"
      BY <1>3 DEF RpcFails
    <2>2. channel # "closed" => faults' > 0
      BY <1>1, <1>3 DEF RpcFails, Fault
    <2>3. channel = "closed" => life \notin {"close", "raised"}
      OBVIOUS
    <2> QED BY <2>1, <2>2, <2>3
  <1>4. CASE CheckChannel
    BY <1>4 DEF CheckChannel, At
  <1>5. CASE CloseChannel
    BY <1>5 DEF CloseChannel, At
  <1>6. CASE Exit
    BY <1>6 DEF Exit, At
  <1>7. CASE BeginShutdown \/ DrainEnds \/ SetStopped \/ SignalWorker
    BY <1>7 DEF BeginShutdown, DrainEnds, SetStopped, SignalWorker, At
  <1>8. CASE \/ Emit \/ Loop \/ Get \/ GetTimesOut \/ RpcReturns
             \/ \E i \in Items : Accept(i) \/ Reject(i)
             \/ UNCHANGED vars
    <2>1. UNCHANGED <<life, channel>> /\ faults' \in {faults, faults + 1}
      BY <1>8 DEF Emit, Loop, Get, GetTimesOut, RpcReturns, Accept, Reject, Handle,
         Fault, vars
    <2> QED BY <1>1, <2>1
  <1> QED BY <1>2, <1>3, <1>4, <1>5, <1>6, <1>7, <1>8 DEF Next, Work, Shutdown

\* The exit handler never raises against a collector that answers every RPC,
\* however the worker's steps fall between those of shutdown().
THEOREM RaiseNeedsFault == Spec => []ShutdownRaisesOnlyAfterFailedRpc
  <1>1. Init => CloseInv
    BY DEF Init, CloseInv, ShutdownRaisesOnlyAfterFailedRpc
  <1>2. CloseInv => ShutdownRaisesOnlyAfterFailedRpc
    BY DEF CloseInv
  <1> QED BY <1>1, <1>2, NextCloseInv, Invariance, PTL DEF Spec
=============================================================================
