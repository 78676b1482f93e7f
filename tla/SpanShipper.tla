---------------------------- MODULE SpanShipper ----------------------------
(***************************************************************************)
(* The SDK's span shipper (sdk/client.py): agent code puts items on a      *)
(* bounded queue, a daemon thread takes one at a time and sends it to the  *)
(* collector by a unary RPC, and the main thread runs shutdown() from      *)
(* atexit, which is after every non-daemon thread has ended.               *)
(*                                                                         *)
(* An item is the number of its emission.  A step is the code of one       *)
(* thread between two accesses to what the threads share: the queue, the   *)
(* stop event and self._channel.                                           *)
(***************************************************************************)
EXTENDS Naturals, Sequences, FiniteSets, Functions

CONSTANTS
    MaxItems,   \* bound: items emitted in a behaviour
    QUEUE_MAX,  \* capacity of the queue
    MaxFaults   \* bound: RPCs that fail by themselves and items rejected

ASSUME ConstantsAssumption ==
    /\ MaxItems \in Nat
    /\ QUEUE_MAX \in Nat \ {0}
    /\ MaxFaults \in Nat

Items == 1..MaxItems
None == 0       \* Python's None: the stop signal in the queue, or no item

VARIABLES
    emitted,    \* items emitted so far
    queue,      \* self._queue
    worker,     \* where _run is: loop, get, call, rpc, over; dead with the process
    item,       \* _run's item
    channel,    \* self._channel (and self._stub): none, open or closed
    stopped,    \* self._stopped
    life,       \* running, or where shutdown() is, see Lives
    late,       \* the drain loop gave up at its deadline
    wire,       \* items sent whose handler the collector has not run
    recorded,   \* [Items -> Nat], how often the collector accepted the item
    lost,       \* items given up: queue full, rejected, or failed RPC
    faults      \* faults so far, bounded by MaxFaults

vars == <<emitted, queue, worker, item, channel, stopped, life, late, wire,
          recorded, lost, faults>>

Lives == {"running", "drain", "stop", "signal", "check", "close",
          "returned", "raised", "exited"}

Init ==
    /\ emitted = 0
    /\ queue = <<>>
    /\ worker = "loop"
    /\ item = None
    /\ channel = "none"
    /\ stopped = FALSE
    /\ life = "running"
    /\ late = FALSE
    /\ wire = {}
    /\ recorded = [i \in Items |-> 0]
    /\ lost = {}
    /\ faults = 0

Fault ==
    /\ faults < MaxFaults
    /\ faults' = faults + 1

-----------------------------------------------------------------------------
(* The agent.                                                               *)

\* emit_span and emit_decision: put_nowait, or drop the item on a full queue.
Emit ==
    /\ life = "running"
    /\ emitted < MaxItems
    /\ emitted' = emitted + 1
    /\ IF Len(queue) < QUEUE_MAX
       THEN queue' = Append(queue, emitted') /\ UNCHANGED lost
       ELSE lost' = lost \cup {emitted'} /\ UNCHANGED queue
    /\ UNCHANGED <<worker, item, channel, stopped, life, late, wire, recorded, faults>>

-----------------------------------------------------------------------------
(* The worker thread: _run.                                                 *)

\* while not self._stopped.is_set()
Loop ==
    /\ worker = "loop"
    /\ worker' = IF stopped THEN "over" ELSE "get"
    /\ UNCHANGED <<emitted, queue, item, channel, stopped, life, late, wire,
                   recorded, lost, faults>>

\* self._queue.get returns; None ends the loop.
Get ==
    /\ worker = "get"
    /\ queue # <<>>
    /\ item' = Head(queue)
    /\ queue' = Tail(queue)
    /\ worker' = IF item' = None THEN "over" ELSE "call"
    /\ UNCHANGED <<emitted, channel, stopped, life, late, wire, recorded, lost, faults>>

\* Mutant of GetTimesOut: an empty queue ends the worker.
GetTimesOutBreaks ==
    /\ worker = "get"
    /\ queue = <<>>
    /\ worker' = "over"
    /\ UNCHANGED <<emitted, queue, item, channel, stopped, life, late, wire,
                   recorded, lost, faults>>

GetTimesOut ==
    /\ worker = "get"
    /\ queue = <<>>
    /\ worker' = "loop"
    /\ UNCHANGED <<emitted, queue, item, channel, stopped, life, late, wire,
                   recorded, lost, faults>>

\* _ensure_channel, then the request goes out; on a channel that shutdown has
\* closed the call raises ValueError, which is logged, and the item is gone.
Call ==
    /\ worker = "call"
    /\ IF channel = "closed"
       THEN worker' = "loop" /\ item' = None /\ UNCHANGED <<channel, wire>>
       ELSE /\ worker' = "rpc"
            /\ channel' = "open"
            /\ wire' = wire \cup {item}
            /\ UNCHANGED item
    /\ UNCHANGED <<emitted, queue, stopped, life, late, recorded, lost, faults>>

\* Mutant of RpcReturns: a channel for every call.
RpcReturnsResets ==
    /\ worker = "rpc"
    /\ item \notin wire
    /\ worker' = "loop"
    /\ item' = None
    /\ channel' = "none"
    /\ UNCHANGED <<emitted, queue, stopped, life, late, wire, recorded, lost, faults>>

\* The RPC returns: the handler has run.  The answer's success flag is ignored.
RpcReturns ==
    /\ worker = "rpc"
    /\ item \notin wire
    /\ worker' = "loop"
    /\ item' = None
    /\ UNCHANGED <<emitted, queue, channel, stopped, life, late, wire, recorded,
                   lost, faults>>

\* Mutant of RpcFails: the item is put back to be sent again.
RpcFailsRetries ==
    /\ worker = "rpc"
    /\ Fault
    /\ queue' = Append(queue, item)
    /\ worker' = "loop"
    /\ item' = None
    /\ channel' = "none"
    /\ UNCHANGED <<emitted, stopped, life, late, wire, recorded, lost>>

\* The RPC raises: deadline exceeded or collector unreachable, or cancelled by
\* shutdown's close().  The item is not retried, though the request may be on
\* its way still or even handled; the channel is forgotten, not closed.
RpcFails ==
    /\ worker = "rpc"
    /\ \/ channel = "closed" /\ UNCHANGED <<lost, faults>>
       \/ Fault /\ lost' = lost \cup {item}
    /\ worker' = "loop"
    /\ item' = None
    /\ channel' = "none"
    /\ UNCHANGED <<emitted, queue, stopped, life, late, wire, recorded>>

-----------------------------------------------------------------------------
(* The collector's side of the RPC (collector/server.py, RecordSpan and     *)
(* RecordDecision): it accepts the item, or its WAL write fails and the     *)
(* answer says so.  A request may be handled after its sender is gone.      *)

Handle(i) ==
    /\ i \in wire
    /\ wire' = wire \ {i}
    /\ UNCHANGED <<emitted, queue, worker, item, channel, stopped, life, late>>

Accept(i) ==
    /\ Handle(i)
    /\ recorded' = [recorded EXCEPT ![i] = @ + 1]
    /\ UNCHANGED <<lost, faults>>

Reject(i) ==
    /\ Handle(i)
    /\ Fault
    /\ lost' = lost \cup {i}
    /\ UNCHANGED recorded

-----------------------------------------------------------------------------
(* The main thread: shutdown() and the end of the process.                  *)

\* One step of shutdown: from one program point to the next.
At(here, there) ==
    /\ life = here
    /\ life' = there
    /\ UNCHANGED <<emitted, item, wire, recorded, lost, faults>>

BeginShutdown ==
    /\ At("running", "drain")
    /\ UNCHANGED <<queue, worker, channel, stopped, late>>

\* Mutant of DrainEnds: the queue is not looked at.
DrainEndsAtOnce ==
    /\ At("drain", "stop")
    /\ UNCHANGED <<queue, worker, channel, stopped, late>>

\* The loop ends when the queue is empty, whatever the worker holds, or at
\* the deadline.
DrainEnds ==
    /\ At("drain", "stop")
    /\ late' = (queue # <<>>)
    /\ UNCHANGED <<queue, worker, channel, stopped>>

SetStopped ==
    /\ At("stop", "signal")
    /\ stopped' = TRUE
    /\ UNCHANGED <<queue, worker, channel, late>>

\* Mutant of SignalWorker: a blocking put.
SignalWorkerBlocking ==
    /\ At("signal", "check")
    /\ Len(queue) < QUEUE_MAX
    /\ queue' = Append(queue, None)
    /\ UNCHANGED <<worker, channel, stopped, late>>

\* put_nowait(None), given up when the queue is full.
SignalWorker ==
    /\ At("signal", "check")
    /\ queue' = IF Len(queue) < QUEUE_MAX THEN Append(queue, None) ELSE queue
    /\ UNCHANGED <<worker, channel, stopped, late>>

\* if self._channel is not None
CheckChannel ==
    /\ At("check", IF channel = "none" THEN "returned" ELSE "close")
    /\ UNCHANGED <<queue, worker, channel, stopped, late>>

\* self._channel.close() reads the attribute again: if the worker has reset
\* it in between, the call is on None and raises AttributeError.
CloseChannel ==
    /\ At("close", IF channel = "none" THEN "raised" ELSE "returned")
    /\ channel' = IF channel = "none" THEN "none" ELSE "closed"
    /\ UNCHANGED <<queue, worker, stopped, late>>

\* The interpreter ends, and the daemon thread with it, wherever it is.
Exit ==
    /\ At("returned", "exited") \/ At("raised", "exited")
    /\ worker' = "dead"
    /\ UNCHANGED <<queue, channel, stopped, late>>

Work == Loop \/ Get \/ GetTimesOut \/ Call \/ RpcReturns \/ RpcFails
Shutdown ==
    DrainEnds \/ SetStopped \/ SignalWorker \/ CheckChannel \/ CloseChannel \/ Exit

Next ==
    \/ Emit
    \/ Work
    \/ \E i \in Items : Accept(i) \/ Reject(i)
    \/ BeginShutdown \/ Shutdown

Spec == Init /\ [][Next]_vars

\* Both threads are scheduled, and the collector serves its requests.  Nothing
\* makes the agent emit or exit.
FairSpec ==
    /\ Spec
    /\ WF_vars(Work)
    /\ WF_vars(Shutdown)
    /\ \A i \in Items : WF_vars(Accept(i))
-----------------------------------------------------------------------------
(* Safety                                                                   *)

\* The types and bounds of the variables; the worker holds an item exactly
\* while it works on one.
TypeOK ==
    /\ emitted \in 0..MaxItems
    /\ queue \in Seq(Items \cup {None}) /\ Len(queue) <= QUEUE_MAX
    /\ worker \in {"loop", "get", "call", "rpc", "over", "dead"}
    /\ item \in Items \cup {None}
    /\ worker \in {"call", "rpc"} => item # None
    /\ worker \in {"loop", "get", "over"} => item = None
    /\ channel \in {"none", "open", "closed"}
    /\ stopped \in BOOLEAN
    /\ life \in Lives
    /\ late \in BOOLEAN
    /\ wire \subseteq Items
    /\ recorded \in [Items -> Nat]
    /\ lost \subseteq Items
    /\ faults \in 0..MaxFaults

\* The collector never accepts an item twice: with the SDK alone, timeouts and
\* requests handled late included, duplicates cannot arise (they come only
\* from the collector's own replay).
AtMostOnce == \A i \in Items : recorded[i] <= 1

\* Items that neither reached the collector nor were given up for a reason.
Unshipped ==
    {i \in 1..emitted : recorded[i] = 0 /\ i \notin wire /\ i \notin lost}

\* What shutdown() achieves: if the drain loop ended before its deadline, at
\* most one item, the one the worker had in hand, goes missing at exit.
DrainLosesAtMostOne ==
    life = "exited" /\ ~late => Cardinality(Unshipped) <= 1

\* The AttributeError that shutdown() can raise on a channel reset under its
\* hands needs an RPC that failed by itself: a healthy collector never makes
\* the exit handler raise, wherever the two threads are.
ShutdownRaisesOnlyAfterFailedRpc == life = "raised" => faults > 0

\* sdk/client.py:6-8: "If the agent exits, we drain on shutdown via atexit."
\* With a collector that answers every request and a drain loop that did not
\* time out, every item has been sent when the process is gone.
DrainsOnShutdown ==
    life = "exited" /\ ~late /\ faults = 0 => Unshipped = {}

-----------------------------------------------------------------------------
(* Liveness                                                                 *)

\* As long as the agent runs, the worker survives timeouts, rejections and
\* failed RPCs: every queued item reaches the collector or is given up.
EventuallyShipped ==
    \A i \in Items :
        i \in Range(queue) ~> recorded[i] > 0 \/ i \in lost \/ life # "running"

\* The exit handler always comes to its end, with a full queue and a worker
\* that is gone included: tracing never keeps the agent from exiting.
ShutdownTerminates == life = "drain" ~> life = "exited"
=============================================================================
