------------------------------ MODULE TraceRun ------------------------------
(***************************************************************************)
(* One run of a workflow of instrumented nodes (sdk/instrument.py,         *)
(* sdk/core.py) on the shared state of demo/pipeline.py, and what the      *)
(* engine reconstructs of it (CausalDag) from the spans that have reached  *)
(* ClickHouse so far.                                                      *)
(*                                                                         *)
(* The workflow engine, LangGraph, runs in supersteps: a set of nodes in   *)
(* parallel, each on the state as it was when the step began; what they    *)
(* return is merged into the state by reducers before the next step.  Which*)
(* nodes run next is the workflow's business and left open, so loops and   *)
(* branches of unequal length are included.                                *)
(***************************************************************************)
EXTENDS CausalDag, FiniteSets

CONSTANTS
    Agents,         \* agent names; several nodes may bear the same
    NodesPerAgent,  \* nodes of each agent
    MaxSpans        \* bound: spans of the run

ASSUME ConstantsAssumption ==
    /\ NodesPerAgent \in Nat
    /\ MaxSpans \in Nat

Nodes == Agents \X (1..NodesPerAgent)
AgentOf(n) == n[1]

\* Span ids are random, so a later span may have the smaller id.
Ids == 1..MaxSpans
None == 0       \* the empty parent id

VARIABLES
    channel,    \* the state's _vector_clock and _parent_span_id
    input,      \* the same as the nodes of this step were given them
    step,       \* supersteps begun
    pending,    \* nodes of this step that still run
    failed,     \* a node has raised: no further step
    spans,      \* spans emitted, each with the step it ran in
    received    \* spans in ClickHouse; the others are on their way or lost

vars == <<channel, input, step, pending, failed, spans, received>>

\* new_trace_context.
NewContext == [clock |-> [a \in Agents |-> 0], parent |-> None]

Init ==
    /\ channel = NewContext
    /\ input = NewContext
    /\ step = 0
    /\ pending = {}
    /\ failed = FALSE
    /\ spans = {}
    /\ received = {}

-----------------------------------------------------------------------------
(* The reducers of the shared state.                                        *)

\* Mutant of MergeClock: the last branch to return overwrites the others.
MergeClockLast(left, right) == right

\* Mutant of MergeClock: counters are added up.
MergeClockSum(left, right) == [a \in Agents |-> left[a] + right[a]]

\* _merge_vector_clock: component-wise maximum.
MergeClock(left, right) ==
    [a \in Agents |-> IF left[a] < right[a] THEN right[a] ELSE left[a]]

\* Mutant of MergeParent: branches that disagree leave no parent.
MergeParentAgreed(left, right) ==
    IF left = None THEN right ELSE IF right \in {None, left} THEN left ELSE None

\* _merge_parent_span: the smallest id that is not empty.
MergeParent(left, right) ==
    IF left = None \/ (right # None /\ right < left) THEN right ELSE left

-----------------------------------------------------------------------------
(* Actions                                                                  *)

\* The next superstep starts on the merged state.
Schedule ==
    /\ pending = {}
    /\ ~failed
    /\ \E nodes \in (SUBSET Nodes) \ {{}} :
          /\ Cardinality(spans) + Cardinality(nodes) <= MaxSpans
          /\ pending' = nodes
    /\ step' = step + 1
    /\ input' = channel
    /\ UNCHANGED <<channel, failed, spans, received>>

\* begin_span and build_span: the agent's component is incremented, the parent
\* is the state's, an exception makes the event type "error".
BuildSpan(n, id, error) ==
    [id     |-> id,
     agent  |-> AgentOf(n),
     parent |-> input.parent,
     clock  |-> [input.clock EXCEPT ![AgentOf(n)] = @ + 1],
     error  |-> error,
     step   |-> step]

\* A node is over, one way or the other, and its span s is emitted.
Emit(n, s) ==
    /\ n \in pending
    /\ s.id \notin {t.id : t \in spans}
    /\ pending' = pending \ {n}
    /\ spans' = spans \cup {s}
    /\ UNCHANGED <<input, step, received>>

\* The node returns; its clock and span id go into the state.
Return(n, id) ==
    LET s == BuildSpan(n, id, FALSE)
    IN  /\ Emit(n, s)
        /\ channel' = [clock  |-> MergeClock(channel.clock, s.clock),
                       parent |-> MergeParent(channel.parent, s.id)]
        /\ UNCHANGED failed

\* Mutant of Fail: the exception is swallowed and the state updated as usual.
FailSwallowed(n, id) ==
    LET s == BuildSpan(n, id, TRUE)
    IN  /\ Emit(n, s)
        /\ channel' = [clock  |-> MergeClock(channel.clock, s.clock),
                       parent |-> MergeParent(channel.parent, s.id)]
        /\ UNCHANGED failed

\* The node raises: its span is emitted, then the run ends with the exception.
\* Nodes that run in parallel still emit theirs.
Fail(n, id) ==
    /\ Emit(n, BuildSpan(n, id, TRUE))
    /\ failed' = TRUE
    /\ UNCHANGED channel

\* A span arrives, in any order; it may as well never do.
Receive(s) ==
    /\ received' = received \cup {s}
    /\ UNCHANGED <<channel, input, step, pending, failed, spans>>

Next ==
    \/ Schedule
    \/ \E n \in Nodes, id \in Ids : Return(n, id) \/ Fail(n, id)
    \/ \E s \in spans \ received : Receive(s)

Spec == Init /\ [][Next]_vars
-----------------------------------------------------------------------------
(* Safety                                                                   *)

Contexts == [clock : [Agents -> Nat], parent : Ids \cup {None}]

SpanRecords(last) ==
    [id : Ids, agent : Agents, parent : Ids \cup {None}, clock : [Agents -> Nat],
     error : BOOLEAN, step : 1..last]

\* The types of the variables; one step adds at most one to a component.
TypeOK ==
    /\ channel \in Contexts /\ input \in Contexts
    /\ step \in Nat
    /\ \A a \in Agents : input.clock[a] <= channel.clock[a] /\ channel.clock[a] <= step
    /\ pending \subseteq Nodes
    /\ failed \in BOOLEAN
    /\ spans \subseteq SpanRecords(step)
    /\ received \subseteq spans

\* What a node saw of another: the results of all earlier steps.
Before(s, t) == s.step < t.step

\* One clock precedes another exactly if the one node's result was in the state
\* the other started from: clocks neither miss nor invent causality, also when
\* nodes of one agent run in parallel, branches differ in length, or a node
\* fails (engine/dag.py:15-19).
ClocksAreCausality ==
    \A s, t \in spans : Precedes(s.clock, t.clock) <=> Before(s, t)

\* Whatever spans are missing, every reconstructed edge goes from a cause to an
\* effect.  Explicit parents and inferred ones together close no cycle.
EdgesAreCausal ==
    \A c \in received : \A p \in Parents(c, received) : Before(p, c)

\* Whatever spans are missing, no causality among the others is: a cause is a
\* parent of its effect or comes before one, so that, edge by edge, every cause
\* is an ancestor (README.md:41).
EveryCauseIsAncestor ==
    \A s, c \in received :
        Before(s, c) => \E p \in Parents(c, received) : p = s \/ Before(s, p)

\* The gaps that detect_gaps reports are real: a parent is inferred only while
\* some emitted span is missing, never because two branches joined.
GapsMeanLoss == Gaps(received) # {} => received # spans

\* The span a decision taken in the node of s names as its source:
\* _maybe_emit_decision reads the id under the key of the parent, where the wrapper
\* has put the id of the node's own span.
DecisionSource(s) == s

\* What a decision is held to have influenced is what it could have: the edges
\* of a decision taken in span d point to all the spans that have arrived and
\* ran on a state that d's node had returned to, and to no other; d itself
\* stands in while there is none (engine/worker.py:307-310).
ImpactIsEffects ==
    \A d \in spans :
        LET later == {t \in received : Before(d, t)}
        IN  Targets(DecisionSource(d), received) = IF d \in received /\ later # {} THEN later ELSE {d}

\* sdk/instrument.py:17: the wrapper updates the state "with the new clock +
\* this span_id as parent for the next node": the explicit parent of a span is
\* a span of the step before.
ParentIsPreviousNode ==
    \A c \in spans :
        c.step > 1 => \E p \in spans : p.id = c.parent /\ p.step = c.step - 1
=============================================================================
