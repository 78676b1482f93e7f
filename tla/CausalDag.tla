----------------------------- MODULE CausalDag -----------------------------
(***************************************************************************)
(* The causal reconstruction (engine/dag.py) as operators on the set of    *)
(* spans of one trace.  A span is a record with, at least, its id, the id  *)
(* of its explicit parent and its vector clock, a function on the agents   *)
(* (an agent missing from a clock counts 0).  fetch_spans has already      *)
(* dropped duplicates, so ids are unique and a set loses nothing; the      *)
(* order of a node's parents, which only the user interface sees, is left  *)
(* out.                                                                    *)
(***************************************************************************)
EXTENDS Naturals

\* Mutant of Precedes: equal clocks precede each other.
PrecedesOrEquals(a, b) == \A k \in DOMAIN a : a[k] <= b[k]

\* _precedes: clock a is below clock b and not equal to it.
Precedes(a, b) ==
    /\ a # b
    /\ \A k \in DOMAIN a : a[k] <= b[k]

\* The causal predecessors of c among the spans S.
Predecessors(c, S) == {p \in S : p.id # c.id /\ Precedes(p.clock, c.clock)}

\* _causal_frontier_parents: predecessors with none strictly between.
Frontier(c, S) ==
    LET preds == Predecessors(c, S)
    IN  {p \in preds : \A q \in preds \ {p} : ~Precedes(p.clock, q.clock)}

\* The explicit parent, if it is in the batch.
Explicit(c, S) == {p \in S : p.id = c.parent}

\* Mutant of Parents: an explicit parent makes the frontier superfluous.
ParentsExplicitFirst(c, S) ==
    IF Explicit(c, S) # {} THEN Explicit(c, S) \ {c} ELSE Frontier(c, S)

\* reconstruct_dag: the parents of c are its explicit parent and its frontier.
Parents(c, S) == (Explicit(c, S) \cup Frontier(c, S)) \ {c}

\* The spans that detect_gaps reports: their parents had to be inferred.
Gaps(S) == {c \in S : Explicit(c, S) = {} /\ Frontier(c, S) # {}}

\* The children of p, as reconstruct_dag lists them.
Children(p, S) == {c \in S : p \in Parents(c, S)}

\* A set of spans that holds, with a span, its children.
ClosedUnderChildren(D, S) == \A p \in D : Children(p, S) \subseteq D

\* Mutant of Descendants: only the children.
DescendantsDirect(d, S) == Children(d, S)

\* _collect_descendants, _count_descendants: the least set that holds the
\* children of d and is closed under children; the code's visited set makes it
\* a set, whatever the number of paths.
Descendants(d, S) ==
    {c \in S : \A D \in SUBSET S :
                  Children(d, S) \subseteq D /\ ClosedUnderChildren(D, S) => c \in D}

\* The spans that a decision taken in d gets edges to (_write_decision_edges):
\* its descendants, or itself when there are none or it has not arrived.
Targets(d, S) ==
    LET below == IF d \in S THEN Descendants(d, S) ELSE {}
    IN  IF below = {} THEN {d} ELSE below
=============================================================================
