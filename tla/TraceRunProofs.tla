--------------------------- MODULE TraceRunProofs ---------------------------
(***************************************************************************)
(* Vector clocks tell exactly what a node saw, and the reconstruction is   *)
(* sound and complete for every set of spans that has arrived, for any     *)
(* workflow, number of agents and number of spans; the blame scores of the *)
(* agents are shares of one whole, for any costs of the spans.             *)
(***************************************************************************)
EXTENDS TraceBlame, DataLemmas, TLAPS

\* Clocks come in levels: the spans of the current step are one increment
\* above its input, and earlier ones, unless the run has failed, below it.
LevelInv ==
    /\ \A s \in spans : s.step = step =>
          \E a \in Agents : s.clock = [input.clock EXCEPT ![a] = @ + 1]
    /\ \A s \in spans : s.step < step => \A a \in Agents : s.clock[a] <= input.clock[a]
    /\ ~failed => \A s \in spans : \A a \in Agents : s.clock[a] <= channel.clock[a]
    /\ step > 0 => \A a \in Agents : input.clock[a] < step

\* i is the id of a span emitted before step n.
EmittedBefore(i, n) == \E p \in spans : p.id = i /\ p.step < n

\* Parents are ids of spans of earlier steps; only the first step has none.
ParentInv ==
    /\ \A s, t \in spans : s.id = t.id => s = t
    /\ channel.parent # None => EmittedBefore(channel.parent, step + 1)
    /\ input.parent # None => EmittedBefore(input.parent, step)
    /\ \A s \in spans : s.parent # None => EmittedBefore(s.parent, s.step)
    /\ step > 0 /\ pending = {} /\ ~failed => channel.parent # None
    /\ step > 1 => input.parent # None
    /\ pending # {} => step > 0
    /\ \A s \in spans : s.step > 1 => s.parent # None

\* An error span belongs to the last step of a failed run.
ErrorInv == \A s \in spans : s.error => failed /\ s.step = step

IInv ==
    /\ TypeOK
    /\ LevelInv
    /\ ParentInv
    /\ ErrorInv
    /\ ClocksAreCausality

-----------------------------------------------------------------------------
\* Precedence of clocks is irreflexive and transitive, a strict partial order.
LEMMA PrecedesStrictOrder ==
  ASSUME NEW A, NEW x \in [A -> Nat], NEW y \in [A -> Nat], NEW z \in [A -> Nat]
  PROVE  /\ ~Precedes(x, x)
         /\ Precedes(x, y) /\ Precedes(y, z) => Precedes(x, z)
  <1>1. ~Precedes(x, x)
    BY DEF Precedes
  <1>2. ASSUME Precedes(x, y), Precedes(y, z) PROVE Precedes(x, z)
    <2>1. \A k \in A : x[k] <= y[k] /\ y[k] <= z[k] /\ x[k] \in Nat /\ y[k] \in Nat /\ z[k] \in Nat
      BY <1>2 DEF Precedes
    <2>2. \A k \in A : x[k] <= z[k]
      BY <2>1
    <2>3. PICK k \in A : x[k] # y[k]
      BY <1>2 DEF Precedes
    <2>4. x[k] # z[k]
      BY <2>1, <2>3
    <2> QED BY <2>2, <2>4 DEF Precedes
  <1> QED BY <1>1, <1>2

\* A clock that is incremented once follows every clock below its base.
LEMMA IncrementFollows ==
  ASSUME NEW A, NEW base \in [A -> Nat], NEW a \in A,
         NEW x \in [A -> Nat], \A k \in A : x[k] <= base[k]
  PROVE  LET y == [base EXCEPT ![a] = @ + 1]
         IN  Precedes(x, y) /\ ~Precedes(y, x)
  <1> DEFINE y == [base EXCEPT ![a] = @ + 1]
  <1>1. y \in [A -> Nat] /\ y[a] = base[a] + 1 /\ \A k \in A \ {a} : y[k] = base[k]
    OBVIOUS
  <1>2. x[a] < y[a] /\ \A k \in A : x[k] <= y[k]
    BY <1>1
  <1> QED BY <1>1, <1>2 DEF Precedes

\* Two increments of one base are concurrent, or equal.
LEMMA IncrementsConcurrent ==
  ASSUME NEW A, NEW base \in [A -> Nat], NEW a \in A, NEW b \in A
  PROVE  ~Precedes([base EXCEPT ![a] = @ + 1], [base EXCEPT ![b] = @ + 1])
  <1> DEFINE x == [base EXCEPT ![a] = @ + 1]
             y == [base EXCEPT ![b] = @ + 1]
  <1>1. CASE a = b
    BY <1>1 DEF Precedes
  <1>2. CASE a # b
    <2>1. x[a] = base[a] + 1 /\ y[a] = base[a] /\ base[a] \in Nat /\ DOMAIN x = A
      BY <1>2
    <2> QED BY <2>1 DEF Precedes
  <1> QED BY <1>1, <1>2

\* What the lemmas below use of the types.
LEMMA Types ==
  ASSUME TypeOK
  PROVE  /\ step \in Nat
         /\ input.clock \in [Agents -> Nat] /\ channel.clock \in [Agents -> Nat]
         /\ input.parent \in Ids \cup {None} /\ channel.parent \in Ids \cup {None}
         /\ \A s \in spans : /\ s.clock \in [Agents -> Nat]
                             /\ s.id \in Ids /\ s.id \in Nat /\ s.id # None
                             /\ s.step \in 1..step /\ s.step \in Nat
         /\ Ids \subseteq Nat /\ None \notin Ids
  <1>1. Ids \subseteq Nat /\ None \notin Ids
    BY ConstantsAssumption DEF Ids, None
  <1>2. \A s \in spans : /\ s.clock \in [Agents -> Nat]
                         /\ s.id \in Ids /\ s.step \in 1..step
    BY DEF TypeOK, SpanRecords
  <1>3. step \in Nat /\ input \in Contexts /\ channel \in Contexts
    BY DEF TypeOK
  <1>4. \A s \in spans : s.id \in Nat /\ s.id # None /\ s.step \in Nat
    <2> SUFFICES ASSUME NEW s \in spans
                 PROVE  s.id \in Nat /\ s.id # None /\ s.step \in Nat
      OBVIOUS
    <2>1. s.id \in Nat /\ s.id # None
      BY <1>1, <1>2
    <2>2. s.step \in Nat
      BY <1>2, <1>3
    <2> QED BY <2>1, <2>2
  <1> QED BY <1>1, <1>2, <1>3, <1>4 DEF Contexts

-----------------------------------------------------------------------------
(* The reconstruction of any finite set of spans.                           *)

\* A finite set of spans with unique ids and clocks over the agents A.
Clocked(A, S) ==
    /\ IsFiniteSet(S)
    /\ \A s \in S : s.clock \in [A -> Nat]
    /\ \A s, t \in S : s.id = t.id => s = t

\* Among spans there is one that precedes none of the others and one that
\* none of them precedes.
LEMMA FirstAndLast ==
  ASSUME NEW A, NEW S, Clocked(A, S), NEW T \in SUBSET S, T # {}
  PROVE  /\ \E m \in T : \A q \in T : ~Precedes(m.clock, q.clock)
         /\ \E m \in T : \A q \in T : ~Precedes(q.clock, m.clock)
  <1> DEFINE R == {e \in T \X T : Precedes(e[1].clock, e[2].clock)}
             C == {e \in T \X T : Precedes(e[2].clock, e[1].clock)}
  <1>1. IsFiniteSet(T) /\ \A s \in T : s.clock \in [A -> Nat]
    BY FS_Subset DEF Clocked
  <1>2. \A x \in T : ~Precedes(x.clock, x.clock)
    BY <1>1, PrecedesStrictOrder
  <1>3. \A x, y, z \in T : Precedes(x.clock, y.clock) /\ Precedes(y.clock, z.clock)
                             => Precedes(x.clock, z.clock)
    BY <1>1, PrecedesStrictOrder
  <1>4. \A x, y \in T : /\ <<x, y>> \in R <=> Precedes(x.clock, y.clock)
                        /\ <<x, y>> \in C <=> Precedes(y.clock, x.clock)
    OBVIOUS
  <1> HIDE DEF R, C
  <1>5. \E m \in T : \A q \in T : <<m, q>> \notin R
    BY <1>1, <1>2, <1>3, <1>4, MaximalElement
  <1>6. \E m \in T : \A q \in T : <<m, q>> \notin C
    BY <1>1, <1>2, <1>3, <1>4, MaximalElement
  <1> QED BY <1>4, <1>5, <1>6

\* Ids being unique, predecessors are what precedes.
LEMMA PredecessorsPrecede ==
  ASSUME NEW A, NEW S, Clocked(A, S), NEW c \in S
  PROVE  Predecessors(c, S) = {p \in S : Precedes(p.clock, c.clock)}
  BY PrecedesStrictOrder DEF Clocked, Predecessors

\* The frontier loses no causality, whatever spans there are: every causal
\* predecessor is in it or precedes a span of it (engine/dag.py:79-97).
THEOREM FrontierCovers ==
  ASSUME NEW A, NEW S, Clocked(A, S), NEW c \in S, NEW s \in Predecessors(c, S)
  PROVE  \E p \in Frontier(c, S) : p = s \/ Precedes(s.clock, p.clock)
  <1> DEFINE P == Predecessors(c, S)
             T == {q \in P : q = s \/ Precedes(s.clock, q.clock)}
  <1>1. P \in SUBSET S
    BY DEF Predecessors
  <1> HIDE DEF P
  <1>2. T \in SUBSET S /\ T # {}
    BY <1>1 DEF P
  <1>3. PICK m \in T : \A q \in T : ~Precedes(m.clock, q.clock)
    BY <1>2, FirstAndLast
  <1>4. ASSUME NEW q \in P, Precedes(m.clock, q.clock) PROVE FALSE
    <2>1. m.clock \in [A -> Nat] /\ q.clock \in [A -> Nat] /\ s.clock \in [A -> Nat]
      BY <1>1, <1>2 DEF Clocked, P
    <2>2. Precedes(s.clock, q.clock)
      BY <1>3, <1>4, <2>1, PrecedesStrictOrder
    <2> QED BY <1>3, <1>4, <2>2
  <1> QED BY <1>3, <1>4 DEF Frontier, P

\* The spans that detect_gaps reports are exactly those whose explicit parent is
\* missing though the batch holds a causal predecessor (engine/dag.py:163).
THEOREM GapsExact ==
  ASSUME NEW A, NEW S, Clocked(A, S)
  PROVE  Gaps(S) = {c \in S : Explicit(c, S) = {} /\ Predecessors(c, S) # {}}
  <1>1. \A c \in S : Frontier(c, S) # {} <=> Predecessors(c, S) # {}
    <2>1. \A c \in S : Frontier(c, S) \subseteq Predecessors(c, S)
      BY DEF Frontier
    <2> QED BY <2>1, FrontierCovers
  <1> QED BY <1>1 DEF Gaps

\* The reconstruction loses no causality, whatever spans are missing and whatever
\* the explicit parents: all that a span causally precedes descends from it.
THEOREM SuccessorsAreDescendants ==
  ASSUME NEW A, NEW S, Clocked(A, S), NEW d \in S, NEW t \in S, Precedes(d.clock, t.clock)
  PROVE  t \in Descendants(d, S)
  <1> SUFFICES ASSUME NEW D \in SUBSET S,
                      Children(d, S) \subseteq D, ClosedUnderChildren(D, S), t \notin D
               PROVE  FALSE
    BY DEF Descendants
  <1> DEFINE T == {u \in S : Precedes(d.clock, u.clock) /\ u \notin D}
  <1>1. T \in SUBSET S /\ T # {}
    OBVIOUS
  <1>2. PICK m \in T : \A q \in T : ~Precedes(q.clock, m.clock)
    BY <1>1, FirstAndLast
  <1>3. PICK p \in Frontier(m, S) : p = d \/ Precedes(d.clock, p.clock)
    BY <1>2, PredecessorsPrecede, FrontierCovers
  <1>4. p \in S /\ Precedes(p.clock, m.clock) /\ p # m
    BY <1>2, <1>3, PredecessorsPrecede DEF Frontier, Predecessors
  <1>5. m \in Children(p, S)
    BY <1>2, <1>3, <1>4 DEF Children, Parents
  <1>6. p \notin D /\ p # d
    BY <1>2, <1>5 DEF ClosedUnderChildren
  <1> QED BY <1>2, <1>3, <1>4, <1>6

\* Nor does it invent any, if explicit parents precede their children: edge by
\* edge, the reconstruction is the causal order, for any finite set of spans.
THEOREM DescendantsExact ==
  ASSUME NEW A, NEW S, Clocked(A, S), NEW d \in S,
         \A c \in S : \A p \in Explicit(c, S) : Precedes(p.clock, c.clock)
  PROVE  Descendants(d, S) = {t \in S : Precedes(d.clock, t.clock)}
  <1> DEFINE D == {t \in S : Precedes(d.clock, t.clock)}
  <1>1. \A s \in S : s.clock \in [A -> Nat]
    BY DEF Clocked
  <1>2. \A p, c \in S : c \in Children(p, S) => Precedes(p.clock, c.clock)
    BY PredecessorsPrecede DEF Children, Parents, Frontier
  <1>3. Children(d, S) \subseteq D
    BY <1>2 DEF Children
  <1>4. ClosedUnderChildren(D, S)
    <2> SUFFICES ASSUME NEW p \in D, NEW c \in Children(p, S) PROVE c \in D
      BY DEF ClosedUnderChildren
    <2>1. c \in S /\ Precedes(p.clock, c.clock)
      BY <1>2 DEF Children
    <2> QED BY <1>1, <2>1, PrecedesStrictOrder
  <1>5. Descendants(d, S) \subseteq D
    BY <1>3, <1>4 DEF Descendants
  <1>6. D \subseteq Descendants(d, S)
    BY SuccessorsAreDescendants
  <1> QED BY <1>5, <1>6
-----------------------------------------------------------------------------
\* The invariant holds initially.
LEMMA InitIInv == Init => IInv
  <1> SUFFICES ASSUME Init PROVE IInv
    OBVIOUS
  <1>1. TypeOK
    <2>1. /\ NewContext \in Contexts
          /\ \A a \in Agents : NewContext.clock[a] = 0
      BY DEF NewContext, Contexts
    <2>2. /\ channel = NewContext /\ input = NewContext /\ step = 0
          /\ pending = {} /\ failed = FALSE /\ spans = {} /\ received = {}
      BY DEF Init
    <2>3. \A a \in Agents : /\ input.clock[a] <= channel.clock[a]
                            /\ channel.clock[a] <= step
      BY <2>1, <2>2
    <2> QED BY <2>1, <2>2, <2>3 DEF TypeOK
  <1>2. LevelInv /\ ClocksAreCausality
    BY DEF Init, LevelInv, ClocksAreCausality
  <1>3. ParentInv /\ ErrorInv
    BY DEF Init, ParentInv, NewContext, ErrorInv
  <1> QED BY <1>1, <1>2, <1>3 DEF IInv

\* A new step begins: all spans become earlier ones.
LEMMA ScheduleStep == ASSUME IInv, Schedule PROVE IInv'
  <1> USE DEF Schedule
  <1>1. step' = step + 1 /\ step \in Nat /\ spans' = spans /\ input' = channel
        /\ channel' = channel /\ ~failed /\ failed' = failed /\ pending = {}
        /\ received' = received
    BY DEF IInv, TypeOK
  <1>a. pending' # {} /\ pending' \subseteq Nodes
    <2>1. PICK nodes \in (SUBSET Nodes) \ {{}} : pending' = nodes
      OBVIOUS
    <2> QED BY <2>1
  <1>2. \A s \in spans : s.step \in 1..step
    BY Types DEF IInv
  <1>3. TypeOK'
    <2>1. \A a \in Agents : /\ channel.clock[a] \in Nat
                            /\ channel.clock[a] <= step
      BY DEF IInv, TypeOK, Contexts
    <2>2. \A a \in Agents : channel.clock[a] <= step + 1
      BY <1>1, <2>1
    <2>3. 1..step \subseteq 1..(step + 1)
      BY <1>1
    <2>4. spans \subseteq SpanRecords(step + 1)
      BY <2>3 DEF IInv, TypeOK, SpanRecords
    <2> QED BY <1>1, <1>a, <2>1, <2>2, <2>4 DEF IInv, TypeOK
  <1>4. LevelInv'
    <2>1. \A a \in Agents : channel.clock[a] \in Nat /\ channel.clock[a] <= step
      BY DEF IInv, TypeOK, Contexts
    <2>2. \A a \in Agents : channel.clock[a] < step + 1
      BY <1>1, <2>1
    <2> QED BY <1>1, <1>2, <2>2 DEF IInv, LevelInv
  <1>5. ParentInv'
    <2>1. channel.parent # None => EmittedBefore(channel.parent, step + 1)
      BY DEF IInv, ParentInv
    <2>2. channel.parent # None => EmittedBefore(channel.parent, step + 2)
      BY <1>1, <1>2, <2>1 DEF EmittedBefore
    <2>3. step + 1 > 1 => channel.parent # None
      BY <1>1 DEF IInv, ParentInv
    <2>4. EmittedBefore(channel.parent, step + 1)' <=> EmittedBefore(channel.parent, step + 2)
      BY <1>1 DEF EmittedBefore
    <2>5. \A s \in spans : s.parent # None => EmittedBefore(s.parent, s.step)'
      BY <1>1 DEF IInv, ParentInv, EmittedBefore
    <2>6. EmittedBefore(input.parent, step)' <=> EmittedBefore(channel.parent, step + 1)
      BY <1>1 DEF EmittedBefore
    <2>7. step + 1 > 0
      BY <1>1
    <2> QED
      BY <1>1, <1>a, <2>1, <2>2, <2>3, <2>4, <2>5, <2>6, <2>7 DEF IInv, ParentInv
  <1>6. ClocksAreCausality' /\ ErrorInv'
    BY <1>1 DEF IInv, ClocksAreCausality, Before, ErrorInv
  <1> QED BY <1>3, <1>4, <1>5, <1>6 DEF IInv

-----------------------------------------------------------------------------
(* A node is over: what it emits.                                           *)

\* The span of a node, seen from the spans before it.
LEMMA SpanFacts ==
  ASSUME IInv, NEW n \in Nodes, NEW id \in Ids, NEW error \in BOOLEAN, n \in pending
  PROVE  LET s == BuildSpan(n, id, error)
         IN  /\ AgentOf(n) \in Agents
             /\ s.clock = [input.clock EXCEPT ![AgentOf(n)] = @ + 1]
             /\ s.clock \in [Agents -> Nat]
             /\ s.id = id /\ s.step = step /\ s.parent = input.parent
             /\ step \in 1..step
             /\ s \in SpanRecords(step)
  <1>1. AgentOf(n) \in Agents
    BY DEF Nodes, AgentOf
  <1>2. step \in Nat /\ step > 0
    BY DEF IInv, TypeOK, ParentInv
  <1>3. input.clock \in [Agents -> Nat] /\ input.parent \in Ids \cup {None}
    BY Types DEF IInv
  <1>4. [input.clock EXCEPT ![AgentOf(n)] = @ + 1] \in [Agents -> Nat]
    BY <1>1, <1>3
  <1> QED BY <1>1, <1>2, <1>3, <1>4 DEF BuildSpan, SpanRecords

\* The new span relates to the others as the steps do.
LEMMA EmitCausality ==
  ASSUME IInv, NEW n \in Nodes, NEW id \in Ids, NEW error \in BOOLEAN, Emit(n, BuildSpan(n, id, error))
  PROVE  ClocksAreCausality'
  <1> DEFINE s == BuildSpan(n, id, error)
  <1>1. n \in pending /\ spans' = spans \cup {s}
    BY DEF Emit
  <1>2. /\ AgentOf(n) \in Agents /\ s.clock = [input.clock EXCEPT ![AgentOf(n)] = @ + 1]
        /\ s.step = step /\ step \in Nat
    <2>1. /\ AgentOf(n) \in Agents /\ s.clock = [input.clock EXCEPT ![AgentOf(n)] = @ + 1]
          /\ s.step = step
      BY DEF BuildSpan, Nodes, AgentOf
    <2> QED BY <2>1, Types DEF IInv
  <1>3. input.clock \in [Agents -> Nat]
    BY Types DEF IInv
  <1>4. ASSUME NEW t \in spans
        PROVE  /\ Precedes(t.clock, s.clock) <=> Before(t, s)
               /\ Precedes(s.clock, t.clock) <=> Before(s, t)
    <2>1. t.step \in 1..step /\ t.clock \in [Agents -> Nat]
      BY Types DEF IInv
    <2>2. CASE t.step = step
      <3>1. PICK a \in Agents : t.clock = [input.clock EXCEPT ![a] = @ + 1]
        BY <2>2 DEF IInv, LevelInv
      <3>2. ~Precedes(t.clock, s.clock) /\ ~Precedes(s.clock, t.clock)
        BY <3>1, <1>2, <1>3, IncrementsConcurrent
      <3> QED BY <3>2, <2>2, <1>2 DEF Before
    <2>3. CASE t.step < step
      <3>1. \A a \in Agents : t.clock[a] <= input.clock[a]
        BY <2>3 DEF IInv, LevelInv
      <3>2. Precedes(t.clock, s.clock) /\ ~Precedes(s.clock, t.clock)
        BY <3>1, <2>1, <1>2, <1>3, IncrementFollows
      <3> QED BY <3>2, <2>3, <2>1, <1>2 DEF Before
    <2> QED BY <2>1, <2>2, <2>3, <1>2
  <1>5. ~Precedes(s.clock, s.clock) /\ ~Before(s, s)
    BY <1>2 DEF Precedes, Before
  <1>6. \A t, u \in spans : Precedes(t.clock, u.clock) <=> Before(t, u)
    BY DEF IInv, ClocksAreCausality
  <1>7. \A t, u \in spans \cup {s} : Precedes(t.clock, u.clock) <=> Before(t, u)
    BY <1>4, <1>5, <1>6
  <1> QED BY <1>1, <1>7 DEF ClocksAreCausality

\* What Return and Fail have in common: the span is typed, its clock is one
\* increment above the input and its id is new.
LEMMA EmitStep ==
  ASSUME IInv, NEW n \in Nodes, NEW id \in Ids, NEW error \in BOOLEAN, Emit(n, BuildSpan(n, id, error))
  PROVE  LET s == BuildSpan(n, id, error)
         IN  /\ spans' = spans \cup {s} /\ step' = step /\ input' = input
             /\ received' = received /\ received \subseteq spans'
             /\ pending' \subseteq Nodes /\ step > 0
             /\ spans' \subseteq SpanRecords(step)
             /\ \A t \in spans' : t.step = step =>
                   \E a \in Agents : t.clock = [input.clock EXCEPT ![a] = @ + 1]
             /\ \A t \in spans' : t.step < step =>
                   \A a \in Agents : t.clock[a] <= input.clock[a]
             /\ \A t, u \in spans' : t.id = u.id => t = u
             /\ \A i, m : EmittedBefore(i, m) => EmittedBefore(i, m)'
             /\ EmittedBefore(id, step + 1)'
             /\ \A t \in spans' : t.parent # None => EmittedBefore(t.parent, t.step)'
             /\ \A t \in spans' : t.step > 1 => t.parent # None
  <1> DEFINE s == BuildSpan(n, id, error)
  <1>1. /\ n \in pending /\ spans' = spans \cup {s} /\ step' = step /\ input' = input
        /\ received' = received /\ pending' = pending \ {n}
        /\ s.id \notin {t.id : t \in spans}
    BY DEF Emit
  <1>2. /\ AgentOf(n) \in Agents /\ s.clock = [input.clock EXCEPT ![AgentOf(n)] = @ + 1]
        /\ s.id = id /\ s.step = step /\ s.parent = input.parent
        /\ step \in 1..step /\ step \in Nat
        /\ s \in SpanRecords(step)
    <2>1. /\ AgentOf(n) \in Agents /\ s.clock = [input.clock EXCEPT ![AgentOf(n)] = @ + 1]
          /\ s.id = id /\ s.step = step /\ s.parent = input.parent
          /\ step \in 1..step /\ s \in SpanRecords(step)
      BY <1>1, SpanFacts
    <2> QED BY <2>1, Types DEF IInv
  <1> HIDE DEF s
  <1>3. /\ received \subseteq spans' /\ pending' \subseteq Nodes /\ step > 0
        /\ spans' \subseteq SpanRecords(step)
    BY <1>1, <1>2 DEF IInv, TypeOK
  <1>4. \A t \in spans' : t.step = step =>
           \E a \in Agents : t.clock = [input.clock EXCEPT ![a] = @ + 1]
    BY <1>1, <1>2 DEF IInv, LevelInv
  <1>5. \A t \in spans' : t.step < step => \A a \in Agents : t.clock[a] <= input.clock[a]
    BY <1>1, <1>2 DEF IInv, LevelInv
  <1>6. \A t, u \in spans' : t.id = u.id => t = u
    BY <1>1 DEF IInv, ParentInv
  <1>7. \A i, m : EmittedBefore(i, m) => EmittedBefore(i, m)'
    BY <1>1 DEF EmittedBefore
  <1>8. EmittedBefore(id, step + 1)'
    BY <1>1, <1>2 DEF EmittedBefore
  <1>9. \A t \in spans' : t.parent # None => EmittedBefore(t.parent, t.step)'
    BY <1>1, <1>2, <1>7 DEF IInv, ParentInv
  <1>10. \A t \in spans' : t.step > 1 => t.parent # None
    BY <1>1, <1>2 DEF IInv, ParentInv
  <1> QED
    BY <1>1, <1>3, <1>4, <1>5, <1>6, <1>7, <1>8, <1>9, <1>10 DEF s

\* A node returns.
LEMMA ReturnStep ==
  ASSUME IInv, NEW n \in Nodes, NEW id \in Ids, Return(n, id)
  PROVE  IInv'
  <1> DEFINE s == BuildSpan(n, id, FALSE)
  <1>1. /\ Emit(n, s) /\ failed' = failed
        /\ channel' = [clock  |-> MergeClock(channel.clock, s.clock),
                       parent |-> MergeParent(channel.parent, id)]
    BY DEF Return, BuildSpan
  <1>2. n \in pending
    BY <1>1 DEF Emit
  <1>3. /\ AgentOf(n) \in Agents /\ s.clock = [input.clock EXCEPT ![AgentOf(n)] = @ + 1]
        /\ s.clock \in [Agents -> Nat]
    BY <1>2, SpanFacts
  <1>4. step \in Nat /\ input.clock \in [Agents -> Nat] /\ channel.clock \in [Agents -> Nat]
        /\ input \in Contexts /\ channel.parent \in Ids \cup {None}
        /\ None \notin Ids
    BY Types DEF IInv, TypeOK
  <1>5. /\ spans' = spans \cup {s} /\ step' = step /\ input' = input /\ step > 0
        /\ received' = received /\ received \subseteq spans' /\ pending' \subseteq Nodes
        /\ spans' \subseteq SpanRecords(step)
    BY <1>1, EmitStep
  <1> HIDE DEF s
  <1>6. /\ channel'.clock \in [Agents -> Nat]
        /\ \A a \in Agents : /\ channel.clock[a] <= channel'.clock[a]
                             /\ s.clock[a] <= channel'.clock[a]
                             /\ channel'.clock[a] \in {channel.clock[a], s.clock[a]}
    BY <1>1, <1>3, <1>4 DEF MergeClock
  <1>7. channel'.parent \in {channel.parent, id} /\ channel'.parent # None
    BY <1>1, <1>4 DEF MergeParent
  <1>8. TypeOK'
    <2>1. channel' \in Contexts
      BY <1>1, <1>4, <1>6, <1>7 DEF Contexts
    <2>2. \A a \in Agents : input.clock[a] <= channel.clock[a] /\ channel.clock[a] <= step
      BY DEF IInv, TypeOK
    <2>3. \A a \in Agents : s.clock[a] <= input.clock[a] + 1
      BY <1>3, <1>4
    <2>4. \A a \in Agents : s.clock[a] <= step
      <3>1. \A a \in Agents : /\ input.clock[a] \in Nat /\ s.clock[a] \in Nat
                              /\ input.clock[a] < step
        BY <1>3, <1>4, <1>5 DEF IInv, LevelInv
      <3> QED BY <3>1, <2>3, <1>4
    <2> QED BY <1>1, <1>4, <1>5, <1>6, <2>1, <2>2, <2>4 DEF IInv, TypeOK
  <1>9. LevelInv'
    <2>1. /\ \A t \in spans' : t.step = step =>
                \E a \in Agents : t.clock = [input.clock EXCEPT ![a] = @ + 1]
          /\ \A t \in spans' : t.step < step =>
                \A a \in Agents : t.clock[a] <= input.clock[a]
      BY <1>1, EmitStep DEF s
    <2>2. ~failed => \A t \in spans' : \A a \in Agents : t.clock[a] <= channel'.clock[a]
      <3>1. \A t \in spans : t.clock \in [Agents -> Nat]
        BY Types DEF IInv
      <3>2. ASSUME ~failed, NEW t \in spans, NEW a \in Agents
            PROVE  t.clock[a] <= channel'.clock[a]
        <4>1. t.clock[a] <= channel.clock[a] /\ channel.clock[a] <= channel'.clock[a]
          BY <3>2, <1>6 DEF IInv, LevelInv
        <4>2. t.clock[a] \in Nat /\ channel.clock[a] \in Nat /\ channel'.clock[a] \in Nat
          BY <3>1, <1>4, <1>6
        <4> QED BY <4>1, <4>2
      <3> QED BY <3>2, <1>5, <1>6
    <2>3. step > 0 => \A a \in Agents : input.clock[a] < step
      BY DEF IInv, LevelInv
    <2> QED BY <1>1, <1>5, <2>1, <2>2, <2>3 DEF LevelInv
  <1>10. ParentInv'
    <2>1. /\ \A t, u \in spans' : t.id = u.id => t = u
          /\ \A i, m : EmittedBefore(i, m) => EmittedBefore(i, m)'
          /\ EmittedBefore(id, step + 1)'
          /\ \A t \in spans' : t.parent # None => EmittedBefore(t.parent, t.step)'
          /\ \A t \in spans' : t.step > 1 => t.parent # None
      BY <1>1, EmitStep DEF s
    <2>2. EmittedBefore(channel.parent, step + 1) \/ channel.parent = None
      BY DEF IInv, ParentInv
    <2>3. \E p \in spans' : p.id = channel'.parent /\ p.step < step' + 1
      BY <2>1, <2>2, <1>5, <1>7 DEF EmittedBefore
    <2>4. input'.parent # None => \E p \in spans' : p.id = input'.parent /\ p.step < step'
      BY <1>5 DEF IInv, ParentInv, EmittedBefore
    <2>5. \A t \in spans' : t.parent # None => \E p \in spans' : p.id = t.parent /\ p.step < t.step
      BY <2>1 DEF EmittedBefore
    <2>6. step' > 1 => input'.parent # None
      BY <1>5 DEF IInv, ParentInv
    <2> QED BY <1>5, <1>7, <2>1, <2>3, <2>4, <2>5, <2>6 DEF ParentInv, EmittedBefore
  <1>11. ClocksAreCausality'
    BY <1>1, EmitCausality DEF s
  <1>12. ErrorInv'
    <2>1. s.error = FALSE
      BY DEF s, BuildSpan
    <2> QED BY <1>1, <1>5, <2>1 DEF IInv, ErrorInv
  <1> QED BY <1>8, <1>9, <1>10, <1>11, <1>12 DEF IInv

\* A node raises: the state is not touched and no step follows.
LEMMA FailStep ==
  ASSUME IInv, NEW n \in Nodes, NEW id \in Ids, Fail(n, id)
  PROVE  IInv'
  <1> DEFINE s == BuildSpan(n, id, TRUE)
  <1>1. Emit(n, s) /\ failed' = TRUE /\ channel' = channel
    BY DEF Fail
  <1>2. /\ spans' = spans \cup {s} /\ step' = step /\ input' = input /\ step > 0
        /\ received' = received /\ received \subseteq spans' /\ pending' \subseteq Nodes
        /\ spans' \subseteq SpanRecords(step)
    BY <1>1, EmitStep
  <1>3. TypeOK'
    BY <1>1, <1>2 DEF IInv, TypeOK
  <1>4. LevelInv'
    <2>1. /\ \A t \in spans' : t.step = step =>
                \E a \in Agents : t.clock = [input.clock EXCEPT ![a] = @ + 1]
          /\ \A t \in spans' : t.step < step =>
                \A a \in Agents : t.clock[a] <= input.clock[a]
      BY <1>1, EmitStep
    <2> QED BY <1>1, <1>2, <2>1 DEF IInv, LevelInv
  <1>5. ParentInv'
    <2>1. /\ \A t, u \in spans' : t.id = u.id => t = u
          /\ \A i, m : EmittedBefore(i, m) => EmittedBefore(i, m)'
          /\ \A t \in spans' : t.parent # None => EmittedBefore(t.parent, t.step)'
          /\ \A t \in spans' : t.step > 1 => t.parent # None
      BY <1>1, EmitStep
    <2>2. channel.parent # None => \E p \in spans' : p.id = channel.parent /\ p.step < step + 1
      BY <1>2 DEF IInv, ParentInv, EmittedBefore
    <2>3. input.parent # None => \E p \in spans' : p.id = input.parent /\ p.step < step
      BY <1>2 DEF IInv, ParentInv, EmittedBefore
    <2>4. \A t \in spans' : t.parent # None => \E p \in spans' : p.id = t.parent /\ p.step < t.step
      BY <2>1 DEF EmittedBefore
    <2>5. step > 1 => input.parent # None
      BY DEF IInv, ParentInv
    <2> QED BY <1>1, <1>2, <2>1, <2>2, <2>3, <2>4, <2>5 DEF ParentInv, EmittedBefore
  <1>6. ClocksAreCausality'
    BY <1>1, EmitCausality
  <1>7. ErrorInv'
    <2>1. s.step = step
      BY DEF BuildSpan
    <2> QED BY <1>1, <1>2, <2>1 DEF IInv, ErrorInv
  <1> QED BY <1>3, <1>4, <1>5, <1>6, <1>7 DEF IInv

\* The engine's view is no concern of the run.
LEMMA ReceiveStep == ASSUME IInv, NEW s \in spans \ received, Receive(s) PROVE IInv'
  <1>1. TypeOK'
    BY DEF IInv, TypeOK, Receive
  <1>2. LevelInv' /\ ClocksAreCausality'
    BY DEF IInv, LevelInv, ClocksAreCausality, Receive
  <1>3. ParentInv' /\ ErrorInv'
    BY DEF IInv, ParentInv, EmittedBefore, ErrorInv, Receive
  <1> QED BY <1>1, <1>2, <1>3 DEF IInv

\* A step that changes nothing.
LEMMA StutterStep == ASSUME IInv, UNCHANGED vars PROVE IInv'
  <1>1. TypeOK'
    BY DEF IInv, TypeOK, vars
  <1>2. LevelInv' /\ ClocksAreCausality'
    BY DEF IInv, LevelInv, ClocksAreCausality, vars
  <1>3. ParentInv' /\ ErrorInv'
    BY DEF IInv, ParentInv, EmittedBefore, ErrorInv, vars
  <1> QED BY <1>1, <1>2, <1>3 DEF IInv

\* The inductive invariant holds in every reachable state.
THEOREM Invariance == Spec => []IInv
  <1>1. IInv /\ [Next]_vars => IInv'
    BY ScheduleStep, ReturnStep, FailStep, ReceiveStep, StutterStep DEF Next
  <1> QED BY InitIInv, <1>1, PTL DEF Spec

\* The variables have their types.
THEOREM TypeCorrect == Spec => []TypeOK
  BY Invariance, PTL DEF IInv

\* Vector clocks say exactly what a node saw.
THEOREM ClocksExact == Spec => []ClocksAreCausality
  BY Invariance, PTL DEF IInv

-----------------------------------------------------------------------------
(* The reconstruction of a run.                                             *)

\* A step adds at most one span, so there are finitely many.
FiniteInv == IsFiniteSet(spans)

\* It is an invariant.
LEMMA SpansFinite == Spec => []FiniteInv
  <1>1. Init => FiniteInv
    BY FS_EmptySet DEF Init, FiniteInv
  <1>2. FiniteInv /\ [Next]_vars => FiniteInv'
    <2> SUFFICES ASSUME FiniteInv, [Next]_vars PROVE FiniteInv'
      OBVIOUS
    <2>1. spans' = spans \/ \E s : spans' = spans \cup {s}
      BY DEF Next, Schedule, Return, Fail, Emit, Receive, vars
    <2> QED BY <2>1, FS_AddElement DEF FiniteInv
  <1> QED BY <1>1, <1>2, PTL DEF Spec

\* Explicit parents are earlier spans.
LEMMA ExplicitFacts ==
  ASSUME IInv, NEW c \in received, NEW p \in Explicit(c, received)
  PROVE  Before(p, c)
  <1>1. c \in spans /\ p \in spans /\ p.id = c.parent
    BY DEF Explicit, IInv, TypeOK
  <1>2. p.id # None
    BY <1>1, Types DEF IInv
  <1>3. PICK q \in spans : q.id = c.parent /\ q.step < c.step
    BY <1>1, <1>2 DEF IInv, ParentInv, EmittedBefore
  <1>4. q = p
    BY <1>1, <1>3 DEF IInv, ParentInv
  <1> QED BY <1>3, <1>4 DEF Before

\* What has arrived of a run is a set of spans the theorems above speak of; its
\* predecessors are the earlier spans, and its explicit parents are among them.
LEMMA ReceivedFacts ==
  ASSUME IInv, FiniteInv
  PROVE  /\ Clocked(Agents, received)
         /\ received \subseteq spans
         /\ \A p, c \in received : Precedes(p.clock, c.clock) <=> Before(p, c)
         /\ \A p, c \in received : p \in Predecessors(c, received) <=> Before(p, c)
         /\ \A c \in received : \A p \in Explicit(c, received) : Precedes(p.clock, c.clock)
  <1>1. received \in SUBSET spans
    BY DEF IInv, TypeOK
  <1>2. \A s \in received : s.clock \in [Agents -> Nat]
    BY <1>1, Types DEF IInv
  <1>3. \A s, t \in received : s.id = t.id => s = t
    BY <1>1 DEF IInv, ParentInv
  <1>4. Clocked(Agents, received)
    BY <1>1, <1>2, <1>3, FS_Subset DEF Clocked, FiniteInv
  <1>5. \A p, c \in received : Precedes(p.clock, c.clock) <=> Before(p, c)
    BY <1>1 DEF IInv, ClocksAreCausality
  <1>6. \A p, c \in received : p \in Predecessors(c, received) <=> Before(p, c)
    BY <1>4, <1>5, PredecessorsPrecede
  <1>7. \A c \in received : \A p \in Explicit(c, received) : Precedes(p.clock, c.clock)
    BY <1>5, ExplicitFacts DEF Explicit
  <1> QED BY <1>1, <1>4, <1>5, <1>6, <1>7

\* The reconstruction invents no causality, and so has no cycle, whatever
\* spans are missing.
THEOREM ReconstructionSound == Spec => []EdgesAreCausal
  <1>1. ASSUME IInv, FiniteInv PROVE EdgesAreCausal
    <2> SUFFICES ASSUME NEW c \in received, NEW p \in Parents(c, received)
                 PROVE  Before(p, c)
      BY DEF EdgesAreCausal
    <2>1. CASE p \in Explicit(c, received)
      BY <1>1, <2>1, ExplicitFacts
    <2>2. CASE p \in Frontier(c, received)
      <3>1. p \in Predecessors(c, received) /\ p \in received
        BY <2>2 DEF Frontier, Predecessors
      <3> QED BY <1>1, <3>1, ReceivedFacts
    <2> QED BY <2>1, <2>2 DEF Parents
  <1>2. IInv /\ FiniteInv => EdgesAreCausal
    BY <1>1
  <1> QED BY Invariance, SpansFinite, <1>2, PTL

\* The reconstruction loses no causality among the spans that have arrived.
THEOREM ReconstructionComplete == Spec => []EveryCauseIsAncestor
  <1>1. ASSUME IInv, FiniteInv PROVE EveryCauseIsAncestor
    <2> SUFFICES ASSUME NEW s \in received, NEW c \in received, Before(s, c)
                 PROVE  \E p \in Parents(c, received) : p = s \/ Before(s, p)
      BY DEF EveryCauseIsAncestor
    <2>1. Clocked(Agents, received) /\ s \in Predecessors(c, received)
      BY <1>1, ReceivedFacts
    <2>2. PICK p \in Frontier(c, received) : p = s \/ Precedes(s.clock, p.clock)
      BY <2>1, FrontierCovers
    <2>3. p \in received /\ p # c
      BY <2>2 DEF Frontier, Predecessors
    <2>4. p = s \/ Before(s, p)
      BY <1>1, <2>2, <2>3, ReceivedFacts
    <2> QED BY <2>2, <2>3, <2>4 DEF Parents
  <1>2. IInv /\ FiniteInv => EveryCauseIsAncestor
    BY <1>1
  <1> QED BY Invariance, SpansFinite, <1>2, PTL

\* A parent is inferred only while some emitted span is missing.
THEOREM GapsReal == Spec => []GapsMeanLoss
  <1>1. ASSUME IInv, FiniteInv PROVE GapsMeanLoss
    <2> SUFFICES ASSUME NEW c \in Gaps(received), received = spans PROVE FALSE
      BY DEF GapsMeanLoss
    <2>1. c \in received /\ Explicit(c, received) = {} /\ Predecessors(c, received) # {}
      BY <1>1, ReceivedFacts, GapsExact
    <2>2. PICK p \in received : Before(p, c)
      <3>1. Predecessors(c, received) \subseteq received
        BY DEF Predecessors
      <3> QED BY <1>1, <2>1, <3>1, ReceivedFacts
    <2>3. c.step > 1
      BY <1>1, <2>1, <2>2, Types DEF IInv, Before
    <2>4. PICK q \in spans : q.id = c.parent
      BY <1>1, <2>1, <2>3 DEF IInv, ParentInv, EmittedBefore
    <2> QED BY <2>1, <2>4 DEF Explicit
  <1>2. IInv /\ FiniteInv => GapsMeanLoss
    BY <1>1
  <1> QED BY Invariance, SpansFinite, <1>2, PTL
-----------------------------------------------------------------------------
(* Decisions and errors.                                                    *)

\* The descendants of a received span are the received spans that ran later.
LEMMA DescendantsLater ==
  ASSUME IInv, FiniteInv, NEW d \in received
  PROVE  Descendants(d, received) = {t \in received : Before(d, t)}
  <1>1. Descendants(d, received) = {t \in received : Precedes(d.clock, t.clock)}
    BY ReceivedFacts, DescendantsExact
  <1> QED BY <1>1, ReceivedFacts

\* The edges of a decision are exactly its possible effects among the spans that
\* have arrived (engine/worker.py:307-310).
THEOREM DecisionEdgesExact == Spec => []ImpactIsEffects
  <1>1. IInv /\ FiniteInv => ImpactIsEffects
    BY DescendantsLater DEF ImpactIsEffects, DecisionSource, Targets
  <1> QED BY Invariance, SpansFinite, <1>1, PTL

\* An error span of a run has no descendants.
LEMMA ErrorIsLast ==
  ASSUME IInv, FiniteInv, NEW s \in received, s.error
  PROVE  Descendants(s, received) = {}
  <1>1. s \in spans /\ \A t \in received : t \in spans
    BY DEF IInv, TypeOK
  <1>2. s.step = step
    BY <1>1 DEF IInv, ErrorInv
  <1>3. \A t \in received : ~Before(s, t)
    BY <1>1, <1>2, Types DEF IInv, Before
  <1> QED BY <1>3, DescendantsLater

\* An error span has no descendants, whatever spans are missing: the
\* amplification of errors (engine/blame_v2.py:101) never applies to a run.
THEOREM ErrorsHaveNoDescendants ==
  Spec => [](\A s \in received : s.error => Descendants(s, received) = {})
  <1>1. IInv /\ FiniteInv => \A s \in received : s.error => Descendants(s, received) = {}
    BY ErrorIsLast
  <1> QED BY Invariance, SpansFinite, <1>1, PTL

-----------------------------------------------------------------------------
(* The blame scores: the arithmetic.                                        *)

\* Weighted shares add up.
LEMMA SharesAdd ==
  ASSUME NEW l1 \in Nat, NEW l2 \in Nat, NEW k1 \in Nat, NEW k2 \in Nat,
         NEW e1 \in Nat, NEW e2 \in Nat, NEW c \in Nat,
         NEW L \in Nat, NEW K \in Nat, NEW E \in Nat
  PROVE  E * (25 * (l1 + l2) * K + 15 * (k1 + k2) * L) + c * (e1 + e2) * L * K
         = (E * (25 * l1 * K + 15 * k1 * L) + c * e1 * L * K)
           + (E * (25 * l2 * K + 15 * k2 * L) + c * e2 * L * K)
  OBVIOUS

\* Products of numbers are monotonic.
LEMMA ProductsGrow ==
  ASSUME NEW a \in Nat, NEW b \in Nat, NEW c \in Nat, a <= b
  PROVE  a * c <= b * c /\ c * a <= c * b
  OBVIOUS

\* Parts of latency, tokens and errors, weighted, are at most the whole weighted.
LEMMA SharesBound ==
  ASSUME NEW L \in Nat, NEW K \in Nat, NEW E \in Nat, NEW c \in Nat,
         NEW l \in 0..L, NEW k \in 0..K, NEW e \in 0..E
  PROVE  E * (25 * l * K + 15 * k * L) + c * e * L * K <= (40 + c) * L * K * E
  <1>1. l * K <= L * K /\ k * L <= K * L /\ e * (L * K) <= E * (L * K)
    BY ProductsGrow
  <1> DEFINE W == L * K
  <1>2. E * (l * K) <= E * W /\ E * (k * L) <= E * W
    <2>1. l * K \in Nat /\ L * K \in Nat /\ k * L \in Nat /\ K * L = L * K
      OBVIOUS
    <2> QED BY <1>1, <2>1, ProductsGrow
  <1>3. c * (e * W) <= c * (E * W)
    <2>1. e * W \in Nat /\ E * W \in Nat
      OBVIOUS
    <2> QED BY <1>1, <2>1, ProductsGrow
  <1>4. /\ E * (25 * l * K + 15 * k * L) = 25 * (E * (l * K)) + 15 * (E * (k * L))
        /\ c * e * L * K = c * (e * W)
        /\ (40 + c) * L * K * E = 25 * (E * W) + 15 * (E * W) + c * (E * W)
    OBVIOUS
  <1>5. /\ E * (l * K) \in Nat /\ E * (k * L) \in Nat /\ E * W \in Nat
        /\ c * (e * W) \in Nat /\ c * (E * W) \in Nat
    OBVIOUS
  <1> HIDE DEF W
  <1> QED BY <1>2, <1>3, <1>4, <1>5

\* The amplification at most doubles the error component ...
LEMMA DivBound ==
  ASSUME NEW e \in Nat, NEW x \in Nat, NEW k \in Nat, k <= 5 * e
  PROVE  (10 * (5 * e + k) * x) \div 5 <= 20 * e * x /\ (10 * (5 * e + k) * x) \div 5 \in Nat
  <1>1. 10 * (5 * e + k) * x <= 5 * (20 * e * x)
    <2>1. 5 * e + k <= 10 * e /\ 5 * e + k \in Nat /\ 10 * e \in Nat
      OBVIOUS
    <2>2. (5 * e + k) * x <= (10 * e) * x
      BY <2>1, ProductsGrow
    <2> QED BY <2>2
  <1>2. \A n, m \in Nat : n <= 5 * m => n \div 5 <= m /\ n \div 5 \in Nat
    OBVIOUS
  <1>3. 10 * (5 * e + k) * x \in Nat /\ 20 * e * x \in Nat
    OBVIOUS
  <1> QED BY <1>1, <1>2, <1>3

\* ... and leaves it alone when no error has descendants.
LEMMA DivExact ==
  ASSUME NEW e \in Nat, NEW x \in Nat
  PROVE  (10 * (5 * e + 0) * x) \div 5 = 10 * e * x
  <1>1. \A n \in Nat : (5 * n) \div 5 = n
    OBVIOUS
  <1>2. 10 * (5 * e + 0) * x = 5 * (10 * e * x) /\ 10 * e * x \in Nat
    OBVIOUS
  <1> QED BY <1>1, <1>2

-----------------------------------------------------------------------------
(* The blame scores of any finite set of spans.                             *)

\* A finite set of spans whose ids have costs.
Costed(S) == IsFiniteSet(S) /\ \A s \in S : s.id \in Ids

\* The costs of the spans S as functions, and the spans of some agents.
LatencyIn(S) == [s \in S |-> Latency(s)]
TokensIn(S) == [s \in S |-> Tokens(s)]
Among(B, S) == {s \in S : s.agent \in B}

\* The sum of latencies is a sum of this function.
LEMMA LatencySum ==
  ASSUME NEW S, NEW T \in SUBSET S
  PROVE  MapThenSumSet(Latency, T) = Total(LatencyIn(S), T)
  <1> DEFINE f == LatencyIn(S)
  <1>1. \A s \in SUBSET T : s # {} => Latency(Pick(s)) = f[Pick(s)]
    BY PickFacts DEF LatencyIn
  <1> HIDE DEF f
  <1>2. \A h : [s \in SUBSET T |-> IF s = {} THEN 0 ELSE Latency(Pick(s)) + h[s \ {Pick(s)}]]
             = [s \in SUBSET T |-> IF s = {} THEN 0 ELSE f[Pick(s)] + h[s \ {Pick(s)}]]
    BY <1>1
  <1>3. (CHOOSE h : h = [s \in SUBSET T |->
                            IF s = {} THEN 0 ELSE Latency(Pick(s)) + h[s \ {Pick(s)}]])
      = (CHOOSE h : h = [s \in SUBSET T |->
                            IF s = {} THEN 0 ELSE f[Pick(s)] + h[s \ {Pick(s)}]])
    BY <1>2
  <1>4. MapThenSumSet(Latency, T) = Total(f, T)
    BY <1>3 DEF Total, MapThenSumSet, MapThenFoldSet, Pick
  <1> QED BY <1>4 DEF f

\* The same of tokens.
LEMMA TokenSum ==
  ASSUME NEW S, NEW T \in SUBSET S
  PROVE  MapThenSumSet(Tokens, T) = Total(TokensIn(S), T)
  <1> DEFINE f == TokensIn(S)
  <1>1. \A s \in SUBSET T : s # {} => Tokens(Pick(s)) = f[Pick(s)]
    BY PickFacts DEF TokensIn
  <1> HIDE DEF f
  <1>2. \A h : [s \in SUBSET T |-> IF s = {} THEN 0 ELSE Tokens(Pick(s)) + h[s \ {Pick(s)}]]
             = [s \in SUBSET T |-> IF s = {} THEN 0 ELSE f[Pick(s)] + h[s \ {Pick(s)}]]
    BY <1>1
  <1>3. (CHOOSE h : h = [s \in SUBSET T |->
                            IF s = {} THEN 0 ELSE Tokens(Pick(s)) + h[s \ {Pick(s)}]])
      = (CHOOSE h : h = [s \in SUBSET T |->
                            IF s = {} THEN 0 ELSE f[Pick(s)] + h[s \ {Pick(s)}]])
    BY <1>2
  <1>4. MapThenSumSet(Tokens, T) = Total(f, T)
    BY <1>3 DEF Total, MapThenSumSet, MapThenFoldSet, Pick
  <1> QED BY <1>4 DEF f

\* Costs are numbers.
LEMMA CostTypes ==
  ASSUME NEW S, Costed(S)
  PROVE  \A s \in S : LatencyIn(S)[s] \in Nat /\ TokensIn(S)[s] \in Nat
  <1>1. \A i \in Ids : LatencyOf[i] \in Nat /\ TokensOf[i] \in Nat
    BY CostsAssumption
  <1> QED BY <1>1 DEF Costed, LatencyIn, TokensIn, Latency, Tokens

\* The denominators.
LEMMA Denominators ==
  ASSUME NEW S, Costed(S)
  PROVE  /\ TotalLatency(S) \in Nat /\ TotalTokens(S) \in Nat /\ TotalErrors(S) \in Nat
         /\ Total(LatencyIn(S), S) <= TotalLatency(S)
         /\ Total(TokensIn(S), S) <= TotalTokens(S)
         /\ Cardinality(Errors(S)) <= TotalErrors(S)
  <1>1. MapThenSumSet(Latency, S) = Total(LatencyIn(S), S)
        /\ MapThenSumSet(Tokens, S) = Total(TokensIn(S), S)
    BY LatencySum, TokenSum
  <1>2. Total(LatencyIn(S), S) \in Nat /\ Total(TokensIn(S), S) \in Nat
    BY CostTypes, TotalPart DEF Costed
  <1>3. Cardinality(Errors(S)) \in Nat
    BY FS_Subset, FS_CardinalityType DEF Costed, Errors
  <1> QED BY <1>1, <1>2, <1>3 DEF TotalLatency, TotalTokens, TotalErrors, OrOne

\* The spans of one agent and those of the others are disjoint.
LEMMA AgentSplit ==
  ASSUME NEW S, Costed(S), NEW B, NEW a \in B
  PROVE  /\ \A f : (\A s \in S : f[s] \in Nat) =>
               Total(f, Among(B, S)) = Total(f, Of(a, S)) + Total(f, Among(B \ {a}, S))
         /\ Cardinality(Errors(Among(B, S)))
              = Cardinality(Errors(Of(a, S))) + Cardinality(Errors(Among(B \ {a}, S)))
  <1> DEFINE X == Of(a, S)
             Y == Among(B \ {a}, S)
  <1>1. Among(B, S) = X \cup Y /\ X \cap Y = {} /\ X \subseteq S /\ Y \subseteq S
    BY DEF Among, Of
  <1>2. IsFiniteSet(X) /\ IsFiniteSet(Y) /\ IsFiniteSet(Errors(X)) /\ IsFiniteSet(Errors(Y))
    <2>1. Errors(X) \subseteq X /\ Errors(Y) \subseteq Y /\ IsFiniteSet(S)
      BY DEF Errors, Costed
    <2> HIDE DEF X, Y
    <2> QED BY <1>1, <2>1, FS_Subset
  <1>3. Errors(X \cup Y) = Errors(X) \cup Errors(Y) /\ Errors(X) \cap Errors(Y) = {}
    BY <1>1 DEF Errors
  <1> HIDE DEF X, Y
  <1>4. Cardinality(Errors(X) \cup Errors(Y)) = Cardinality(Errors(X)) + Cardinality(Errors(Y))
    BY <1>2, <1>3, DisjointSizes
  <1>5. ASSUME NEW f, \A s \in S : f[s] \in Nat
        PROVE  Total(f, X \cup Y) = Total(f, X) + Total(f, Y)
    BY <1>1, <1>2, <1>5, TotalUnion
  <1> QED BY <1>1, <1>3, <1>4, <1>5 DEF X, Y

\* w gives no agent more than its share when the errors weigh c and latency and
\* tokens 40.
Within(w, A, S, c) ==
    \A a \in A : /\ w[a] \in Nat
                 /\ w[a] <= CostShare(a, S)
                      + c * Cardinality(Errors(Of(a, S))) * TotalLatency(S) * TotalTokens(S)

\* What the agents B have together.
Together(B, S, c) ==
    TotalErrors(S) * (25 * Total(LatencyIn(S), Among(B, S)) * TotalTokens(S)
                      + 15 * Total(TokensIn(S), Among(B, S)) * TotalLatency(S))
      + c * Cardinality(Errors(Among(B, S))) * TotalLatency(S) * TotalTokens(S)

\* What some agents have is a part of what all have.
LEMMA TogetherTypes ==
  ASSUME NEW S, Costed(S), NEW B
  PROVE  /\ Total(LatencyIn(S), Among(B, S)) \in Nat
         /\ Total(TokensIn(S), Among(B, S)) \in Nat
         /\ Cardinality(Errors(Among(B, S))) \in Nat
         /\ Total(LatencyIn(S), Among(B, S)) <= Total(LatencyIn(S), S)
         /\ Total(TokensIn(S), Among(B, S)) <= Total(TokensIn(S), S)
         /\ Cardinality(Errors(Among(B, S))) <= Cardinality(Errors(S))
         /\ \A c \in Nat : Together(B, S, c) \in Nat
  <1>1. Among(B, S) \in SUBSET S /\ Errors(Among(B, S)) \in SUBSET Errors(S)
        /\ Errors(S) \in SUBSET S /\ IsFiniteSet(S)
    BY DEF Among, Errors, Costed
  <1>2. IsFiniteSet(Errors(S))
    BY <1>1, FS_Subset
  <1>3. /\ Cardinality(Errors(Among(B, S))) \in Nat
        /\ Cardinality(Errors(Among(B, S))) <= Cardinality(Errors(S))
    BY <1>1, <1>2, FS_Subset, FS_CardinalityType
  <1>4. /\ Total(LatencyIn(S), Among(B, S)) \in Nat
        /\ Total(TokensIn(S), Among(B, S)) \in Nat
        /\ Total(LatencyIn(S), Among(B, S)) <= Total(LatencyIn(S), S)
        /\ Total(TokensIn(S), Among(B, S)) <= Total(TokensIn(S), S)
    BY <1>1, CostTypes, TotalPart
  <1>5. TotalLatency(S) \in Nat /\ TotalTokens(S) \in Nat /\ TotalErrors(S) \in Nat
    BY Denominators
  <1>6. \A c \in Nat : Together(B, S, c) \in Nat
    BY <1>3, <1>4, <1>5 DEF Together
  <1> QED BY <1>3, <1>4, <1>6

\* The share of one agent.
LEMMA OneShare ==
  ASSUME NEW S, Costed(S), NEW a, NEW c \in Nat
  PROVE  /\ CostShare(a, S) + c * Cardinality(Errors(Of(a, S))) * TotalLatency(S) * TotalTokens(S)
            = Together({a}, S, c)
         /\ CostShare(a, S) \in Nat /\ Cardinality(Errors(Of(a, S))) \in Nat
         /\ Together({a}, S, c) \in Nat
  <1>1. Of(a, S) = Among({a}, S) /\ Of(a, S) \in SUBSET S
    BY DEF Of, Among
  <1>2. CostShare(a, S) = TotalErrors(S) * (25 * Total(LatencyIn(S), Of(a, S)) * TotalTokens(S)
                                + 15 * Total(TokensIn(S), Of(a, S)) * TotalLatency(S))
    BY <1>1, LatencySum, TokenSum DEF CostShare
  <1>3. /\ Total(LatencyIn(S), Of(a, S)) \in Nat /\ Total(TokensIn(S), Of(a, S)) \in Nat
        /\ Cardinality(Errors(Of(a, S))) \in Nat
    BY <1>1, TogetherTypes
  <1>4. TotalLatency(S) \in Nat /\ TotalTokens(S) \in Nat /\ TotalErrors(S) \in Nat
    BY Denominators
  <1>5. CostShare(a, S) \in Nat
    BY <1>2, <1>3, <1>4
  <1>6. CostShare(a, S) + c * Cardinality(Errors(Of(a, S))) * TotalLatency(S) * TotalTokens(S)
          = Together({a}, S, c)
    BY <1>1, <1>2 DEF Together
  <1>7. CostShare(a, S) + c * Cardinality(Errors(Of(a, S))) * TotalLatency(S) * TotalTokens(S) \in Nat
    BY <1>3, <1>4, <1>5
  <1> QED BY <1>3, <1>5, <1>6, <1>7

\* The share of one agent splits off.
LEMMA TogetherSplit ==
  ASSUME NEW S, Costed(S), NEW B, NEW a \in B, NEW c \in Nat
  PROVE  /\ Together(B, S, c) = Together({a}, S, c) + Together(B \ {a}, S, c)
         /\ Together(B \ {a}, S, c) \in Nat
  <1>1. Of(a, S) = Among({a}, S)
    BY DEF Of, Among
  <1> DEFINE l(C) == Total(LatencyIn(S), Among(C, S))
             k(C) == Total(TokensIn(S), Among(C, S))
             e(C) == Cardinality(Errors(Among(C, S)))
  <1>2. /\ l(B) = l({a}) + l(B \ {a})
        /\ k(B) = k({a}) + k(B \ {a})
        /\ e(B) = e({a}) + e(B \ {a})
    BY <1>1, CostTypes, AgentSplit
  <1>3. \A C : l(C) \in Nat /\ k(C) \in Nat /\ e(C) \in Nat
    BY TogetherTypes
  <1>4. TotalLatency(S) \in Nat /\ TotalTokens(S) \in Nat /\ TotalErrors(S) \in Nat
    BY Denominators
  <1>5. \A C : Together(C, S, c) = TotalErrors(S) * (25 * l(C) * TotalTokens(S)
                                                     + 15 * k(C) * TotalLatency(S))
                                     + c * e(C) * TotalLatency(S) * TotalTokens(S)
    BY DEF Together
  <1> HIDE DEF l, k, e
  <1>6. Together(B, S, c) =
          TotalErrors(S) * (25 * (l({a}) + l(B \ {a})) * TotalTokens(S)
                            + 15 * (k({a}) + k(B \ {a})) * TotalLatency(S))
            + c * (e({a}) + e(B \ {a})) * TotalLatency(S) * TotalTokens(S)
    BY <1>2, <1>5
  <1>7. Together(B \ {a}, S, c) \in Nat
    BY TogetherTypes
  <1> QED BY <1>3, <1>4, <1>5, <1>6, <1>7, SharesAdd

\* No set of agents has more than the whole.
LEMMA TogetherBound ==
  ASSUME NEW S, Costed(S), NEW B, NEW c \in Nat
  PROVE  Together(B, S, c) <= (40 + c) * TotalLatency(S) * TotalTokens(S) * TotalErrors(S)
  <1>1. TotalLatency(S) \in Nat /\ TotalTokens(S) \in Nat /\ TotalErrors(S) \in Nat
    BY Denominators
  <1>2. /\ Total(LatencyIn(S), Among(B, S)) \in 0..TotalLatency(S)
        /\ Total(TokensIn(S), Among(B, S)) \in 0..TotalTokens(S)
        /\ Cardinality(Errors(Among(B, S))) \in 0..TotalErrors(S)
    <2>1. Total(LatencyIn(S), S) \in Nat /\ Total(TokensIn(S), S) \in Nat
      BY CostTypes, TotalPart DEF Costed
    <2>2. Cardinality(Errors(S)) \in Nat
      BY FS_Subset, FS_CardinalityType DEF Costed, Errors
    <2> QED BY <1>1, <2>1, <2>2, TogetherTypes, Denominators
  <1> QED BY <1>1, <1>2, SharesBound DEF Together

\* Scores within the shares add up to no more than the whole.
LEMMA SharesAddUp ==
  ASSUME NEW S, Costed(S), NEW A, IsFiniteSet(A), NEW c \in Nat, NEW w, Within(w, A, S, c)
  PROVE  Total(w, A) <= (40 + c) * TotalLatency(S) * TotalTokens(S) * TotalErrors(S)
  <1> DEFINE P == {B \in SUBSET A : Total(w, B) <= Together(B, S, c)}
  <1>1. ASSUME NEW B \in SUBSET A, \A a \in B : B \ {a} \in P
        PROVE  B \in P
    <2>1. IsFiniteSet(B) /\ \A a \in B : w[a] \in Nat
      BY FS_Subset DEF Within
    <2>2. CASE B = {}
      <3>1. Total(w, B) = 0
        BY <2>1, <2>2, TotalFacts
      <3>2. Together(B, S, c) \in Nat
        BY TogetherTypes
      <3> QED BY <3>1, <3>2
    <2>3. CASE B # {}
      <3>1. PICK a \in B : TRUE
        BY <2>3
      <3>2. Total(w, B) = w[a] + Total(w, B \ {a})
        BY <2>1, <3>1, TotalFacts
      <3>3. Total(w, B \ {a}) <= Together(B \ {a}, S, c)
        BY <1>1, <3>1
      <3>4. Together(B, S, c) = Together({a}, S, c) + Together(B \ {a}, S, c)
            /\ Together(B \ {a}, S, c) \in Nat
        BY <3>1, TogetherSplit
      <3>5. w[a] <= Together({a}, S, c) /\ Together({a}, S, c) \in Nat /\ w[a] \in Nat
        BY <2>1, <3>1, OneShare DEF Within
      <3>6. Total(w, B \ {a}) \in Nat
        <4>1. IsFiniteSet(B \ {a}) /\ \A b \in B \ {a} : w[b] \in Nat
          BY <2>1, FS_Subset
        <4> QED BY <4>1, TotalFacts
      <3> QED BY <3>2, <3>3, <3>4, <3>5, <3>6
    <2> QED BY <2>2, <2>3
  <1> HIDE DEF P
  <1>2. SUBSET A \subseteq P
    BY <1>1, SubsetInduction
  <1>3. Total(w, A) <= Together(A, S, c)
    BY <1>2 DEF P
  <1>4. Together(A, S, c) <= (40 + c) * TotalLatency(S) * TotalTokens(S) * TotalErrors(S)
    BY TogetherBound
  <1>5. Total(w, A) \in Nat
    BY TotalFacts DEF Within
  <1>6. Together(A, S, c) \in Nat /\ (40 + c) * TotalLatency(S) * TotalTokens(S) * TotalErrors(S) \in Nat
    <2>1. TotalLatency(S) \in Nat /\ TotalTokens(S) \in Nat /\ TotalErrors(S) \in Nat
      BY Denominators
    <2>2. Together(A, S, c) \in Nat
      BY TogetherTypes
    <2> QED BY <2>1, <2>2
  <1> QED BY <1>3, <1>4, <1>5, <1>6

\* The numbers of descendants of the spans of S.
DescendantsIn(S) == [s \in S |-> Cardinality(Descendants(s, S))]

\* Cascade is a sum of this function.
LEMMA CascadeSum ==
  ASSUME NEW S, NEW a
  PROVE  Cascade(a, S) = Total(DescendantsIn(S), Errors(Of(a, S)))
  <1> DEFINE f == DescendantsIn(S)
             T == Errors(Of(a, S))
             Size(s) == Cardinality(Descendants(s, S))
  <1>1. \A s \in SUBSET T : s # {} => Size(Pick(s)) = f[Pick(s)]
    BY PickFacts DEF DescendantsIn, Errors, Of
  <1>a. Cascade(a, S) = MapThenSumSet(LAMBDA s : Size(s), T)
    BY DEF Cascade
  <1> HIDE DEF f, T, Size
  <1>2. \A h : [s \in SUBSET T |-> IF s = {} THEN 0 ELSE Size(Pick(s)) + h[s \ {Pick(s)}]]
             = [s \in SUBSET T |-> IF s = {} THEN 0 ELSE f[Pick(s)] + h[s \ {Pick(s)}]]
    BY <1>1
  <1>3. (CHOOSE h : h = [s \in SUBSET T |->
                            IF s = {} THEN 0 ELSE Size(Pick(s)) + h[s \ {Pick(s)}]])
      = (CHOOSE h : h = [s \in SUBSET T |->
                            IF s = {} THEN 0 ELSE f[Pick(s)] + h[s \ {Pick(s)}]])
    BY <1>2
  <1>4. MapThenSumSet(LAMBDA s : Size(s), T) = Total(f, T)
    BY <1>3 DEF Total, MapThenSumSet, MapThenFoldSet, Pick
  <1> QED BY <1>a, <1>4 DEF f, T

\* The scores of the agents A as functions.
Scores(A, S) == [a \in A |-> Score(a, S)]
ScoresV2(A, S) == [a \in A |-> ScoreV2(a, S)]

\* The sums of scores are sums of these functions.
LEMMA ScoreSum ==
  ASSUME NEW S, NEW A
  PROVE  MapThenSumSet(LAMBDA a : Score(a, S), A) = Total(Scores(A, S), A)
  <1> DEFINE f == Scores(A, S)
  <1>1. \A s \in SUBSET A : s # {} => Score(Pick(s), S) = f[Pick(s)]
    BY PickFacts DEF Scores
  <1> HIDE DEF f
  <1>2. \A h : [s \in SUBSET A |-> IF s = {} THEN 0 ELSE Score(Pick(s), S) + h[s \ {Pick(s)}]]
             = [s \in SUBSET A |-> IF s = {} THEN 0 ELSE f[Pick(s)] + h[s \ {Pick(s)}]]
    BY <1>1
  <1>3. (CHOOSE h : h = [s \in SUBSET A |->
                            IF s = {} THEN 0 ELSE Score(Pick(s), S) + h[s \ {Pick(s)}]])
      = (CHOOSE h : h = [s \in SUBSET A |->
                            IF s = {} THEN 0 ELSE f[Pick(s)] + h[s \ {Pick(s)}]])
    BY <1>2
  <1>4. MapThenSumSet(LAMBDA a : Score(a, S), A) = Total(f, A)
    BY <1>3 DEF Total, MapThenSumSet, MapThenFoldSet, Pick
  <1> QED BY <1>4 DEF f

\* The same of the second version.
LEMMA ScoreV2Sum ==
  ASSUME NEW S, NEW A
  PROVE  MapThenSumSet(LAMBDA a : ScoreV2(a, S), A) = Total(ScoresV2(A, S), A)
  <1> DEFINE f == ScoresV2(A, S)
  <1>1. \A s \in SUBSET A : s # {} => ScoreV2(Pick(s), S) = f[Pick(s)]
    BY PickFacts DEF ScoresV2
  <1> HIDE DEF f
  <1>2. \A h : [s \in SUBSET A |-> IF s = {} THEN 0 ELSE ScoreV2(Pick(s), S) + h[s \ {Pick(s)}]]
             = [s \in SUBSET A |-> IF s = {} THEN 0 ELSE f[Pick(s)] + h[s \ {Pick(s)}]]
    BY <1>1
  <1>3. (CHOOSE h : h = [s \in SUBSET A |->
                            IF s = {} THEN 0 ELSE ScoreV2(Pick(s), S) + h[s \ {Pick(s)}]])
      = (CHOOSE h : h = [s \in SUBSET A |->
                            IF s = {} THEN 0 ELSE f[Pick(s)] + h[s \ {Pick(s)}]])
    BY <1>2
  <1>4. MapThenSumSet(LAMBDA a : ScoreV2(a, S), A) = Total(f, A)
    BY <1>3 DEF Total, MapThenSumSet, MapThenFoldSet, Pick
  <1> QED BY <1>4 DEF f

\* A number of descendants.
LEMMA CascadeTypes ==
  ASSUME NEW S, IsFiniteSet(S), NEW a
  PROVE  Cascade(a, S) \in Nat
  <1>1. Errors(Of(a, S)) \in SUBSET S
    BY DEF Errors, Of
  <1>2. \A s \in S : DescendantsIn(S)[s] \in Nat
    <2>1. \A s \in S : Descendants(s, S) \in SUBSET S
      BY DEF Descendants
    <2> QED BY <2>1, FS_Subset, FS_CardinalityType DEF DescendantsIn
  <1> QED BY <1>1, <1>2, TotalPart, CascadeSum

\* The scores of compute_blame are shares of one whole: whatever the spans, what
\* they cost and which of them failed, those of different agents add up to at
\* most 100 (engine/blame.py).
THEOREM ScoresAreShares ==
  ASSUME NEW S, Costed(S), NEW A, IsFiniteSet(A)
  PROVE  MapThenSumSet(LAMBDA a : Score(a, S), A) <= Whole(S)
  <1>1. Within(Scores(A, S), A, S, 10)
    <2> SUFFICES ASSUME NEW a \in A
                 PROVE  LET x == CostShare(a, S) + 10 * Cardinality(Errors(Of(a, S)))
                                                   * TotalLatency(S) * TotalTokens(S)
                        IN  Scores(A, S)[a] \in Nat /\ Scores(A, S)[a] <= x
      BY DEF Within
    <2>1. Scores(A, S)[a] = CostShare(a, S) + 10 * Cardinality(Errors(Of(a, S)))
                                                * TotalLatency(S) * TotalTokens(S)
      BY DEF Scores, Score
    <2>2. Scores(A, S)[a] = Together({a}, S, 10) /\ Together({a}, S, 10) \in Nat
      BY <2>1, OneShare
    <2> QED BY <2>1, <2>2
  <1>2. Total(Scores(A, S), A) <= (40 + 10) * TotalLatency(S) * TotalTokens(S) * TotalErrors(S)
    BY <1>1, SharesAddUp
  <1>3. Total(Scores(A, S), A) <= 50 * TotalLatency(S) * TotalTokens(S) * TotalErrors(S)
    BY <1>2
  <1> QED BY <1>3, ScoreSum DEF Whole

\* The scores of blame_v2 are not normalised: for spans in general, also ones no
\* run emits, they add up to at most 120 of 100.
THEOREM AmplifiedScoresBounded ==
  ASSUME NEW S, Costed(S), NEW A, IsFiniteSet(A)
  PROVE  5 * MapThenSumSet(LAMBDA a : ScoreV2(a, S), A) <= 6 * Whole(S)
  <1>1. Within(ScoresV2(A, S), A, S, 20)
    <2> SUFFICES ASSUME NEW a \in A
                 PROVE  /\ ScoreV2(a, S) \in Nat
                        /\ ScoreV2(a, S) <= CostShare(a, S) + 20 * Cardinality(Errors(Of(a, S)))
                                               * TotalLatency(S) * TotalTokens(S)
      BY DEF Within, ScoresV2
    <2> DEFINE e == Cardinality(Errors(Of(a, S)))
               x == TotalLatency(S) * TotalTokens(S)
               k == IF Cascade(a, S) < 5 * e THEN Cascade(a, S) ELSE 5 * e
    <2>1. e \in Nat /\ CostShare(a, S) \in Nat
      BY OneShare
    <2>2. TotalLatency(S) \in Nat /\ TotalTokens(S) \in Nat
      BY Denominators
    <2>3. x \in Nat
      BY <2>2
    <2>4. k \in Nat /\ k <= 5 * e
      <3>1. Cascade(a, S) \in Nat
        BY CascadeTypes DEF Costed
      <3> HIDE DEF e
      <3> QED BY <2>1, <3>1
    <2>5. ScoreV2(a, S) = CostShare(a, S)
              + (10 * (5 * e + k) * TotalLatency(S) * TotalTokens(S)) \div 5
      BY DEF ScoreV2, AmplificationCap, Steps
    <2>6. /\ 10 * (5 * e + k) * TotalLatency(S) * TotalTokens(S) = 10 * (5 * e + k) * x
          /\ 20 * e * TotalLatency(S) * TotalTokens(S) = 20 * e * x
      <3> HIDE DEF e, k
      <3> QED BY <2>1, <2>2, <2>4
    <2>7. /\ (10 * (5 * e + k) * x) \div 5 <= 20 * e * x
          /\ (10 * (5 * e + k) * x) \div 5 \in Nat
      <3> HIDE DEF e, k, x
      <3> QED BY <2>1, <2>3, <2>4, DivBound
    <2>8. 20 * e * x \in Nat
      <3> HIDE DEF e, x
      <3> QED BY <2>1, <2>3
    <2>9. ScoreV2(a, S) = CostShare(a, S) + (10 * (5 * e + k) * x) \div 5
      BY <2>5, <2>6
    <2> HIDE DEF e, k, x
    <2>10. /\ ScoreV2(a, S) \in Nat
           /\ ScoreV2(a, S) <= CostShare(a, S) + 20 * e * x
      BY <2>1, <2>7, <2>8, <2>9
    <2> QED BY <2>6, <2>10 DEF e
  <1>2. Total(ScoresV2(A, S), A)
          <= (40 + 20) * TotalLatency(S) * TotalTokens(S) * TotalErrors(S)
    BY <1>1, SharesAddUp
  <1>3. Total(ScoresV2(A, S), A) \in Nat
    BY <1>1, TotalFacts DEF Within
  <1>4. TotalLatency(S) \in Nat /\ TotalTokens(S) \in Nat /\ TotalErrors(S) \in Nat
    BY Denominators
  <1>5. 5 * Total(ScoresV2(A, S), A)
          <= 6 * (50 * TotalLatency(S) * TotalTokens(S) * TotalErrors(S))
    <2> DEFINE t == TotalLatency(S) * TotalTokens(S) * TotalErrors(S)
    <2>1. t \in Nat
      BY <1>4
    <2>2. /\ (40 + 20) * TotalLatency(S) * TotalTokens(S) * TotalErrors(S) = 60 * t
          /\ 50 * TotalLatency(S) * TotalTokens(S) * TotalErrors(S) = 50 * t
      BY <1>4
    <2> HIDE DEF t
    <2> QED BY <1>2, <1>3, <2>1, <2>2
  <1> QED BY <1>5, ScoreV2Sum DEF Whole

-----------------------------------------------------------------------------
(* The blame scores of a run.                                               *)

\* Without descendants of errors both versions score alike.
LEMMA NoAmplification ==
  ASSUME NEW S, Costed(S), \A s \in S : s.error => Descendants(s, S) = {}
  PROVE  \A a : ScoreV2(a, S) = CostShare(a, S) + 10 * Cardinality(Errors(Of(a, S)))
                                                  * TotalLatency(S) * TotalTokens(S)
  <1> SUFFICES ASSUME NEW a
               PROVE  ScoreV2(a, S) = CostShare(a, S) + 10 * Cardinality(Errors(Of(a, S)))
                                                  * TotalLatency(S) * TotalTokens(S)
    OBVIOUS
  <1> DEFINE e == Cardinality(Errors(Of(a, S)))
             x == TotalLatency(S) * TotalTokens(S)
  <1>1. e \in Nat
    BY OneShare
  <1>2. TotalLatency(S) \in Nat /\ TotalTokens(S) \in Nat
    BY Denominators
  <1>3. Cascade(a, S) = 0
    <2>1. Errors(Of(a, S)) \in SUBSET S /\ \A s \in Errors(Of(a, S)) : s.error
      BY DEF Errors, Of
    <2>2. \A s \in Errors(Of(a, S)) : DescendantsIn(S)[s] = 0
      BY <2>1, FS_EmptySet DEF DescendantsIn
    <2>3. IsFiniteSet(Errors(Of(a, S)))
      BY <2>1, FS_Subset DEF Costed
    <2> QED BY <2>2, <2>3, TotalZero, CascadeSum
  <1>4. ScoreV2(a, S) = CostShare(a, S) + (10 * (5 * e + 0) * TotalLatency(S) * TotalTokens(S)) \div 5
    <2>1. (IF Cascade(a, S) < 5 * e THEN Cascade(a, S) ELSE 5 * e) = 0
      BY <1>1, <1>3
    <2> QED BY <2>1 DEF ScoreV2, AmplificationCap, Steps
  <1> HIDE DEF e
  <1>5. /\ 10 * (5 * e + 0) * TotalLatency(S) * TotalTokens(S) = 10 * (5 * e + 0) * x
        /\ 10 * e * TotalLatency(S) * TotalTokens(S) = 10 * e * x
        /\ x \in Nat
    BY <1>1, <1>2
  <1> HIDE DEF x
  <1>6. (10 * (5 * e + 0) * x) \div 5 = 10 * e * x
    BY <1>1, <1>5, DivExact
  <1> QED BY <1>4, <1>5, <1>6 DEF e

\* The spans of a run that have arrived have costs, and its errors no descendants.
LEMMA ReceivedCosted ==
  ASSUME IInv, FiniteInv
  PROVE  /\ Costed(received)
         /\ \A s \in received : s.error => Descendants(s, received) = {}
  <1>1. received \in SUBSET spans
    BY DEF IInv, TypeOK
  <1>2. \A s \in received : s.id \in Ids
    BY <1>1, Types DEF IInv
  <1> QED BY <1>1, <1>2, ErrorIsLast, FS_Subset DEF Costed, FiniteInv

\* The scores of blame_v2 are shares of one whole on every run, although the code
\* does not normalise them, for any number of agents and any costs of spans, with
\* any spans missing (blame_v2.py:63).
THEOREM BlameShares == Spec => []BlameIsAShare
  <1>1. ASSUME IInv, FiniteInv PROVE BlameIsAShare
    <2> DEFINE w == ScoresV2(Agents, received)
    <2>1. Costed(received) /\ IsFiniteSet(Agents)
      BY <1>1, ReceivedCosted, CostsAssumption
    <2>2. Within(w, Agents, received, 10)
      <3> SUFFICES ASSUME NEW a \in Agents
                   PROVE  LET x == CostShare(a, received)
                                     + 10 * Cardinality(Errors(Of(a, received)))
                                       * TotalLatency(received) * TotalTokens(received)
                          IN  w[a] \in Nat /\ w[a] <= x
        BY DEF Within
      <3>1. w[a] = CostShare(a, received) + 10 * Cardinality(Errors(Of(a, received)))
                                  * TotalLatency(received) * TotalTokens(received)
        BY <1>1, ReceivedCosted, NoAmplification DEF ScoresV2
      <3>2. w[a] = Together({a}, received, 10) /\ Together({a}, received, 10) \in Nat
        BY <2>1, <3>1, OneShare
      <3> QED BY <3>1, <3>2
    <2> HIDE DEF w
    <2>3. Total(w, Agents) <= (40 + 10) * TotalLatency(received) * TotalTokens(received)
                                * TotalErrors(received)
      BY <2>1, <2>2, SharesAddUp
    <2>4. Total(w, Agents) <= 50 * TotalLatency(received) * TotalTokens(received)
                                * TotalErrors(received)
      BY <2>3
    <2> QED BY <2>4, ScoreV2Sum DEF BlameIsAShare, Whole, w
  <1>2. IInv /\ FiniteInv => BlameIsAShare
    BY <1>1
  <1> QED BY Invariance, SpansFinite, <1>2, PTL
=============================================================================
