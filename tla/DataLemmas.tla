----------------------------- MODULE DataLemmas -----------------------------
(***************************************************************************)
(* What the proofs share about data: queues that hold nothing twice,       *)
(* induction over numbers and finite sets, and sums over finite sets.      *)
(***************************************************************************)
EXTENDS Naturals, Sequences, Functions, FiniteSetsExt, FiniteSetTheorems,
        WellFoundedInduction, TLAPS

-----------------------------------------------------------------------------
(* Queues.                                                                  *)

\* The empty sequence.
LEMMA EmptyFacts == IsInjective(<<>>) /\ Range(<<>>) = {}
  BY DEF IsInjective, Range

\* put_nowait of a row that is not in the sequence.
LEMMA AppendFacts ==
  ASSUME NEW S, NEW s \in Seq(S), NEW x \in S
  PROVE  /\ Append(s, x) \in Seq(S)
         /\ Len(Append(s, x)) = Len(s) + 1
         /\ Append(s, x) # <<>>
         /\ Range(Append(s, x)) = Range(s) \cup {x}
         /\ IsInjective(s) /\ x \notin Range(s) => IsInjective(Append(s, x))
  <1> DEFINE t == Append(s, x)
  <1>1. /\ t \in Seq(S) /\ Len(t) = Len(s) + 1 /\ Len(s) \in Nat
        /\ DOMAIN t = 1..(Len(s) + 1) /\ DOMAIN s = 1..Len(s)
        /\ t[Len(s) + 1] = x
        /\ \A i \in 1..Len(s) : t[i] = s[i]
    OBVIOUS
  <1>2. t # <<>>
    BY <1>1
  <1>3. Range(t) = Range(s) \cup {x}
    <2>1. \A i \in DOMAIN t : t[i] \in Range(s) \cup {x}
      BY <1>1 DEF Range
    <2>2. \A i \in DOMAIN s : s[i] \in Range(t)
      BY <1>1 DEF Range
    <2>3. x \in Range(t)
      BY <1>1 DEF Range
    <2> QED BY <2>1, <2>2, <2>3 DEF Range
  <1>4. ASSUME IsInjective(s), x \notin Range(s) PROVE IsInjective(t)
    <2> SUFFICES ASSUME NEW a \in DOMAIN t, NEW b \in DOMAIN t, t[a] = t[b] PROVE a = b
      BY DEF IsInjective
    <2>1. CASE a \in 1..Len(s) /\ b \in 1..Len(s)
      BY <1>1, <1>4, <2>1 DEF IsInjective
    <2>2. CASE a = Len(s) + 1 /\ b \in 1..Len(s)
      BY <1>1, <1>4, <2>2 DEF Range
    <2>3. CASE b = Len(s) + 1 /\ a \in 1..Len(s)
      BY <1>1, <1>4, <2>3 DEF Range
    <2>4. CASE a = Len(s) + 1 /\ b = Len(s) + 1
      BY <2>4
    <2> QED BY <1>1, <2>1, <2>2, <2>3, <2>4
  <1> QED BY <1>1, <1>2, <1>3, <1>4

\* Taking the head off: the queue's get, the next file to remove.
LEMMA TailFacts ==
  ASSUME NEW S, NEW s \in Seq(S), s # <<>>
  PROVE  /\ Tail(s) \in Seq(S) /\ Head(s) \in S
         /\ Len(Tail(s)) = Len(s) - 1
         /\ Head(s) \in Range(s)
         /\ Range(s) = Range(Tail(s)) \cup {Head(s)}
         /\ IsInjective(s) => IsInjective(Tail(s)) /\ Head(s) \notin Range(Tail(s))
  <1> DEFINE t == Tail(s)
  <1>1. /\ t \in Seq(S) /\ Len(s) \in Nat \ {0} /\ Len(t) = Len(s) - 1
        /\ DOMAIN s = 1..Len(s) /\ DOMAIN t = 1..(Len(s) - 1)
        /\ Head(s) = s[1] /\ Head(s) \in S
        /\ \A i \in 1..(Len(s) - 1) : t[i] = s[i + 1]
    OBVIOUS
  <1>2. Head(s) \in Range(s)
    BY <1>1 DEF Range
  <1>3. Range(s) = Range(t) \cup {Head(s)}
    <2>1. \A i \in DOMAIN s : s[i] \in Range(t) \cup {Head(s)}
      <3> SUFFICES ASSUME NEW i \in DOMAIN s PROVE s[i] \in Range(t) \cup {Head(s)}
        OBVIOUS
      <3>1. CASE i = 1
        BY <1>1, <3>1
      <3>2. CASE i # 1
        <4>1. i - 1 \in DOMAIN t /\ t[i - 1] = s[i]
          BY <1>1, <3>2
        <4> QED BY <4>1 DEF Range
      <3> QED BY <3>1, <3>2
    <2>2. \A i \in DOMAIN t : t[i] \in Range(s)
      <3> SUFFICES ASSUME NEW i \in DOMAIN t PROVE t[i] \in Range(s)
        OBVIOUS
      <3>1. i + 1 \in DOMAIN s /\ t[i] = s[i + 1]
        BY <1>1
      <3> QED BY <3>1 DEF Range
    <2> QED BY <2>1, <2>2, <1>2 DEF Range
  <1>4. ASSUME IsInjective(s) PROVE IsInjective(t) /\ Head(s) \notin Range(t)
    <2>1. ASSUME NEW a \in DOMAIN t, NEW b \in DOMAIN t, t[a] = t[b] PROVE a = b
      BY <1>1, <1>4, <2>1 DEF IsInjective
    <2>2. ASSUME NEW a \in DOMAIN t, t[a] = Head(s) PROVE FALSE
      BY <1>1, <1>4, <2>2 DEF IsInjective
    <2> QED BY <2>1, <2>2 DEF IsInjective, Range
  <1> QED BY <1>1, <1>2, <1>3, <1>4
-----------------------------------------------------------------------------
(* Induction.  The provers cannot instantiate an induction theorem whose    *)
(* parameter is an operator; here what is proved is a set of the things it  *)
(* holds of.                                                                *)

\* A nonempty set of numbers has a least element.
LEMMA LeastNumber ==
  ASSUME NEW T \in SUBSET Nat, T # {}
  PROVE  \E x \in T : \A y \in T : x <= y
  <1> DEFINE R == OpToRel(<, Nat)
  <1>1. \A x, y \in Nat : x < y => <<x, y>> \in R
    <2>1. R = {ss \in Nat \X Nat : ss[1] < ss[2]}
      BY DEF OpToRel
    <2> HIDE DEF R
    <2> QED BY <2>1
  <1>2. IsWellFoundedOn(R, Nat)
    BY NatLessThanWellFounded
  <1> HIDE DEF R
  <1>3. PICK x \in T : \A y \in T : ~(<<y, x>> \in R)
    BY <1>2, WFMin, Zenon
  <1>4. \A y \in T : ~(y < x)
    BY <1>1, <1>3, Zenon
  <1>5. \A y \in T : x <= y
    BY <1>4
  <1> QED BY <1>5

\* Induction over the subsets of a finite set, for a set of subsets.
LEMMA SubsetInduction ==
  ASSUME NEW T, IsFiniteSet(T), NEW P,
         \A s \in SUBSET T : (\A x \in s : s \ {x} \in P) => s \in P
  PROVE  SUBSET T \subseteq P
  <1> DEFINE B == {s \in SUBSET T : s \notin P}
             N == {Cardinality(s) : s \in B}
  <1>1. \A s \in SUBSET T : /\ IsFiniteSet(s) /\ Cardinality(s) \in Nat
    BY FS_Subset, FS_CardinalityType
  <1> SUFFICES ASSUME B # {} PROVE FALSE
    OBVIOUS
  <1>2. N \in SUBSET Nat /\ N # {}
    BY <1>1
  <1> HIDE DEF N
  <1>3. PICK n \in N : \A m \in N : n <= m
    BY <1>2, LeastNumber
  <1>4. PICK s \in B : n = Cardinality(s)
    BY <1>3 DEF N
  <1>5. ASSUME NEW x \in s PROVE s \ {x} \in P
    <2>1. Cardinality(s \ {x}) = n - 1 /\ n \in Nat
      BY <1>1, <1>4, FS_RemoveElement
    <2>2. s \ {x} \in SUBSET T
      OBVIOUS
    <2>3. s \ {x} \in B => n <= n - 1
      BY <1>3, <2>1 DEF N
    <2> QED BY <2>1, <2>2, <2>3
  <1>6. s \in P
    BY <1>5
  <1> QED BY <1>6

\* A finite nonempty set has a maximal element in every strict partial order.
LEMMA MaximalElement ==
  ASSUME NEW T, IsFiniteSet(T), T # {}, NEW R,
         \A x \in T : <<x, x>> \notin R,
         \A x, y, z \in T : <<x, y>> \in R /\ <<y, z>> \in R => <<x, z>> \in R
  PROVE  \E m \in T : \A q \in T : <<m, q>> \notin R
  <1> DEFINE Above(x) == {q \in T : <<x, q>> \in R}
             N == {Cardinality(Above(x)) : x \in T}
  <1>1. \A x \in T : IsFiniteSet(Above(x)) /\ Cardinality(Above(x)) \in Nat
    <2>1. \A x \in T : Above(x) \in SUBSET T
      OBVIOUS
    <2> HIDE DEF Above
    <2> QED BY <2>1, FS_Subset, FS_CardinalityType
  <1>2. N \in SUBSET Nat /\ N # {}
    <2> HIDE DEF Above
    <2> QED BY <1>1
  <1>a. \A x \in T : Cardinality(Above(x)) \in N
    OBVIOUS
  <1> HIDE DEF N
  <1>3. PICK n \in N : \A k \in N : n <= k
    BY <1>2, LeastNumber
  <1>4. PICK m \in T : n = Cardinality(Above(m))
    BY <1>3 DEF N
  <1>5. ASSUME NEW q \in T, <<m, q>> \in R PROVE FALSE
    <2>1. Above(q) \in SUBSET Above(m) /\ q \in Above(m) /\ q \notin Above(q)
      BY <1>4, <1>5
    <2>2. n <= Cardinality(Above(q))
      BY <1>3, <1>a
    <2> HIDE DEF Above
    <2>3. Cardinality(Above(q)) <= Cardinality(Above(m))
          /\ Cardinality(Above(q)) # Cardinality(Above(m))
      BY <1>1, <2>1, FS_Subset
    <2> QED BY <1>1, <1>4, <2>2, <2>3
  <1> QED BY <1>5

-----------------------------------------------------------------------------
(* Sums: what MapThenSumSet of FiniteSetsExt computes.                      *)

\* The sum of a function over a set of its arguments.
Total(f, T) == MapThenSumSet(LAMBDA x : f[x], T)

Pick(s) == CHOOSE x \in s : TRUE

\* The running sums MapThenSumSet computes with, for every subset of T.
Sums(f, T, g) ==
    g = [s \in SUBSET T |-> IF s = {} THEN 0 ELSE f[Pick(s)] + g[s \ {Pick(s)}]]

\* It is one of them.
LEMMA PickFacts == ASSUME NEW s, s # {} PROVE Pick(s) \in s
  BY DEF Pick

\* What Sums says of one subset.
LEMMA SumsAt ==
  ASSUME NEW f, NEW T, NEW g, Sums(f, T, g), NEW s \in SUBSET T
  PROVE  g[s] = IF s = {} THEN 0 ELSE f[Pick(s)] + g[s \ {Pick(s)}]
  <1> DEFINE G(h, t) == IF t = {} THEN 0 ELSE f[Pick(t)] + h[t \ {Pick(t)}]
  <1>1. g = [t \in SUBSET T |-> G(g, t)]
    BY DEF Sums
  <1> HIDE DEF G
  <1>2. g[s] = G(g, s)
    BY <1>1
  <1> QED BY <1>2 DEF G

\* The running sums are unique.
LEMMA SumsAgree ==
  ASSUME NEW f, NEW T, NEW U, IsFiniteSet(T), NEW g, NEW h,
         Sums(f, T, g), Sums(f, U, h), T \subseteq U
  PROVE  \A s \in SUBSET T : g[s] = h[s]
  <1> DEFINE P == {s \in SUBSET T : g[s] = h[s]}
  <1>1. ASSUME NEW s \in SUBSET T, \A x \in s : s \ {x} \in P
        PROVE  s \in P
    <2>1. CASE s = {}
      BY <2>1, SumsAt
    <2>2. CASE s # {}
      <3>1. g[s \ {Pick(s)}] = h[s \ {Pick(s)}]
        BY <1>1, <2>2, PickFacts
      <3>2. g[s] = f[Pick(s)] + g[s \ {Pick(s)}]
        BY <2>2, SumsAt
      <3>3. h[s] = f[Pick(s)] + h[s \ {Pick(s)}]
        BY <2>2, SumsAt
      <3> QED BY <3>1, <3>2, <3>3
    <2> QED BY <2>1, <2>2
  <1> HIDE DEF P
  <1>2. SUBSET T \subseteq P
    BY <1>1, SubsetInduction
  <1> QED BY <1>2 DEF P

\* The running sums exist.
LEMMA SumsExist ==
  ASSUME NEW f, NEW T, IsFiniteSet(T)
  PROVE  \E g : Sums(f, T, g)
  <1> DEFINE P == {s \in SUBSET T : \E g : Sums(f, s, g)}
  <1>1. ASSUME NEW s \in SUBSET T, \A x \in s : s \ {x} \in P
        PROVE  s \in P
    <2> DEFINE below(t) == CHOOSE g : Sums(f, t, g)
               G == [t \in SUBSET s |-> IF t = {} THEN 0
                        ELSE f[Pick(t)] + below(t \ {Pick(t)})[t \ {Pick(t)}]]
    <2>1. \A t \in SUBSET s : t # s => Sums(f, t, below(t))
      <3> SUFFICES ASSUME NEW t \in SUBSET s, t # s PROVE \E g : Sums(f, t, g)
        OBVIOUS
      <3>1. PICK x \in s : x \notin t
        OBVIOUS
      <3>2. PICK g : Sums(f, s \ {x}, g)
        BY <1>1
      <3> DEFINE h == [u \in SUBSET t |-> g[u]]
      <3>3. ASSUME NEW u \in SUBSET t
            PROVE  h[u] = IF u = {} THEN 0 ELSE f[Pick(u)] + h[u \ {Pick(u)}]
        <4>1. u \in SUBSET (s \ {x}) /\ u \ {Pick(u)} \in SUBSET t
          BY <3>1
        <4>2. h[u] = g[u] /\ h[u \ {Pick(u)}] = g[u \ {Pick(u)}]
          BY <4>1
        <4> HIDE DEF h
        <4> QED BY <3>2, <4>1, <4>2, SumsAt
      <3>4. Sums(f, t, h)
        <4>1. h = [u \in SUBSET t |-> h[u]]
          OBVIOUS
        <4> HIDE DEF h
        <4> QED BY <3>3, <4>1 DEF Sums
      <3> QED BY <3>4
    <2> HIDE DEF below
    <2>2. ASSUME NEW t \in SUBSET s, t # s PROVE G[t] = below(t)[t]
      <3>1. CASE t = {}
        BY <2>1, <2>2, <3>1, SumsAt
      <3>2. CASE t # {}
        <4> DEFINE u == t \ {Pick(t)}
        <4>1. u \in SUBSET t /\ u \in SUBSET s /\ u # s /\ u \in SUBSET T
          BY <2>2
        <4>2. IsFiniteSet(u)
          BY <4>1, FS_Subset
        <4>3. below(t)[t] = f[Pick(t)] + below(t)[u]
          BY <2>1, <2>2, <3>2, SumsAt
        <4>4. below(u)[u] = below(t)[u]
          <5>1. Sums(f, u, below(u)) /\ Sums(f, t, below(t))
            BY <2>1, <2>2, <4>1
          <5> HIDE DEF u
          <5> QED BY <4>1, <4>2, <5>1, SumsAgree
        <4> QED BY <3>2, <4>3, <4>4
      <3> QED BY <3>1, <3>2
    <2>3. ASSUME NEW t \in SUBSET s
          PROVE  G[t] = IF t = {} THEN 0 ELSE f[Pick(t)] + G[t \ {Pick(t)}]
      <3>1. CASE t = {}
        BY <3>1
      <3>2. CASE t # {}
        <4>1. t \ {Pick(t)} \in SUBSET s /\ t \ {Pick(t)} # s
          BY <3>2, PickFacts
        <4>2. G[t \ {Pick(t)}] = below(t \ {Pick(t)})[t \ {Pick(t)}]
          BY <2>2, <4>1
        <4> QED BY <3>2, <4>2
      <3> QED BY <3>1, <3>2
    <2>4. Sums(f, s, G)
      <3>1. G = [t \in SUBSET s |-> G[t]]
        OBVIOUS
      <3> HIDE DEF G
      <3> QED BY <2>3, <3>1 DEF Sums
    <2> QED BY <2>4
  <1> HIDE DEF P
  <1>2. SUBSET T \subseteq P
    BY <1>1, SubsetInduction
  <1> QED BY <1>2 DEF P

\* Total takes its value from any running sums over a set that holds T.
LEMMA TotalIsSum ==
  ASSUME NEW f, NEW U, IsFiniteSet(U), NEW h, Sums(f, U, h), NEW T \in SUBSET U
  PROVE  Total(f, T) = h[T]
  <1> DEFINE g == CHOOSE i : Sums(f, T, i)
  <1>1. IsFiniteSet(T)
    BY FS_Subset
  <1>2. Sums(f, T, g)
    BY <1>1, SumsExist
  <1>3. Total(f, T) = g[T]
    BY DEF Total, MapThenSumSet, MapThenFoldSet, Sums, Pick
  <1> HIDE DEF g
  <1>4. g[T] = h[T]
    BY <1>1, <1>2, SumsAgree
  <1> QED BY <1>3, <1>4

\* A sum of numbers is a number, zero over no argument, and any argument can
\* be split off: the order in which MapThenSumSet takes them does not matter.
LEMMA TotalFacts ==
  ASSUME NEW f, NEW T, IsFiniteSet(T), \A x \in T : f[x] \in Nat
  PROVE  /\ Total(f, T) \in Nat
         /\ T = {} => Total(f, T) = 0
         /\ \A x \in T : Total(f, T) = f[x] + Total(f, T \ {x})
  <1>1. PICK g : Sums(f, T, g)
    BY SumsExist
  <1> DEFINE N == {s \in SUBSET T : g[s] \in Nat}
             P == {s \in SUBSET T : \A x \in s : g[s] = f[x] + g[s \ {x}]}
  <1>2. \A s \in SUBSET T : g[s] \in Nat
    <2>1. ASSUME NEW s \in SUBSET T, \A x \in s : s \ {x} \in N
          PROVE  s \in N
      <3>1. CASE s = {}
        BY <1>1, <3>1, SumsAt
      <3>2. CASE s # {}
        <4>1. g[s] = f[Pick(s)] + g[s \ {Pick(s)}]
          BY <1>1, <3>2, SumsAt
        <4>2. Pick(s) \in T /\ g[s \ {Pick(s)}] \in Nat
          BY <2>1, <3>2, PickFacts
        <4> QED BY <4>1, <4>2
      <3> QED BY <3>1, <3>2
    <2> HIDE DEF N
    <2>2. SUBSET T \subseteq N
      BY <2>1, SubsetInduction
    <2> QED BY <2>2 DEF N
  <1>3. ASSUME NEW s \in SUBSET T, \A x \in s : s \ {x} \in P
        PROVE  s \in P
    <2> SUFFICES ASSUME NEW x \in s PROVE g[s] = f[x] + g[s \ {x}]
      OBVIOUS
    <2> DEFINE p == Pick(s)
    <2>1. p \in s /\ g[s] = f[p] + g[s \ {p}]
      BY <1>1, PickFacts, SumsAt
    <2> HIDE DEF p
    <2>2. CASE x = p
      BY <2>1, <2>2
    <2>3. CASE x # p
      <3> DEFINE r == (s \ {p}) \ {x}
      <3>1. r = (s \ {x}) \ {p} /\ r \in SUBSET T
        OBVIOUS
      <3>2. g[s \ {p}] = f[x] + g[r]
        BY <1>3, <2>1, <2>3
      <3>3. g[s \ {x}] = f[p] + g[r]
        BY <1>3, <2>1, <2>3, <3>1
      <3>4. g[r] \in Nat /\ f[x] \in Nat /\ f[p] \in Nat
        BY <1>2, <2>1, <3>1
      <3> HIDE DEF r
      <3> QED BY <2>1, <3>2, <3>3, <3>4
    <2> QED BY <2>2, <2>3
  <1> HIDE DEF P
  <1>4. SUBSET T \subseteq P
    BY <1>3, SubsetInduction
  <1>5. g[T] \in Nat /\ \A x \in T : g[T] = f[x] + g[T \ {x}]
    BY <1>2, <1>4 DEF P
  <1>6. Total(f, T) = g[T] /\ \A x \in T : Total(f, T \ {x}) = g[T \ {x}]
    BY <1>1, TotalIsSum
  <1>7. T = {} => g[T] = 0
    BY <1>1, SumsAt
  <1> QED BY <1>5, <1>6, <1>7

\* Sums over disjoint sets add up.
LEMMA TotalUnion ==
  ASSUME NEW f, NEW S, NEW T, IsFiniteSet(S), IsFiniteSet(T), S \cap T = {},
         \A x \in S \cup T : f[x] \in Nat
  PROVE  Total(f, S \cup T) = Total(f, S) + Total(f, T)
  <1> DEFINE P == {s \in SUBSET T : Total(f, S \cup s) = Total(f, S) + Total(f, s)}
  <1>1. Total(f, S) \in Nat
    BY TotalFacts
  <1>2. ASSUME NEW s \in SUBSET T, \A x \in s : s \ {x} \in P
        PROVE  s \in P
    <2>1. IsFiniteSet(s) /\ IsFiniteSet(S \cup s)
      BY FS_Subset, FS_Union
    <2>2. CASE s = {}
      <3>1. S \cup s = S /\ Total(f, s) = 0
        BY <2>1, <2>2, TotalFacts
      <3> QED BY <1>1, <3>1
    <2>3. CASE s # {}
      <3>1. PICK x \in s : TRUE
        BY <2>3
      <3>2. Total(f, S \cup (s \ {x})) = Total(f, S) + Total(f, s \ {x})
        BY <1>2, <3>1
      <3>3. Total(f, s) = f[x] + Total(f, s \ {x})
        BY <2>1, <3>1, TotalFacts
      <3>4. Total(f, S \cup s) = f[x] + Total(f, (S \cup s) \ {x})
        BY <2>1, <3>1, TotalFacts
      <3>5. (S \cup s) \ {x} = S \cup (s \ {x})
        BY <3>1
      <3>6. f[x] \in Nat /\ Total(f, s \ {x}) \in Nat
        <4>1. IsFiniteSet(s \ {x}) /\ \A y \in s \ {x} : f[y] \in Nat
          BY <2>1, FS_RemoveElement
        <4> QED BY <3>1, <4>1, TotalFacts
      <3> QED BY <1>1, <3>2, <3>3, <3>4, <3>5, <3>6
    <2> QED BY <2>2, <2>3
  <1> HIDE DEF P
  <1>3. SUBSET T \subseteq P
    BY <1>2, SubsetInduction
  <1> QED BY <1>3 DEF P

\* A sum over a part is at most the sum over the whole.
LEMMA TotalPart ==
  ASSUME NEW S, IsFiniteSet(S), NEW f, \A s \in S : f[s] \in Nat, NEW T \in SUBSET S
  PROVE  Total(f, T) \in Nat /\ Total(f, S) \in Nat /\ Total(f, T) <= Total(f, S)
  <1>1. IsFiniteSet(T) /\ IsFiniteSet(S \ T) /\ S = T \cup (S \ T) /\ T \cap (S \ T) = {}
    BY FS_Subset
  <1>2. Total(f, T) \in Nat /\ Total(f, S \ T) \in Nat /\ Total(f, S) \in Nat
    BY <1>1, TotalFacts
  <1>3. Total(f, T \cup (S \ T)) = Total(f, T) + Total(f, S \ T)
    BY <1>1, TotalUnion
  <1>4. Total(f, S) = Total(f, T \cup (S \ T))
    BY <1>1
  <1> QED BY <1>2, <1>3, <1>4

\* A sum of zeros is zero.
LEMMA TotalZero ==
  ASSUME NEW f, NEW T, IsFiniteSet(T), \A x \in T : f[x] = 0
  PROVE  Total(f, T) = 0
  <1> DEFINE P == {s \in SUBSET T : Total(f, s) = 0}
  <1>1. ASSUME NEW s \in SUBSET T, \A x \in s : s \ {x} \in P
        PROVE  s \in P
    <2>1. IsFiniteSet(s) /\ \A x \in s : f[x] \in Nat
      BY FS_Subset
    <2>2. CASE s = {}
      BY <2>1, <2>2, TotalFacts
    <2>3. CASE s # {}
      <3>1. PICK x \in s : TRUE
        BY <2>3
      <3>2. Total(f, s) = f[x] + Total(f, s \ {x})
        BY <2>1, <3>1, TotalFacts
      <3>3. f[x] = 0 /\ Total(f, s \ {x}) = 0
        BY <1>1, <3>1
      <3> QED BY <3>2, <3>3
    <2> QED BY <2>2, <2>3
  <1> HIDE DEF P
  <1>2. SUBSET T \subseteq P
    BY <1>1, SubsetInduction
  <1> QED BY <1>2 DEF P

\* Sizes of disjoint sets add up.
LEMMA DisjointSizes ==
  ASSUME NEW S, NEW T, IsFiniteSet(S), IsFiniteSet(T), S \cap T = {}
  PROVE  Cardinality(S \cup T) = Cardinality(S) + Cardinality(T)
  <1>1. Cardinality(S \cap T) = 0
    BY FS_EmptySet
  <1>2. Cardinality(S \cup T) = Cardinality(S) + Cardinality(T) - Cardinality(S \cap T)
    BY FS_Union
  <1>3. Cardinality(S) \in Nat /\ Cardinality(T) \in Nat
    BY FS_CardinalityType
  <1> QED BY <1>1, <1>2, <1>3
=============================================================================
