------------------------------ MODULE FoldLemmas ------------------------------
(***************************************************************************)
(* What the folds of the community modules compute, for every argument:    *)
(* FlattenSeq joins sequences in order, and the sums of FiniteSetsExt and  *)
(* Functions do not depend on the order in which CHOOSE takes the elements.*)
(*                                                                         *)
(* Each fold is a recursive function. That the recursion has a solution,   *)
(* and what holds of it, is shown by the least counterexample: the least   *)
(* number, or the smallest subset of a finite set.                         *)
(***************************************************************************)
EXTENDS Integers, Sequences, SequencesExt, FiniteSetTheorems, SequenceTheorems,
        WellFoundedInduction, TLAPS

-----------------------------------------------------------------------------
(* Least counterexamples                                                     *)

LEMMA LeastNumber ==
  ASSUME NEW T, T \subseteq Nat, T # {}
  PROVE  \E x \in T : \A y \in T : x <= y
<1>1. IsWellFoundedOn(OpToRel(<, Nat), Nat)
  BY NatLessThanWellFounded
<1>2. PICK x \in T : \A y \in T : ~(<<y, x>> \in OpToRel(<, Nat))
  BY <1>1, WFMin
<1>3. \A y \in T : ~(y < x)
  BY <1>2 DEF OpToRel
<1> QED
  BY <1>3

LEMMA SmallestSubset ==
  ASSUME NEW D, IsFiniteSet(D), NEW T, T \subseteq SUBSET D, T # {}
  PROVE  \E t \in T : \A u \in T : u \subseteq t => u = t
<1>1. IsWellFoundedOn(StrictSubsetOrdering(D), SUBSET D)
  BY FS_StrictSubsetOrderingWellFounded, FS_FiniteSubsetsOfFinite
<1>2. PICK t \in T : \A u \in T : ~(<<u, t>> \in StrictSubsetOrdering(D))
  BY <1>1, WFMin
<1>3. \A u \in T : u \subseteq t => u = t
  BY <1>2 DEF StrictSubsetOrdering
<1> QED
  BY <1>3

-----------------------------------------------------------------------------
(* Recursion over the subsets of a finite set                                *)

\* g[t] takes pick[t] out of t, and F combines it with what g says of the rest.
Recurs(T, base, pick, F, g) ==
  \A t \in T : g[t] = IF t = {} THEN base ELSE F[pick[t]][g[t \ {pick[t]}]]

UpTo(D, k) == {t \in SUBSET D : Cardinality(t) <= k}

Solved(T, R, base, pick, F) == \E g \in [T -> R] : Recurs(T, base, pick, F, g)

\* There is such a function, with its values where base and F have theirs.
LEMMA RecursionExists ==
  ASSUME NEW D, IsFiniteSet(D), NEW R, NEW base \in R, NEW pick, NEW F,
         \A t \in SUBSET D : t # {} => pick[t] \in t,
         \A x \in D, r \in R : F[x][r] \in R
  PROVE  \E g \in [SUBSET D -> R] : Recurs(SUBSET D, base, pick, F, g)
<1> DEFINE Bad == {k \in Nat : ~Solved(UpTo(D, k), R, base, pick, F)}
<1>1. ASSUME NEW t \in SUBSET D
      PROVE  /\ Cardinality(t) \in Nat /\ Cardinality(t) <= Cardinality(D)
             /\ Cardinality(t) = 0 => t = {}
  <2>1. IsFiniteSet(t) /\ Cardinality(t) <= Cardinality(D)
    BY FS_Subset
  <2> QED
    BY <2>1, FS_CardinalityType, FS_EmptySet
<1>2. ASSUME NEW t \in SUBSET D, t # {}
      PROVE  Cardinality(t \ {pick[t]}) = Cardinality(t) - 1 /\ pick[t] \in D /\ t \ {pick[t]} \in SUBSET D
  <2>1. IsFiniteSet(t) /\ pick[t] \in t
    BY <1>2, FS_Subset
  <2> QED
    BY <2>1, FS_RemoveElement
<1>3. Solved(UpTo(D, 0), R, base, pick, F)
  <2>1. \A t \in UpTo(D, 0) : t = {}
    BY <1>1 DEF UpTo
  <2> DEFINE g == [t \in UpTo(D, 0) |-> base]
  <2>2. g \in [UpTo(D, 0) -> R] /\ Recurs(UpTo(D, 0), base, pick, F, g)
    BY <2>1 DEF Recurs
  <2> QED
    BY <2>2 DEF Solved
<1>4. ASSUME NEW k \in Nat, Solved(UpTo(D, k), R, base, pick, F)
      PROVE  Solved(UpTo(D, k + 1), R, base, pick, F)
  <2>1. PICK g \in [UpTo(D, k) -> R] : Recurs(UpTo(D, k), base, pick, F, g)
    BY <1>4 DEF Solved
  <2> DEFINE h == [t \in UpTo(D, k + 1) |-> IF t = {} THEN base ELSE F[pick[t]][g[t \ {pick[t]}]]]
  <2>2. ASSUME NEW t \in UpTo(D, k + 1), t # {}
        PROVE  t \ {pick[t]} \in UpTo(D, k) /\ pick[t] \in D
    BY <1>1, <1>2, <2>2 DEF UpTo
  <2>3. ASSUME NEW t \in UpTo(D, k) PROVE t \in UpTo(D, k + 1) /\ h[t] = g[t]
    <3>1. t \in UpTo(D, k + 1)
      BY <1>1 DEF UpTo
    <3> QED
      BY <2>1, <3>1 DEF Recurs
  <2>4. Recurs(UpTo(D, k + 1), base, pick, F, h)
    BY <2>2, <2>3 DEF Recurs
  <2>5. h \in [UpTo(D, k + 1) -> R]
    BY <2>1, <2>2
  <2> QED
    BY <2>4, <2>5 DEF Solved
<1>5. Bad = {}
  <2> SUFFICES ASSUME Bad # {} PROVE FALSE
    OBVIOUS
  <2>1. PICK m \in Bad : \A k \in Bad : m <= k
    BY LeastNumber
  <2>2. m # 0 /\ m - 1 \in Nat /\ m - 1 \notin Bad
    BY <1>3, <2>1
  <2>3. Solved(UpTo(D, (m - 1) + 1), R, base, pick, F)
    BY <1>4, <2>2
  <2>4. (m - 1) + 1 = m
    BY <2>1
  <2> QED
    BY <2>1, <2>3, <2>4
<1>6. UpTo(D, Cardinality(D)) = SUBSET D /\ Cardinality(D) \in Nat
  BY <1>1 DEF UpTo
<1>7. Solved(UpTo(D, Cardinality(D)), R, base, pick, F)
  BY <1>5, <1>6
<1> QED
  BY <1>6, <1>7 DEF Solved

-----------------------------------------------------------------------------
(* Sums                                                                      *)

\* The recursion of SumFunctionOnSet.
SumsUp(f, D, g) ==
  g = [t \in SUBSET D |-> IF t = {} THEN 0 ELSE LET x == CHOOSE x \in t : TRUE IN f[x] + g[t \ {x}]]

LEMMA SumUnfolds ==
  ASSUME NEW D, IsFiniteSet(D), NEW f, \A x \in D : f[x] \in Nat
  PROVE  \E g \in [SUBSET D -> Nat] : SumsUp(f, D, g) /\ SumFunctionOnSet(f, D) = g[D]
<1> DEFINE pick == [t \in SUBSET D |-> CHOOSE x \in t : TRUE]
           F == [x \in D |-> [r \in Nat |-> f[x] + r]]
<1>1. \A t \in SUBSET D : t # {} => pick[t] \in t
  OBVIOUS
<1>2. \A x \in D, r \in Nat : F[x][r] \in Nat
  OBVIOUS
<1>3. PICK h \in [SUBSET D -> Nat] : Recurs(SUBSET D, 0, pick, F, h)
  <2> HIDE DEF pick, F
  <2> QED
    BY <1>1, <1>2, RecursionExists
<1>4. SumsUp(f, D, h)
  <2>1. ASSUME NEW t \in SUBSET D
        PROVE  h[t] = IF t = {} THEN 0 ELSE LET x == CHOOSE x \in t : TRUE IN f[x] + h[t \ {x}]
    <3>1. t # {} => pick[t] \in D /\ h[t \ {pick[t]}] \in Nat
      BY <1>1
    <3> QED
      BY <1>3, <3>1 DEF Recurs
  <2> QED
    BY <2>1 DEF SumsUp
<1>5. SumsUp(f, D, CHOOSE g : SumsUp(f, D, g))
  BY <1>4
<1>6. SumFunctionOnSet(f, D) = (CHOOSE g : SumsUp(f, D, g))[D]
  BY DEF SumFunctionOnSet, FoldFunctionOnSet, MapThenFoldSet, SumsUp
<1>7. ASSUME NEW g, SumsUp(f, D, g) PROVE g = h
  <2> DEFINE Bad == {t \in SUBSET D : g[t] # h[t]}
  <2>1. Bad = {}
    <3> SUFFICES ASSUME Bad # {} PROVE FALSE
      OBVIOUS
    <3>1. PICK t \in Bad : \A u \in Bad : u \subseteq t => u = t
      <4>1. Bad \subseteq SUBSET D
        OBVIOUS
      <4> HIDE DEF Bad
      <4> QED
        BY <4>1, SmallestSubset
    <3> DEFINE x == CHOOSE x \in t : TRUE
    <3>2. t # {}
      BY <1>4, <1>7, <3>1 DEF SumsUp
    <3>3. x \in t /\ t \ {x} \in SUBSET D /\ t \ {x} \notin Bad
      BY <3>1, <3>2
    <3> QED
      BY <1>4, <1>7, <3>1, <3>2, <3>3, SMTT(30) DEF SumsUp
  <2> QED
    BY <1>4, <1>7, <2>1 DEF SumsUp
<1> QED
  BY <1>4, <1>5, <1>6, <1>7

\* A sum over a part of D is found among the sums over the subsets of D.
LEMMA SumOfPart ==
  ASSUME NEW D, IsFiniteSet(D), NEW f, NEW g, SumsUp(f, D, g), \A x \in D : f[x] \in Nat,
         NEW E \in SUBSET D
  PROVE  SumFunctionOnSet(f, E) = g[E]
<1>1. IsFiniteSet(E)
  BY FS_Subset
<1>2. PICK h \in [SUBSET E -> Nat] : SumsUp(f, E, h) /\ SumFunctionOnSet(f, E) = h[E]
  BY <1>1, SumUnfolds
<1> DEFINE Bad == {t \in SUBSET E : g[t] # h[t]}
<1>3. Bad = {}
  <2> SUFFICES ASSUME Bad # {} PROVE FALSE
    OBVIOUS
  <2>1. PICK t \in Bad : \A u \in Bad : u \subseteq t => u = t
    <3>1. Bad \subseteq SUBSET E
      OBVIOUS
    <3> HIDE DEF Bad
    <3> QED
      BY <1>1, <3>1, SmallestSubset
  <2> DEFINE x == CHOOSE x \in t : TRUE
  <2>2. t # {}
    BY <1>2, <2>1 DEF SumsUp
  <2>3. x \in t /\ t \ {x} \in SUBSET E /\ t \ {x} \notin Bad
    BY <2>1, <2>2
  <2> QED
    BY <1>2, <2>1, <2>2, <2>3 DEF SumsUp
<1> QED
  BY <1>2, <1>3

LEMMA SumType ==
  ASSUME NEW D, IsFiniteSet(D), NEW f, \A x \in D : f[x] \in Nat
  PROVE  SumFunctionOnSet(f, D) \in Nat
<1>1. PICK g \in [SUBSET D -> Nat] : SumFunctionOnSet(f, D) = g[D]
  BY SumUnfolds
<1> QED
  BY <1>1

LEMMA SumOfNone ==
  ASSUME NEW f
  PROVE  SumFunctionOnSet(f, {}) = 0
<1>1. IsFiniteSet({})
  BY FS_EmptySet
<1>2. \A x \in {} : f[x] \in Nat
  OBVIOUS
<1>3. PICK g \in [SUBSET {} -> Nat] : SumsUp(f, {}, g) /\ SumFunctionOnSet(f, {}) = g[{}]
  BY <1>1, <1>2, SumUnfolds
<1> QED
  BY <1>3 DEF SumsUp

LEMMA SameSum ==
  ASSUME NEW D, NEW f, NEW g, \A x \in D : f[x] = g[x]
  PROVE  SumFunctionOnSet(f, D) = SumFunctionOnSet(g, D)
<1>1. \A h : SumsUp(f, D, h) <=> SumsUp(g, D, h)
  <2>1. ASSUME NEW h, NEW t \in SUBSET D, t # {}
        PROVE  LET x == CHOOSE x \in t : TRUE IN f[x] + h[t \ {x}] = g[x] + h[t \ {x}]
    BY <2>1
  <2> QED
    BY <2>1 DEF SumsUp
<1>2. (CHOOSE h : SumsUp(f, D, h)) = CHOOSE h : SumsUp(g, D, h)
  BY <1>1
<1>3. /\ SumFunctionOnSet(f, D) = (CHOOSE h : SumsUp(f, D, h))[D]
      /\ SumFunctionOnSet(g, D) = (CHOOSE h : SumsUp(g, D, h))[D]
  BY DEF SumFunctionOnSet, FoldFunctionOnSet, MapThenFoldSet, SumsUp
<1> QED
  BY <1>2, <1>3

\* Any element may be taken out first.
LEMMA SumTakesOut ==
  ASSUME NEW D, IsFiniteSet(D), NEW f, \A x \in D : f[x] \in Nat, NEW a \in D
  PROVE  SumFunctionOnSet(f, D) = f[a] + SumFunctionOnSet(f, D \ {a})
<1>1. PICK g \in [SUBSET D -> Nat] : SumsUp(f, D, g)
  BY SumUnfolds
<1> DEFINE Bad == {t \in SUBSET D : \E b \in t : g[t] # f[b] + g[t \ {b}]}
<1>2. Bad = {}
  <2> SUFFICES ASSUME Bad # {} PROVE FALSE
    OBVIOUS
  <2>1. PICK t \in Bad : \A u \in Bad : u \subseteq t => u = t
    <3>1. Bad \subseteq SUBSET D
      OBVIOUS
    <3> HIDE DEF Bad
    <3> QED
      BY <3>1, SmallestSubset
  <2>2. PICK b \in t : g[t] # f[b] + g[t \ {b}]
    BY <2>1
  <2> DEFINE x == CHOOSE x \in t : TRUE
  <2>3. x \in t /\ g[t] = f[x] + g[t \ {x}]
    BY <1>1, <2>1, <2>2 DEF SumsUp
  <2>4. x # b
    BY <2>2, <2>3
  <2>5. t \ {x} \notin Bad /\ t \ {b} \notin Bad /\ t \ {x} \in SUBSET D /\ t \ {b} \in SUBSET D
    BY <2>1, <2>2, <2>3
  <2> HIDE DEF x
  <2>6. g[t \ {x}] = f[b] + g[(t \ {x}) \ {b}]
    BY <2>2, <2>4, <2>5
  <2>7. g[t \ {b}] = f[x] + g[(t \ {b}) \ {x}]
    BY <2>3, <2>4, <2>5
  <2>8. (t \ {x}) \ {b} = (t \ {b}) \ {x}
    OBVIOUS
  <2>9. f[x] \in Nat /\ f[b] \in Nat /\ g[(t \ {b}) \ {x}] \in Nat
    BY <2>1, <2>2, <2>3, <2>5
  <2> DEFINE rest == g[(t \ {b}) \ {x}]
  <2>10. g[t] = f[x] + (f[b] + rest) /\ g[t \ {b}] = f[x] + rest
    BY <2>3, <2>6, <2>7, <2>8
  <2> HIDE DEF rest
  <2>11. f[x] + (f[b] + rest) = f[b] + (f[x] + rest)
    BY <2>9 DEF rest
  <2> QED
    BY <2>2, <2>10, <2>11
<1>3. g[D] = f[a] + g[D \ {a}]
  BY <1>2
<1>4. SumFunctionOnSet(f, D) = g[D] /\ SumFunctionOnSet(f, D \ {a}) = g[D \ {a}]
  BY <1>1, SumOfPart
<1> QED
  BY <1>3, <1>4

LEMMA SumOfZeros ==
  ASSUME NEW D, IsFiniteSet(D), NEW f, \A x \in D : f[x] = 0
  PROVE  SumFunctionOnSet(f, D) = 0
<1>1. PICK g \in [SUBSET D -> Nat] : SumsUp(f, D, g) /\ SumFunctionOnSet(f, D) = g[D]
  <2>1. \A x \in D : f[x] \in Nat
    OBVIOUS
  <2> QED
    BY <2>1, SumUnfolds
<1> DEFINE Bad == {t \in SUBSET D : g[t] # 0}
<1>2. Bad = {}
  <2> SUFFICES ASSUME Bad # {} PROVE FALSE
    OBVIOUS
  <2>1. PICK t \in Bad : \A u \in Bad : u \subseteq t => u = t
    <3>1. Bad \subseteq SUBSET D
      OBVIOUS
    <3> HIDE DEF Bad
    <3> QED
      BY <3>1, SmallestSubset
  <2> DEFINE x == CHOOSE x \in t : TRUE
  <2>2. t # {} /\ g[t] = f[x] + g[t \ {x}]
    BY <1>1, <2>1 DEF SumsUp
  <2>3. x \in t /\ t \ {x} \notin Bad /\ t \ {x} \in SUBSET D
    BY <2>1, <2>2
  <2> QED
    BY <2>1, <2>2, <2>3
<1> QED
  BY <1>1, <1>2

\* A sum of ones counts.
LEMMA SumOfOnes ==
  ASSUME NEW D, IsFiniteSet(D), NEW f, \A x \in D : f[x] = 1
  PROVE  SumFunctionOnSet(f, D) = Cardinality(D)
<1>1. PICK g \in [SUBSET D -> Nat] : SumsUp(f, D, g) /\ SumFunctionOnSet(f, D) = g[D]
  <2>1. \A x \in D : f[x] \in Nat
    OBVIOUS
  <2> QED
    BY <2>1, SumUnfolds
<1> DEFINE Bad == {t \in SUBSET D : g[t] # Cardinality(t)}
<1>2. Bad = {}
  <2> SUFFICES ASSUME Bad # {} PROVE FALSE
    OBVIOUS
  <2>1. PICK t \in Bad : \A u \in Bad : u \subseteq t => u = t
    <3>1. Bad \subseteq SUBSET D
      OBVIOUS
    <3> HIDE DEF Bad
    <3> QED
      BY <3>1, SmallestSubset
  <2> DEFINE x == CHOOSE x \in t : TRUE
  <2>2. t # {} /\ g[t] = f[x] + g[t \ {x}]
    BY <1>1, <2>1, FS_EmptySet DEF SumsUp
  <2>3. x \in t /\ t \ {x} \notin Bad /\ t \ {x} \in SUBSET D /\ IsFiniteSet(t)
    BY <2>1, <2>2, FS_Subset
  <2>4. Cardinality(t) \in Nat /\ Cardinality(t \ {x}) = Cardinality(t) - 1
    BY <2>3, FS_RemoveElement, FS_CardinalityType
  <2>5. f[x] = 1 /\ g[t \ {x}] = Cardinality(t) - 1
    BY <2>1, <2>3, <2>4
  <2> QED
    BY <2>1, <2>2, <2>4, <2>5
<1> QED
  BY <1>1, <1>2

\* A sum may be taken part by part, part[x] being the part of x.
LEMMA SumByParts ==
  ASSUME NEW D, IsFiniteSet(D), NEW P, IsFiniteSet(P), NEW part, NEW f,
         \A x \in D : f[x] \in Nat /\ part[x] \in P
  PROVE  SumFunctionOnSet([p \in P |-> SumFunctionOnSet(f, {x \in D : part[x] = p})], P)
           = SumFunctionOnSet(f, D)
<1> DEFINE In(t, p) == {x \in t : part[x] = p}
           Parts(t) == [p \in P |-> SumFunctionOnSet(f, In(t, p))]
           Bad == {t \in SUBSET D : SumFunctionOnSet(Parts(t), P) # SumFunctionOnSet(f, t)}
<1>1. ASSUME NEW t \in SUBSET D
      PROVE  /\ IsFiniteSet(t) /\ \A x \in t : f[x] \in Nat
             /\ \A p \in P : IsFiniteSet(In(t, p)) /\ Parts(t)[p] \in Nat
  <2>1. IsFiniteSet(t) /\ \A x \in t : f[x] \in Nat
    BY FS_Subset
  <2>2. ASSUME NEW p \in P PROVE IsFiniteSet(In(t, p)) /\ SumFunctionOnSet(f, In(t, p)) \in Nat
    <3>1. IsFiniteSet(In(t, p)) /\ \A x \in In(t, p) : f[x] \in Nat
      BY <2>1, FS_Subset
    <3> HIDE DEF In
    <3> QED
      BY <3>1, SumType
  <2> QED
    BY <2>1, <2>2
<1>2. Bad = {}
  <2> SUFFICES ASSUME Bad # {} PROVE FALSE
    OBVIOUS
  <2>1. PICK t \in Bad : \A u \in Bad : u \subseteq t => u = t
    <3>1. Bad \subseteq SUBSET D
      OBVIOUS
    <3> HIDE DEF Bad
    <3> QED
      BY <3>1, SmallestSubset
  <2>2. t \in SUBSET D /\ SumFunctionOnSet(Parts(t), P) # SumFunctionOnSet(f, t)
    BY <2>1
  <2>3. t # {}
    <3> SUFFICES ASSUME t = {} PROVE FALSE
      OBVIOUS
    <3>1. \A p \in P : In(t, p) = {}
      OBVIOUS
    <3>2. \A p \in P : Parts(t)[p] = 0
      BY <3>1, SumOfNone
    <3> HIDE DEF Parts
    <3>3. SumFunctionOnSet(Parts(t), P) = 0
      BY <3>2, SumOfZeros
    <3> QED
      BY <2>2, <3>3, SumOfNone
  <2>4. PICK a \in t : TRUE
    BY <2>3
  <2> DEFINE u == t \ {a}
             q == part[a]
  <2>5. u \in SUBSET D /\ u \notin Bad /\ q \in P
    BY <2>1, <2>4
  <2>6. SumFunctionOnSet(Parts(u), P) = SumFunctionOnSet(f, u)
    BY <2>5
  <2>7. SumFunctionOnSet(f, t) = f[a] + SumFunctionOnSet(f, u)
    BY <1>1, <2>2, SumTakesOut
  <2>8. Parts(t)[q] = f[a] + Parts(u)[q]
    <3>1. a \in In(t, q) /\ In(t, q) \ {a} = In(u, q)
      OBVIOUS
    <3>2. IsFiniteSet(In(t, q)) /\ \A x \in In(t, q) : f[x] \in Nat
      BY <1>1, <2>2, <2>5
    <3> HIDE DEF In
    <3>3. SumFunctionOnSet(f, In(t, q)) = f[a] + SumFunctionOnSet(f, In(t, q) \ {a})
      BY <3>1, <3>2, SumTakesOut
    <3> QED
      BY <2>5, <3>1, <3>3
  <2>9. ASSUME NEW p \in P \ {q} PROVE Parts(t)[p] = Parts(u)[p]
    <3>1. In(t, p) = In(u, p)
      OBVIOUS
    <3> QED
      BY <3>1
  <2>10. \A p \in P : Parts(t)[p] \in Nat /\ Parts(u)[p] \in Nat
    BY <1>1, <2>2, <2>5
  <2> HIDE DEF Parts, q, u
  <2>11. /\ SumFunctionOnSet(Parts(t), P) = Parts(t)[q] + SumFunctionOnSet(Parts(t), P \ {q})
         /\ SumFunctionOnSet(Parts(u), P) = Parts(u)[q] + SumFunctionOnSet(Parts(u), P \ {q})
    BY <2>5, <2>10, SumTakesOut
  <2>12. SumFunctionOnSet(Parts(t), P \ {q}) = SumFunctionOnSet(Parts(u), P \ {q})
    BY <2>9, SameSum
  <2>13. f[a] \in Nat /\ Parts(u)[q] \in Nat /\ SumFunctionOnSet(Parts(u), P \ {q}) \in Nat
    <3>1. IsFiniteSet(P \ {q}) /\ \A p \in P \ {q} : Parts(u)[p] \in Nat
      BY <2>10, FS_RemoveElement
    <3> QED
      BY <1>1, <2>2, <2>4, <2>5, <2>10, <3>1, SumType
  <2>14. SumFunctionOnSet(Parts(t), P) = f[a] + SumFunctionOnSet(Parts(u), P)
    BY <2>8, <2>11, <2>12, <2>13
  <2> QED
    BY <2>2, <2>6, <2>7, <2>14
<1>3. D \notin Bad
  BY <1>2
<1> QED
  BY <1>3

-----------------------------------------------------------------------------
(* Sequences of sequences                                                    *)

\* The recursion of FlattenSeq.
Joins(seqs, n, g) ==
  g = [i \in 1..n |-> IF i = 1 THEN seqs[i] ELSE g[i - 1] \o seqs[i]]

LEMMA JoinsExist ==
  ASSUME NEW seqs, NEW n \in Nat
  PROVE  \E g : Joins(seqs, n, g)
<1> DEFINE Bad == {m \in Nat : ~\E g : Joins(seqs, m, g)}
<1> SUFFICES ASSUME Bad # {} PROVE FALSE
  OBVIOUS
<1>1. PICK m \in Bad : \A k \in Bad : m <= k
  BY LeastNumber
<1>2. m # 0
  <2>1. Joins(seqs, 0, [i \in 1..0 |-> <<>>])
    BY DEF Joins
  <2> QED
    BY <1>1, <2>1
<1>3. m - 1 \in Nat /\ m - 1 \notin Bad /\ m \in Nat
  BY <1>1, <1>2
<1>4. PICK g : Joins(seqs, m - 1, g)
  BY <1>3
<1> DEFINE h == [i \in 1..m |-> IF i = 1 THEN seqs[i] ELSE g[i - 1] \o seqs[i]]
<1>5. \A i \in 1..m : i # 1 => i - 1 \in 1..(m - 1) /\ i - 1 \in 1..m
  BY <1>3
<1>6. \A i \in 1..m : i # 1 => h[i - 1] = g[i - 1]
  BY <1>4, <1>5 DEF Joins
<1>7. h = [i \in 1..m |-> IF i = 1 THEN seqs[i] ELSE h[i - 1] \o seqs[i]]
  BY <1>6
<1>8. Joins(seqs, m, h)
  BY <1>7 DEF Joins
<1> QED
  BY <1>1, <1>8

\* fl holds what the first n sequences hold: nothing else, everything, and in
\* their order.
FromParts(seqs, n, fl) == \A j \in DOMAIN fl : \E i \in 1..n : \E m \in DOMAIN seqs[i] : fl[j] = seqs[i][m]
AllParts(seqs, n, fl)  == \A i \in 1..n : \A m \in DOMAIN seqs[i] : \E j \in DOMAIN fl : fl[j] = seqs[i][m]
InOrder(seqs, n, fl)   ==
  \A j, k \in DOMAIN fl : j < k =>
    \E a, b \in 1..n : \E x \in DOMAIN seqs[a], y \in DOMAIN seqs[b] :
      /\ fl[j] = seqs[a][x] /\ fl[k] = seqs[b][y]
      /\ a < b \/ (a = b /\ x < y)

JoinOf(S, seqs, n, fl) ==
  fl \in Seq(S) /\ FromParts(seqs, n, fl) /\ AllParts(seqs, n, fl) /\ InOrder(seqs, n, fl)

LEMMA JoinOneMore ==
  ASSUME NEW S, NEW n \in Nat, NEW seqs \in Seq(Seq(S)), n + 1 \in DOMAIN seqs,
         NEW fl, JoinOf(S, seqs, n, fl)
  PROVE  JoinOf(S, seqs, n + 1, fl \o seqs[n + 1])
<1> DEFINE t == seqs[n + 1]
           gl == fl \o t
<1>1. t \in Seq(S) /\ fl \in Seq(S)
  BY DEF JoinOf
<1>2. /\ gl \in Seq(S) /\ Len(fl) \in Nat /\ Len(t) \in Nat /\ Len(gl) = Len(fl) + Len(t)
      /\ \A i \in 1..(Len(fl) + Len(t)) : gl[i] = IF i <= Len(fl) THEN fl[i] ELSE t[i - Len(fl)]
  BY <1>1, ConcatProperties, LenProperties
<1> HIDE DEF gl, t
<1>3. DOMAIN gl = 1..(Len(fl) + Len(t)) /\ DOMAIN fl = 1..Len(fl) /\ DOMAIN t = 1..Len(t)
  BY <1>1, <1>2
<1>4. ASSUME NEW j \in DOMAIN gl
      PROVE  \/ j \in DOMAIN fl /\ j <= Len(fl) /\ gl[j] = fl[j]
             \/ j > Len(fl) /\ j - Len(fl) \in DOMAIN t /\ gl[j] = t[j - Len(fl)]
  BY <1>2, <1>3
<1>5. n + 1 \in 1..(n + 1) /\ \A i \in 1..n : i \in 1..(n + 1) /\ i < n + 1
  OBVIOUS
<1>6. FromParts(seqs, n + 1, gl)
  <2> SUFFICES ASSUME NEW j \in DOMAIN gl
               PROVE  \E i \in 1..(n + 1) : \E m \in DOMAIN seqs[i] : gl[j] = seqs[i][m]
    BY DEF FromParts
  <2>1. CASE j \in DOMAIN fl /\ gl[j] = fl[j]
    BY <1>5, <2>1 DEF JoinOf, FromParts
  <2>2. CASE j - Len(fl) \in DOMAIN t /\ gl[j] = t[j - Len(fl)]
    BY <1>5, <2>2 DEF t
  <2> QED
    BY <1>4, <2>1, <2>2
<1>7. AllParts(seqs, n + 1, gl)
  <2> SUFFICES ASSUME NEW i \in 1..(n + 1), NEW m \in DOMAIN seqs[i]
               PROVE  \E j \in DOMAIN gl : gl[j] = seqs[i][m]
    BY DEF AllParts
  <2>1. CASE i \in 1..n
    <3>1. PICK j \in DOMAIN fl : fl[j] = seqs[i][m]
      BY <2>1 DEF JoinOf, AllParts
    <3>2. j \in DOMAIN gl /\ gl[j] = fl[j]
      BY <1>2, <1>3, <3>1, SMTT(30)
    <3> QED
      BY <3>1, <3>2
  <2>2. CASE i = n + 1
    <3>1. m \in 1..Len(t)
      BY <1>3, <2>2 DEF t
    <3>2. Len(fl) + m \in 1..(Len(fl) + Len(t)) /\ ~(Len(fl) + m <= Len(fl)) /\ (Len(fl) + m) - Len(fl) = m
      BY <1>2, <3>1, SMTT(30)
    <3>3. Len(fl) + m \in DOMAIN gl /\ gl[Len(fl) + m] = t[m]
      BY <1>2, <1>3, <3>2
    <3> QED
      BY <2>2, <3>3 DEF t
  <2> QED
    BY <2>1, <2>2
<1>8. InOrder(seqs, n + 1, gl)
  <2> SUFFICES ASSUME NEW j \in DOMAIN gl, NEW k \in DOMAIN gl, j < k
               PROVE  \E a, b \in 1..(n + 1) : \E x \in DOMAIN seqs[a], y \in DOMAIN seqs[b] :
                        /\ gl[j] = seqs[a][x] /\ gl[k] = seqs[b][y]
                        /\ a < b \/ (a = b /\ x < y)
    BY DEF InOrder
  <2>1. CASE k \in DOMAIN fl /\ k <= Len(fl) /\ gl[k] = fl[k]
    <3>1. j \in DOMAIN fl /\ gl[j] = fl[j]
      BY <1>2, <1>3, <2>1
    <3>2. PICK a \in 1..n, b \in 1..n : \E x \in DOMAIN seqs[a], y \in DOMAIN seqs[b] :
            /\ fl[j] = seqs[a][x] /\ fl[k] = seqs[b][y]
            /\ a < b \/ (a = b /\ x < y)
      BY <2>1, <3>1 DEF JoinOf, InOrder
    <3>3. a \in 1..(n + 1) /\ b \in 1..(n + 1)
      BY <1>5
    <3> QED
      BY <2>1, <3>1, <3>2, <3>3
  <2>2. CASE k > Len(fl) /\ k - Len(fl) \in DOMAIN t /\ gl[k] = t[k - Len(fl)]
    <3>1. CASE j \in DOMAIN fl /\ gl[j] = fl[j]
      <4>1. PICK a \in 1..n : \E x \in DOMAIN seqs[a] : gl[j] = seqs[a][x]
        BY <3>1 DEF JoinOf, FromParts
      <4> QED
        BY <1>5, <2>2, <4>1 DEF t
    <3>2. CASE j > Len(fl) /\ j - Len(fl) \in DOMAIN t /\ gl[j] = t[j - Len(fl)]
      <4>1. j - Len(fl) < k - Len(fl)
        BY <1>2, <1>3
      <4> QED
        BY <1>5, <2>2, <3>2, <4>1 DEF t
    <3> QED
      BY <1>4, <3>1, <3>2
  <2> QED
    BY <1>4, <2>1, <2>2
<1> QED
  BY <1>2, <1>6, <1>7, <1>8 DEF JoinOf, gl, t

LEMMA FlattenSeqJoins ==
  ASSUME NEW S, NEW seqs \in Seq(Seq(S))
  PROVE  LET fl == FlattenSeq(seqs) IN
         /\ fl \in Seq(S) /\ FromParts(seqs, Len(seqs), fl)
         /\ AllParts(seqs, Len(seqs), fl) /\ InOrder(seqs, Len(seqs), fl)
<1>1. Len(seqs) \in Nat /\ DOMAIN seqs = 1..Len(seqs)
  BY LenProperties
<1>2. CASE Len(seqs) = 0
  <2>1. FlattenSeq(seqs) = <<>>
    BY <1>2, EmptySeq DEF FlattenSeq
  <2> QED
    BY <1>2, <2>1 DEF FromParts, AllParts, InOrder
<1>3. CASE Len(seqs) # 0
  <2>1. \E g : Joins(seqs, Len(seqs), g)
    BY <1>1, JoinsExist
  <2> DEFINE g == CHOOSE g : Joins(seqs, Len(seqs), g)
  <2>2. Joins(seqs, Len(seqs), g)
    BY <2>1
  <2>3. FlattenSeq(seqs) = g[Len(seqs)]
    BY <1>3 DEF FlattenSeq, Joins
  <2> HIDE DEF g
  <2> DEFINE Bad == {m \in 1..Len(seqs) : ~JoinOf(S, seqs, m, g[m])}
  <2>4. JoinOf(S, seqs, 1, g[1])
    <3>1. 1 \in DOMAIN seqs /\ g[1] = seqs[1] /\ seqs[1] \in Seq(S)
      BY <1>1, <1>3, <2>2 DEF Joins
    <3> QED
      BY <3>1 DEF JoinOf, FromParts, AllParts, InOrder
  <2>5. Bad = {}
    <3> SUFFICES ASSUME Bad # {} PROVE FALSE
      OBVIOUS
    <3>1. PICK m \in Bad : \A k \in Bad : m <= k
      <4>1. Bad \subseteq Nat
        BY <1>1
      <4> HIDE DEF Bad
      <4> QED
        BY <4>1, LeastNumber
    <3>2. m # 1 /\ m - 1 \in 1..Len(seqs) /\ m - 1 \notin Bad /\ m \in 1..Len(seqs)
      BY <1>1, <2>4, <3>1
    <3>3. JoinOf(S, seqs, m - 1, g[m - 1])
      BY <3>2
    <3>4. (m - 1) + 1 = m /\ m - 1 \in Nat
      BY <1>1, <3>2
    <3>5. JoinOf(S, seqs, m, g[m - 1] \o seqs[m])
      BY <1>1, <3>2, <3>3, <3>4, JoinOneMore
    <3>6. g[m] = g[m - 1] \o seqs[m]
      BY <2>2, <3>2 DEF Joins
    <3> QED
      BY <3>1, <3>5, <3>6
  <2>6. JoinOf(S, seqs, Len(seqs), g[Len(seqs)])
    <3>1. Len(seqs) \in 1..Len(seqs) /\ Len(seqs) \notin Bad
      BY <1>1, <1>3, <2>5
    <3> QED
      BY <3>1
  <2> QED
    BY <2>3, <2>6 DEF JoinOf
<1> QED
  BY <1>2, <1>3
=============================================================================
