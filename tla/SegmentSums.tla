---------------------------- MODULE SegmentSums ----------------------------
(***************************************************************************)
(* The byte counters of Segment are the sums they stand for.  The first     *)
(* part is about sums over finite sets, which the provers know nothing of.  *)
(***************************************************************************)
EXTENDS SegmentProofs, FiniteSetTheorems, WellFoundedInduction, NaturalsInduction

(* Sums                                                                    *)

\* A set of numbers has a least one: how induction is written here.
LEMMA LeastElement ==
    ASSUME NEW T, T \subseteq Nat, T # {}
    PROVE  \E n \in T : \A k \in T : n <= k
<1> DEFINE R == OpToRel(<, Nat)
<1>1. IsWellFoundedOn(R, Nat)
  BY NatLessThanWellFounded
<1> HIDE DEF R
<1>2. PICK n \in T : \A k \in T : ~(<<k, n>> \in R)
  BY <1>1, WFMin
<1>3. \A k \in T : ~(k < n)
  BY <1>2 DEF R, OpToRel
<1> QED
  BY <1>3

\* g gives every subset of U the sum of f over it, in whatever order it is taken.
Additive(g, U, f) ==
    /\ g \in [SUBSET U -> Nat]
    /\ g[{}] = 0
    /\ \A s \in SUBSET U : \A x \in s : g[s] = f[x] + g[s \ {x}]

LEMMA AdditiveEmpty ==
    ASSUME NEW f
    PROVE  \E g : Additive(g, {}, f)
<1> DEFINE g == [s \in SUBSET {} |-> 0]
<1>1. Additive(g, {}, f)
  BY DEF Additive
<1> QED
  BY <1>1

\* One more element: the sum of a set with x is that of the rest, and f of x.
LEMMA AdditiveExtend ==
    ASSUME NEW U, NEW x \in U, NEW f \in [U -> Nat], NEW g, Additive(g, U \ {x}, f)
    PROVE  \E h : Additive(h, U, f)
<1> DEFINE h == [s \in SUBSET U |-> IF x \in s THEN f[x] + g[s \ {x}] ELSE g[s]]
<1>1. ASSUME NEW s \in SUBSET U, x \notin s
      PROVE  s \in SUBSET (U \ {x}) /\ h[s] = g[s] /\ g[s] \in Nat
  BY <1>1 DEF Additive
<1>2. ASSUME NEW s \in SUBSET U, x \in s
      PROVE  h[s] = f[x] + g[s \ {x}] /\ g[s \ {x}] \in Nat
  BY <1>2 DEF Additive
<1>3. h \in [SUBSET U -> Nat]
  <2>1. f[x] \in Nat
    OBVIOUS
  <2>2. ASSUME NEW s \in SUBSET U PROVE h[s] \in Nat
    <3>1. CASE x \in s
      <4>1. h[s] = f[x] + g[s \ {x}] /\ g[s \ {x}] \in Nat
        BY <1>2, <3>1
      <4> HIDE DEF h
      <4> QED
        BY <2>1, <4>1
    <3>2. CASE x \notin s
      BY <1>1, <3>2
    <3> QED
      BY <3>1, <3>2
  <2> QED
    BY <2>2
<1>4. h[{}] = 0
  BY DEF Additive
<1> HIDE DEF h
<1>5. ASSUME NEW s \in SUBSET U, NEW y \in s
      PROVE  h[s] = f[y] + h[s \ {y}]
  <2>1. s \ {y} \in SUBSET U /\ f[x] \in Nat /\ f[y] \in Nat
    OBVIOUS
  <2>2. CASE x \notin s
    <3>1. h[s] = g[s] /\ h[s \ {y}] = g[s \ {y}] /\ s \in SUBSET (U \ {x})
      BY <1>1, <2>1, <2>2
    <3> QED
      BY <3>1 DEF Additive
  <2>3. CASE y = x
    <3>1. h[s] = f[x] + g[s \ {x}]
      BY <1>2, <2>3
    <3>2. h[s \ {x}] = g[s \ {x}]
      BY <1>1, <2>1, <2>3
    <3> QED
      BY <2>3, <3>1, <3>2
  <2>4. CASE x \in s /\ y # x
    <3>1. h[s] = f[x] + g[s \ {x}]
      BY <1>2, <2>4
    <3>2. x \in s \ {y}
      BY <2>4
    <3>3. h[s \ {y}] = f[x] + g[(s \ {y}) \ {x}]
      BY <1>2, <2>1, <3>2
    <3>4. s \ {x} \in SUBSET (U \ {x}) /\ y \in s \ {x}
      BY <2>4
    <3>5. g[s \ {x}] = f[y] + g[(s \ {x}) \ {y}]
      BY <3>4 DEF Additive
    <3>6. (s \ {x}) \ {y} = (s \ {y}) \ {x}
      OBVIOUS
    <3>7. g[(s \ {y}) \ {x}] \in Nat
      <4>1. (s \ {y}) \ {x} \in SUBSET (U \ {x})
        OBVIOUS
      <4> QED
        BY <4>1 DEF Additive
    <3> DEFINE r == g[(s \ {y}) \ {x}]
    <3>8. h[s] = f[x] + (f[y] + r) /\ h[s \ {y}] = f[x] + r /\ r \in Nat
      BY <3>1, <3>3, <3>5, <3>6, <3>7
    <3> HIDE DEF r
    <3> QED
      BY <2>1, <3>8
  <2> QED
    BY <2>2, <2>3, <2>4
<1>6. Additive(h, U, f)
  BY <1>3, <1>4, <1>5 DEF Additive
<1> QED
  BY <1>6

\* Every finite set has sums: a smallest set without them would have one element
\* more than a set that has them.
LEMMA AdditiveExists ==
    ASSUME NEW S, IsFiniteSet(S), NEW f \in [S -> Nat]
    PROVE  \E g : Additive(g, S, f)
<1> DEFINE Bad == {n \in Nat : \E U \in SUBSET S :
                      Cardinality(U) = n /\ ~\E g : Additive(g, U, f)}
<1>1. \A U \in SUBSET S : IsFiniteSet(U) /\ Cardinality(U) \in Nat
  BY FS_Subset, FS_CardinalityType
<1>2. ASSUME Bad # {} PROVE FALSE
  <2>1. PICK n \in Bad : \A k \in Bad : n <= k
    <3>1. Bad \subseteq Nat
      OBVIOUS
    <3> HIDE DEF Bad
    <3> QED
      BY <1>2, <3>1, LeastElement
  <2>2. PICK U \in SUBSET S : Cardinality(U) = n /\ ~\E g : Additive(g, U, f)
    OBVIOUS
  <2>3. U # {}
    BY <2>2, AdditiveEmpty
  <2>4. PICK x \in U : TRUE
    BY <2>3
  <2> DEFINE V == U \ {x}
  <2>5. IsFiniteSet(U) /\ Cardinality(V) = n - 1 /\ V \in SUBSET S
    BY <1>1, <2>2, FS_RemoveElement
  <2>6. n - 1 \in Nat /\ n - 1 \notin Bad
    BY <1>1, <2>1, <2>5
  <2>7. \E g : Additive(g, V, f)
    BY <2>5, <2>6
  <2>8. PICK g : Additive(g, V, f)
    BY <2>7
  <2> DEFINE fU == [u \in U |-> f[u]]
  <2>9. fU \in [U -> Nat]
    OBVIOUS
  <2>10. Additive(g, U \ {x}, fU)
    BY <2>8 DEF Additive
  <2>11. PICK h : Additive(h, U, fU)
    <3> HIDE DEF fU
    <3> QED
      BY <2>9, <2>10, AdditiveExtend
  <2>12. Additive(h, U, f)
    BY <2>11 DEF Additive
  <2> QED
    BY <2>2, <2>12
<1>3. Cardinality(S) \notin Bad
  BY <1>2
<1> QED
  BY <1>1, <1>3

\* What MapThenSumSet computes: the function it chooses, for f over S.
Iterates(it, S, f) ==
    it = [s \in SUBSET S |->
            IF s = {} THEN 0
            ELSE f[CHOOSE x \in s : TRUE] + it[s \ {CHOOSE x \in s : TRUE}]]

LEMMA AdditiveIterates ==
    ASSUME NEW S, NEW f, NEW g, Additive(g, S, f)
    PROVE  Iterates(g, S, f)
<1>1. ASSUME NEW s \in SUBSET S
      PROVE  g[s] = IF s = {} THEN 0
                    ELSE f[CHOOSE x \in s : TRUE] + g[s \ {CHOOSE x \in s : TRUE}]
  <2>1. CASE s = {}
    BY <2>1 DEF Additive
  <2>2. CASE s # {}
    <3>1. (CHOOSE x \in s : TRUE) \in s
      BY <2>2
    <3> QED
      BY <2>2, <3>1 DEF Additive
  <2> QED
    BY <2>1, <2>2
<1>2. g = [s \in SUBSET S |-> g[s]]
  BY DEF Additive
<1> QED
  BY <1>1, <1>2 DEF Iterates

\* The order in which the elements are taken makes no difference: a smallest set
\* with another sum would have an element less than one with the same sum.
LEMMA IterateUnique ==
    ASSUME NEW S, IsFiniteSet(S), NEW f, NEW g, Additive(g, S, f),
           NEW it, Iterates(it, S, f)
    PROVE  it[S] = g[S]
<1> DEFINE Bad == {n \in Nat : \E U \in SUBSET S : Cardinality(U) = n /\ it[U] # g[U]}
<1>1. \A U \in SUBSET S : IsFiniteSet(U) /\ Cardinality(U) \in Nat
  BY FS_Subset, FS_CardinalityType
<1>2. ASSUME Bad # {} PROVE FALSE
  <2>1. PICK n \in Bad : \A k \in Bad : n <= k
    <3>1. Bad \subseteq Nat
      OBVIOUS
    <3> HIDE DEF Bad
    <3> QED
      BY <1>2, <3>1, LeastElement
  <2>2. PICK U \in SUBSET S : Cardinality(U) = n /\ it[U] # g[U]
    OBVIOUS
  <2>3. U # {}
    BY <2>2 DEF Additive, Iterates
  <2> DEFINE x == CHOOSE y \in U : TRUE
             V == U \ {x}
  <2>4. x \in U
    BY <2>3
  <2>5. it[U] = f[x] + it[V]
    BY <2>3 DEF Iterates
  <2>6. g[U] = f[x] + g[V]
    BY <2>4 DEF Additive
  <2>7. Cardinality(V) = n - 1 /\ V \in SUBSET S
    BY <1>1, <2>2, <2>4, FS_RemoveElement
  <2>8. n - 1 \in Nat /\ n - 1 \notin Bad
    BY <1>1, <2>1, <2>7
  <2>9. it[V] = g[V]
    BY <2>7, <2>8
  <2> QED
    BY <2>2, <2>5, <2>6, <2>9
<1>3. Cardinality(S) \notin Bad
  BY <1>2
<1> QED
  BY <1>1, <1>3

\* The sum over a subset is the same, taken as a subset or on its own.
LEMMA AdditiveSubset ==
    ASSUME NEW U, NEW S \in SUBSET U, NEW f, NEW g, Additive(g, U, f)
    PROVE  Additive([s \in SUBSET S |-> g[s]], S, f)
BY DEF Additive

\* Of some subsets of a finite set one is left without any of its elements.
LEMMA SmallestSubset ==
    ASSUME NEW S, IsFiniteSet(S), NEW Bad \in SUBSET SUBSET S, Bad # {}
    PROVE  \E A \in Bad : \A x \in A : A \ {x} \notin Bad
<1>1. \A A \in SUBSET S : IsFiniteSet(A) /\ Cardinality(A) \in Nat
  BY FS_Subset, FS_CardinalityType
<1> DEFINE Sizes0 == {Cardinality(A) : A \in Bad}
<1>2. Sizes0 \subseteq Nat /\ Sizes0 # {}
  BY <1>1
<1> HIDE DEF Sizes0
<1>3. PICK n \in Sizes0 : \A k \in Sizes0 : n <= k
  BY <1>2, LeastElement
<1>4. PICK A \in Bad : Cardinality(A) = n
  BY <1>3 DEF Sizes0
<1>5. ASSUME NEW x \in A, A \ {x} \in Bad PROVE FALSE
  <2>1. Cardinality(A \ {x}) = n - 1
    BY <1>1, <1>4, FS_RemoveElement
  <2>2. n - 1 \in Sizes0
    BY <1>5, <2>1 DEF Sizes0
  <2> QED
    BY <1>2, <1>3, <2>2
<1> QED
  BY <1>4, <1>5

\* The sum over two sets that are apart is that of the one and that of the other.
LEMMA AdditiveUnion ==
    ASSUME NEW U, NEW f \in [U -> Nat], NEW g, Additive(g, U, f),
           NEW A \in SUBSET U, IsFiniteSet(A), NEW B \in SUBSET U, A \cap B = {}
    PROVE  g[A \cup B] = g[A] + g[B]
<1> DEFINE Bad == {C \in SUBSET A : g[C \cup B] # g[C] + g[B]}
<1>1. ASSUME Bad # {} PROVE FALSE
  <2>1. PICK C \in Bad : \A x \in C : C \ {x} \notin Bad
    <3>1. Bad \in SUBSET SUBSET A
      OBVIOUS
    <3> HIDE DEF Bad
    <3> QED
      BY <1>1, <3>1, SmallestSubset
  <2>2. C \in SUBSET A /\ g[C \cup B] # g[C] + g[B]
    OBVIOUS
  <2>3. g[B] \in Nat
    BY DEF Additive
  <2>4. C # {}
    <3>1. g[{}] = 0
      BY DEF Additive
    <3>2. {} \cup B = B
      OBVIOUS
    <3> QED
      BY <2>2, <2>3, <3>1, <3>2
  <2>5. PICK x \in C : TRUE
    BY <2>4
  <2>6. g[(C \ {x}) \cup B] = g[C \ {x}] + g[B]
    BY <2>1, <2>2, <2>5
  <2>7. g[C] = f[x] + g[C \ {x}] /\ g[C \ {x}] \in Nat /\ f[x] \in Nat
    BY <2>2, <2>5 DEF Additive
  <2>8. g[C \cup B] = f[x] + g[(C \cup B) \ {x}]
    BY <2>2, <2>5 DEF Additive
  <2>9. (C \cup B) \ {x} = (C \ {x}) \cup B
    BY <2>2, <2>5
  <2>10. g[C \cup B] = f[x] + (g[C \ {x}] + g[B])
    BY <2>6, <2>8, <2>9
  <2> QED
    BY <2>2, <2>3, <2>7, <2>10
<1>2. A \notin Bad
  BY <1>1
<1> QED
  BY <1>2

\* The elements of U that k puts in part i.
PartOf(U, k, i) == {x \in U : k[x] = i}

\* The sum of the sums of the parts of a set is the sum of the set.
LEMMA PartsSum ==
    ASSUME NEW I, IsFiniteSet(I), NEW U, IsFiniteSet(U), NEW k \in [U -> I],
           NEW f \in [U -> Nat], NEW g, Additive(g, U, f),
           NEW part \in [I -> Nat], \A i \in I : part[i] = g[PartOf(U, k, i)],
           NEW h, Additive(h, I, part)
    PROVE  h[I] = g[U]
<1> DEFINE Parts(J) == {x \in U : k[x] \in J}
           Bad == {J \in SUBSET I : h[J] # g[Parts(J)]}
<1>1. ASSUME Bad # {} PROVE FALSE
  <2>1. PICK J \in Bad : \A i \in J : J \ {i} \notin Bad
    <3>1. Bad \in SUBSET SUBSET I
      OBVIOUS
    <3> HIDE DEF Bad
    <3> QED
      BY <1>1, <3>1, SmallestSubset
  <2>2. J \in SUBSET I /\ h[J] # g[Parts(J)]
    OBVIOUS
  <2>3. J # {}
    <3>1. Parts({}) = {}
      OBVIOUS
    <3>2. g[{}] = 0 /\ h[{}] = 0
      BY DEF Additive
    <3> QED
      BY <2>2, <3>1, <3>2
  <2>4. PICK i \in J : TRUE
    BY <2>3
  <2>5. h[J \ {i}] = g[Parts(J \ {i})]
    BY <2>1, <2>2, <2>4
  <2>6. h[J] = part[i] + h[J \ {i}]
    BY <2>2, <2>4 DEF Additive
  <2>7. part[i] = g[PartOf(U, k, i)]
    BY <2>2, <2>4
  <2>8. /\ Parts(J) = PartOf(U, k, i) \cup Parts(J \ {i})
        /\ PartOf(U, k, i) \cap Parts(J \ {i}) = {}
        /\ PartOf(U, k, i) \in SUBSET U /\ Parts(J \ {i}) \in SUBSET U
    BY <2>4 DEF PartOf
  <2>9. IsFiniteSet(PartOf(U, k, i))
    BY <2>8, FS_Subset
  <2> HIDE DEF Parts
  <2>10. g[Parts(J)] = g[PartOf(U, k, i)] + g[Parts(J \ {i})]
    <3>1. PICK A, B : A = PartOf(U, k, i) /\ B = Parts(J \ {i})
      OBVIOUS
    <3>2. /\ A \in SUBSET U /\ IsFiniteSet(A) /\ B \in SUBSET U /\ A \cap B = {}
          /\ Parts(J) = A \cup B
      BY <2>8, <2>9, <3>1
    <3>3. g[A \cup B] = g[A] + g[B]
      BY <3>2, AdditiveUnion
    <3> QED
      BY <3>1, <3>2, <3>3
  <2> QED
    BY <2>2, <2>5, <2>6, <2>7, <2>10
<1>2. I \notin Bad
  BY <1>1
<1>3. Parts(I) = U
  OBVIOUS
<1> QED
  BY <1>2, <1>3

----------------------------------------------------------------------------
(* The sums of the store                                                   *)

\* The bytes of a set of objects, in terms of the sums above.
Sizes(U) == [o \in U |-> Bytes(o)]

LEMMA BytesOfSum ==
    ASSUME NEW U, NEW S \in SUBSET U, IsFiniteSet(S), NEW g,
           Additive(g, U, Sizes(U))
    PROVE  BytesOf(S) = g[S]
<1> DEFINE F(it) == [s \in SUBSET S |->
                       IF s = {} THEN 0
                       ELSE Bytes(CHOOSE x \in s : TRUE)
                              + it[s \ {CHOOSE x \in s : TRUE}]]
           it == CHOOSE i : i = F(i)
           f == Sizes(U)
           h == [s \in SUBSET S |-> g[s]]
<1>1. BytesOf(S) = it[S]
  BY Zenon DEF BytesOf, MapThenSumSet, MapThenFoldSet
<1>2. Additive(h, S, f)
  BY AdditiveSubset
<1>3. \A i : Iterates(i, S, f) <=> i = F(i)
  <2> SUFFICES ASSUME NEW i PROVE Iterates(i, S, f) <=> i = F(i)
    OBVIOUS
  <2>1. ASSUME NEW s \in SUBSET S, s # {}
        PROVE  f[CHOOSE x \in s : TRUE] = Bytes(CHOOSE x \in s : TRUE)
    <3>1. (CHOOSE x \in s : TRUE) \in U
      BY <2>1
    <3> QED
      BY <3>1 DEF Sizes
  <2> QED
    BY <2>1 DEF Iterates
<1>4. h = F(h)
  BY <1>2, <1>3, AdditiveIterates
<1>5. it = F(it)
  <2> HIDE DEF F, h
  <2> QED
    BY <1>4
<1> HIDE DEF F, it
<1>6. it[S] = h[S]
  BY <1>2, <1>3, <1>5, IterateUnique
<1> QED
  BY <1>1, <1>6

\* The same for objects with the segments they are in.
PairBytes(so) == Bytes(so[2])
PairSizes(U) == [so \in U |-> PairBytes(so)]

LEMMA LiveBytesSum ==
    ASSUME NEW U, NEW S \in SUBSET U, IsFiniteSet(S), NEW g,
           Additive(g, U, PairSizes(U))
    PROVE  LiveBytes(S) = g[S]
<1> DEFINE F(it) == [s \in SUBSET S |->
                       IF s = {} THEN 0
                       ELSE PairBytes(CHOOSE x \in s : TRUE)
                              + it[s \ {CHOOSE x \in s : TRUE}]]
           it == CHOOSE i : i = F(i)
           f == PairSizes(U)
           h == [s \in SUBSET S |-> g[s]]
<1>1. LiveBytes(S) = it[S]
  BY Zenon DEF LiveBytes, MapThenSumSet, MapThenFoldSet, PairBytes
<1>2. Additive(h, S, f)
  BY AdditiveSubset
<1>3. \A i : Iterates(i, S, f) <=> i = F(i)
  <2> SUFFICES ASSUME NEW i PROVE Iterates(i, S, f) <=> i = F(i)
    OBVIOUS
  <2>1. ASSUME NEW s \in SUBSET S, s # {}
        PROVE  f[CHOOSE x \in s : TRUE] = PairBytes(CHOOSE x \in s : TRUE)
    <3>1. (CHOOSE x \in s : TRUE) \in U
      BY <2>1
    <3> QED
      BY <3>1 DEF PairSizes
  <2> QED
    BY <2>1 DEF Iterates
<1>4. h = F(h)
  BY <1>2, <1>3, AdditiveIterates
<1>5. it = F(it)
  <2> HIDE DEF F, h
  <2> QED
    BY <1>4
<1> HIDE DEF F, it
<1>6. it[S] = h[S]
  BY <1>2, <1>3, <1>5, IterateUnique
<1> QED
  BY <1>1, <1>6

LEMMA BytesOfEmpty == BytesOf({}) = 0
<1>1. PICK g : Additive(g, {}, Sizes({}))
  BY AdditiveEmpty
<1>2. IsFiniteSet({}) /\ {} \in SUBSET {}
  BY FS_EmptySet
<1>3. BytesOf({}) = g[{}]
  BY <1>1, <1>2, BytesOfSum
<1> QED
  BY <1>1, <1>3 DEF Additive

LEMMA LiveBytesEmpty == LiveBytes({}) = 0
<1>1. PICK g : Additive(g, {}, PairSizes({}))
  BY AdditiveEmpty
<1>2. IsFiniteSet({}) /\ {} \in SUBSET {}
  BY FS_EmptySet
<1>3. LiveBytes({}) = g[{}]
  BY <1>1, <1>2, LiveBytesSum
<1> QED
  BY <1>1, <1>3 DEF Additive

\* An object more adds its bytes.
LEMMA BytesOfAdd ==
    ASSUME NEW S \in SUBSET Object, IsFiniteSet(S), NEW o \in Object, o \notin S
    PROVE  /\ IsFiniteSet(S \cup {o})
           /\ BytesOf(S) \in Nat
           /\ BytesOf(S \cup {o}) = BytesOf(S) + Bytes(o)
<1> DEFINE U == S \cup {o}
           f == Sizes(U)
<1>1. IsFiniteSet(U)
  BY FS_AddElement
<1>2. f \in [U -> Nat] /\ f[o] = Bytes(o)
  <2>1. \A x \in U : Bytes(x) \in Nat
    BY SizeAssumption DEF Bytes, Object
  <2> QED
    BY <2>1 DEF Sizes
<1> HIDE DEF f
<1>3. PICK g : Additive(g, U, f)
  BY <1>1, <1>2, AdditiveExists
<1>4. U \ {o} = S /\ S \in SUBSET U /\ U \in SUBSET U /\ o \in U
  OBVIOUS
<1>5. BytesOf(U) = g[U] /\ BytesOf(S) = g[S]
  <2> HIDE DEF U
  <2> QED
    BY <1>1, <1>3, <1>4, BytesOfSum DEF f
<1>6. g[U] = f[o] + g[S] /\ g[S] \in Nat
  BY <1>3, <1>4 DEF Additive
<1> QED
  BY <1>1, <1>2, <1>5, <1>6

LEMMA BytesOfNat ==
    ASSUME NEW S \in SUBSET Object, IsFiniteSet(S)
    PROVE  BytesOf(S) \in Nat
<1>1. \A x \in S : Bytes(x) \in Nat
  BY SizeAssumption DEF Bytes, Object
<1>2. Sizes(S) \in [S -> Nat]
  BY <1>1 DEF Sizes
<1>3. PICK g : Additive(g, S, Sizes(S))
  BY <1>2, AdditiveExists
<1>4. S \in SUBSET S
  OBVIOUS
<1>5. BytesOf(S) = g[S]
  BY <1>3, <1>4, BytesOfSum
<1> QED
  BY <1>3, <1>5 DEF Additive

\* The same with segments.
LEMMA LiveBytesAdd ==
    ASSUME NEW S, IsFiniteSet(S), NEW so, so \notin S,
           \A x \in S \cup {so} : PairBytes(x) \in Nat
    PROVE  /\ IsFiniteSet(S \cup {so})
           /\ LiveBytes(S) \in Nat
           /\ LiveBytes(S \cup {so}) = LiveBytes(S) + PairBytes(so)
<1> DEFINE U == S \cup {so}
           f == PairSizes(U)
<1>1. IsFiniteSet(U)
  BY FS_AddElement
<1>2. f \in [U -> Nat] /\ f[so] = PairBytes(so)
  BY DEF PairSizes
<1> HIDE DEF f
<1>3. PICK g : Additive(g, U, f)
  BY <1>1, <1>2, AdditiveExists
<1>4. U \ {so} = S /\ S \in SUBSET U /\ U \in SUBSET U /\ so \in U
  OBVIOUS
<1>5. LiveBytes(U) = g[U] /\ LiveBytes(S) = g[S]
  <2> HIDE DEF U
  <2> QED
    BY <1>1, <1>3, <1>4, LiveBytesSum DEF f
<1>6. g[U] = f[so] + g[S] /\ g[S] \in Nat
  BY <1>3, <1>4 DEF Additive
<1> QED
  BY <1>1, <1>2, <1>5, <1>6

----------------------------------------------------------------------------
(* The entries of written segments                                         *)

\* The object CopyBuf appends to area a.
NewObject(a, type, ino, bix) ==
    [type |-> type, ino |-> ino, bix |-> bix, pos |-> a.used_bytes,
     len |-> ObjLen(type)]

\* The fill mark of an area counts the header and the bytes of its objects.
Counted(a) ==
    a.open => /\ IsFiniteSet(a.buf)
              /\ \A o \in a.buf : o.len >= 1
              /\ a.used_bytes = SegHeader + BytesOf(a.buf)

CountedAreas == \A l \in Areas : Counted(area[l])

LEMMA NewObjectFacts ==
    ASSUME NEW a \in AreaType, NEW type \in Types, NEW ino \in Inos, NEW bix \in Nat
    PROVE  LET o == NewObject(a, type, ino, bix)
           IN  /\ o \in Object /\ o.len >= 1 /\ o.pos = a.used_bytes /\ o.ino = ino
               /\ o.bix = bix
               /\ Bytes(o) = ObjHeader + ObjLen(type) /\ Bytes(o) \in Nat
               /\ CopyBuf(a, type, ino, bix).buf = a.buf \cup {o}
<1>1. ObjLen(type) \in Nat /\ ObjLen(type) >= 1 /\ ObjHeader \in Nat
  BY SizeAssumption DEF ObjLen, Types
<1>2. NewObject(a, type, ino, bix) \in Object
  BY <1>1 DEF NewObject, Object, AreaType
<1>3. CopyBuf(a, type, ino, bix).buf = a.buf \cup {NewObject(a, type, ino, bix)}
  BY CopyBufArea DEF NewObject
<1>4. LET o == NewObject(a, type, ino, bix)
      IN  /\ o.len = ObjLen(type) /\ o.pos = a.used_bytes /\ o.ino = ino
          /\ o.bix = bix
  BY DEF NewObject
<1>5. Bytes(NewObject(a, type, ino, bix)) = ObjHeader + ObjLen(type)
  BY <1>4 DEF Bytes
<1> QED
  BY <1>1, <1>2, <1>3, <1>4, <1>5

\* The object is new to its buffer: whatever is there ends before it.
LEMMA NewObjectIsNew ==
    ASSUME NEW a \in AreaType, NEW type \in Types, NEW ino \in Inos, NEW bix \in Nat,
           a.open, Counted(a), BufferPacked(a)
    PROVE  NewObject(a, type, ino, bix) \notin a.buf
<1>1. ASSUME NEW p \in a.buf PROVE p.pos < a.used_bytes
  <2>1. p.pos \in Nat /\ p.len \in Nat /\ p.len >= 1 /\ ObjHeader \in Nat
        /\ a.used_bytes \in Nat
    BY SizeAssumption DEF Counted, AreaType, Object
  <2>2. p.pos + ObjHeader + p.len <= a.used_bytes
    BY DEF BufferPacked, Tiles, End
  <2> QED
    BY <2>1, <2>2
<1>2. NewObject(a, type, ino, bix).pos = a.used_bytes /\ a.used_bytes \in Nat
  BY NewObjectFacts DEF AreaType
<1> QED
  BY <1>1, <1>2

LEMMA CopyBufCounted ==
    ASSUME NEW a \in AreaType, NEW type \in Types, NEW ino \in Inos, NEW bix \in Nat,
           a.open, Counted(a), BufferPacked(a)
    PROVE  Counted(CopyBuf(a, type, ino, bix))
<1> DEFINE b == CopyBuf(a, type, ino, bix)
           o == NewObject(a, type, ino, bix)
<1>1. /\ o \in Object /\ o.len >= 1 /\ Bytes(o) = ObjHeader + ObjLen(type)
      /\ b.buf = a.buf \cup {o}
  BY NewObjectFacts
<1>2. o \notin a.buf
  BY NewObjectIsNew
<1>3. b.used_bytes = a.used_bytes + ObjHeader + ObjLen(type)
  BY CopyBufArea
<1> HIDE DEF b, o
<1>4. IsFiniteSet(a.buf) /\ a.buf \in SUBSET Object
      /\ a.used_bytes = SegHeader + BytesOf(a.buf)
  BY DEF Counted, AreaType
<1>5. /\ IsFiniteSet(b.buf) /\ BytesOf(a.buf) \in Nat
      /\ BytesOf(b.buf) = BytesOf(a.buf) + Bytes(o)
  BY <1>1, <1>2, <1>4, BytesOfAdd
<1>6. ObjLen(type) \in Nat /\ ObjHeader \in Nat /\ SegHeader \in Nat
  BY ObjLenBound, SizeAssumption
<1>7. b.used_bytes = SegHeader + BytesOf(b.buf)
  BY <1>1, <1>3, <1>4, <1>5, <1>6
<1>8. \A p \in b.buf : p.len >= 1
  BY <1>1 DEF Counted
<1> QED
  BY <1>5, <1>7, <1>8 DEF Counted, b

LEMMA FreshCounted ==
    ASSUME NEW s \in Segs
    PROVE  Counted(Fresh(s)) /\ BufferPacked(Fresh(s))
<1>1. /\ Fresh(s) \in AreaType /\ Fresh(s).open /\ Fresh(s).buf = {}
      /\ Fresh(s).used_bytes = SegHeader
  BY FreshArea
<1>2. IsFiniteSet({}) /\ BytesOf({}) = 0 /\ SegHeader \in Nat
      /\ SegHeader \in SegHeader..SegSize
  BY FS_EmptySet, BytesOfEmpty, SizeAssumption, DeviceAssumption
<1> QED
  BY <1>1, <1>2, EmptyTiles DEF Counted, BufferPacked

LEMMA CountedStep ==
    TypeOK /\ Packed /\ CountedAreas /\ [StoreNext]_segVars => CountedAreas'
<1> SUFFICES ASSUME TypeOK, Packed, CountedAreas, [StoreNext]_segVars
             PROVE  CountedAreas'
  OBVIOUS
<1>1. CASE UNCHANGED area
  BY <1>1 DEF CountedAreas
<1>2. CASE \E type \in Types, ino \in Inos, bix \in Nat, level \in Levels,
              s \in Segs : SegmentWrite(type, ino, bix, level, s)
  <2> PICK type \in Types, ino \in Inos, bix \in Nat, level \in Levels,
           s \in Segs : SegmentWrite(type, ino, bix, level, s)
    BY <1>2
  <2> DEFINE l == AreaOf(ino, level)
  <2>1. l \in Areas /\ bix \in Nat /\ area \in [Areas -> AreaType] /\ area[l] \in AreaType
    BY AreaOfType, DeviceAssumption DEF TypeOK
  <2>2. PICK a \in {area[l], Fresh(s)} :
            /\ a.open /\ area' = [area EXCEPT ![l] = CopyBuf(a, type, ino, bix)]
    BY FreshArea DEF SegmentWrite
  <2>3. a \in AreaType /\ Counted(a) /\ BufferPacked(a)
    <3>1. Counted(area[l]) /\ BufferPacked(area[l])
      BY <2>1 DEF CountedAreas, Packed, BufferPacked
    <3> QED
      BY <2>1, <2>2, <3>1, FreshCounted, FreshArea
  <2>4. Counted(CopyBuf(a, type, ino, bix))
    BY <2>1, <2>2, <2>3, CopyBufCounted
  <2> HIDE DEF l
  <2> QED
    BY <2>1, <2>2, <2>4 DEF CountedAreas
<1> QED
  BY <1>1, <1>2 DEF StoreNext, Reserve, ReserveFails, SegmentWriteFails, FlushArea,
                    FlushFails, Halt, segVars

\* The entry e is the truth about a segment that holds m.
Truth(e, m) ==
    m.kind = "ostore" =>
        /\ e.ec_level = EcLevel(1, m.level)
        /\ e.valid = BytesOf(m.objs)

LEMMA FinishTruth ==
    ASSUME TypeOK, CountedAreas, NEW l \in Areas, area[l].open,
           \A t \in Segs : Truth(segment_entry[t], medium[t])
    PROVE  \A t \in Segs : Truth(EntryAfterFinish(l)[t], MediumAfterFinish(l)[t])
<1> SUFFICES ASSUME NEW t \in Segs
             PROVE  Truth(EntryAfterFinish(l)[t], MediumAfterFinish(l)[t])
  OBVIOUS
<1>1. CASE t # area[l].segno
  BY <1>1, FinishFacts
<1>2. CASE t = area[l].segno
  <2>1. segment_entry \in [Segs -> Entry] /\ medium \in [Segs -> SegmentType]
    BY DEF TypeOK
  <2>2. /\ EntryAfterFinish(l)[t] = [ec_level |-> EcLevel(1, l), valid |-> ValidBytes(l)]
        /\ MediumAfterFinish(l)[t] = Ostore(l, area[l].buf)
    BY <1>2, <2>1 DEF EntryAfterFinish, MediumAfterFinish
  <2>3. Ostore(l, area[l].buf).level = l /\ Ostore(l, area[l].buf).objs = area[l].buf
    BY DEF Ostore
  <2>4. ValidBytes(l) = BytesOf(area[l].buf)
    <3>1. IsFiniteSet(area[l].buf) /\ area[l].used_bytes = SegHeader + BytesOf(area[l].buf)
      BY DEF CountedAreas, Counted
    <3>2. BytesOf(area[l].buf) \in Nat
      BY <3>1, BytesOfNat DEF TypeOK, AreaType
    <3> QED
      BY <3>1, <3>2, SizeAssumption DEF ValidBytes
  <2> QED
    BY <2>2, <2>3, <2>4 DEF Truth
<1> QED
  BY <1>1, <1>2

LEMMA GetSegmentTruth ==
    ASSUME TypeOK, NEW s, NEW entry \in [Segs -> Entry],
           NEW m \in [Segs -> SegmentType], GetSegment(s, entry, m),
           \A t \in Segs : t = s \/ Truth(entry[t], m[t])
    PROVE  \A t \in Segs : Truth(segment_entry'[t], medium'[t])
<1> SUFFICES ASSUME NEW t \in Segs PROVE Truth(segment_entry'[t], medium'[t])
  OBVIOUS
<1>1. /\ s \in Segs /\ medium'[s] = Erased
      /\ t < lastseg \/ s < t => medium'[t] = m[t] /\ segment_entry'[t] = entry[t]
      /\ lastseg <= t /\ t < s => medium'[t] = Unknown
  BY GetSegmentFacts
<1>2. lastseg \in Nat /\ s \in Nat /\ t \in Nat
  BY <1>1 DEF TypeOK, Segs
<1>3. CASE medium'[t] \in {Erased, Unknown}
  BY <1>3, SegmentValues DEF Truth
<1>4. CASE t < lastseg \/ s < t
  <2>1. t # s \/ medium'[t] = Erased
    BY <1>1
  <2> QED
    BY <1>1, <1>3, <1>4, <2>1
<1> QED
  BY <1>1, <1>2, <1>3, <1>4

LEMMA ValidStep ==
    TypeOK /\ CountedAreas /\ ValidExact /\ [StoreNext]_segVars => ValidExact'
<1> SUFFICES ASSUME TypeOK, CountedAreas, ValidExact, [StoreNext]_segVars, ~exited'
             PROVE  \A t \in Segs : Truth(segment_entry'[t], medium'[t])
  BY DEF ValidExact, Truth
<1>1. ~exited => \A t \in Segs : Truth(segment_entry[t], medium[t])
  BY DEF ValidExact, Truth
<1>2. segment_entry \in [Segs -> Entry] /\ medium \in [Segs -> SegmentType]
  BY DEF TypeOK
<1>3. CASE \E s \in Segs : Reserve(s)
  <2> PICK s \in Segs : Reserve(s)
    BY <1>3
  <2> DEFINE entry == [segment_entry EXCEPT ![s] = ReservedEntry]
  <2>1. entry \in [Segs -> Entry] /\ GetSegment(s, entry, medium) /\ ~exited
    BY SegmentValues DEF Reserve, TypeOK
  <2>2. \A t \in Segs : t # s => entry[t] = segment_entry[t]
    BY <1>2
  <2> HIDE DEF entry
  <2>3. \A t \in Segs : t = s \/ Truth(entry[t], medium[t])
    BY <1>1, <2>1, <2>2
  <2> QED
    BY <1>2, <2>1, <2>3, GetSegmentTruth
<1>4. CASE \E type \in Types, ino \in Inos, bix \in Nat, level \in Levels,
              s \in Segs : SegmentWrite(type, ino, bix, level, s)
  <2> PICK type \in Types, ino \in Inos, bix \in Nat, level \in Levels,
           s \in Segs : SegmentWrite(type, ino, bix, level, s)
    BY <1>4
  <2> DEFINE l == AreaOf(ino, level)
  <2>1. l \in Areas /\ ~exited
    BY AreaOfType DEF SegmentWrite
  <2>2. \/ UNCHANGED <<segment_entry, medium>>
        \/ GetSegment(s, segment_entry, medium)
        \/ /\ area[l].open
           /\ GetSegment(s, EntryAfterFinish(l), MediumAfterFinish(l))
    BY DEF SegmentWrite
  <2> HIDE DEF l
  <2>3. CASE UNCHANGED <<segment_entry, medium>>
    BY <1>1, <2>1, <2>3
  <2>4. CASE GetSegment(s, segment_entry, medium)
    BY <1>1, <1>2, <2>1, <2>4, GetSegmentTruth
  <2>5. CASE area[l].open /\ GetSegment(s, EntryAfterFinish(l), MediumAfterFinish(l))
    <3>1. /\ EntryAfterFinish(l) \in [Segs -> Entry]
          /\ MediumAfterFinish(l) \in [Segs -> SegmentType]
      BY <2>1, <2>5, FinishFacts
    <3>2. \A t \in Segs : Truth(EntryAfterFinish(l)[t], MediumAfterFinish(l)[t])
      BY <1>1, <2>1, <2>5, FinishTruth
    <3> QED
      BY <2>5, <3>1, <3>2, GetSegmentTruth
  <2> QED
    BY <2>2, <2>3, <2>4, <2>5
<1>5. CASE FlushArea
  <2>1. /\ ~exited /\ flush_i \in Areas
        /\ \/ /\ area[flush_i].open
              /\ segment_entry' = EntryAfterFinish(flush_i)
              /\ medium' = MediumAfterFinish(flush_i)
           \/ UNCHANGED <<segment_entry, medium>>
    BY <1>5 DEF FlushArea
  <2> QED
    BY <1>1, <2>1, FinishTruth
<1>6. CASE UNCHANGED segVars
  BY <1>1, <1>6 DEF segVars
<1> QED
  BY <1>3, <1>4, <1>5, <1>6
  DEF StoreNext, ReserveFails, SegmentWriteFails, FlushFails, Halt, NoSegmentLeft, WriteError

LEMMA AlwaysCounted == SegSpec => []CountedAreas
<1>1. SegInit => CountedAreas
  BY SegmentValues DEF SegInit, CountedAreas, Counted
<1>2. TypeOK /\ Packed /\ CountedAreas /\ [StoreNext]_segVars => CountedAreas'
  BY CountedStep
<1> QED
  BY <1>1, <1>2, Typing, AlwaysPacked, AnyClient, PTL DEF SegSpec

\* The entries the journal publishes are true of every written segment, for any
\* number of objects of any mix of sizes: finish_area computes valid from the fill
\* mark, and this is what lies in the segment.
THEOREM ValidAlwaysExact == SegSpec => []ValidExact
<1>1. SegInit => ValidExact
  BY SegmentValues DEF SegInit, ValidExact
<1>2. TypeOK /\ CountedAreas /\ ValidExact /\ [StoreNext]_segVars => ValidExact'
  BY ValidStep
<1> QED
  BY <1>1, <1>2, Typing, AlwaysCounted, AnyClient, PTL DEF SegSpec

----------------------------------------------------------------------------
(* The byte counters of the inodes and of the filesystem                   *)

\* Object o lies in segment t, on the device or in the buffer that goes there.
In(t, o) ==
    \/ o \in medium[t].objs
    \/ \E l \in Areas : area[l].open /\ area[l].segno = t /\ o \in area[l].buf

LiveShape ==
    /\ \A so \in Live : \E t \in Segs, o \in Object : so = <<t, o>> /\ In(t, o)
    /\ \A t \in Segs, o \in Object : In(t, o) => <<t, o>> \in Live

LEMMA LiveIs == TypeOK => LiveShape
<1> SUFFICES ASSUME TypeOK PROVE LiveShape
  OBVIOUS
<1>1. /\ \A t \in Segs : medium[t].objs \subseteq Object
      /\ \A l \in Areas : area[l].open => area[l].segno \in Segs
      /\ \A l \in Areas : area[l].buf \subseteq Object
  BY DEF TypeOK, SegmentType, AreaType
<1> DEFINE Open == {m \in Areas : area[m].open}
           Written == UNION {{<<s, o>> : o \in medium[s].objs} : s \in Segs}
           Buffered == UNION {{<<area[l].segno, o>> : o \in area[l].buf} : l \in Open}
<1>2. Live = Written \cup Buffered
  BY Zenon DEF Live
<1>3. ASSUME NEW so \in Written
      PROVE  \E t \in Segs, o \in Object : so = <<t, o>> /\ In(t, o)
  <2>1. PICK s \in Segs : so \in {<<s, o>> : o \in medium[s].objs}
    OBVIOUS
  <2>2. PICK o \in medium[s].objs : so = <<s, o>>
    BY <2>1
  <2>3. o \in Object /\ In(s, o)
    BY <1>1, <2>2 DEF In
  <2> QED
    BY <2>2, <2>3
<1>4. ASSUME NEW so \in Buffered
      PROVE  \E t \in Segs, o \in Object : so = <<t, o>> /\ In(t, o)
  <2>1. PICK l \in Open : so \in {<<area[l].segno, o>> : o \in area[l].buf}
    OBVIOUS
  <2>2. PICK o \in area[l].buf : so = <<area[l].segno, o>>
    BY <2>1
  <2>3. area[l].segno \in Segs /\ o \in Object /\ In(area[l].segno, o)
    BY <1>1, <2>1, <2>2 DEF In
  <2> QED
    BY <2>2, <2>3
<1>5. ASSUME NEW t \in Segs, NEW o \in Object, In(t, o)
      PROVE  <<t, o>> \in Live
  <2>1. CASE o \in medium[t].objs
    BY <1>2, <2>1
  <2>2. ASSUME NEW l \in Areas, area[l].open, area[l].segno = t, o \in area[l].buf
        PROVE  <<t, o>> \in Live
    <3>1. <<t, o>> \in {<<area[l].segno, p>> : p \in area[l].buf} /\ l \in Open
      BY <2>2
    <3> QED
      BY <1>2, <3>1
  <2> QED
    BY <1>5, <2>1, <2>2 DEF In
<1> QED
  BY <1>2, <1>3, <1>4, <1>5 DEF LiveShape

\* What an action does to the store, segment by segment, is what it does to Live.
LEMMA LiveGrows ==
    ASSUME TypeOK, TypeOK', NEW s \in Segs, NEW new \in Object,
           \A t \in Segs, o \in Object :
               In(t, o)' <=> (In(t, o) \/ (t = s /\ o = new))
    PROVE  Live' = Live \cup {<<s, new>>}
<1>1. LiveShape
  BY LiveIs
<1>2. LiveShape'
  BY LiveIs, PTL
<1>3. Live' \subseteq Live \cup {<<s, new>>}
  BY <1>1, <1>2 DEF LiveShape
<1>4. Live \subseteq Live'
  BY <1>1, <1>2 DEF LiveShape
<1>5. <<s, new>> \in Live'
  BY <1>2 DEF LiveShape
<1> QED
  BY <1>3, <1>4, <1>5

LEMMA LiveStays ==
    ASSUME TypeOK, TypeOK',
           \A t \in Segs, o \in Object : In(t, o)' <=> In(t, o)
    PROVE  Live' = Live
<1>1. LiveShape
  BY LiveIs
<1>2. LiveShape'
  BY LiveIs, PTL
<1> QED
  BY <1>1, <1>2 DEF LiveShape

\* The objects of one inode.
LiveOf(ino) == {so \in Live : so[2].ino = ino}

LiveInv == ~exited => IsFiniteSet(Live) /\ UsedBytesExact

\* An object that is new to the store counts once, for its inode and for the whole.
LEMMA GrowExact ==
    ASSUME TypeOK, ~exited, LiveInv, UNCHANGED exited,
           NEW s \in Segs, NEW new \in Object, <<s, new>> \notin Live,
           Live' = Live \cup {<<s, new>>},
           GrowInode(new.ino, Bytes(new))
    PROVE  LiveInv'
<1> DEFINE so == <<s, new>>
           ino == new.ino
<1>1. ino \in Inos /\ so[2] = new /\ PairBytes(so) = Bytes(new)
  BY DEF Object, PairBytes
<1>2. \A x \in Live \cup {so} : PairBytes(x) \in Nat
  <2>1. \A x \in Live : \E t \in Segs, o \in Object : x = <<t, o>>
    BY LiveIs DEF LiveShape
  <2>2. \A o \in Object : Bytes(o) \in Nat
    BY SizeAssumption DEF Bytes, Object
  <2> QED
    BY <1>1, <2>1, <2>2 DEF PairBytes
<1>3. /\ IsFiniteSet(Live) /\ used_bytes = LiveBytes(Live)
      /\ \A i \in Inos : di_used_bytes[i] = LiveBytes(LiveOf(i))
  BY DEF LiveInv, UsedBytesExact, LiveOf
<1>4. /\ used_bytes' = used_bytes + Bytes(new)
      /\ \A i \in Inos : di_used_bytes'[i] = IF i = ino THEN di_used_bytes[i] + Bytes(new)
                                             ELSE di_used_bytes[i]
  BY DEF GrowInode, TypeOK
<1> HIDE DEF so, ino
<1>5. Live' = Live \cup {so} /\ so \notin Live
  BY DEF so
<1>6. IsFiniteSet(Live') /\ LiveBytes(Live') = LiveBytes(Live) + PairBytes(so)
  BY <1>2, <1>3, <1>5, LiveBytesAdd
<1>7. ASSUME NEW i \in Inos
      PROVE  di_used_bytes'[i] = LiveBytes(LiveOf(i)')
  <2>1. CASE i # ino
    <3>1. LiveOf(i)' = LiveOf(i)
      BY <1>1, <1>5, <2>1 DEF LiveOf, ino
    <3> QED
      BY <1>3, <1>4, <2>1, <3>1
  <2>2. CASE i = ino
    <3>1. LiveOf(i)' = LiveOf(i) \cup {so} /\ so \notin LiveOf(i) /\ LiveOf(i) \subseteq Live
      BY <1>1, <1>5, <2>2 DEF LiveOf, ino
    <3>2. IsFiniteSet(LiveOf(i))
      BY <1>3, <3>1, FS_Subset
    <3>3. LiveBytes(LiveOf(i) \cup {so}) = LiveBytes(LiveOf(i)) + PairBytes(so)
      BY <1>2, <3>1, <3>2, LiveBytesAdd
    <3> QED
      BY <1>1, <1>3, <1>4, <2>2, <3>1, <3>3
  <2> QED
    BY <2>1, <2>2
<1>8. used_bytes' = LiveBytes(Live')
  BY <1>1, <1>3, <1>4, <1>6
<1>9. UsedBytesExact'
  BY <1>7, <1>8 DEF UsedBytesExact, LiveOf
<1> QED
  BY <1>6, <1>9 DEF LiveInv

\* Nothing is counted when no object comes or goes.
LEMMA StayExact ==
    ASSUME LiveInv, UNCHANGED <<used_bytes, di_used_bytes, exited>>, Live' = Live
    PROVE  LiveInv'
BY DEF LiveInv, UsedBytesExact

\* The segments get_segment passes were empty and stay so.
LEMMA GetSegmentObjects ==
    ASSUME TypeOK, NEW n \in Nat, OwnedBelow(n), lastseg' <= n, ~exited,
           NEW s, NEW entry \in [Segs -> Entry],
           NEW m \in [Segs -> SegmentType], GetSegment(s, entry, m),
           \A t \in Segs : lastseg <= t => m[t] = medium[t]
    PROVE  \A t \in Segs : medium'[t].objs = m[t].objs
<1> SUFFICES ASSUME NEW t \in Segs PROVE medium'[t].objs = m[t].objs
  OBVIOUS
<1>1. /\ s \in Segs /\ lastseg <= s /\ medium'[s] = Erased
      /\ t < lastseg \/ s < t => medium'[t] = m[t]
      /\ lastseg <= t /\ t < s => medium'[t] = Unknown
  BY GetSegmentFacts
<1>2. lastseg \in Nat /\ s \in Nat /\ t \in Nat
  BY <1>1 DEF TypeOK, Segs
<1>3. lastseg <= t /\ t <= s => m[t] = Unknown
  <2>1. s < n
    BY <1>2 DEF GetSegment, NextSeg
  <2> QED
    BY <1>2, <2>1 DEF OwnedBelow, Untouched
<1>4. Unknown.objs = {} /\ Erased.objs = {}
  BY DEF Unknown, Erased
<1>5. CASE t < lastseg
  BY <1>1, <1>5
<1>6. CASE lastseg <= t /\ t <= s
  <2>1. medium'[t] \in {Erased, Unknown}
    <3>1. t < s \/ t = s
      BY <1>2, <1>6
    <3> QED
      BY <1>1, <1>6, <3>1
  <2> QED
    BY <1>3, <1>4, <1>6, <2>1
<1>7. CASE s < t
  BY <1>1, <1>7
<1> QED
  BY <1>2, <1>5, <1>6, <1>7

\* An object that stays in the segment of its area is new to the store.
LEMMA StayLive ==
    ASSUME TypeOK, TypeOK', NEW n, OwnedBelow(n), Packed, CountedAreas, ~exited, flush_i = 0,
           NEW l \in Areas, area[l].open,
           NEW type \in Types, NEW ino \in Inos, NEW bix \in Nat,
           area' = [area EXCEPT ![l] = CopyBuf(area[l], type, ino, bix)],
           UNCHANGED medium
    PROVE  LET new == NewObject(area[l], type, ino, bix)
               s   == area[l].segno
           IN  <<s, new>> \notin Live /\ Live' = Live \cup {<<s, new>>}
<1> DEFINE new == NewObject(area[l], type, ino, bix)
           s == area[l].segno
           b == CopyBuf(area[l], type, ino, bix)
<1>1. area[l] \in AreaType /\ area \in [Areas -> AreaType] /\ 0 <= l
  <2>1. 0 <= l
    BY DEF Areas
  <2> QED
    BY <2>1 DEF TypeOK
<1>2. new \in Object /\ b.buf = area[l].buf \cup {new}
  BY <1>1, NewObjectFacts
<1>3. b.open /\ b.segno = s
  BY <1>1, CopyBufArea
<1>4. new \notin area[l].buf
  <2>1. Counted(area[l]) /\ BufferPacked(area[l])
    BY DEF CountedAreas, Packed, BufferPacked
  <2> QED
    BY <1>1, <2>1, NewObjectIsNew
<1>5. s \in Segs /\ medium[s].objs = {}
  BY <1>1, PendingErased DEF Erased
<1> HIDE DEF new, s, b
<1>6. area'[l] = b /\ \A k \in Areas : k # l => area'[k] = area[k]
  BY <1>1 DEF b
<1>7. \A k \in Areas : area[k].open /\ area[k].segno = s => k = l
  BY DEF OwnedBelow, s
<1>8. ~In(s, new)
  BY <1>4, <1>5, <1>7 DEF In
<1>9. <<s, new>> \notin Live
  BY <1>8, LiveIs DEF LiveShape
<1>10. ASSUME NEW t \in Segs, NEW o \in Object
       PROVE  In(t, o)' <=> (In(t, o) \/ (t = s /\ o = new))
  <2>1. In(t, o) => In(t, o)'
    <3>1. ASSUME NEW k \in Areas, area[k].open, area[k].segno = t, o \in area[k].buf
          PROVE  area'[k].open /\ area'[k].segno = t /\ o \in area'[k].buf
      BY <1>2, <1>3, <1>6, <3>1 DEF s
    <3> QED
      BY <3>1 DEF In
  <2>2. t = s /\ o = new => In(t, o)'
    BY <1>2, <1>3, <1>6 DEF In
  <2>3. In(t, o)' => In(t, o) \/ (t = s /\ o = new)
    <3>1. ASSUME NEW k \in Areas, area'[k].open, area'[k].segno = t, o \in area'[k].buf
          PROVE  In(t, o) \/ (t = s /\ o = new)
      BY <1>2, <1>3, <1>6, <3>1 DEF In, s
    <3> QED
      BY <3>1 DEF In
  <2> QED
    BY <2>1, <2>2, <2>3
<1>11. Live' = Live \cup {<<s, new>>}
  BY <1>2, <1>5, <1>10, LiveGrows
<1> QED
  BY <1>9, <1>11 DEF new, s

\* m is the device before area l moves, with its buffer written if it has one.
LeftBehind(l, m) ==
    \A t \in Segs : IF area[l].open /\ t = area[l].segno
                    THEN medium[t].objs = {} /\ m[t].objs = area[l].buf
                    ELSE m[t] = medium[t]

\* So is an object whose area moves, and what the area leaves behind is on the
\* device instead of in the buffer.
LEMMA MoveLive ==
    ASSUME TypeOK, TypeOK', NEW n \in Nat, OwnedBelow(n), lastseg' <= n, ~exited,
           NEW l \in Areas, NEW s \in Segs,
           NEW type \in Types, NEW ino \in Inos, NEW bix \in Nat,
           NEW entry \in [Segs -> Entry], NEW m \in [Segs -> SegmentType],
           GetSegment(s, entry, m),
           area' = [area EXCEPT ![l] = CopyBuf(Fresh(s), type, ino, bix)],
           LeftBehind(l, m)
    PROVE  LET new == NewObject(Fresh(s), type, ino, bix)
           IN  <<s, new>> \notin Live /\ Live' = Live \cup {<<s, new>>}
<1> DEFINE new == NewObject(Fresh(s), type, ino, bix)
           b == CopyBuf(Fresh(s), type, ino, bix)
<1>1. Fresh(s) \in AreaType /\ Fresh(s).open /\ Fresh(s).segno = s /\ Fresh(s).buf = {}
      /\ area \in [Areas -> AreaType]
  BY FreshArea DEF TypeOK
<1>2. new \in Object /\ b.buf = {new}
  BY <1>1, NewObjectFacts
<1>3. b.open /\ b.segno = s
  BY <1>1, CopyBufArea
<1> HIDE DEF new, b
<1>4. area'[l] = b /\ \A k \in Areas : k # l => area'[k] = area[k]
  BY <1>1 DEF b
<1>5. lastseg <= s /\ lastseg \in Nat /\ \A t \in Segs : t \in Nat
  BY DEF GetSegment, TypeOK, Segs
<1>6. \A k \in Areas : area[k].open => area[k].segno \in Segs /\ area[k].segno < lastseg
  BY DEF OwnedBelow, TypeOK
<1>7. \A t \in Segs : lastseg <= t => m[t] = medium[t]
  BY <1>5, <1>6 DEF LeftBehind
<1>8. \A t \in Segs : medium'[t].objs = m[t].objs
  BY <1>7, GetSegmentObjects
<1>9. ~In(s, new)
  <2>0. s < n
    BY <1>5 DEF GetSegment, NextSeg
  <2>1. medium[s].objs = {}
    BY <1>5, <2>0 DEF OwnedBelow, Untouched, Unknown
  <2>2. \A k \in Areas : area[k].open => area[k].segno # s
    BY <1>5, <1>6
  <2> QED
    BY <2>1, <2>2 DEF In
<1>10. <<s, new>> \notin Live
  BY <1>9, LiveIs DEF LiveShape
<1>11. ASSUME NEW t \in Segs, NEW o \in Object
       PROVE  In(t, o)' <=> (In(t, o) \/ (t = s /\ o = new))
  <2>1. In(t, o) => In(t, o)'
    <3>1. CASE o \in medium[t].objs
      BY <1>8, <3>1 DEF In, LeftBehind
    <3>2. ASSUME NEW k \in Areas, area[k].open, area[k].segno = t, o \in area[k].buf
          PROVE  In(t, o)'
      BY <1>4, <1>8, <3>2 DEF In, LeftBehind
    <3> QED
      BY <3>1, <3>2 DEF In
  <2>2. In(s, new)'
    BY <1>2, <1>3, <1>4 DEF In
  <2>3. In(t, o)' => In(t, o) \/ (t = s /\ o = new)
    <3>1. CASE o \in medium'[t].objs
      BY <1>8, <3>1 DEF In, LeftBehind
    <3>2. ASSUME NEW k \in Areas, area'[k].open, area'[k].segno = t, o \in area'[k].buf
          PROVE  In(t, o) \/ (t = s /\ o = new)
      BY <1>2, <1>3, <1>4, <3>2 DEF In
    <3> QED
      BY <3>1, <3>2 DEF In
  <2> QED
    BY <2>1, <2>2, <2>3
<1>12. Live' = Live \cup {<<s, new>>}
  BY <1>2, <1>11, LiveGrows
<1> QED
  BY <1>10, <1>12 DEF new

\* One object joins the store, in segment s.
Joins(type, ino, bix, level, s) ==
    \E new \in Object :
       /\ new.ino = ino /\ new.bix = bix /\ new.pos = NextPos(AreaOf(ino, level))
       /\ Bytes(new) = ObjHeader + ObjLen(type)
       /\ <<s, new>> \notin Live
       /\ Live' = Live \cup {<<s, new>>}

\* The object of logfs_segment_write is new to the store, and it is the only one.
LEMMA WriteLive ==
    ASSUME TypeOK, TypeOK', NEW n \in Nat, OwnedBelow(n), lastseg' <= n, Packed, CountedAreas,
           NEW type \in Types, NEW ino \in Inos, NEW bix \in Nat,
           NEW level \in Levels, NEW s \in Segs,
           SegmentWrite(type, ino, bix, level, s)
    PROVE  Joins(type, ino, bix, level, s)
<1> DEFINE l == AreaOf(ino, level)
<1>1. /\ l \in Areas /\ area[l] \in AreaType /\ Fresh(s) \in AreaType
      /\ ~exited /\ flush_i = 0 /\ flush_i <= l
      /\ segment_entry \in [Segs -> Entry] /\ medium \in [Segs -> SegmentType]
  BY AreaOfType, FreshArea DEF TypeOK, SegmentWrite, Areas
<1>2. \A a \in AreaType :
         LET new == NewObject(a, type, ino, bix)
         IN  /\ new \in Object /\ new.ino = ino /\ new.bix = bix /\ new.pos = a.used_bytes
             /\ Bytes(new) = ObjHeader + ObjLen(type)
  BY NewObjectFacts
<1>3. \/ /\ area[l].open /\ HasRoom(l) /\ s = area[l].segno /\ UNCHANGED medium
         /\ area' = [area EXCEPT ![l] = CopyBuf(area[l], type, ino, bix)]
      \/ /\ area' = [area EXCEPT ![l] = CopyBuf(Fresh(s), type, ino, bix)]
         /\ ~area[l].open /\ GetSegment(s, segment_entry, medium)
      \/ /\ area' = [area EXCEPT ![l] = CopyBuf(Fresh(s), type, ino, bix)]
         /\ area[l].open /\ ~HasRoom(l)
         /\ GetSegment(s, EntryAfterFinish(l), MediumAfterFinish(l))
  BY DEF SegmentWrite
<1> HIDE DEF l
<1>4. CASE /\ area[l].open /\ HasRoom(l) /\ s = area[l].segno /\ UNCHANGED medium
           /\ area' = [area EXCEPT ![l] = CopyBuf(area[l], type, ino, bix)]
  <2>1. LET new == NewObject(area[l], type, ino, bix)
        IN  <<s, new>> \notin Live /\ Live' = Live \cup {<<s, new>>}
    BY <1>1, <1>4, StayLive
  <2>2. NextPos(l) = area[l].used_bytes
    BY <1>4 DEF NextPos
  <2> QED
    BY <1>1, <1>2, <2>1, <2>2 DEF l, Joins
<1>5. CASE /\ area' = [area EXCEPT ![l] = CopyBuf(Fresh(s), type, ino, bix)]
           /\ ~area[l].open /\ GetSegment(s, segment_entry, medium)
  <2>1. LET new == NewObject(Fresh(s), type, ino, bix)
        IN  <<s, new>> \notin Live /\ Live' = Live \cup {<<s, new>>}
    <3>1. LeftBehind(l, medium)
      BY <1>5 DEF LeftBehind
    <3> QED
      BY <1>1, <1>5, <3>1, MoveLive
  <2>2. NextPos(l) = SegHeader /\ Fresh(s).used_bytes = SegHeader
    BY <1>5 DEF NextPos, Fresh
  <2> QED
    BY <1>1, <1>2, <2>1, <2>2 DEF l, Joins
<1>6. CASE /\ area' = [area EXCEPT ![l] = CopyBuf(Fresh(s), type, ino, bix)]
           /\ area[l].open /\ ~HasRoom(l)
           /\ GetSegment(s, EntryAfterFinish(l), MediumAfterFinish(l))
  <2>1. /\ EntryAfterFinish(l) \in [Segs -> Entry]
        /\ MediumAfterFinish(l) \in [Segs -> SegmentType]
        /\ MediumAfterFinish(l)[area[l].segno].objs = area[l].buf
        /\ \A t \in Segs : t # area[l].segno => MediumAfterFinish(l)[t] = medium[t]
    BY <1>1, <1>6, FinishFacts
  <2>2. medium[area[l].segno].objs = {}
    BY <1>1, <1>6, PendingErased DEF Erased
  <2>3. LeftBehind(l, MediumAfterFinish(l))
    BY <1>6, <2>1, <2>2 DEF LeftBehind
  <2>4. LET new == NewObject(Fresh(s), type, ino, bix)
        IN  <<s, new>> \notin Live /\ Live' = Live \cup {<<s, new>>}
    BY <1>1, <1>6, <2>1, <2>3, MoveLive
  <2>5. NextPos(l) = SegHeader /\ Fresh(s).used_bytes = SegHeader
    BY <1>6 DEF NextPos, Fresh
  <2> QED
    BY <1>1, <1>2, <2>4, <2>5 DEF l, Joins
<1> QED
  BY <1>3, <1>4, <1>5, <1>6

LEMMA LiveStep ==
    ASSUME TypeOK, TypeOK', NEW n \in Nat, OwnedBelow(n), lastseg' <= n, Packed,
           CountedAreas, LiveInv, [StoreNext]_segVars
    PROVE  LiveInv'
<1> SUFFICES ASSUME ~exited' PROVE LiveInv'
  BY DEF LiveInv
<1>1. segment_entry \in [Segs -> Entry] /\ medium \in [Segs -> SegmentType]
  BY DEF TypeOK
<1>2. CASE \E s \in Segs : Reserve(s)
  <2> PICK s \in Segs : Reserve(s)
    BY <1>2
  <2> DEFINE entry == [segment_entry EXCEPT ![s] = ReservedEntry]
  <2>1. /\ entry \in [Segs -> Entry] /\ GetSegment(s, entry, medium) /\ ~exited
        /\ UNCHANGED <<area, used_bytes, di_used_bytes, exited>>
    BY SegmentValues DEF Reserve, TypeOK
  <2> HIDE DEF entry
  <2>2. \A t \in Segs : medium'[t].objs = medium[t].objs
    BY <1>1, <2>1, GetSegmentObjects
  <2>3. \A t \in Segs, o \in Object : In(t, o)' <=> In(t, o)
    BY <2>1, <2>2 DEF In
  <2>4. Live' = Live
    BY <2>3, LiveStays
  <2> QED
    BY <2>1, <2>4, StayExact
<1>3. CASE \E type \in Types, ino \in Inos, bix \in Nat, level \in Levels,
              s \in Segs : SegmentWrite(type, ino, bix, level, s)
  <2> PICK type \in Types, ino \in Inos, bix \in Nat, level \in Levels,
           s \in Segs : SegmentWrite(type, ino, bix, level, s)
    BY <1>3
  <2>1. bix \in Nat /\ ~exited /\ UNCHANGED exited
        /\ GrowInode(ino, ObjHeader + ObjLen(type))
    BY DeviceAssumption DEF SegmentWrite
  <2>0. Joins(type, ino, bix, level, s)
    BY WriteLive
  <2>2. PICK new \in Object :
              /\ new.ino = ino /\ Bytes(new) = ObjHeader + ObjLen(type)
              /\ <<s, new>> \notin Live
              /\ Live' = Live \cup {<<s, new>>}
    BY <2>0 DEF Joins
  <2>3. GrowInode(new.ino, Bytes(new))
    BY <2>1, <2>2
  <2> QED
    BY <2>1, <2>2, <2>3, GrowExact
<1>4. CASE FlushArea
  <2>1. /\ ~exited /\ flush_i \in Areas /\ flush_i <= flush_i
        /\ UNCHANGED <<area, used_bytes, di_used_bytes, exited>>
        /\ \/ area[flush_i].open /\ medium' = MediumAfterFinish(flush_i)
           \/ UNCHANGED medium
    BY <1>4 DEF FlushArea, Areas
  <2>2. \A t \in Segs, o \in Object : In(t, o)' <=> In(t, o)
    <3>1. CASE UNCHANGED medium
      BY <2>1, <3>1 DEF In
    <3>2. CASE area[flush_i].open /\ medium' = MediumAfterFinish(flush_i)
      <4> DEFINE s == area[flush_i].segno
      <4>1. /\ s \in Segs /\ medium[s].objs = {}
            /\ medium'[s].objs = area[flush_i].buf
            /\ \A t \in Segs : t # s => medium'[t] = medium[t]
        BY <2>1, <3>2, FinishFacts, PendingErased DEF Erased
      <4> SUFFICES ASSUME NEW t \in Segs, NEW o \in Object PROVE In(t, o)' <=> In(t, o)
        OBVIOUS
      <4>2. CASE t # s
        BY <2>1, <4>1, <4>2 DEF In
      <4>3. CASE t = s
        BY <2>1, <3>2, <4>1, <4>3 DEF In
      <4> QED
        BY <4>2, <4>3
    <3> QED
      BY <2>1, <3>1, <3>2
  <2>3. Live' = Live
    BY <2>2, LiveStays
  <2> QED
    BY <2>1, <2>3, StayExact
<1>5. CASE UNCHANGED segVars
  <2>1. Live' = Live
    BY <1>5 DEF Live, segVars
  <2> QED
    BY <1>5, <2>1, StayExact DEF segVars
<1> QED
  BY <1>2, <1>3, <1>4, <1>5
  DEF StoreNext, ReserveFails, SegmentWriteFails, FlushFails, Halt, NoSegmentLeft, WriteError

\* In an empty store nothing is counted.
LEMMA LiveInitial == SegInit => LiveInv
<1> SUFFICES ASSUME SegInit PROVE LiveInv
  OBVIOUS
<1>1. TypeOK
  BY TypeInit
<1>2. \A t \in Segs, o \in Object : ~In(t, o)
  BY SegmentValues DEF SegInit, In, Unknown
<1>3. Live = {}
  BY <1>1, <1>2, LiveIs DEF LiveShape
<1>4. {so \in {} : TRUE} = {} /\ IsFiniteSet({}) /\ LiveBytes({}) = 0
  BY FS_EmptySet, LiveBytesEmpty
<1>5. \A ino \in Inos : {so \in Live : so[2].ino = ino} = {}
  BY <1>3
<1>6. used_bytes = 0 /\ \A ino \in Inos : di_used_bytes[ino] = 0
  BY DEF SegInit
<1> QED
  BY <1>3, <1>4, <1>5, <1>6 DEF LiveInv, UsedBytesExact

----------------------------------------------------------------------------
(* The store as a whole                                                    *)

\* What the store owes to its clients.
StoreInv ==
    /\ TypeOK /\ AreasExclusive /\ Packed /\ BadSegmentsShunned
    /\ CountedAreas /\ ValidExact /\ LiveInv

LEMMA StoreInitial == SegInit => StoreInv
<1>1. SegInit => BadSegmentsShunned
  BY DEF SegInit, BadSegmentsShunned
<1>2. SegInit => CountedAreas
  BY SegmentValues DEF SegInit, CountedAreas, Counted
<1>3. SegInit => ValidExact
  BY SegmentValues DEF SegInit, ValidExact
<1> QED
  BY <1>1, <1>2, <1>3, TypeInit, ExclusiveInit, PackedInit, LiveInitial DEF StoreInv

\* The same up to segment n, for clients that set the rest aside.
StoreBelow(n) ==
    /\ TypeOK /\ OwnedBelow(n) /\ Packed /\ ShunnedBelow(n)
    /\ CountedAreas /\ ValidExact /\ LiveInv

LEMMA StoreIsBelow == StoreInv <=> StoreBelow(NoSegs)
  BY ExclusiveIsOwned, ShunnedIsBelow DEF StoreInv, StoreBelow

LEMMA StoreBelowStep ==
    ASSUME NEW n \in Nat, StoreBelow(n), lastseg' <= n, [StoreNext]_segVars
    PROVE  StoreBelow(n)'
<1>1. /\ TypeOK /\ OwnedBelow(n) /\ Packed /\ ShunnedBelow(n)
      /\ CountedAreas /\ ValidExact /\ LiveInv
  BY DEF StoreBelow
<1>2. TypeOK'
  BY <1>1, TypeStep
<1>3. OwnedBelow(n)'
  BY <1>1, OwnedStep
<1>4. Packed'
  BY <1>1, PackedStep
<1>5. ShunnedBelow(n)'
  BY <1>1, ShunnedBelowStep
<1>6. CountedAreas'
  BY <1>1, CountedStep
<1>7. ValidExact'
  BY <1>1, ValidStep
<1>8. LiveInv'
  BY <1>1, <1>2, LiveStep
<1> QED
  BY <1>2, <1>3, <1>4, <1>5, <1>6, <1>7, <1>8 DEF StoreBelow

LEMMA StoreStep == StoreInv /\ [StoreNext]_segVars => StoreInv'
<1> SUFFICES ASSUME StoreInv, [StoreNext]_segVars PROVE StoreInv'
  OBVIOUS
<1>1. TypeOK' /\ NoSegs \in Nat
  BY TypeStep, DeviceAssumption DEF StoreInv
<1>2. lastseg' <= NoSegs
  BY <1>1 DEF TypeOK
<1>3. StoreBelow(NoSegs)'
  BY <1>1, <1>2, StoreIsBelow, StoreBelowStep
<1> QED
  BY <1>3, StoreIsBelow, PTL

\* used_bytes of the filesystem and of every inode is the size of the objects there
\* are, after any sequence of writes, moves of areas and flushes: none is counted
\* twice when a buffer and the device hold it, and none is forgotten.
THEOREM UsedBytesAlwaysExact == SegSpec => []UsedBytesExact
<1>1. SegInit => StoreInv
  BY StoreInitial
<1>2. StoreInv /\ [StoreNext]_segVars => StoreInv'
  BY StoreStep
<1>3. StoreInv => UsedBytesExact
  BY DEF StoreInv, LiveInv, UsedBytesExact
<1> QED
  BY <1>1, <1>2, <1>3, AnyClient, PTL DEF SegSpec
=============================================================================
