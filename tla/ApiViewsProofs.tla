--------------------------- MODULE ApiViewsProofs ---------------------------
(***************************************************************************)
(* Proofs about the read-only endpoints, for any number of fingerprints,   *)
(* page size and concurrent transactions: what OFFSET paging can miss or   *)
(* repeat, how large a page is, and what peers are shown.                  *)
(***************************************************************************)
EXTENDS ApiViews, FiniteSetTheorems, WellFoundedInduction, TLAPS

-----------------------------------------------------------------------------
(* Numbers.                                                                *)

\* Every nonempty set of naturals has a least element ...
LEMMA LeastNumber ==
  ASSUME NEW T, T \subseteq Nat, T # {}
  PROVE  \E n \in T : \A m \in T : n <= m
<1> DEFINE R == StrictSubsetOrdering(Nat)
           F == FiniteSubsetsOf(Nat)
           U == {0 .. n : n \in T}
<1>1. IsWellFoundedOn(R, F)
  BY FS_StrictSubsetOrderingWellFounded
<1>2. U \subseteq F /\ U # {}
  <2>1. ASSUME NEW n \in T PROVE 0 .. n \in F
    BY <2>1, FS_Interval DEF FiniteSubsetsOf
  <2> QED BY <2>1
<1>3. ASSUME NEW n \in T, NEW m \in T, m < n PROVE <<0 .. m, 0 .. n>> \in R
  <2>1. 0 .. m \subseteq 0 .. n /\ n \in 0 .. n /\ n \notin 0 .. m
    BY <1>3
  <2> QED BY <1>3, <2>1 DEF StrictSubsetOrdering
<1> HIDE DEF R, F
<1>4. PICK V \in U : \A W \in U : ~ (<<W, V>> \in R)
  BY <1>1, <1>2, WFMin
<1>5. PICK n \in T : V = 0 .. n
  BY <1>4
<1>6. \A m \in T : ~ (m < n)
  BY <1>3, <1>4, <1>5
<1> QED BY <1>5, <1>6

\* ... and, if it is bounded, a greatest.
LEMMA GreatestNumber ==
  ASSUME NEW T, T \subseteq Nat, T # {}, NEW b \in Nat, \A n \in T : n <= b
  PROVE  \E n \in T : \A m \in T : m <= n
<1> DEFINE U == {b - n : n \in T}
<1>1. U \subseteq Nat /\ U # {}
  <2>1. \A n \in T : n \in Nat /\ n <= b /\ b - n \in Nat
    OBVIOUS
  <2>2. U \subseteq Nat
    BY <2>1
  <2>3. PICK n : n \in T
    OBVIOUS
  <2>4. b - n \in U
    BY <2>3
  <2> QED BY <2>2, <2>4
<1>2. PICK u \in U : \A m \in U : u <= m
  BY <1>1, LeastNumber
<1>3. PICK n \in T : u = b - n
  OBVIOUS
<1>4. ASSUME NEW m \in T PROVE m <= n
  <2>1. b - m \in U
    OBVIOUS
  <2>2. b - n <= b - m
    BY <1>2, <1>3, <2>1
  <2> QED BY <2>2
<1> QED BY <1>4

-----------------------------------------------------------------------------
(* Sums, as stats() answers them by category and by provenance.            *)

\* The sum over C of f, as MapThenSumSet computes it.
Sum(f, C) == MapThenSumSet(LAMBDA c : f[c], C)
Some(s) == CHOOSE c \in s : TRUE
Sums(f, C, h) == h = [s \in SUBSET C |-> IF s = {} THEN 0 ELSE f[Some(s)] + h[s \ {Some(s)}]]

LEMMA SumIs == ASSUME NEW f, NEW C PROVE Sum(f, C) = (CHOOSE h : Sums(f, C, h))[C]
BY DEF Sum, MapThenSumSet, MapThenFoldSet, Sums, Some

\* What satisfies the recursion of the sum over a finite set agrees on it.
LEMMA SumsUnique ==
  ASSUME NEW f, NEW C, IsFiniteSet(C), NEW h, NEW k, Sums(f, C, h), Sums(f, C, k)
  PROVE  h[C] = k[C]
<1> SUFFICES ASSUME h[C] # k[C] PROVE FALSE
  OBVIOUS
<1> DEFINE R == StrictSubsetOrdering(C)
           F == FiniteSubsetsOf(C)
           D == {s \in SUBSET C : h[s] # k[s]}
<1>1. IsWellFoundedOn(R, F)
  BY FS_StrictSubsetOrderingWellFounded
<1>2. D \subseteq F /\ D # {}
  BY FS_Subset DEF FiniteSubsetsOf
<1>3. PICK s \in D : \A t \in D : ~ (<<t, s>> \in R)
  <2> HIDE DEF R, F, D
  <2> QED BY <1>1, <1>2, WFMin
<1>4. s \subseteq C /\ h[s] # k[s] /\ s \in SUBSET C
  BY <1>3
<1>5. s # {}
  <2>1. {} \in SUBSET C
    OBVIOUS
  <2> QED BY <1>4, <2>1 DEF Sums
<1>6. PICK c : c = Some(s)
  OBVIOUS
<1>7. c \in s
  BY <1>5, <1>6 DEF Some
<1>8. s \ {c} \in SUBSET C /\ <<s \ {c}, s>> \in R
  BY <1>4, <1>7 DEF StrictSubsetOrdering
<1>9. h[s \ {c}] = k[s \ {c}]
  BY <1>3, <1>8
<1>10. h[s] = f[c] + h[s \ {c}] /\ k[s] = f[c] + k[s \ {c}]
  BY <1>4, <1>5, <1>6 DEF Sums
<1> QED BY <1>4, <1>9, <1>10

Class(A, g, s) == {i \in A : g[i] \in s}

\* Counting the members of A by their value of g and adding up counts them all.
LEMMA SumOfCounts ==
  ASSUME NEW A, IsFiniteSet(A), NEW C, IsFiniteSet(C), NEW g, \A i \in A : g[i] \in C,
         NEW f, f = [c \in C |-> Cardinality({i \in A : g[i] = c})]
  PROVE  Sum(f, C) = Cardinality(A)
<1>1. PICK k : k = [s \in SUBSET C |-> Cardinality(Class(A, g, s))]
  OBVIOUS
<1>2. ASSUME NEW s \in SUBSET C, s # {}
      PROVE  k[s] = f[Some(s)] + k[s \ {Some(s)}]
  <2>1. PICK c : c = Some(s)
    OBVIOUS
  <2>2. c \in s /\ c \in C
    BY <1>2, <2>1 DEF Some
  <2>3. PICK B : B = Class(A, g, s \ {c})
    OBVIOUS
  <2>4. PICK E : E = {i \in A : g[i] = c}
    OBVIOUS
  <2>5. Class(A, g, s) = E \cup B /\ E \cap B = {} /\ E \subseteq A /\ B \subseteq A
    BY <2>2, <2>3, <2>4 DEF Class
  <2>6. IsFiniteSet(E) /\ IsFiniteSet(B)
    BY <2>5, FS_Subset
  <2>7. Cardinality(E \cup B) = Cardinality(E) + Cardinality(B)
    <3>1. Cardinality(E \cap B) = 0 /\ Cardinality(E) \in Nat /\ Cardinality(B) \in Nat
      BY <2>5, <2>6, FS_EmptySet, FS_CardinalityType
    <3>2. Cardinality(E \cup B) = Cardinality(E) + Cardinality(B) - Cardinality(E \cap B)
      BY <2>6, FS_Union
    <3> QED BY <3>1, <3>2
  <2>8. k[s] = Cardinality(E \cup B) /\ f[c] = Cardinality(E)
    BY <1>1, <2>2, <2>4, <2>5
  <2>9. k[s \ {c}] = Cardinality(B)
    <3>1. s \ {c} \in SUBSET C
      OBVIOUS
    <3> QED BY <1>1, <2>3, <3>1
  <2> QED BY <2>1, <2>7, <2>8, <2>9
<1>3. k[{}] = 0
  <2>1. Class(A, g, {}) = {} /\ {} \in SUBSET C
    BY DEF Class
  <2> QED BY <1>1, <2>1, FS_EmptySet
<1>4. Sums(f, C, k)
  <2>1. \A s \in SUBSET C : k[s] = IF s = {} THEN 0 ELSE f[Some(s)] + k[s \ {Some(s)}]
    <3> SUFFICES ASSUME NEW s \in SUBSET C
                 PROVE  k[s] = IF s = {} THEN 0 ELSE f[Some(s)] + k[s \ {Some(s)}]
      OBVIOUS
    <3>1. CASE s = {}
      BY <1>3, <3>1
    <3>2. CASE s # {}
      BY <1>2, <3>2
    <3> QED BY <3>1, <3>2
  <2>2. k = [s \in SUBSET C |-> k[s]]
    BY <1>1
  <2> QED BY <2>1, <2>2 DEF Sums
<1>5. PICK h : h = CHOOSE x : Sums(f, C, x)
  OBVIOUS
<1>6. Sums(f, C, h)
  BY <1>4, <1>5
<1>7. h[C] = k[C]
  BY <1>4, <1>6, SumsUnique
<1>8. k[C] = Cardinality(A)
  <2>1. Class(A, g, C) = A
    BY DEF Class
  <2> QED BY <1>1, <2>1
<1>9. Sum(f, C) = h[C]
  BY <1>5, SumIs
<1> QED BY <1>7, <1>8, <1>9

-----------------------------------------------------------------------------
(* Places in a list ordered by id DESC, as in list_fingerprints().         *)

From(S, i) == {j \in S : j >= i}
Beyond(S, i) == {j \in S : j > i}
Rank(S, i) == Cardinality(From(S, i))
Above(S, i) == Cardinality(Beyond(S, i))

LEMMA IdsFinite ==
  ASSUME NEW S, S \subseteq Ids
  PROVE  IsFiniteSet(S) /\ Cardinality(S) \in Nat /\ S \subseteq Nat
<1>1. IsFiniteSet(Ids) /\ Ids \subseteq Nat
  BY ViewsAssumption, FS_Interval DEF Ids
<1> QED BY <1>1, FS_Subset, FS_CardinalityType

LEMMA PageIs ==
  ASSUME NEW S, NEW n, NEW k
  PROVE  Page(S, n, k) = {i \in S : k < Rank(S, i) /\ Rank(S, i) <= k + n}
BY DEF Page, Rank, From

\* A member's rank counts itself and those above it.
LEMMA RankAbove ==
  ASSUME NEW S, S \subseteq Ids, NEW i \in S
  PROVE  Above(S, i) \in Nat /\ Rank(S, i) = Above(S, i) + 1
<1>1. PICK B : B = Beyond(S, i)
  OBVIOUS
<1>2. S \subseteq Nat
  BY IdsFinite
<1>3. From(S, i) = B \cup {i} /\ i \notin B /\ B \subseteq Ids
  <2>1. i \in Nat /\ \A j \in S : j \in Nat /\ (j >= i <=> (j > i \/ j = i))
    BY <1>2
  <2>2. \A j : j \in B <=> j \in S /\ j > i
    BY <1>1 DEF Beyond
  <2>3. \A j : j \in From(S, i) <=> j \in S /\ j >= i
    BY DEF From
  <2>4. From(S, i) = B \cup {i}
    <3>1. \A j : j \in From(S, i) <=> j \in B \cup {i}
      BY <2>1, <2>2, <2>3
    <3> QED BY <3>1
  <2>5. i \notin B
    BY <2>1, <2>2
  <2>6. B \subseteq Ids
    BY <2>2
  <2> QED BY <2>4, <2>5, <2>6
<1>4. IsFiniteSet(B) /\ Cardinality(B) \in Nat
  BY <1>3, IdsFinite
<1>5. Cardinality(B \cup {i}) = Cardinality(B) + 1
  BY <1>3, <1>4, FS_AddElement
<1> QED BY <1>1, <1>3, <1>4, <1>5 DEF Rank, Above

LEMMA RankDecreases ==
  ASSUME NEW S, S \subseteq Ids, NEW i \in S, NEW j \in S, i < j
  PROVE  Rank(S, j) < Rank(S, i)
<1>1. PICK B : B = Beyond(S, i)
  OBVIOUS
<1>2. PICK F : F = From(S, j)
  OBVIOUS
<1>3. F \subseteq B /\ B \subseteq Ids
  BY <1>1, <1>2, IdsFinite DEF From, Beyond
<1>4. Cardinality(F) <= Cardinality(B) /\ Cardinality(F) \in Nat
  BY <1>3, IdsFinite, FS_Subset
<1> QED BY <1>1, <1>2, <1>4, RankAbove DEF Rank, Above

\* No two members share a rank, so at most n of them rank k + 1 to k + n.
LEMMA AtMost ==
  ASSUME NEW S, S \subseteq Ids, NEW T, T \subseteq S, NEW k \in Nat, NEW n \in Nat,
         \A i \in T : k < Rank(S, i) /\ Rank(S, i) <= k + n
  PROVE  Cardinality(T) <= n
<1>1. PICK f : f = [i \in T |-> Rank(S, i)]
  OBVIOUS
<1>2. \A i \in T : Rank(S, i) \in Nat
  BY RankAbove
<1>3. \A i \in T : f[i] \in k + 1 .. k + n
  BY <1>1, <1>2
<1>4. ASSUME NEW i \in T, NEW j \in T, f[i] = f[j] PROVE i = j
  <2>1. Rank(S, i) = Rank(S, j) /\ i \in Nat /\ j \in Nat /\ Rank(S, i) \in Nat /\ Rank(S, j) \in Nat
    BY <1>1, <1>2, <1>4, IdsFinite
  <2>2. i \in S /\ j \in S
    OBVIOUS
  <2>3. ~ (i < j)
    <3>1. i < j => Rank(S, j) < Rank(S, i)
      BY <2>2, RankDecreases
    <3> QED BY <2>1, <3>1
  <2>4. ~ (j < i)
    <3>1. j < i => Rank(S, i) < Rank(S, j)
      BY <2>2, RankDecreases
    <3> QED BY <2>1, <3>1
  <2> QED BY <2>1, <2>3, <2>4
<1>5. f \in Injection(T, k + 1 .. k + n)
  BY <1>1, <1>3, <1>4 DEF Injection, IsInjective
<1>6. IsFiniteSet(k + 1 .. k + n) /\ Cardinality(k + 1 .. k + n) = n
  BY FS_Interval
<1> QED BY <1>5, <1>6, FS_Injection

\* A page has at most as many records as asked for.
LEMMA PageBounded ==
  ASSUME NEW S, S \subseteq Ids, NEW n \in Nat, NEW k \in Nat
  PROVE  Cardinality(Page(S, n, k)) <= n
BY PageIs, AtMost

\* The ranks of a page follow the offset without a gap.
LEMMA PageReaches ==
  ASSUME NEW S, S \subseteq Ids, NEW n \in Nat, NEW k \in Nat, NEW t \in Page(S, n, k)
  PROVE  Rank(S, t) <= k + Cardinality(Page(S, n, k))
<1>1. PICK P : P = Page(S, n, k)
  OBVIOUS
<1>2. P \subseteq S /\ t \in S /\ Rank(S, t) <= k + n
  BY <1>1, PageIs
<1>3. PICK F : F = From(S, t)
  OBVIOUS
<1>4. PICK G : G = {j \in F : Rank(S, j) <= k}
  OBVIOUS
<1>5. F \subseteq S /\ G \subseteq F
  BY <1>3, <1>4 DEF From
<1>6. \A j \in S : Rank(S, j) \in Nat /\ Rank(S, j) > 0
  BY RankAbove
<1>7. Cardinality(G) <= k
  <2>1. \A j \in G : 0 < Rank(S, j) /\ Rank(S, j) <= 0 + k
    BY <1>4, <1>5, <1>6
  <2> QED BY <1>5, <2>1, AtMost
<1>8. F \ G \subseteq P
  <2> SUFFICES ASSUME NEW j \in F \ G PROVE j \in P
    OBVIOUS
  <2>1. j \in S /\ j \in Nat /\ t \in Nat /\ j >= t
    BY <1>2, <1>3, IdsFinite DEF From
  <2>2. Rank(S, j) <= Rank(S, t)
    <3>1. CASE j = t
      BY <1>2, <1>6, <3>1
    <3>2. CASE t < j
      <4>1. Rank(S, j) < Rank(S, t)
        BY <1>2, <2>1, <3>2, RankDecreases
      <4> QED BY <1>2, <1>6, <2>1, <4>1
    <3> QED BY <2>1, <3>1, <3>2
  <2>3. k < Rank(S, j)
    BY <1>4, <1>6, <2>1
  <2> QED BY <1>1, <1>2, <1>6, <2>1, <2>2, <2>3, PageIs
<1>9. /\ IsFiniteSet(F) /\ IsFiniteSet(P) /\ IsFiniteSet(G)
      /\ Cardinality(F) \in Nat /\ Cardinality(P) \in Nat /\ Cardinality(G) \in Nat
  BY <1>2, <1>5, IdsFinite
<1>10. Cardinality(F \ G) <= Cardinality(P)
  BY <1>8, <1>9, FS_Subset
<1>11. Cardinality(F \ G) = Cardinality(F) - Cardinality(G)
  <2>1. F \cap G = G
    BY <1>5
  <2> QED BY <1>9, <2>1, FS_Difference
<1>12. Cardinality(F) <= k + Cardinality(P)
  BY <1>7, <1>9, <1>10, <1>11
<1> QED BY <1>1, <1>3, <1>12 DEF Rank

\* An empty page means the offset is past the end.
LEMMA EmptyPage ==
  ASSUME NEW S, S \subseteq Ids, NEW n \in Nat, n >= 1, NEW k \in Nat, Page(S, n, k) = {}, NEW m \in S
  PROVE  Rank(S, m) <= k
<1> SUFFICES ASSUME Rank(S, m) > k PROVE FALSE
  BY RankAbove
<1>1. PICK T : T = {i \in S : Rank(S, i) > k}
  OBVIOUS
<1>2. T \subseteq Nat /\ T # {} /\ \A i \in T : i <= MaxId
  <2>1. \A i \in Ids : i \in Nat /\ i <= MaxId
    BY ViewsAssumption DEF Ids
  <2>2. m \in T
    BY <1>1
  <2> QED BY <1>1, <2>1, <2>2
<1>3. PICK i \in T : \A j \in T : j <= i
  BY <1>2, GreatestNumber, ViewsAssumption
<1>4. i \in S /\ Rank(S, i) > k /\ Rank(S, i) \in Nat /\ Rank(S, i) = Above(S, i) + 1
  BY <1>1, <1>3, RankAbove
<1>5. PICK B : B = Beyond(S, i)
  OBVIOUS
<1>6. \A j \in B : j \in S /\ 0 < Rank(S, j) /\ Rank(S, j) <= 0 + k
  <2> SUFFICES ASSUME NEW j \in B PROVE j \in S /\ 0 < Rank(S, j) /\ Rank(S, j) <= 0 + k
    OBVIOUS
  <2>1. j \in S /\ j > i /\ j \in Nat /\ i \in Nat
    BY <1>4, <1>5, IdsFinite DEF Beyond
  <2>2. j \notin T
    BY <1>3, <2>1
  <2>3. ~ (Rank(S, j) > k)
    BY <1>1, <2>1, <2>2
  <2>4. Rank(S, j) = Above(S, j) + 1 /\ Above(S, j) \in Nat
    BY <2>1, RankAbove
  <2> QED BY <2>1, <2>3, <2>4
<1>7. B \subseteq S
  BY <1>6
<1>8. Cardinality(B) <= k
  BY <1>6, <1>7, AtMost
<1>9. Rank(S, i) <= k + n
  <2>1. Above(S, i) <= k /\ Above(S, i) \in Nat
    BY <1>4, <1>5, <1>8, RankAbove DEF Above
  <2> QED BY <1>4, <2>1
<1>10. i \in Page(S, n, k)
  BY <1>4, <1>9, PageIs
<1> QED BY <1>10


-----------------------------------------------------------------------------
(* A walk through the pages of list_fingerprints(), in terms of places.    *)

Passed(S, offset, unseen) == {m \in unseen : Rank(S, m) <= offset}

\* S is what the query lists now; the other parameters are the fields of a browse.
\* A kept record not seen yet lies ahead, unless something above it left; no more
\* of them lie behind than records left; a record seen lies behind, unless something
\* above it came in.
Placed(S, offset, seen, twice, kept, leaves, enters, left) ==
  /\ kept \subseteq S
  /\ \A m \in kept \ seen : offset < Rank(S, m) \/ \E i \in leaves : i > m
  /\ Cardinality(Passed(S, offset, kept \ seen)) <= left
  /\ \A t \in seen : Above(S, t) < offset \/ \E i \in enters : i > t
  /\ \A t \in twice : \E i \in enters : i > t

Explained(seen, twice, kept, leaves, enters, left) ==
  /\ \A m \in kept \ seen : \E i \in leaves : i > m
  /\ Cardinality(kept \ seen) <= left
  /\ \A t \in twice : \E i \in enters : i > t

LEMMA PassedIs ==
  ASSUME NEW S, NEW offset, NEW U, NEW m
  PROVE  m \in Passed(S, offset, U) <=> m \in U /\ Rank(S, m) <= offset
BY DEF Passed

LEMMA PassedSmaller ==
  ASSUME NEW U, NEW V, V \subseteq Ids, U \subseteq V
  PROVE  Cardinality(U) <= Cardinality(V) /\ Cardinality(U) \in Nat /\ Cardinality(V) \in Nat
BY IdsFinite, FS_Subset

\* The first page is still to come.
LEMMA StartPlaced ==
  ASSUME NEW S, S \subseteq Ids
  PROVE  Placed(S, 0, {}, {}, S, {}, {}, 0)
<1>1. \A m \in S : Rank(S, m) \in Nat /\ 0 < Rank(S, m)
  BY RankAbove
<1>2. Passed(S, 0, S \ {}) = {}
  BY <1>1, PassedIs
<1>3. Cardinality(Passed(S, 0, S \ {})) = 0
  BY <1>2, FS_EmptySet
<1> QED BY <1>1, <1>3 DEF Placed

\* NextPage.
LEMMA PagePlaced ==
  ASSUME NEW S, S \subseteq Ids, NEW offset \in Nat, NEW seen, NEW twice, NEW kept,
         NEW leaves, NEW enters, NEW left \in Nat, NEW n \in Nat, n >= 1,
         Placed(S, offset, seen, twice, kept, leaves, enters, left),
         NEW P, P = Page(S, n, offset)
  PROVE  Placed(S, offset + Cardinality(P), seen \cup P, twice \cup (seen \cap P),
                kept, leaves, enters, left)
<1>1. /\ kept \subseteq S
      /\ \A m \in kept \ seen : offset < Rank(S, m) \/ \E i \in leaves : i > m
      /\ Cardinality(Passed(S, offset, kept \ seen)) <= left
      /\ \A t \in seen : Above(S, t) < offset \/ \E i \in enters : i > t
      /\ \A t \in twice : \E i \in enters : i > t
  BY DEF Placed
<1>2. P \subseteq S /\ \A m : m \in P <=> m \in S /\ offset < Rank(S, m) /\ Rank(S, m) <= offset + n
  BY PageIs
<1>3. PICK c \in Nat : c = Cardinality(P) /\ c <= n
  BY <1>2, IdsFinite, PageBounded
<1>4. \A m \in S : Rank(S, m) \in Nat /\ Above(S, m) \in Nat /\ Rank(S, m) = Above(S, m) + 1
  BY RankAbove
<1>5. ASSUME NEW m \in kept \ (seen \cup P)
      PROVE  offset + c < Rank(S, m) \/ \E i \in leaves : i > m
  <2>1. CASE offset < Rank(S, m)
    <3>1. m \in S /\ m \notin P /\ Rank(S, m) \in Nat
      BY <1>1, <1>4
    <3>2. ~ (Rank(S, m) <= offset + n)
      BY <1>2, <2>1, <3>1
    <3> QED BY <1>3, <3>1, <3>2
  <2> QED BY <1>1, <2>1
<1>6. Passed(S, offset + c, kept \ (seen \cup P)) \subseteq Passed(S, offset, kept \ seen)
  <2> SUFFICES ASSUME NEW m \in Passed(S, offset + c, kept \ (seen \cup P))
               PROVE  m \in Passed(S, offset, kept \ seen)
    OBVIOUS
  <2>1. m \in kept \ (seen \cup P) /\ Rank(S, m) <= offset + c
    BY PassedIs
  <2>2. m \in S /\ m \notin P /\ Rank(S, m) \in Nat
    BY <1>1, <1>4, <2>1
  <2>3. Rank(S, m) <= offset + n
    BY <1>3, <2>1, <2>2
  <2>4. Rank(S, m) <= offset
    BY <1>2, <2>2, <2>3
  <2> QED BY <2>1, <2>4, PassedIs
<1>7. Cardinality(Passed(S, offset + c, kept \ (seen \cup P))) <= left
  <2>1. PICK U : U = Passed(S, offset + c, kept \ (seen \cup P))
    OBVIOUS
  <2>2. PICK V : V = Passed(S, offset, kept \ seen)
    OBVIOUS
  <2>3. V \subseteq Ids /\ U \subseteq V
    BY <1>1, <1>6, <2>1, <2>2, PassedIs
  <2>4. Cardinality(U) <= Cardinality(V) /\ Cardinality(U) \in Nat /\ Cardinality(V) \in Nat
    BY <2>3, PassedSmaller
  <2> QED BY <1>1, <2>1, <2>2, <2>4
<1>8. ASSUME NEW t \in seen \cup P PROVE Above(S, t) < offset + c \/ \E i \in enters : i > t
  <2>1. CASE t \in P
    <3>1. Rank(S, t) <= offset + c
      BY <1>3, <2>1, PageReaches
    <3> QED BY <1>2, <1>3, <1>4, <2>1, <3>1
  <2>2. CASE t \in seen
    <3>1. Above(S, t) \in Nat
      <4>1. Beyond(S, t) \subseteq Ids
        BY DEF Beyond
      <4> QED BY <4>1, IdsFinite DEF Above
    <3> QED BY <1>1, <1>3, <2>2, <3>1
  <2> QED BY <2>1, <2>2
<1>9. ASSUME NEW t \in seen \cap P PROVE \E i \in enters : i > t
  <2>1. offset < Above(S, t) + 1 /\ Above(S, t) \in Nat
    BY <1>2, <1>4
  <2>2. ~ (Above(S, t) < offset)
    BY <2>1
  <2> QED BY <1>1, <2>2
<1>10. \A t \in twice \cup (seen \cap P) : \E i \in enters : i > t
  BY <1>1, <1>9
<1> QED BY <1>1, <1>3, <1>5, <1>7, <1>8, <1>10 DEF Placed

\* An empty page ends the walk with nothing ahead.
LEMMA LastPageExplains ==
  ASSUME NEW S, S \subseteq Ids, NEW offset \in Nat, NEW seen, NEW twice, NEW kept,
         NEW leaves, NEW enters, NEW left \in Nat, NEW n \in Nat, n >= 1,
         Placed(S, offset, seen, twice, kept, leaves, enters, left), Page(S, n, offset) = {}
  PROVE  Explained(seen, twice, kept, leaves, enters, left)
<1>1. /\ kept \subseteq S
      /\ \A m \in kept \ seen : offset < Rank(S, m) \/ \E i \in leaves : i > m
      /\ Cardinality(Passed(S, offset, kept \ seen)) <= left
      /\ \A t \in twice : \E i \in enters : i > t
  BY DEF Placed
<1>2. \A m \in kept \ seen : Rank(S, m) <= offset /\ Rank(S, m) \in Nat
  BY <1>1, EmptyPage, RankAbove
<1>3. Passed(S, offset, kept \ seen) = kept \ seen
  BY <1>2, PassedIs
<1>4. \A m \in kept \ seen : \E i \in leaves : i > m
  <2> SUFFICES ASSUME NEW m \in kept \ seen PROVE \E i \in leaves : i > m
    OBVIOUS
  <2>1. ~ (offset < Rank(S, m))
    BY <1>2
  <2> QED BY <1>1, <2>1
<1> QED BY <1>1, <1>3, <1>4 DEF Explained


\* A listed record is hidden or deleted.
LEMMA LeavePlaced ==
  ASSUME NEW S, S \subseteq Ids, NEW offset \in Nat, NEW seen, seen \subseteq Ids, NEW twice, NEW kept,
         NEW leaves, NEW enters, NEW left \in Nat,
         Placed(S, offset, seen, twice, kept, leaves, enters, left),
         NEW i \in S, NEW S2, S2 = S \ {i}
  PROVE  Placed(S2, offset, seen, twice, kept \cap S2, leaves \cup {i}, enters, left + 1)
<1>1. /\ kept \subseteq S
      /\ \A m \in kept \ seen : offset < Rank(S, m) \/ \E j \in leaves : j > m
      /\ Cardinality(Passed(S, offset, kept \ seen)) <= left
      /\ \A t \in seen : Above(S, t) < offset \/ \E j \in enters : j > t
      /\ \A t \in twice : \E j \in enters : j > t
  BY DEF Placed
<1>2. S2 \subseteq S /\ S2 \subseteq Ids /\ i \in Nat /\ S \subseteq Nat /\ S2 \subseteq Nat /\ Ids \subseteq Nat
  BY IdsFinite DEF Ids
<1>3. ASSUME NEW m \in S2, ~ (i > m) PROVE Rank(S2, m) = Rank(S, m)
  <2>1. m \in Nat /\ ~ (i >= m)
    BY <1>2, <1>3
  <2>2. From(S2, m) = From(S, m)
    <3>1. \A j : j \in From(S2, m) <=> j \in From(S, m)
      BY <2>1 DEF From
    <3> QED BY <3>1
  <2> QED BY <2>2 DEF Rank
<1>4. ASSUME NEW m \in S2, i > m PROVE Rank(S2, m) = Rank(S, m) - 1
  <2>1. From(S2, m) = From(S, m) \ {i} /\ i \in From(S, m)
    <3>1. \A j : j \in From(S2, m) <=> j \in From(S, m) /\ j # i
      BY DEF From
    <3>2. i \in From(S, m)
      BY <1>2, <1>4 DEF From
    <3> QED BY <3>1, <3>2
  <2>2. PICK F : F = From(S, m)
    OBVIOUS
  <2>3. IsFiniteSet(F)
    <3>1. F \subseteq Ids
      BY <2>2 DEF From
    <3> QED BY <3>1, IdsFinite
  <2>4. Cardinality(F \ {i}) = Cardinality(F) - 1
    BY <2>1, <2>2, <2>3, FS_RemoveElement
  <2> QED BY <2>1, <2>2, <2>4 DEF Rank
<1>5. \A m \in S : Rank(S, m) \in Nat
  BY RankAbove
<1>6. ASSUME NEW m \in (kept \cap S2) \ seen
      PROVE  offset < Rank(S2, m) \/ \E j \in leaves \cup {i} : j > m
  <2>1. CASE i > m
    BY <2>1
  <2>2. CASE ~ (i > m)
    <3>1. Rank(S2, m) = Rank(S, m)
      BY <1>3, <2>2
    <3> QED BY <1>1, <3>1
  <2> QED BY <2>1, <2>2
<1>7. Cardinality(Passed(S2, offset, (kept \cap S2) \ seen)) <= left + 1
  <2>1. PICK U : U = Passed(S2, offset, (kept \cap S2) \ seen)
    OBVIOUS
  <2>2. PICK V : V = Passed(S, offset, kept \ seen)
    OBVIOUS
  <2>3. PICK W : W = {m \in S : offset < Rank(S, m) /\ Rank(S, m) <= offset + 1}
    OBVIOUS
  <2>4. V \subseteq Ids /\ W \subseteq Ids /\ W \subseteq S
    BY <1>1, <2>2, <2>3, PassedIs
  <2>5. U \subseteq V \cup W
    <3> SUFFICES ASSUME NEW m \in U, m \notin W PROVE m \in V
      OBVIOUS
    <3>1. m \in S2 /\ m \in kept \ seen /\ Rank(S2, m) <= offset
      BY <2>1, PassedIs
    <3>2. Rank(S, m) <= offset + 1 /\ Rank(S, m) \in Nat
      <4>1. Rank(S2, m) = Rank(S, m) \/ Rank(S2, m) = Rank(S, m) - 1
        BY <1>3, <1>4, <3>1
      <4> QED BY <1>2, <1>5, <3>1, <4>1
    <3>3. ~ (offset < Rank(S, m))
      BY <1>2, <2>3, <3>1, <3>2
    <3> QED BY <2>2, <3>1, <3>2, <3>3, PassedIs
  <2>6. Cardinality(W) <= 1
    BY <2>3, <2>4, AtMost
  <2>7. /\ IsFiniteSet(V) /\ IsFiniteSet(W) /\ IsFiniteSet(V \cup W)
        /\ Cardinality(V) \in Nat /\ Cardinality(W) \in Nat
    BY <2>4, IdsFinite, FS_Union
  <2>8. Cardinality(V \cup W) <= Cardinality(V) + Cardinality(W) /\ Cardinality(V \cup W) \in Nat
    <3>1. Cardinality(V \cup W) = Cardinality(V) + Cardinality(W) - Cardinality(V \cap W)
      BY <2>7, FS_Union
    <3>2. Cardinality(V \cap W) \in Nat
      BY <2>7, FS_Intersection, FS_CardinalityType
    <3> QED BY <2>7, <3>1, <3>2, FS_CardinalityType
  <2>9. Cardinality(U) <= Cardinality(V \cup W) /\ Cardinality(U) \in Nat
    BY <2>5, <2>7, FS_Subset, FS_CardinalityType
  <2>10. Cardinality(V) <= left
    BY <1>1, <2>2
  <2>11. Cardinality(U) <= left + 1
    BY <2>6, <2>7, <2>8, <2>9, <2>10
  <2> QED BY <2>1, <2>11
<1>8. ASSUME NEW t \in seen PROVE Above(S2, t) < offset \/ \E j \in enters : j > t
  <2>1. PICK B : B = Beyond(S, t)
    OBVIOUS
  <2>2. PICK C : C = Beyond(S2, t)
    OBVIOUS
  <2>3. C \subseteq B /\ B \subseteq Ids
    BY <1>2, <2>1, <2>2 DEF Beyond
  <2>4. Cardinality(C) <= Cardinality(B) /\ Cardinality(C) \in Nat /\ Cardinality(B) \in Nat
    BY <2>3, PassedSmaller
  <2> QED BY <1>1, <2>1, <2>2, <2>4 DEF Above
<1>9. kept \cap S2 \subseteq S2
  OBVIOUS
<1> QED BY <1>1, <1>6, <1>7, <1>8, <1>9 DEF Placed

\* A record is contributed, or revived, into the list.
LEMMA EnterPlaced ==
  ASSUME NEW S, S \subseteq Ids, NEW offset \in Nat, NEW seen, seen \subseteq Ids, NEW twice, NEW kept,
         NEW leaves, NEW enters, NEW left \in Nat,
         Placed(S, offset, seen, twice, kept, leaves, enters, left),
         NEW i \in Ids, i \notin S, NEW S2, S2 = S \cup {i}
  PROVE  Placed(S2, offset, seen, twice, kept \cap S2, leaves, enters \cup {i}, left)
<1>1. /\ kept \subseteq S
      /\ \A m \in kept \ seen : offset < Rank(S, m) \/ \E j \in leaves : j > m
      /\ Cardinality(Passed(S, offset, kept \ seen)) <= left
      /\ \A t \in seen : Above(S, t) < offset \/ \E j \in enters : j > t
      /\ \A t \in twice : \E j \in enters : j > t
  BY DEF Placed
<1>2. kept \cap S2 = kept /\ kept \subseteq S2 /\ S2 \subseteq Ids
  BY <1>1
<1>3. ASSUME NEW m \in S
      PROVE  Rank(S, m) <= Rank(S2, m) /\ Rank(S, m) \in Nat /\ Rank(S2, m) \in Nat
  <2>1. PICK F : F = From(S, m)
    OBVIOUS
  <2>2. PICK G : G = From(S2, m)
    OBVIOUS
  <2>3. F \subseteq G /\ G \subseteq Ids
    BY <1>2, <2>1, <2>2 DEF From
  <2>4. Cardinality(F) <= Cardinality(G) /\ Cardinality(F) \in Nat /\ Cardinality(G) \in Nat
    BY <2>3, PassedSmaller
  <2> QED BY <2>1, <2>2, <2>4 DEF Rank
<1>4. ASSUME NEW m \in kept \ seen
      PROVE  offset < Rank(S2, m) \/ \E j \in leaves : j > m
  <2>1. m \in S
    BY <1>1
  <2> QED BY <1>1, <1>3, <2>1
<1>5. Cardinality(Passed(S2, offset, kept \ seen)) <= left
  <2>1. PICK U : U = Passed(S2, offset, kept \ seen)
    OBVIOUS
  <2>2. PICK V : V = Passed(S, offset, kept \ seen)
    OBVIOUS
  <2>3. V \subseteq Ids
    BY <1>1, <2>2, PassedIs
  <2>4. U \subseteq V
    <3> SUFFICES ASSUME NEW m \in U PROVE m \in V
      OBVIOUS
    <3>1. m \in kept \ seen /\ m \in S /\ Rank(S2, m) <= offset
      BY <1>1, <2>1, PassedIs
    <3>2. Rank(S, m) <= offset
      BY <1>3, <3>1
    <3> QED BY <2>2, <3>1, <3>2, PassedIs
  <2>5. Cardinality(U) <= Cardinality(V) /\ Cardinality(U) \in Nat /\ Cardinality(V) \in Nat
    BY <2>3, <2>4, PassedSmaller
  <2> QED BY <1>1, <2>1, <2>2, <2>5
<1>6. ASSUME NEW t \in seen PROVE Above(S2, t) < offset \/ \E j \in enters \cup {i} : j > t
  <2>1. CASE i > t
    BY <2>1
  <2>2. CASE ~ (i > t)
    <3>1. Beyond(S2, t) = Beyond(S, t)
      <4>1. \A j : j \in Beyond(S2, t) <=> j \in Beyond(S, t)
        BY <2>2 DEF Beyond
      <4> QED BY <4>1
    <3>2. Above(S2, t) = Above(S, t)
      BY <3>1 DEF Above
    <3> QED BY <1>1, <3>2
  <2> QED BY <2>1, <2>2
<1> QED BY <1>1, <1>2, <1>4, <1>5, <1>6 DEF Placed


\* Commit: one row changes, so at most one record leaves or enters the list.
LEMMA CommitPlaced ==
  ASSUME NEW S, S \subseteq Ids, NEW S2, S2 \subseteq Ids, NEW i \in Ids, S \ {i} = S2 \ {i},
         NEW offset \in Nat, NEW seen, seen \subseteq Ids, NEW twice, NEW kept,
         NEW leaves, NEW enters, NEW left \in Nat,
         Placed(S, offset, seen, twice, kept, leaves, enters, left)
  PROVE  /\ Cardinality(S \ S2) \in Nat
         /\ Placed(S2, offset, seen, twice, kept \cap S2, leaves \cup (S \ S2), enters \cup (S2 \ S),
                   left + Cardinality(S \ S2))
<1> SUFFICES ASSUME NEW c, c = Cardinality(S \ S2), NEW L, L = leaves \cup (S \ S2),
                    NEW E, E = enters \cup (S2 \ S), NEW K, K = kept \cap S2,
                    NEW l, l = left + c
             PROVE  c \in Nat /\ Placed(S2, offset, seen, twice, K, L, E, l)
  <2> DEFINE Goal(c, K, L, E, l) == c \in Nat /\ Placed(S2, offset, seen, twice, K, L, E, l)
  <2>1. Goal(Cardinality(S \ S2), kept \cap S2, leaves \cup (S \ S2), enters \cup (S2 \ S),
             left + Cardinality(S \ S2))
    OBVIOUS
  <2> QED BY <2>1
<1>1. CASE i \in S /\ i \notin S2
  <2>1. S2 = S \ {i} /\ S \ S2 = {i} /\ S2 \ S = {}
    BY <1>1
  <2>2. c = 1 /\ L = leaves \cup {i} /\ E = enters /\ l = left + 1
    BY <2>1, FS_Singleton
  <2>3. Placed(S2, offset, seen, twice, kept \cap S2, leaves \cup {i}, enters, left + 1)
    BY <1>1, <2>1, LeavePlaced
  <2>4. Placed(S2, offset, seen, twice, K, L, E, l)
    BY <2>2, <2>3, Zenon
  <2> QED BY <2>2, <2>4
<1>2. CASE i \notin S /\ i \in S2
  <2>1. S2 = S \cup {i} /\ S \ S2 = {} /\ S2 \ S = {i}
    BY <1>2
  <2>2. c = 0 /\ L = leaves /\ E = enters \cup {i} /\ l = left
    BY <2>1, FS_EmptySet
  <2>3. Placed(S2, offset, seen, twice, kept \cap S2, leaves, enters \cup {i}, left)
    BY <1>2, <2>1, EnterPlaced
  <2> QED BY <2>2, <2>3
<1>3. CASE S = S2
  <2>1. S \ S2 = {} /\ S2 \ S = {}
    BY <1>3
  <2>2. c = 0 /\ L = leaves /\ E = enters /\ l = left
    BY <2>1, FS_EmptySet
  <2>3. K = kept
    BY <1>3 DEF Placed
  <2>4. Placed(S2, offset, seen, twice, K, L, E, l)
    BY <1>3, <2>2, <2>3, Zenon
  <2> QED BY <2>2, <2>4
<1> QED BY <1>1, <1>2, <1>3

-----------------------------------------------------------------------------
(* The invariant.                                                          *)

\* The answers a reader can be at.
Answer == [step: {"detail"}, who: Consumers, shown: SUBSET Shown]
Walk == [step: {"browse", "browsed"}, q: Query, offset: Nat, seen: SUBSET Ids, twice: SUBSET Ids,
         shown: SUBSET Shown, kept: SUBSET Ids, leaves: SUBSET Ids, enters: SUBSET Ids, left: Nat]
Total == [step: {"totals"}, total: Nat, during: Nat]
Split == [step: {"by_category"}, total: Nat, during: Nat, categories: [Categories -> Nat]]
Counts == [step: {"counted"}, total: Nat, during: Nat, categories: [Categories -> Nat],
           provenances: [Provenances -> Nat]]

Most == IF MaxListLimit < 1 THEN 1 ELSE MaxListLimit

Typed ==
  /\ row \in [Ids -> Row \cup {Absent}]
  /\ commits \in 0..MaxCommits
  /\ view \in {Idle} \cup Answer \cup Walk \cup Total \cup Split \cup Counts

\* What _detail_fp lets who see of a record, in a detail answer ...
MaySee(who, s) ==
  \/ IsAdmin(who)
  \/ s.row.owner = who
  \/ s.shape = "peer" /\ s.row.status = "active"

\* ... and on a page, where OwnerFilter has removed every other's rows.
MayList(who, s) == IsAdmin(who) \/ s.row.owner = who

AnswerFits(v) ==
  /\ Cardinality(v.shown) \in 0..1
  /\ \A s \in v.shown : MaySee(v.who, s)

PageFits(v) ==
  /\ Cardinality(v.shown) <= Most
  /\ \A s \in v.shown : MayList(v.q.who, s)

ViewsInv ==
  /\ Typed
  /\ view.step = "detail" => AnswerFits(view)
  /\ view.step \in {"browse", "browsed"} => Allowed(view.q) /\ PageFits(view)
  /\ view.step = "browse" =>
       Placed(Listed(row, view.q), view.offset, view.seen, view.twice, view.kept,
              view.leaves, view.enters, view.left)
  /\ view.step = "browsed" =>
       Explained(view.seen, view.twice, view.kept, view.leaves, view.enters, view.left)

Close(a, b, d) == a - b <= d /\ b - a <= d

\* The sums in the answer are the numbers of active rows at their statements, and
\* those differ by no more than what committed since.
Drift(v, active) ==
  /\ v.step \in {"totals", "by_category"} => Close(v.total, active, v.during)
  /\ v.step \in {"by_category", "counted"} =>
       LET inCategories == Sum(v.categories, Categories)
       IN /\ inCategories \in Nat
          /\ Close(v.total, inCategories, v.during)
          /\ v.step = "by_category" => Close(inCategories, active, v.during)
          /\ v.step = "counted" =>
               LET inProvenances == Sum(v.provenances, Provenances)
               IN Close(v.total, inProvenances, v.during) /\ Close(inCategories, inProvenances, v.during)

StatsInv == Drift(view, Cardinality(Active))

LEMMA ListedIds == ASSUME NEW rs, NEW q PROVE Listed(rs, q) \subseteq Ids
BY DEF Listed

LEMMA ClampBounds ==
  ASSUME NEW limit \in Limits
  PROVE  Clamp(limit) \in Nat /\ Clamp(limit) >= 1 /\ Clamp(limit) <= Most
<1>1. limit \in Int /\ MaxListLimit \in Int
  BY ViewsAssumption
<1> QED BY <1>1 DEF Clamp, Most

LEMMA MostOne == Most \in Int /\ 1 <= Most
BY ViewsAssumption DEF Most

\* A view at a step has the fields of that step.
LEMMA ViewCases ==
  ASSUME Typed
  PROVE  /\ view.step \in {"idle", "detail", "browse", "browsed", "totals", "by_category", "counted"}
         /\ view.step = "idle" => view = Idle
         /\ view.step = "detail" => view \in Answer
         /\ view.step \in {"browse", "browsed"} => view \in Walk
         /\ view.step = "totals" => view \in Total
         /\ view.step = "by_category" => view \in Split
         /\ view.step = "counted" => view \in Counts
<1>1. CASE view = Idle
  BY <1>1 DEF Idle
<1>2. CASE view \in Answer
  BY <1>2 DEF Answer
<1>3. CASE view \in Walk
  BY <1>3 DEF Walk
<1>4. CASE view \in Total
  BY <1>4 DEF Total
<1>5. CASE view \in Split
  BY <1>5 DEF Split
<1>6. CASE view \in Counts
  BY <1>6 DEF Counts
<1> QED BY <1>1, <1>2, <1>3, <1>4, <1>5, <1>6 DEF Typed

\* A record that is found or listed is a row.
LEMMA DetailTyped ==
  ASSUME Typed, NEW c \in Consumers, NEW i \in Ids, row[i].status # "absent"
  PROVE  /\ Detail(c, i) \in Shown /\ Detail(c, i).row = row[i] /\ row[i] \in Row
         /\ Detail(c, i).shape = IF CanSeeSecrets(c, row[i]) THEN "full" ELSE "peer"
<1>1. row[i] \in Row
  BY DEF Typed, Absent
<1> QED BY <1>1 DEF Detail, Shown, Shapes


-----------------------------------------------------------------------------
(* One lemma per action.                                                   *)

LEMMA InitViews == Init => ViewsInv
<1> SUFFICES ASSUME Init PROVE ViewsInv
  OBVIOUS
<1>1. row \in [Ids -> Row \cup {Absent}]
  BY DEF Init
<1>2. commits = 0 /\ view = Idle /\ view.step = "idle"
  BY DEF Init, Idle
<1>3. commits \in 0..MaxCommits
  BY <1>2, ViewsAssumption
<1> QED BY <1>1, <1>2, <1>3 DEF ViewsInv, Typed

LEMMA GetFingerprintViews ==
  ASSUME ViewsInv, NEW c \in Consumers, NEW i \in Ids, GetFingerprint(c, i)
  PROVE  ViewsInv'
<1>1. PICK D : D = IF Found(c, i) THEN {Detail(c, i)} ELSE {}
  OBVIOUS
<1>2. view' = [step |-> "detail", who |-> c, shown |-> D] /\ row' = row /\ commits' = commits
  BY <1>1 DEF GetFingerprint
<1>3. Typed
  BY DEF ViewsInv
<1>4. D \subseteq Shown /\ \A s \in D : MaySee(c, s)
  <2> SUFFICES ASSUME NEW s \in D PROVE s \in Shown /\ MaySee(c, s)
    OBVIOUS
  <2>1. Found(c, i) /\ s = Detail(c, i)
    BY <1>1
  <2>2. row[i].status \notin {"absent", "deleted"}
    BY <2>1 DEF Found
  <2>3. /\ s \in Shown /\ s.row = row[i] /\ row[i] \in Row
        /\ s.shape = IF CanSeeSecrets(c, row[i]) THEN "full" ELSE "peer"
    BY <1>3, <2>1, <2>2, DetailTyped
  <2>4. row[i].status \in {"active", "hidden"}
    BY <2>2, <2>3 DEF Row
  <2> QED BY <2>1, <2>3, <2>4 DEF MaySee, CanSeeSecrets, Found
<1>5. Cardinality(D) \in 0..1
  <2>1. CASE D = {}
    BY <2>1, FS_EmptySet
  <2>2. CASE D = {Detail(c, i)}
    <3>1. Cardinality({Detail(c, i)}) = 1
      BY FS_Singleton
    <3>2. Cardinality(D) = 1
      BY <2>2, <3>1
    <3> QED BY <3>2
  <2> QED BY <1>1, <2>1, <2>2
<1>6. view' \in Answer /\ view'.step = "detail" /\ view'.shown = D /\ view'.who = c
  BY <1>2, <1>4 DEF Answer
<1>7. AnswerFits(view')
  BY <1>4, <1>5, <1>6 DEF AnswerFits
<1>8. Typed'
  BY <1>2, <1>3, <1>6 DEF Typed
<1> QED BY <1>6, <1>7, <1>8 DEF ViewsInv

LEMMA StartBrowseViews ==
  ASSUME ViewsInv, NEW q \in Query, StartBrowse(q)
  PROVE  ViewsInv'
<1>1. PICK S : S = Listed(row, q)
  OBVIOUS
<1>2. /\ view' = [step |-> "browse", q |-> q, offset |-> 0, seen |-> {}, twice |-> {}, shown |-> {},
                  kept |-> S, leaves |-> {}, enters |-> {}, left |-> 0]
      /\ row' = row /\ commits' = commits /\ Allowed(q)
  BY <1>1 DEF StartBrowse
<1>3. S \subseteq Ids
  BY <1>1, ListedIds
<1>4. view' \in Walk /\ view'.step = "browse"
  BY <1>2, <1>3 DEF Walk
<1>5. Typed'
  BY <1>2, <1>4 DEF ViewsInv, Typed
<1>6. PageFits(view')
  <2>1. view'.shown = {} /\ Cardinality(view'.shown) = 0
    BY <1>2, FS_EmptySet
  <2> QED BY <2>1, MostOne DEF PageFits
<1>7. Placed(S, 0, {}, {}, S, {}, {}, 0)
  BY <1>3, StartPlaced
<1>8. PICK w : w = view'
  OBVIOUS
<1>9. Placed(Listed(row', w.q), w.offset, w.seen, w.twice, w.kept, w.leaves, w.enters, w.left)
  <2>1. /\ w.offset = 0 /\ w.seen = {} /\ w.twice = {} /\ w.kept = S
        /\ w.leaves = {} /\ w.enters = {} /\ w.left = 0 /\ w.q = q
    BY <1>2, <1>8
  <2>2. Listed(row', w.q) = S
    BY <1>1, <1>2, <2>1
  <2> QED BY <1>7, <2>1, <2>2, Zenon
<1>10. Allowed(view'.q)
  BY <1>2
<1> QED BY <1>4, <1>5, <1>6, <1>8, <1>9, <1>10 DEF ViewsInv

\* Every record on a page is one of the reader's own, unless it is an admin.
LEMMA ListedOwn ==
  ASSUME Typed, NEW q \in Query, NEW i \in Listed(row, q)
  PROVE  Detail(q.who, i) \in Shown /\ MayList(q.who, Detail(q.who, i))
<1>1. i \in Ids /\ row[i].status \in {"active", "hidden"} /\ q.who \in Consumers /\ q.who # None
  BY ViewsAssumption DEF Listed, Query
<1>2. Detail(q.who, i) \in Shown /\ Detail(q.who, i).row = row[i]
  BY <1>1, DetailTyped
<1>3. IsAdmin(q.who) \/ row[i].owner = q.who
  BY <1>1 DEF Listed, OwnerFilter
<1> QED BY <1>2, <1>3 DEF MayList

LEMMA NextPageViews ==
  ASSUME ViewsInv, NextPage
  PROVE  ViewsInv'
<1>1. PICK v : v = view
  OBVIOUS
<1>2. PICK w : w = view'
  OBVIOUS
<1>3. PICK S : S = Listed(row, v.q)
  OBVIOUS
<1>4. Typed /\ v.step = "browse"
  BY <1>1 DEF ViewsInv, NextPage
<1>5. v \in Walk /\ v.q \in Query
  <2>1. v \in Walk
    BY <1>1, <1>4, ViewCases
  <2> QED BY <2>1 DEF Walk
<1>6. PICK n : n = Clamp(v.q.limit)
  OBVIOUS
<1>7. n \in Nat /\ n >= 1 /\ n <= Most
  <2>1. v.q.limit \in Limits
    BY <1>5 DEF Query
  <2> QED BY <1>6, <2>1, ClampBounds
<1>8. PICK P : P = Page(S, n, v.offset)
  OBVIOUS
<1>9. PICK D : D = {Detail(v.q.who, i) : i \in P}
  OBVIOUS
<1>10. /\ w = [v EXCEPT !.step = IF P = {} THEN "browsed" ELSE "browse",
                        !.offset = @ + Cardinality(P),
                        !.seen = @ \cup P,
                        !.twice = @ \cup (v.seen \cap P),
                        !.shown = D]
       /\ row' = row /\ commits' = commits
  BY <1>1, <1>2, <1>3, <1>6, <1>8, <1>9 DEF NextPage
<1>11. S \subseteq Ids /\ P \subseteq S /\ IsFiniteSet(P) /\ Cardinality(P) \in Nat /\ v.offset \in Nat
  <2>1. S \subseteq Ids /\ v.offset \in Nat
    BY <1>3, <1>5, ListedIds DEF Walk
  <2>2. P \subseteq S
    BY <1>8, PageIs
  <2> QED BY <2>1, <2>2, IdsFinite
<1>12. \A s \in D : s \in Shown /\ MayList(v.q.who, s)
  <2> SUFFICES ASSUME NEW i \in P PROVE LET s == Detail(v.q.who, i) IN s \in Shown /\ MayList(v.q.who, s)
    BY <1>9
  <2>1. i \in Listed(row, v.q)
    BY <1>3, <1>11
  <2> QED BY <1>4, <1>5, <2>1, ListedOwn
<1>13. Cardinality(D) <= Most
  <2>1. PICK f : f = [i \in P |-> Detail(v.q.who, i)]
    OBVIOUS
  <2>2. D = {f[i] : i \in P}
    BY <1>9, <2>1
  <2>3. IsFiniteSet(D) /\ Cardinality(D) <= Cardinality(P) /\ Cardinality(D) \in Nat
    <3>1. f \in Surjection(P, D)
      BY <2>1, <2>2 DEF Surjection
    <3> QED BY <1>11, <3>1, FS_Surjection, FS_CardinalityType
  <2>4. Cardinality(P) <= n
    BY <1>7, <1>8, <1>11, PageBounded
  <2> QED BY <1>7, <1>11, <2>3, <2>4, MostOne
<1>14. /\ w.step = (IF P = {} THEN "browsed" ELSE "browse") /\ w.q = v.q
       /\ w.offset = v.offset + Cardinality(P) /\ w.seen = v.seen \cup P
       /\ w.twice = v.twice \cup (v.seen \cap P) /\ w.shown = D
       /\ w.kept = v.kept /\ w.leaves = v.leaves /\ w.enters = v.enters /\ w.left = v.left
  BY <1>5, <1>10 DEF Walk
<1>15. w \in Walk
  <2>1. /\ v.seen \cup P \in SUBSET Ids /\ v.twice \cup (v.seen \cap P) \in SUBSET Ids
        /\ D \in SUBSET Shown /\ v.offset + Cardinality(P) \in Nat
    BY <1>5, <1>11, <1>12 DEF Walk
  <2>2. (IF P = {} THEN "browsed" ELSE "browse") \in {"browse", "browsed"}
    OBVIOUS
  <2> QED BY <1>5, <1>10, <2>1, <2>2 DEF Walk
<1>16. Typed'
  BY <1>2, <1>4, <1>10, <1>15 DEF Typed
<1>17. Allowed(w.q) /\ PageFits(w)
  <2>1. Allowed(v.q)
    BY <1>1, <1>4 DEF ViewsInv
  <2> QED BY <1>12, <1>13, <1>14, <2>1 DEF PageFits
<1>18. Placed(S, v.offset, v.seen, v.twice, v.kept, v.leaves, v.enters, v.left)
  BY <1>1, <1>3, <1>4 DEF ViewsInv
<1>19. Placed(S, w.offset, w.seen, w.twice, w.kept, w.leaves, w.enters, w.left)
  <2>1. v.left \in Nat
    BY <1>5 DEF Walk
  <2>2. Placed(S, v.offset + Cardinality(P), v.seen \cup P, v.twice \cup (v.seen \cap P),
               v.kept, v.leaves, v.enters, v.left)
    BY <1>7, <1>8, <1>11, <1>18, <2>1, PagePlaced
  <2> QED BY <1>14, <2>2, Zenon
<1>20. ASSUME P = {}
       PROVE  Explained(w.seen, w.twice, w.kept, w.leaves, w.enters, w.left)
  <2>1. v.left \in Nat
    BY <1>5 DEF Walk
  <2>2. Explained(v.seen, v.twice, v.kept, v.leaves, v.enters, v.left)
    BY <1>7, <1>8, <1>11, <1>18, <1>20, <2>1, LastPageExplains
  <2>3. w.seen = v.seen /\ w.twice = v.twice
    BY <1>14, <1>20
  <2> QED BY <1>14, <2>2, <2>3
<1>21. S = Listed(row', w.q)
  BY <1>3, <1>10, <1>14
<1>22. w.step = "browse" \/ (w.step = "browsed" /\ P = {})
  BY <1>14
<1> QED BY <1>2, <1>16, <1>17, <1>19, <1>20, <1>21, <1>22 DEF ViewsInv


\* A row stays a row, whatever transaction changes it.
LEMMA SuccessorRow ==
  ASSUME NEW x \in Row \cup {Absent}, NEW r \in Successors(x)
  PROVE  r \in Row
<1>1. CASE x = Absent
  <2>1. x.status = "absent"
    BY <1>1 DEF Absent
  <2> QED BY <2>1 DEF Successors, Row
<1>2. CASE x \in Row
  <2>1. x.status \in {"active", "hidden", "deleted"}
    BY <1>2 DEF Row
  <2>2. CASE x.status = "active"
    BY <1>2, <2>2 DEF Successors, Revivals, Row
  <2>3. CASE x.status = "hidden"
    BY <1>2, <2>3 DEF Successors, Revivals, Row
  <2>4. CASE x.status = "deleted"
    BY <2>4 DEF Successors, Revivals
  <2> QED BY <2>1, <2>2, <2>3, <2>4
<1> QED BY <1>1, <1>2

\* Only the changed row can enter or leave a list.
LEMMA ListedOtherwise ==
  ASSUME Typed, NEW i \in Ids, NEW r, NEW rows, rows = [row EXCEPT ![i] = r], NEW q
  PROVE  Listed(row, q) \ {i} = Listed(rows, q) \ {i}
<1>1. \A j \in Ids \ {i} : rows[j] = row[j]
  BY DEF Typed
<1>2. \A j : j \in Listed(row, q) \ {i} <=> j \in Listed(rows, q) \ {i}
  BY <1>1 DEF Listed
<1> QED BY <1>2

LEMMA CommitViews ==
  ASSUME ViewsInv, NEW i \in Ids, Commit(i)
  PROVE  ViewsInv'
<1>1. PICK v : v = view
  OBVIOUS
<1>2. PICK w : w = view'
  OBVIOUS
<1>3. Typed
  BY DEF ViewsInv
<1>4. PICK r \in Successors(row[i]) : row' = [row EXCEPT ![i] = r] /\ view' = Watched(row')
  BY DEF Commit
<1>5. row' \in [Ids -> Row \cup {Absent}]
  <2>1. r \in Row
    BY <1>3, <1>4, SuccessorRow DEF Typed
  <2> QED BY <1>3, <1>4, <2>1 DEF Typed
<1>6. commits' \in 0..MaxCommits
  BY <1>3, ViewsAssumption DEF Commit, Typed
<1>7. CASE v.step = "browse"
  <2>1. v \in Walk /\ v.offset \in Nat /\ v.left \in Nat /\ v.seen \subseteq Ids
    <3>1. v \in Walk
      BY <1>1, <1>3, <1>7, ViewCases
    <3> QED BY <3>1 DEF Walk
  <2>2. PICK S : S = Listed(row, v.q)
    OBVIOUS
  <2>3. PICK S2 : S2 = Listed(row', v.q)
    OBVIOUS
  <2>4. w = [v EXCEPT !.kept = @ \cap S2, !.leaves = @ \cup (S \ S2),
                      !.enters = @ \cup (S2 \ S), !.left = @ + Cardinality(S \ S2)]
    BY <1>1, <1>2, <1>4, <1>7, <2>2, <2>3 DEF Watched
  <2>5. /\ w.step = "browse" /\ w.q = v.q /\ w.offset = v.offset /\ w.seen = v.seen
        /\ w.twice = v.twice /\ w.shown = v.shown /\ w.kept = v.kept \cap S2
        /\ w.leaves = v.leaves \cup (S \ S2) /\ w.enters = v.enters \cup (S2 \ S)
        /\ w.left = v.left + Cardinality(S \ S2)
    BY <1>7, <2>1, <2>4 DEF Walk
  <2>6. S \subseteq Ids /\ S2 \subseteq Ids /\ S \ {i} = S2 \ {i}
    BY <1>3, <1>4, <2>2, <2>3, ListedIds, ListedOtherwise
  <2>7. Placed(S, v.offset, v.seen, v.twice, v.kept, v.leaves, v.enters, v.left)
    BY <1>1, <1>7, <2>2 DEF ViewsInv
  <2>8. /\ Cardinality(S \ S2) \in Nat
        /\ Placed(S2, v.offset, v.seen, v.twice, v.kept \cap S2, v.leaves \cup (S \ S2),
                  v.enters \cup (S2 \ S), v.left + Cardinality(S \ S2))
    BY <2>1, <2>6, <2>7, CommitPlaced
  <2>9. Placed(S2, w.offset, w.seen, w.twice, w.kept, w.leaves, w.enters, w.left)
    BY <2>5, <2>8, Zenon
  <2>10. w \in Walk
    <3>1. /\ v.kept \cap S2 \in SUBSET Ids /\ v.leaves \cup (S \ S2) \in SUBSET Ids
          /\ v.enters \cup (S2 \ S) \in SUBSET Ids /\ v.left + Cardinality(S \ S2) \in Nat
      BY <2>1, <2>6, <2>8 DEF Walk
    <3> QED BY <2>1, <2>4, <3>1 DEF Walk
  <2>11. Allowed(w.q) /\ PageFits(w)
    BY <1>1, <1>7, <2>5 DEF ViewsInv, PageFits
  <2>12. S2 = Listed(row', w.q)
    BY <2>3, <2>5
  <2> QED BY <1>2, <1>5, <1>6, <2>5, <2>9, <2>10, <2>11, <2>12 DEF ViewsInv, Typed
<1>8. CASE v.step \in {"totals", "by_category"}
  <2>1. w = [v EXCEPT !.during = @ + 1]
    BY <1>1, <1>2, <1>4, <1>8 DEF Watched
  <2>2. w \in Total \cup Split /\ w.step \in {"totals", "by_category"}
    <3>1. CASE v \in Total
      BY <2>1, <3>1 DEF Total
    <3>2. CASE v \in Split
      BY <2>1, <3>2 DEF Split
    <3> QED BY <1>1, <1>3, <1>8, <3>1, <3>2, ViewCases
  <2> QED BY <1>2, <1>5, <1>6, <2>2 DEF ViewsInv, Typed
<1>9. CASE v.step \notin {"browse", "totals", "by_category"}
  <2>1. view' = view
    BY <1>1, <1>4, <1>9 DEF Watched
  <2> QED BY <1>1, <1>5, <1>6, <1>9, <2>1 DEF ViewsInv, Typed
<1> QED BY <1>7, <1>8, <1>9

LEMMA CountNat == ASSUME NEW U, U \subseteq Ids PROVE Cardinality(U) \in Nat
BY IdsFinite

LEMMA StatsViews ==
  ASSUME ViewsInv,
         (\E c \in Consumers : StatsTotals(c)) \/ StatsByCategory \/ StatsByProvenance
  PROVE  ViewsInv'
<1>1. row' = row /\ commits' = commits /\ Typed
  BY DEF StatsTotals, StatsByCategory, StatsByProvenance, ViewsInv
<1>2. CASE \E c \in Consumers : StatsTotals(c)
  <2>1. PICK a : a = Cardinality(Active)
    OBVIOUS
  <2>2. a \in Nat
    BY <2>1, CountNat DEF Active
  <2>3. view' = [step |-> "totals", total |-> a, during |-> 0]
    BY <1>2, <2>1 DEF StatsTotals
  <2>4. view' \in Total /\ view'.step = "totals"
    BY <2>2, <2>3 DEF Total
  <2> QED BY <1>1, <2>4 DEF ViewsInv, Typed
<1>3. CASE StatsByCategory
  <2>1. view \in Total
    BY <1>1, <1>3, ViewCases DEF StatsByCategory
  <2>2. PICK f : f = ByCategory
    OBVIOUS
  <2>3. f \in [Categories -> Nat]
    BY <2>2, CountNat DEF ByCategory, Active
  <2>4. view' = [step |-> "by_category", total |-> view.total, during |-> view.during, categories |-> f]
    BY <1>3, <2>2 DEF StatsByCategory
  <2>5. view' \in Split /\ view'.step = "by_category"
    BY <2>1, <2>3, <2>4 DEF Total, Split
  <2> QED BY <1>1, <2>5 DEF ViewsInv, Typed
<1>4. CASE StatsByProvenance
  <2>1. view \in Split
    BY <1>1, <1>4, ViewCases DEF StatsByProvenance
  <2>2. PICK f : f = ByProvenance
    OBVIOUS
  <2>3. f \in [Provenances -> Nat]
    BY <2>2, CountNat DEF ByProvenance, Active
  <2>4. view' = [step |-> "counted", total |-> view.total, during |-> view.during,
                 categories |-> view.categories, provenances |-> f]
    BY <1>4, <2>2 DEF StatsByProvenance
  <2>5. view' \in Counts /\ view'.step = "counted"
    BY <2>1, <2>3, <2>4 DEF Split, Counts
  <2> QED BY <1>1, <2>5 DEF ViewsInv, Typed
<1> QED BY <1>2, <1>3, <1>4

LEMMA AnsweredViews ==
  ASSUME ViewsInv, Answered
  PROVE  ViewsInv'
<1>1. view' = Idle /\ view'.step = "idle" /\ row' = row /\ commits' = commits
  BY DEF Answered, Idle
<1> QED BY <1>1 DEF ViewsInv, Typed

LEMMA StutterViews ==
  ASSUME ViewsInv, UNCHANGED vars
  PROVE  ViewsInv'
<1>1. view' = view /\ row' = row /\ commits' = commits
  BY DEF vars
<1>2. Typed' = Typed
  BY <1>1 DEF Typed
<1> QED BY <1>1, <1>2 DEF ViewsInv

LEMMA NextViews == ViewsInv /\ [Next]_vars => ViewsInv'
<1> SUFFICES ASSUME ViewsInv, [Next]_vars PROVE ViewsInv'
  OBVIOUS
<1>1. CASE \E i \in Ids : Commit(i)
  BY <1>1, CommitViews
<1>2. CASE \E c \in Consumers, i \in Ids : GetFingerprint(c, i)
  BY <1>2, GetFingerprintViews
<1>3. CASE \E q \in Query : StartBrowse(q)
  BY <1>3, StartBrowseViews
<1>4. CASE NextPage
  BY <1>4, NextPageViews
<1>5. CASE (\E c \in Consumers : StatsTotals(c)) \/ StatsByCategory \/ StatsByProvenance
  BY <1>5, StatsViews
<1>6. CASE Answered
  BY <1>6, AnsweredViews
<1>7. CASE UNCHANGED vars
  BY <1>7, StutterViews
<1> QED BY <1>1, <1>2, <1>3, <1>4, <1>5, <1>6, <1>7 DEF Next

LEMMA AlwaysViewsInv == Spec => []ViewsInv
BY InitViews, NextViews, PTL DEF Spec

-----------------------------------------------------------------------------
(* stats() under concurrent commits.                                       *)

LEMMA ActiveCount ==
  ASSUME Typed
  PROVE  Active \subseteq Ids /\ IsFiniteSet(Active) /\ Cardinality(Active) \in Nat
BY IdsFinite DEF Active

\* Sets that differ in one member differ in size by one at most.
LEMMA OneApart ==
  ASSUME NEW S, S \subseteq Ids, NEW T, T \subseteq Ids, NEW i, S \ {i} = T \ {i}
  PROVE  Close(Cardinality(S), Cardinality(T), 1)
<1>1. IsFiniteSet(S) /\ IsFiniteSet(T) /\ Cardinality(S) \in Nat /\ Cardinality(T) \in Nat
  BY IdsFinite
<1>2. CASE i \in S /\ i \notin T
  <2>1. S = T \cup {i}
    BY <1>2
  <2>2. Cardinality(S) = Cardinality(T) + 1
    BY <1>1, <1>2, <2>1, FS_AddElement
  <2> QED BY <1>1, <2>2 DEF Close
<1>3. CASE i \notin S /\ i \in T
  <2>1. T = S \cup {i}
    BY <1>3
  <2>2. Cardinality(T) = Cardinality(S) + 1
    BY <1>1, <1>3, <2>1, FS_AddElement
  <2> QED BY <1>1, <2>2 DEF Close
<1>4. CASE S = T
  BY <1>1, <1>4 DEF Close
<1> QED BY <1>2, <1>3, <1>4

LEMMA ByCategorySum ==
  ASSUME Typed
  PROVE  Sum(ByCategory, Categories) = Cardinality(Active)
<1>1. PICK g : g = [i \in Ids |-> row[i].category]
  OBVIOUS
<1>2. PICK A : A = Active
  OBVIOUS
<1>3. \A i \in A : g[i] \in Categories /\ g[i] = row[i].category
  <2> SUFFICES ASSUME NEW i \in A PROVE g[i] \in Categories /\ g[i] = row[i].category
    OBVIOUS
  <2>1. i \in Ids /\ row[i].status = "active"
    BY <1>2 DEF Active
  <2>2. row[i] \in Row
    BY <2>1 DEF Typed, Absent
  <2> QED BY <1>1, <2>1, <2>2 DEF Row
<1>4. ByCategory = [c \in Categories |-> Cardinality({i \in A : g[i] = c})]
  <2>1. \A c \in Categories : {i \in A : row[i].category = c} = {i \in A : g[i] = c}
    BY <1>3
  <2> QED BY <1>2, <2>1 DEF ByCategory
<1>5. PICK f : f = ByCategory
  OBVIOUS
<1>6. Sum(f, Categories) = Cardinality(A)
  BY <1>2, <1>3, <1>4, <1>5, ActiveCount, ViewsAssumption, SumOfCounts
<1> QED BY <1>2, <1>5, <1>6

LEMMA ByProvenanceSum ==
  ASSUME Typed
  PROVE  Sum(ByProvenance, Provenances) = Cardinality(Active)
<1>1. PICK g : g = [i \in Ids |-> row[i].provenance]
  OBVIOUS
<1>2. PICK A : A = Active
  OBVIOUS
<1>3. \A i \in A : g[i] \in Provenances /\ g[i] = row[i].provenance
  <2> SUFFICES ASSUME NEW i \in A PROVE g[i] \in Provenances /\ g[i] = row[i].provenance
    OBVIOUS
  <2>1. i \in Ids /\ row[i].status = "active"
    BY <1>2 DEF Active
  <2>2. row[i] \in Row
    BY <2>1 DEF Typed, Absent
  <2> QED BY <1>1, <2>1, <2>2 DEF Row
<1>4. ByProvenance = [p \in Provenances |-> Cardinality({i \in A : g[i] = p})]
  <2>1. \A p \in Provenances : {i \in A : row[i].provenance = p} = {i \in A : g[i] = p}
    BY <1>3
  <2> QED BY <1>2, <2>1 DEF ByProvenance
<1>5. PICK f : f = ByProvenance
  OBVIOUS
<1>6. Sum(f, Provenances) = Cardinality(A)
  BY <1>2, <1>3, <1>4, <1>5, ActiveCount, ViewsAssumption, SumOfCounts
<1> QED BY <1>2, <1>5, <1>6

\* A step that leaves the reader outside stats() has no sums to keep.
LEMMA NoDrift ==
  ASSUME NEW v, v.step \notin {"totals", "by_category", "counted"}, NEW a
  PROVE  Drift(v, a)
BY DEF Drift

\* One commit moves the number of active rows by one and is counted as one.
LEMMA CommitDrifts ==
  ASSUME NEW v \in Total \cup Split, NEW a \in Nat, NEW b \in Nat, Close(a, b, 1), Drift(v, a),
         NEW w, w = [v EXCEPT !.during = @ + 1]
  PROVE  Drift(w, b)
<1>1. CASE v \in Total
  <2>1. /\ v.step = "totals" /\ v.total \in Nat /\ v.during \in Nat
        /\ w.step = "totals" /\ w.total = v.total /\ w.during = v.during + 1
    BY <1>1 DEF Total
  <2>2. Close(w.total, b, w.during)
    BY <2>1 DEF Drift, Close
  <2> QED BY <2>1, <2>2 DEF Drift
<1>2. CASE v \in Split
  <2>1. /\ v.step = "by_category" /\ v.total \in Nat /\ v.during \in Nat
        /\ w.step = "by_category" /\ w.total = v.total /\ w.during = v.during + 1
        /\ w.categories = v.categories
    BY <1>2 DEF Split
  <2>2. PICK c : c = Sum(v.categories, Categories)
    OBVIOUS
  <2>3. /\ c \in Nat /\ Close(v.total, c, v.during) /\ Close(c, a, v.during)
        /\ Close(v.total, a, v.during)
    BY <2>1, <2>2 DEF Drift
  <2>4. Close(w.total, c, w.during) /\ Close(c, b, w.during) /\ Close(w.total, b, w.during)
    BY <2>1, <2>3 DEF Close
  <2> QED BY <2>1, <2>2, <2>3, <2>4 DEF Drift
<1> QED BY <1>1, <1>2

LEMMA CommitStats ==
  ASSUME ViewsInv, StatsInv, NEW i \in Ids, Commit(i)
  PROVE  StatsInv'
<1>1. Typed /\ ViewsInv'
  BY CommitViews DEF ViewsInv
<1>2. PICK A : A = Active
  OBVIOUS
<1>3. PICK B : B = Active'
  OBVIOUS
<1>4. A \subseteq Ids /\ B \subseteq Ids /\ A \ {i} = B \ {i}
  <2>1. A \subseteq Ids /\ B \subseteq Ids
    BY <1>2, <1>3 DEF Active
  <2>2. \A j \in Ids \ {i} : row'[j] = row[j]
    BY <1>1 DEF Commit, Typed
  <2>3. \A j : j \in A \ {i} <=> j \in B \ {i}
    BY <1>2, <1>3, <2>2 DEF Active
  <2> QED BY <2>1, <2>3
<1>5. PICK a : a = Cardinality(A)
  OBVIOUS
<1>6. PICK b : b = Cardinality(B)
  OBVIOUS
<1>7. Close(a, b, 1) /\ a \in Nat /\ b \in Nat
  BY <1>4, <1>5, <1>6, OneApart, IdsFinite
<1>8. PICK v : v = view
  OBVIOUS
<1>9. PICK w : w = view'
  OBVIOUS
<1>10. Drift(v, a)
  BY <1>2, <1>5, <1>8 DEF StatsInv
<1>11. w = Watched(row')
  BY <1>9 DEF Commit
<1>12. CASE v.step \in {"totals", "by_category"}
  <2>1. w = [v EXCEPT !.during = @ + 1]
    BY <1>8, <1>11, <1>12 DEF Watched
  <2>2. v \in Total \cup Split
    BY <1>1, <1>8, <1>12, ViewCases
  <2>3. Drift(w, b)
    BY <1>7, <1>10, <2>1, <2>2, CommitDrifts
  <2> QED BY <1>3, <1>6, <1>9, <2>3 DEF StatsInv
<1>13. CASE v.step = "counted"
  <2>1. w = v
    BY <1>8, <1>11, <1>13 DEF Watched
  <2>2. Drift(w, b)
    BY <1>10, <1>13, <2>1 DEF Drift
  <2> QED BY <1>3, <1>6, <1>9, <2>2 DEF StatsInv
<1>14. CASE v.step \notin {"totals", "by_category", "counted"}
  <2>1. w.step \notin {"totals", "by_category", "counted"}
    <3>1. CASE v.step = "browse"
      <4>1. v \in Walk
        BY <1>1, <1>8, <3>1, ViewCases
      <4> QED BY <1>8, <1>11, <3>1, <4>1 DEF Watched, Walk
    <3>2. CASE v.step # "browse"
      <4>1. w = v
        BY <1>8, <1>11, <1>14, <3>2 DEF Watched
      <4> QED BY <1>14, <4>1
    <3> QED BY <3>1, <3>2
  <2>2. Drift(w, b)
    BY <2>1, NoDrift
  <2> QED BY <1>3, <1>6, <1>9, <2>2 DEF StatsInv
<1> QED BY <1>12, <1>13, <1>14

LEMMA CountingStats ==
  ASSUME ViewsInv, StatsInv,
         (\E c \in Consumers : StatsTotals(c)) \/ StatsByCategory \/ StatsByProvenance
  PROVE  StatsInv'
<1>1. row' = row /\ Typed
  BY DEF StatsTotals, StatsByCategory, StatsByProvenance, ViewsInv
<1>2. PICK a : a = Cardinality(Active)
  OBVIOUS
<1>3. a \in Nat /\ Cardinality(Active)' = a
  BY <1>1, <1>2, ActiveCount DEF Active
<1>4. PICK v : v = view
  OBVIOUS
<1>5. PICK w : w = view'
  OBVIOUS
<1>6. Drift(v, a)
  BY <1>2, <1>4 DEF StatsInv
<1>7. CASE \E c \in Consumers : StatsTotals(c)
  <2>1. w.step = "totals" /\ w.total = a /\ w.during = 0
    BY <1>2, <1>5, <1>7 DEF StatsTotals
  <2>2. Close(w.total, a, w.during)
    BY <1>3, <2>1 DEF Close
  <2>3. Drift(w, a)
    BY <2>1, <2>2 DEF Drift
  <2> QED BY <1>3, <1>5, <2>3 DEF StatsInv
<1>8. CASE StatsByCategory
  <2>1. v \in Total /\ v.step = "totals"
    BY <1>1, <1>4, <1>8, ViewCases DEF StatsByCategory
  <2>2. v.total \in Nat /\ v.during \in Nat /\ Close(v.total, a, v.during)
    BY <1>6, <2>1 DEF Total, Drift
  <2>3. PICK f : f = ByCategory
    OBVIOUS
  <2>4. Sum(f, Categories) = a
    BY <1>1, <1>2, <2>3, ByCategorySum
  <2>5. /\ w.step = "by_category" /\ w.total = v.total /\ w.during = v.during
        /\ w.categories = f
    BY <1>4, <1>5, <1>8, <2>3 DEF StatsByCategory
  <2>6. Close(a, a, v.during)
    BY <1>3, <2>2 DEF Close
  <2>7. Drift(w, a)
    BY <1>3, <2>2, <2>4, <2>5, <2>6 DEF Drift
  <2> QED BY <1>3, <1>5, <2>7 DEF StatsInv
<1>9. CASE StatsByProvenance
  <2>1. v \in Split /\ v.step = "by_category"
    BY <1>1, <1>4, <1>9, ViewCases DEF StatsByProvenance
  <2>2. PICK c : c = Sum(v.categories, Categories)
    OBVIOUS
  <2>3. PICK f : f = ByProvenance
    OBVIOUS
  <2>4. Sum(f, Provenances) = a
    BY <1>1, <1>2, <2>3, ByProvenanceSum
  <2>5. /\ w.step = "counted" /\ w.total = v.total /\ w.during = v.during
        /\ w.categories = v.categories /\ w.provenances = f
    BY <1>4, <1>5, <1>9, <2>3 DEF StatsByProvenance
  <2>6. /\ c \in Nat /\ Close(v.total, c, v.during) /\ Close(c, a, v.during)
        /\ Close(v.total, a, v.during)
    BY <1>6, <2>1, <2>2 DEF Drift
  <2>7. Drift(w, a)
    BY <2>2, <2>4, <2>5, <2>6 DEF Drift
  <2> QED BY <1>3, <1>5, <2>7 DEF StatsInv
<1> QED BY <1>7, <1>8, <1>9

LEMMA InitStats == Init => StatsInv
<1> SUFFICES ASSUME Init PROVE StatsInv
  OBVIOUS
<1>1. view.step = "idle"
  BY DEF Init, Idle
<1> QED BY <1>1, NoDrift DEF StatsInv

LEMMA NextStats == ViewsInv /\ StatsInv /\ [Next]_vars => StatsInv'
<1> SUFFICES ASSUME ViewsInv, StatsInv, [Next]_vars PROVE StatsInv'
  OBVIOUS
<1>1. CASE \E i \in Ids : Commit(i)
  BY <1>1, CommitStats
<1>2. CASE (\E c \in Consumers : StatsTotals(c)) \/ StatsByCategory \/ StatsByProvenance
  BY <1>2, CountingStats
<1>3. CASE \/ \E c \in Consumers, i \in Ids : GetFingerprint(c, i)
           \/ \E q \in Query : StartBrowse(q)
           \/ NextPage
           \/ Answered
  <2>1. PICK w : w = view'
    OBVIOUS
  <2>2. w.step \in {"detail", "browse", "browsed", "idle"}
    <3>1. CASE \E c \in Consumers, i \in Ids : GetFingerprint(c, i)
      BY <2>1, <3>1 DEF GetFingerprint
    <3>2. CASE \E q \in Query : StartBrowse(q)
      BY <2>1, <3>2 DEF StartBrowse
    <3>3. CASE NextPage
      <4>1. view \in Walk
        BY <3>3, ViewCases DEF NextPage, ViewsInv
      <4> QED BY <2>1, <3>3, <4>1 DEF NextPage, Walk
    <3>4. CASE Answered
      BY <2>1, <3>4 DEF Answered, Idle
    <3> QED BY <1>3, <3>1, <3>2, <3>3, <3>4
  <2>3. PICK b : b = Cardinality(Active)'
    OBVIOUS
  <2>4. Drift(w, b)
    BY <2>2, NoDrift
  <2> QED BY <2>1, <2>3, <2>4 DEF StatsInv
<1>4. CASE UNCHANGED vars
  <2>1. Active' = Active /\ view' = view
    BY <1>4 DEF vars, Active
  <2> QED BY <2>1 DEF StatsInv
<1> QED BY <1>1, <1>2, <1>3, <1>4 DEF Next

LEMMA AlwaysStatsInv == Spec => []StatsInv
BY InitStats, NextStats, AlwaysViewsInv, PTL DEF Spec

-----------------------------------------------------------------------------
(* Theorems.                                                               *)

\* Rows are whole, and list_fingerprints() never returns more than max_list_limit
\* records, for every ?limit=, zero and negative ones included.
THEOREM ViewsTypes == Spec => []ViewsTypeOK
<1>1. ViewsInv => ViewsTypeOK
  <2> SUFFICES ASSUME ViewsInv PROVE ViewsTypeOK
    OBVIOUS
  <2>1. Typed
    BY DEF ViewsInv
  <2>2. view.step = "detail" =>
          view.shown \subseteq Shown /\ Cardinality(view.shown) <= (IF MaxListLimit < 1 THEN 1 ELSE MaxListLimit)
    <3> SUFFICES ASSUME view.step = "detail"
                 PROVE  view.shown \subseteq Shown /\ Cardinality(view.shown) <= Most
      BY DEF Most
    <3>1. view \in Answer /\ Cardinality(view.shown) \in 0..1
      BY <2>1, ViewCases DEF ViewsInv, AnswerFits
    <3>2. Cardinality(view.shown) <= Most
      BY <3>1, MostOne
    <3> QED BY <3>1, <3>2 DEF Answer
  <2>3. view.step \in {"browse", "browsed"} =>
          /\ view.shown \subseteq Shown
          /\ Cardinality(view.shown) <= (IF MaxListLimit < 1 THEN 1 ELSE MaxListLimit)
          /\ view.q \in Query /\ view.seen \subseteq Ids
    BY <2>1, ViewCases DEF ViewsInv, PageFits, Walk, Most
  <2>4. view.step \in {"idle", "detail", "browse", "browsed", "totals", "by_category", "counted"}
    BY <2>1, ViewCases
  <2> QED BY <2>1, <2>2, <2>3, <2>4 DEF ViewsTypeOK, Typed
<1> QED BY <1>1, AlwaysViewsInv, PTL

\* A walk by OFFSET misses a record that was listed throughout only when a larger id
\* left the list meanwhile, no more than left, and repeats one only when a larger id
\* came in, for any number of pages, rows and concurrent writers.
THEOREM SkipsExplained == Spec => []PagingSkipsExplained
<1>1. ViewsInv => PagingSkipsExplained
  BY DEF ViewsInv, PagingSkipsExplained, Explained
<1> QED BY <1>1, AlwaysViewsInv, PTL

\* A consumer that is neither admin nor owner sees at most the peer record of one
\* active fingerprint, by asking for its id.
THEOREM PeersSeeLittle == Spec => []PeersLearnLittle
<1>1. ViewsInv => PeersLearnLittle
  <2> SUFFICES ASSUME ViewsInv, view.step \in {"detail", "browse", "browsed"}, NEW s \in view.shown
               PROVE  LET who == IF view.step = "detail" THEN view.who ELSE view.q.who
                      IN \/ IsAdmin(who)
                         \/ s.row.owner = who
                         \/ view.step = "detail" /\ s.shape = "peer" /\ s.row.status = "active"
    BY DEF PeersLearnLittle
  <2>1. CASE view.step = "detail"
    BY <2>1 DEF ViewsInv, AnswerFits, MaySee
  <2>2. CASE view.step \in {"browse", "browsed"}
    BY <2>2 DEF ViewsInv, PageFits, MayList
  <2> QED BY <2>1, <2>2
<1> QED BY <1>1, AlwaysViewsInv, PTL

\* total_active and the sums of by_category and by_provenance in one answer of stats()
\* differ by no more than the transactions that committed between its statements.
THEOREM StatsNearlyAgree == Spec => []StatsDriftBounded
<1>1. StatsInv => StatsDriftBounded
  <2> SUFFICES ASSUME StatsInv, view.step = "counted"
               PROVE  LET c == Sum(view.categories, Categories)
                          p == Sum(view.provenances, Provenances)
                      IN /\ Close(view.total, c, view.during)
                         /\ Close(view.total, p, view.during)
                         /\ Close(c, p, view.during)
    BY DEF StatsDriftBounded, Sum, Close
  <2> QED BY DEF StatsInv, Drift
<1> QED BY <1>1, AlwaysStatsInv, PTL
=============================================================================
