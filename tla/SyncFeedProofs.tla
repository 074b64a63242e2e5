--------------------------- MODULE SyncFeedProofs ---------------------------
(***************************************************************************)
(* Proofs about the incremental feed, for any catalogue, clients, filters, *)
(* page sizes and number of changes in flight: what a page of sync() holds *)
(* and what a client that follows the feed may miss.                       *)
(***************************************************************************)
EXTENDS SyncFeed, FiniteSetTheorems, WellFoundedInduction, TLAPS

\* Sequence numbers and ids tell committed rows and changes in flight apart, and a
\* change in flight has a larger number than the row it is about to replace.
CatalogInv ==
  /\ IsFiniteSet(cat)
  /\ \A r \in cat : r.seq <= seq /\ r.id <= lastId
  /\ \A o \in open : o[1] <= seq /\ o[2] <= lastId
  /\ \A r, s \in cat : (r.id = s.id \/ r.seq = s.seq) => r = s
  /\ \A o, p \in open : (o[1] = p[1] \/ o[2] = p[2]) => o = p
  /\ \A o \in open, r \in cat : r.seq # o[1] /\ (r.id = o[2] => r.seq < o[1])

\* What was in flight when a client's watermark went past it is on record.
MarkInv(c) ==
  /\ mark[c] <= seq
  /\ \A o \in open : o[1] <= mark[c] => o[1] \in late[c]

\* The page a client works on holds what the catalogue has between watermark and
\* next_since, except what was in flight when it was read; its rows are no newer
\* than the catalogue's.
PageInv(c) ==
  LET p == page[c] IN
    /\ mark[c] <= p.next /\ p.next <= seq
    /\ \A o \in open : o[1] <= p.next => o[1] \in p.late
    /\ \A r \in cat : (Matches(c, r) /\ mark[c] < r.seq /\ r.seq <= p.next)
                        => r \in p.rows \/ r.seq \in p.late
    /\ \A r \in p.rows : mark[c] < r.seq /\ r.seq <= p.next /\ r.id <= lastId
    /\ \A r, s \in p.rows : r.id = s.id => r = s
    /\ \A r \in p.rows, s \in cat : r.id = s.id => r.seq <= s.seq
    /\ \A r \in p.rows, o \in open : r.id = o[2] => r.seq < o[1]
    /\ p.step = "save" => \A r \in p.rows : Agrees(c, r)

FeedInv ==
  /\ FeedTypeOK /\ CatalogInv
  /\ \A c \in Clients : MarkInv(c) /\ (page[c].step # "none" => PageInv(c))
  /\ OnlyOvertakenMissed


-----------------------------------------------------------------------------
(* ORDER BY sync_seq LIMIT n, for any finite set of rows.                  *)

\* Every nonempty set of naturals has a least element ...
LEMMA LeastNumber ==
  ASSUME NEW T, T \subseteq Nat, T # {}
  PROVE  \E n \in T : \A m \in T : n <= m
<1> DEFINE R == StrictSubsetOrdering(Nat)
           F == FiniteSubsetsOf(Nat)
           U == {0 .. n : n \in T}
<1>1. IsWellFoundedOn(R, F)
  BY FS_StrictSubsetOrderingWellFounded
<1>2. U \subseteq F /\ U # {}
  <2>1. ASSUME NEW n \in T PROVE 0 .. n \in F
    BY <2>1, FS_Interval DEF FiniteSubsetsOf
  <2> QED BY <2>1
<1>3. ASSUME NEW n \in T, NEW m \in T, m < n PROVE <<0 .. m, 0 .. n>> \in R
  <2>1. 0 .. m \subseteq 0 .. n /\ n \in 0 .. n /\ n \notin 0 .. m
    BY <1>3
  <2> QED BY <1>3, <2>1 DEF StrictSubsetOrdering
<1> HIDE DEF R, F
<1>4. PICK V \in U : \A W \in U : ~ (<<W, V>> \in R)
  BY <1>1, <1>2, WFMin
<1>5. PICK n \in T : V = 0 .. n
  BY <1>4
<1>6. \A m \in T : ~ (m < n)
  BY <1>3, <1>4, <1>5
<1> QED BY <1>5, <1>6

\* ... and, if it is bounded, a greatest.
LEMMA GreatestNumber ==
  ASSUME NEW T, T \subseteq Nat, T # {}, NEW b \in Nat, \A n \in T : n <= b
  PROVE  \E n \in T : \A m \in T : m <= n
<1> DEFINE U == {b - n : n \in T}
<1>1. U \subseteq Nat /\ U # {}
  <2>1. \A n \in T : n \in Nat /\ n <= b /\ b - n \in Nat
    OBVIOUS
  <2>2. U \subseteq Nat
    BY <2>1
  <2>3. PICK n : n \in T
    OBVIOUS
  <2>4. b - n \in U
    BY <2>3
  <2> QED BY <2>2, <2>4
<1>2. PICK u \in U : \A m \in U : u <= m
  BY <1>1, LeastNumber
<1>3. PICK n \in T : u = b - n
  OBVIOUS
<1>4. ASSUME NEW m \in T PROVE m <= n
  <2>1. b - m \in U
    OBVIOUS
  <2>2. b - n <= b - m
    BY <1>2, <1>3, <2>1
  <2> QED BY <2>2
<1> QED BY <1>4

\* A finite set of rows with distinct sequence numbers, none above b.
Rows(S, b) ==
  /\ IsFiniteSet(S)
  /\ \A r \in S : r.seq \in Nat /\ r.seq <= b
  /\ \A r, s \in S : r.seq = s.seq => r = s

UpTo(S, n) == {q \in S : q.seq <= n}

LEMMA FirstRow ==
  ASSUME NEW b \in Nat, NEW S, Rows(S, b), S # {}
  PROVE  \E r \in S : \A q \in S : r.seq <= q.seq
<1>1. {r.seq : r \in S} \subseteq Nat /\ {r.seq : r \in S} # {}
  BY DEF Rows
<1>2. PICK n \in {r.seq : r \in S} : \A m \in {r.seq : r \in S} : n <= m
  BY <1>1, LeastNumber
<1> QED BY <1>2

LEMMA LastRow ==
  ASSUME NEW b \in Nat, NEW S, Rows(S, b), S # {}
  PROVE  \E r \in S : \A q \in S : q.seq <= r.seq
<1>1. {r.seq : r \in S} \subseteq Nat /\ {r.seq : r \in S} # {}
  BY DEF Rows
<1>2. \A n \in {r.seq : r \in S} : n <= b
  BY DEF Rows
<1>3. PICK n \in {r.seq : r \in S} : \A m \in {r.seq : r \in S} : m <= n
  BY <1>1, <1>2, GreatestNumber
<1> QED BY <1>3

LEMMA UpToCount ==
  ASSUME NEW b, NEW S, Rows(S, b), NEW m \in Nat, NEW n \in Nat, m <= n
  PROVE  /\ UpTo(S, m) \subseteq UpTo(S, n)
         /\ IsFiniteSet(UpTo(S, n)) /\ Cardinality(UpTo(S, n)) \in Nat
         /\ Cardinality(UpTo(S, m)) <= Cardinality(UpTo(S, n))
<1>1. UpTo(S, m) \subseteq UpTo(S, n) /\ UpTo(S, n) \subseteq S
  BY DEF Rows, UpTo
<1>2. IsFiniteSet(UpTo(S, n))
  BY <1>1, FS_Subset DEF Rows
<1> QED BY <1>1, <1>2, FS_Subset, FS_CardinalityType

LEMMA Taken ==
  ASSUME NEW S, NEW k
  PROVE  Take(S, k) = {r \in S : Cardinality(UpTo(S, r.seq)) <= k}
BY DEF Take, UpTo

\* What is taken is closed towards smaller numbers.
LEMMA TakeClosed ==
  ASSUME NEW b, NEW S, Rows(S, b), NEW k \in Nat, NEW r \in Take(S, k),
         NEW q \in S, q.seq <= r.seq
  PROVE  q \in Take(S, k)
<1>1. r \in S /\ Cardinality(UpTo(S, r.seq)) <= k
  BY Taken
<1>2. q.seq \in Nat /\ r.seq \in Nat
  BY <1>1 DEF Rows
<1>3. /\ Cardinality(UpTo(S, q.seq)) <= Cardinality(UpTo(S, r.seq))
      /\ Cardinality(UpTo(S, q.seq)) \in Nat /\ Cardinality(UpTo(S, r.seq)) \in Nat
  BY <1>2, UpToCount
<1>4. Cardinality(UpTo(S, q.seq)) <= k
  BY <1>1, <1>3
<1> QED BY <1>4, Taken

LEMMA TakeRows ==
  ASSUME NEW b, NEW S, Rows(S, b), NEW k
  PROVE  Take(S, k) \subseteq S /\ Rows(Take(S, k), b)
<1>1. Take(S, k) \subseteq S
  BY Taken
<1> QED BY <1>1, FS_Subset DEF Rows

\* A page has a first row if there is any.
LEMMA TakeSome ==
  ASSUME NEW b \in Nat, NEW S, Rows(S, b), S # {}, NEW k \in Nat, k >= 1
  PROVE  Take(S, k) # {}
<1>1. PICK r \in S : \A q \in S : r.seq <= q.seq
  BY FirstRow
<1>2. UpTo(S, r.seq) = {r}
  BY <1>1 DEF UpTo, Rows
<1>3. Cardinality(UpTo(S, r.seq)) <= k
  BY <1>2, FS_Singleton
<1> QED BY <1>3, Taken

\* It is everything up to its last row, and has at most k rows.
LEMMA TakePrefix ==
  ASSUME NEW b \in Nat, NEW S, Rows(S, b), NEW k \in Nat, NEW r \in Take(S, k),
         \A q \in Take(S, k) : q.seq <= r.seq
  PROVE  /\ Take(S, k) = UpTo(S, r.seq)
         /\ Cardinality(Take(S, k)) <= k
<1>1. r \in S /\ Cardinality(UpTo(S, r.seq)) <= k
  BY Taken
<1>2. Take(S, k) \subseteq UpTo(S, r.seq)
  BY Taken DEF UpTo
<1>3. UpTo(S, r.seq) \subseteq Take(S, k)
  BY TakeClosed DEF UpTo
<1>4. Take(S, k) = UpTo(S, r.seq)
  BY <1>2, <1>3
<1> QED BY <1>1, <1>4

LEMMA TakeAtMost ==
  ASSUME NEW b \in Nat, NEW S, Rows(S, b), NEW k \in Nat
  PROVE  Cardinality(Take(S, k)) <= k
<1>1. CASE Take(S, k) = {}
  BY <1>1, FS_EmptySet
<1>2. CASE Take(S, k) # {}
  <2>1. Rows(Take(S, k), b)
    BY TakeRows
  <2>2. PICK r \in Take(S, k) : \A q \in Take(S, k) : q.seq <= r.seq
    BY <1>2, <2>1, LastRow
  <2> QED BY <2>2, TakePrefix
<1> QED BY <1>1, <1>2

\* Fetching one row more than asked for and dropping it takes the same page.
LEMMA TakeTwice ==
  ASSUME NEW b \in Nat, NEW S, Rows(S, b), NEW k \in Nat
  PROVE  Take(Take(S, k + 1), k) = Take(S, k)
<1> DEFINE F == Take(S, k + 1)
<1>1. F \subseteq S
  BY TakeRows
<1>2. \A r \in F : UpTo(F, r.seq) = UpTo(S, r.seq)
  <2> SUFFICES ASSUME NEW r \in F, NEW q \in S, q.seq <= r.seq PROVE q \in F
    BY <1>1 DEF UpTo
  <2>1. k + 1 \in Nat
    OBVIOUS
  <2> QED BY <2>1, TakeClosed
<1>3. \A r \in S : Cardinality(UpTo(S, r.seq)) <= k => r \in F
  <2> SUFFICES ASSUME NEW r \in S, Cardinality(UpTo(S, r.seq)) <= k
               PROVE  Cardinality(UpTo(S, r.seq)) <= k + 1
    BY Taken
  <2>1. r.seq \in Nat /\ r.seq <= r.seq
    BY DEF Rows
  <2>2. Cardinality(UpTo(S, r.seq)) \in Nat
    BY <2>1, UpToCount
  <2> QED BY <2>2
<1> HIDE DEF F
<1>4. Take(F, k) = {r \in F : Cardinality(UpTo(F, r.seq)) <= k}
  BY Taken
<1>5. Take(S, k) = {r \in S : Cardinality(UpTo(S, r.seq)) <= k}
  BY Taken
<1>6. Take(F, k) = Take(S, k)
  BY <1>1, <1>2, <1>3, <1>4, <1>5
<1> QED BY <1>6 DEF F

\* The extra row is there exactly when the page is not all there is.
LEMMA TakeMore ==
  ASSUME NEW b \in Nat, NEW S, Rows(S, b), NEW k \in Nat
  PROVE  (Cardinality(Take(S, k + 1)) > k) <=> (Take(S, k) # S)
<1> DEFINE F == Take(S, k + 1)
           T == Take(S, k)
<1>0. /\ F \subseteq S /\ T \subseteq S /\ IsFiniteSet(F) /\ IsFiniteSet(T)
      /\ Cardinality(F) \in Nat /\ Cardinality(T) \in Nat
  BY TakeRows, FS_CardinalityType DEF Rows
<1>1. ASSUME T = S PROVE ~ (Cardinality(F) > k)
  <2>1. Cardinality(F) <= Cardinality(T)
    BY <1>0, <1>1, FS_Subset
  <2>2. Cardinality(T) <= k
    BY TakeAtMost
  <2> QED BY <1>0, <2>1, <2>2
<1>2. ASSUME T # S PROVE Cardinality(F) > k
  <2>1. Rows(S \ T, b) /\ S \ T # {}
    BY <1>0, <1>2, FS_Subset DEF Rows
  <2>2. PICK r \in S \ T : \A q \in S \ T : r.seq <= q.seq
    BY <2>1, FirstRow
  <2>3. ASSUME NEW q \in T PROVE q.seq <= r.seq
    <3>1. q.seq \in Nat /\ r.seq \in Nat /\ q \in S
      BY <1>0 DEF Rows
    <3>2. ~ (r.seq <= q.seq)
      BY <2>2, TakeClosed
    <3> QED BY <3>1, <3>2
  <2>4. ASSUME NEW q \in UpTo(S, r.seq), q \notin T PROVE q = r
    <3>1. q \in S /\ q.seq <= r.seq /\ r.seq <= q.seq
      BY <2>2, <2>4 DEF UpTo
    <3> QED BY <3>1 DEF Rows
  <2>5. UpTo(S, r.seq) = T \cup {r}
    <3>1. r \in UpTo(S, r.seq)
      BY DEF UpTo, Rows
    <3>2. T \subseteq UpTo(S, r.seq)
      BY <1>0, <2>3 DEF UpTo
    <3> QED BY <2>4, <3>1, <3>2
  <2>6. Cardinality(UpTo(S, r.seq)) = Cardinality(T) + 1 /\ IsFiniteSet(UpTo(S, r.seq))
    BY <1>0, <2>5, FS_AddElement
  <2>7. ~ (Cardinality(UpTo(S, r.seq)) <= k)
    BY Taken
  <2>8. Cardinality(T) <= k
    BY TakeAtMost
  <2>9. Cardinality(UpTo(S, r.seq)) = k + 1
    BY <1>0, <2>6, <2>7, <2>8
  <2>10. r \in F
    BY <2>9, Taken
  <2>11. UpTo(S, r.seq) \subseteq F
    <3>1. k + 1 \in Nat
      OBVIOUS
    <3> QED BY <2>10, <3>1, TakeClosed DEF UpTo
  <2>12. Cardinality(UpTo(S, r.seq)) <= Cardinality(F)
    BY <1>0, <2>11, FS_Subset
  <2> QED BY <1>0, <2>9, <2>12
<1> QED BY <1>1, <1>2


-----------------------------------------------------------------------------
(* The answer of sync().                                                   *)

LEMMA AfterRows ==
  ASSUME FeedInv, NEW c \in Clients, NEW since \in Nat
  PROVE  Rows(After(c, since), seq) /\ seq \in Nat
<1>1. /\ IsFiniteSet(cat) /\ After(c, since) \subseteq cat /\ seq \in Nat
      /\ \A r \in cat : r.seq \in Nat /\ r.seq <= seq
      /\ \A r, s \in cat : r.seq = s.seq => r = s
  BY DEF FeedInv, FeedTypeOK, CatalogInv, Entry, After
<1> QED BY <1>1, FS_Subset DEF Rows

LEMMA ClampedLimit == ASSUME NEW limit \in Nat PROVE Clamp(limit) \in Nat /\ Clamp(limit) >= 1
BY FeedAssumption DEF Clamp

\* A page is the part of the feed from the watermark to next_since.
LEMMA PageRead ==
  ASSUME FeedInv, NEW c \in Clients, NEW k \in Nat, k >= 1, NEW p, p = Sync(c, mark[c], k)
  PROVE  /\ p \in [step: {"apply"}, rows: SUBSET Entry, next: Nat, more: BOOLEAN, late: SUBSET Nat]
         /\ mark[c] <= p.next /\ p.next <= seq
         /\ p.rows = {r \in After(c, mark[c]) : r.seq <= p.next}
         /\ p.more <=> \E r \in After(c, mark[c]) : ~ (r.seq <= p.next)
         /\ After(c, mark[c]) # {} => p.rows # {}
         /\ \A o \in open : o[1] <= p.next => o[1] \in p.late
<1>1. PICK since \in Nat : since = mark[c] /\ since <= seq
  BY DEF FeedInv, FeedTypeOK, MarkInv
<1>2. PICK S : S = After(c, since)
  OBVIOUS
<1>3. /\ Rows(S, seq) /\ seq \in Nat /\ S \subseteq Entry
      /\ \A r \in S : since < r.seq /\ r.seq \in Nat /\ r.seq <= seq
  BY <1>1, <1>2, AfterRows DEF After, Rows, FeedInv, FeedTypeOK, Entry
<1>4. PICK F : F = Take(S, k + 1)
  OBVIOUS
<1>5. PICK T : T = Take(S, k) /\ T = Take(F, k)
  BY <1>3, <1>4, TakeTwice
<1>6. PICK n : n = NextSince(T, since)
  OBVIOUS
<1>7. p = [step |-> "apply", rows |-> T, next |-> n, more |-> Cardinality(F) > k,
           late |-> {o[1] : o \in {o \in open : o[1] <= n}}]
  BY <1>1, <1>2, <1>4, <1>5, <1>6 DEF Sync
<1>8. /\ p.step = "apply" /\ p.rows = T /\ p.next = n /\ p.more = (Cardinality(F) > k)
      /\ p.late = {o[1] : o \in {o \in open : o[1] <= n}}
  BY <1>7
<1>9. S # {} => T # {}
  BY <1>3, <1>5, TakeSome
<1>10. /\ n \in Nat /\ since <= n /\ n <= seq
       /\ T = {r \in S : r.seq <= n}
  <2>1. CASE T = {}
    BY <1>1, <1>6, <1>9, <2>1 DEF NextSince
  <2>2. CASE T # {}
    <3>1. T \subseteq S /\ Rows(T, seq)
      <4>1. Rows(S, seq)
        BY <1>3
      <4>2. Take(S, k) \subseteq S /\ Rows(Take(S, k), seq)
        BY <4>1, TakeRows
      <4> QED BY <1>5, <4>2
    <3>2. PICK r \in T : \A q \in T : q.seq <= r.seq
      BY <1>3, <2>2, <3>1, LastRow
    <3>3. n = CHOOSE m \in {q.seq : q \in T} : \A q \in T : q.seq <= m
      BY <1>6, <2>2 DEF NextSince
    <3>4. n \in {q.seq : q \in T} /\ \A q \in T : q.seq <= n
      <4>1. \E m \in {q.seq : q \in T} : \A q \in T : q.seq <= m
        BY <3>2
      <4> QED BY <3>3, <4>1
    <3>5. n = r.seq
      <4>1. n <= r.seq /\ r.seq <= n /\ n \in Nat /\ r.seq \in Nat
        BY <1>3, <3>1, <3>2, <3>4
      <4> QED BY <4>1
    <3>6. T = UpTo(S, n)
      <4>1. Take(S, k) = UpTo(S, r.seq)
        BY <1>3, <1>5, <3>2, TakePrefix
      <4> QED BY <1>5, <3>5, <4>1
    <3> QED BY <1>3, <3>1, <3>5, <3>6 DEF UpTo
  <2> QED BY <2>1, <2>2
<1>11. p.more <=> \E r \in S : ~ (r.seq <= n)
  <2>1. p.more <=> T # S
    BY <1>3, <1>4, <1>5, <1>8, TakeMore
  <2> QED BY <1>10, <2>1
<1>12. p \in [step: {"apply"}, rows: SUBSET Entry, next: Nat, more: BOOLEAN, late: SUBSET Nat]
  <2>1. T \in SUBSET Entry
    BY <1>3, <1>10
  <2>2. {o[1] : o \in {o \in open : o[1] <= n}} \in SUBSET Nat
    BY DEF FeedInv, FeedTypeOK
  <2>3. (Cardinality(F) > k) \in BOOLEAN
    BY <1>8, <1>11
  <2> QED BY <1>7, <1>10, <2>1, <2>2, <2>3
<1>13. \A o \in open : o[1] <= n => o[1] \in p.late
  BY <1>8
<1> QED BY <1>1, <1>2, <1>8, <1>9, <1>10, <1>11, <1>12, <1>13

-----------------------------------------------------------------------------
(* The steps.                                                              *)

LEMMA InitFeed == Init => FeedInv
<1> SUFFICES ASSUME Init PROVE FeedInv
  OBVIOUS
<1>1. FeedTypeOK
  BY DEF Init, CatalogInit, FeedTypeOK, NoPage
<1>2. CatalogInv
  BY FS_EmptySet DEF Init, CatalogInit, CatalogInv
<1>3. OnlyOvertakenMissed /\ \A c \in Clients : MarkInv(c) /\ page[c].step = "none"
  BY DEF Init, CatalogInit, OnlyOvertakenMissed, MarkInv, NoPage
<1> QED BY <1>1, <1>2, <1>3 DEF FeedInv

\* A client's step leaves the catalogue and the other clients alone.
LEMMA ClientStepInv ==
  ASSUME FeedInv, NEW c \in Clients, UNCHANGED catVars, FeedTypeOK',
         \A d \in Clients \ {c} : /\ view'[d] = view[d] /\ mark'[d] = mark[d]
                                  /\ page'[d] = page[d] /\ late'[d] = late[d],
         MarkInv(c)', page'[c].step # "none" => PageInv(c)',
         \A r \in cat : (Matches(c, r) /\ r.seq <= mark'[c]) =>
           (r.id \in view'[c] <=> r.status = "active") \/ r.seq \in late'[c]
  PROVE  FeedInv'
<1>1. CatalogInv'
  BY DEF FeedInv, CatalogInv, catVars
<1>2. ASSUME NEW d \in Clients, d # c
      PROVE  MarkInv(d)' /\ (page'[d].step # "none" => PageInv(d)')
  BY <1>2 DEF FeedInv, MarkInv, PageInv, Agrees, Matches, catVars
<1>3. OnlyOvertakenMissed'
  <2> SUFFICES ASSUME NEW d \in Clients, NEW r \in cat, Matches(d, r), r.seq <= mark'[d]
               PROVE  (r.id \in view'[d] <=> r.status = "active") \/ r.seq \in late'[d]
    BY DEF OnlyOvertakenMissed, Agrees, Matches, catVars
  <2> QED BY DEF FeedInv, OnlyOvertakenMissed, Agrees
<1> QED BY <1>1, <1>2, <1>3 DEF FeedInv

LEMMA PullInv ==
  ASSUME FeedInv, NEW c \in Clients, NEW limit \in Nat, Pull(c, limit)
  PROVE  FeedInv'
<1>1. PICK k \in Nat : k >= 1 /\ k = Clamp(limit)
  BY ClampedLimit
<1>2. PICK p : p = Sync(c, mark[c], k)
  OBVIOUS
<1>3. page' = [page EXCEPT ![c] = p] /\ UNCHANGED <<catVars, view, mark, late, crashes>>
  BY <1>1, <1>2 DEF Pull
<1>4. /\ p \in [step: {"apply"}, rows: SUBSET Entry, next: Nat, more: BOOLEAN, late: SUBSET Nat]
      /\ mark[c] <= p.next /\ p.next <= seq
      /\ p.rows = {r \in After(c, mark[c]) : r.seq <= p.next}
      /\ \A o \in open : o[1] <= p.next => o[1] \in p.late
  BY <1>1, <1>2, PageRead
<1>5. FeedTypeOK /\ FeedTypeOK'
  BY <1>3, <1>4 DEF FeedInv, FeedTypeOK, catVars
<1>6. page'[c] = p /\ \A d \in Clients \ {c} : page'[d] = page[d]
  BY <1>3, <1>5 DEF FeedTypeOK
<1>7. MarkInv(c)'
  BY <1>3 DEF FeedInv, MarkInv, catVars
<1>8. PageInv(c)'
  <2>1. p.rows \subseteq cat /\ p.step # "save"
    BY <1>4 DEF After
  <2>2. \A r \in p.rows : mark[c] < r.seq /\ r.seq <= p.next /\ r.id <= lastId
    BY <1>4, <2>1 DEF After, FeedInv, CatalogInv
  <2>3. /\ \A r, s \in p.rows : r.id = s.id => r = s
        /\ \A r \in p.rows, s \in cat : r.id = s.id => r.seq <= s.seq
        /\ \A r \in p.rows, o \in open : r.id = o[2] => r.seq < o[1]
    BY <1>5, <2>1 DEF FeedInv, CatalogInv, FeedTypeOK, Entry
  <2>4. \A r \in cat : (Matches(c, r) /\ mark[c] < r.seq /\ r.seq <= p.next) => r \in p.rows
    BY <1>4, <1>5 DEF After, FeedTypeOK, Entry
  <2>5. UNCHANGED <<cat, seq, lastId, open, mark>>
    BY <1>3 DEF catVars
  <2> QED BY <1>4, <1>6, <2>1, <2>2, <2>3, <2>4, <2>5 DEF PageInv, Matches
<1>9. \A r \in cat : (Matches(c, r) /\ r.seq <= mark[c]) =>
        (r.id \in view[c] <=> r.status = "active") \/ r.seq \in late[c]
  BY DEF FeedInv, OnlyOvertakenMissed, Agrees
<1> QED BY <1>3, <1>5, <1>6, <1>7, <1>8, <1>9, ClientStepInv


LEMMA ApplyInv ==
  ASSUME FeedInv, NEW c \in Clients, ApplyPage(c)
  PROVE  FeedInv'
<1>1. FeedTypeOK /\ PageInv(c)
  BY DEF ApplyPage, FeedInv
<1>2. PICK p : p = page[c] /\ p.step = "apply"
  BY DEF ApplyPage
<1>3. /\ UNCHANGED <<cat, seq, lastId, open, mark, late, crashes>>
      /\ page' = [page EXCEPT ![c].step = "save"]
      /\ view' = [view EXCEPT ![c] = (@ \ {r.id : r \in p.rows})
                    \cup {r.id : r \in {r \in p.rows : r.status = "active"}}]
  BY <1>2 DEF ApplyPage, catVars
<1>4. /\ p \in [step: {"none", "apply", "save"}, rows: SUBSET Entry, next: Nat, more: BOOLEAN,
                late: SUBSET Nat]
      /\ view[c] \in SUBSET Nat /\ mark[c] \in Nat
  BY <1>1, <1>2 DEF FeedTypeOK
<1>5. PICK x : x = page'[c]
  OBVIOUS
<1>6. x.step = "save" /\ x.rows = p.rows /\ x.next = p.next /\ x.late = p.late /\ x.more = p.more
  BY <1>1, <1>2, <1>3, <1>4, <1>5 DEF FeedTypeOK
<1>7. PICK v : v = view'[c]
  OBVIOUS
<1>8. v = (view[c] \ {r.id : r \in p.rows})
            \cup {r.id : r \in {r \in p.rows : r.status = "active"}}
  BY <1>1, <1>3, <1>7 DEF FeedTypeOK
<1>9. FeedTypeOK'
  <2>1. v \in SUBSET Nat
    BY <1>4, <1>8 DEF Entry
  <2>2. view' \in [Clients -> SUBSET Nat]
    BY <1>1, <1>3, <1>7, <2>1 DEF FeedTypeOK
  <2>3. page' \in [Clients -> [step: {"none", "apply", "save"}, rows: SUBSET Entry,
                               next: Nat, more: BOOLEAN, late: SUBSET Nat]]
    BY <1>1, <1>3 DEF FeedTypeOK
  <2> QED BY <1>1, <1>3, <2>2, <2>3 DEF FeedTypeOK
<1>10. \A d \in Clients \ {c} : view'[d] = view[d] /\ page'[d] = page[d]
  BY <1>1, <1>3 DEF FeedTypeOK
<1>11. MarkInv(c)'
  BY <1>3 DEF FeedInv, MarkInv
<1>12. ASSUME NEW r \in p.rows PROVE r.id \in v <=> r.status = "active"
  BY <1>1, <1>2, <1>8 DEF PageInv
<1>13. PageInv(c)'
  <2>1. \A r \in p.rows : (r.id \in view'[c] <=> r.status = "active")
    BY <1>7, <1>12
  <2> QED BY <1>1, <1>2, <1>3, <1>5, <1>6, <2>1 DEF PageInv, Agrees, Matches
<1>14. ASSUME NEW r \in cat, Matches(c, r), r.seq <= mark[c]
       PROVE  (r.id \in v <=> r.status = "active") \/ r.seq \in late[c]
  <2>1. \A q \in p.rows : r.id # q.id
    <3> SUFFICES ASSUME NEW q \in p.rows, r.id = q.id PROVE FALSE
      OBVIOUS
    <3>1. mark[c] < q.seq /\ q.seq <= r.seq
      BY <1>1, <1>2 DEF PageInv
    <3>2. q.seq \in Nat /\ r.seq \in Nat
      BY <1>1, <1>4 DEF FeedTypeOK, Entry
    <3> QED BY <1>4, <1>14, <3>1, <3>2
  <2>2. r.id \in v <=> r.id \in view[c]
    BY <1>8, <2>1
  <2> QED BY <1>14, <2>2 DEF FeedInv, OnlyOvertakenMissed, Agrees
<1>15. UNCHANGED catVars
  BY <1>3 DEF catVars
<1> QED BY <1>3, <1>7, <1>9, <1>10, <1>11, <1>13, <1>14, <1>15, ClientStepInv

LEMMA SaveInv ==
  ASSUME FeedInv, NEW c \in Clients, SaveMark(c)
  PROVE  FeedInv'
<1>1. FeedTypeOK /\ PageInv(c)
  BY DEF SaveMark, FeedInv
<1>2. PICK p : p = page[c] /\ p.step = "save"
  BY DEF SaveMark
<1>3. /\ UNCHANGED <<cat, seq, lastId, open, view, crashes>>
      /\ mark' = [mark EXCEPT ![c] = p.next]
      /\ late' = [late EXCEPT ![c] = @ \cup p.late]
      /\ page' = [page EXCEPT ![c] = NoPage]
  BY <1>2 DEF SaveMark, catVars
<1>4. /\ p \in [step: {"none", "apply", "save"}, rows: SUBSET Entry, next: Nat, more: BOOLEAN,
                late: SUBSET Nat]
      /\ mark[c] \in Nat /\ late[c] \in SUBSET Nat
  BY <1>1, <1>2 DEF FeedTypeOK
<1>5. /\ mark'[c] = p.next /\ late'[c] = late[c] \cup p.late /\ page'[c] = NoPage
      /\ \A d \in Clients \ {c} : mark'[d] = mark[d] /\ late'[d] = late[d] /\ page'[d] = page[d]
  BY <1>1, <1>3 DEF FeedTypeOK
<1>6. FeedTypeOK'
  <2>1. mark' \in [Clients -> Nat] /\ late' \in [Clients -> SUBSET Nat]
    BY <1>1, <1>3, <1>4 DEF FeedTypeOK
  <2>2. page' \in [Clients -> [step: {"none", "apply", "save"}, rows: SUBSET Entry,
                               next: Nat, more: BOOLEAN, late: SUBSET Nat]]
    BY <1>1, <1>3 DEF FeedTypeOK, NoPage
  <2> QED BY <1>1, <1>3, <2>1, <2>2 DEF FeedTypeOK
<1>7. MarkInv(c)'
  BY <1>1, <1>2, <1>3, <1>5 DEF PageInv, MarkInv
<1>8. ASSUME NEW r \in cat, Matches(c, r), r.seq <= mark'[c]
      PROVE  (r.id \in view[c] <=> r.status = "active") \/ r.seq \in late'[c]
  <2>1. r.seq \in Nat
    BY <1>1 DEF FeedTypeOK, Entry
  <2>2. CASE r.seq <= mark[c]
    BY <1>5, <1>8, <2>2 DEF FeedInv, OnlyOvertakenMissed, Agrees
  <2>3. CASE mark[c] < r.seq
    <3>1. r \in p.rows \/ r.seq \in p.late
      BY <1>1, <1>2, <1>5, <1>8, <2>3 DEF PageInv
    <3> QED BY <1>1, <1>2, <1>5, <3>1 DEF PageInv, Agrees
  <2> QED BY <1>4, <2>1, <2>2, <2>3
<1>9. page'[c].step = "none" /\ UNCHANGED catVars
  BY <1>3, <1>5 DEF NoPage, catVars
<1> QED BY <1>3, <1>5, <1>6, <1>7, <1>8, <1>9, ClientStepInv

LEMMA CrashInv ==
  ASSUME FeedInv, NEW c \in Clients, Crash(c)
  PROVE  FeedInv'
<1>1. FeedTypeOK
  BY DEF FeedInv
<1>2. /\ UNCHANGED <<cat, seq, lastId, open, view, mark, late>>
      /\ page' = [page EXCEPT ![c] = NoPage] /\ crashes' = crashes + 1
  BY DEF Crash, catVars
<1>3. page'[c] = NoPage /\ \A d \in Clients \ {c} : page'[d] = page[d]
  BY <1>1, <1>2 DEF FeedTypeOK
<1>4. FeedTypeOK'
  <2>1. page' \in [Clients -> [step: {"none", "apply", "save"}, rows: SUBSET Entry,
                               next: Nat, more: BOOLEAN, late: SUBSET Nat]]
    BY <1>1, <1>2 DEF FeedTypeOK, NoPage
  <2> QED BY <1>1, <1>2, <2>1 DEF FeedTypeOK
<1>5. MarkInv(c)'
  BY <1>2 DEF FeedInv, MarkInv
<1>6. \A r \in cat : (Matches(c, r) /\ r.seq <= mark[c]) =>
        (r.id \in view[c] <=> r.status = "active") \/ r.seq \in late[c]
  BY DEF FeedInv, OnlyOvertakenMissed, Agrees
<1>7. page'[c].step = "none" /\ UNCHANGED catVars
  BY <1>2, <1>3 DEF NoPage, catVars
<1> QED BY <1>2, <1>3, <1>4, <1>5, <1>6, <1>7, ClientStepInv


LEMMA PageTyped ==
  ASSUME FeedTypeOK, NEW c \in Clients, NEW p, p = page[c]
  PROVE  p.next \in Nat /\ \A r \in p.rows : r.seq \in Nat /\ r.id \in Nat
<1>1. p.next \in Nat /\ p.rows \subseteq Entry
  BY DEF FeedTypeOK
<1>2. \A r \in Entry : r.seq \in Nat /\ r.id \in Nat
  BY DEF Entry
<1> QED BY <1>1, <1>2

\* A statement draws its sequence number.
LEMMA DrawInv ==
  ASSUME FeedInv, UNCHANGED clientVars, NEW i \in Nat, Draw(i), lastId' \in Nat,
         lastId <= lastId', i <= lastId', \A o \in open : o[2] # i
  PROVE  FeedInv'
<1>1. FeedTypeOK /\ CatalogInv
  BY DEF FeedInv
<1>2. PICK new : new = <<seq + 1, i>> /\ new[1] = seq + 1 /\ new[2] = i
  <2>1. PICK n : n = seq + 1
    OBVIOUS
  <2>2. PICK new : new = <<n, i>>
    OBVIOUS
  <2>3. new[1] = n /\ new[2] = i
    BY <2>2
  <2> QED BY <2>1, <2>2, <2>3
<1>3. /\ UNCHANGED <<cat, view, mark, page, late, crashes>> /\ seq' = seq + 1
      /\ open' = open \cup {new}
  BY <1>2 DEF Draw, clientVars
<1>4. /\ seq \in Nat /\ lastId \in Nat /\ new \in Nat \X Nat
      /\ \A r \in cat : r.seq \in Nat /\ r.seq <= seq /\ r.id \in Nat /\ r.id <= lastId
      /\ \A o \in open : o[1] \in Nat /\ o[1] <= seq /\ o[2] \in Nat /\ o[2] <= lastId
  BY <1>1, <1>2 DEF FeedTypeOK, CatalogInv, Entry
<1>5. \A o \in open' : o \in open \/ o = new
  BY <1>3
<1>6. FeedTypeOK'
  BY <1>1, <1>3, <1>4 DEF FeedTypeOK
<1>7. CatalogInv'
  <2>1. \A o, p \in open' : (o[1] = p[1] \/ o[2] = p[2]) => o = p
    BY <1>1, <1>2, <1>4, <1>5 DEF CatalogInv
  <2>2. \A o \in open' : o[1] <= seq' /\ o[2] <= lastId'
    BY <1>2, <1>3, <1>4, <1>5
  <2>3. \A o \in open', r \in cat : r.seq # o[1] /\ (r.id = o[2] => r.seq < o[1])
    BY <1>1, <1>2, <1>4, <1>5 DEF CatalogInv
  <2>4. \A r \in cat : r.seq <= seq' /\ r.id <= lastId'
    BY <1>3, <1>4
  <2> QED BY <1>1, <1>3, <2>1, <2>2, <2>3, <2>4 DEF CatalogInv
<1>8. ASSUME NEW c \in Clients PROVE MarkInv(c)'
  BY <1>1, <1>2, <1>3, <1>4, <1>5 DEF FeedInv, MarkInv, FeedTypeOK
<1>9. ASSUME NEW c \in Clients, page'[c].step # "none" PROVE PageInv(c)'
  <2>1. PICK p : p = page[c] /\ p = page'[c] /\ p.step # "none"
    BY <1>3, <1>9
  <2>2. p.next \in Nat /\ (\A r \in p.rows : r.seq \in Nat /\ r.id \in Nat) /\ mark[c] \in Nat
    <3>1. mark[c] \in Nat
      BY <1>1 DEF FeedTypeOK
    <3>2. p = page[c]
      BY <2>1
    <3> QED BY <1>1, <3>1, <3>2, PageTyped
  <2>3. PageInv(c)
    BY <2>1 DEF FeedInv
  <2>4. p.next <= seq /\ \A o \in open' : o[1] <= p.next => o[1] \in p.late
    BY <1>2, <1>4, <1>5, <2>1, <2>2, <2>3 DEF PageInv
  <2>5. \A r \in p.rows : r.seq <= p.next /\ r.id <= lastId
    BY <2>1, <2>3 DEF PageInv
  <2>6. ASSUME NEW r \in p.rows, NEW o \in open', r.id = o[2] PROVE r.seq < o[1]
    <3>1. CASE o \in open
      BY <2>1, <2>3, <2>6, <3>1 DEF PageInv
    <3>2. CASE o = new
      BY <1>2, <1>4, <2>2, <2>4, <2>5, <3>2
    <3> QED BY <1>5, <3>1, <3>2
  <2>7. p.next <= seq' /\ \A r \in p.rows : r.id <= lastId'
    BY <1>3, <1>4, <2>2, <2>4, <2>5
  <2> QED BY <1>3, <2>1, <2>3, <2>4, <2>6, <2>7 DEF PageInv, Agrees, Matches
<1>10. OnlyOvertakenMissed'
  BY <1>3 DEF FeedInv, OnlyOvertakenMissed, Agrees, Matches
<1> QED BY <1>6, <1>7, <1>8, <1>9, <1>10 DEF FeedInv

\* A transaction publishes a row under the number its statement drew.
LEMMA PublishInv ==
  ASSUME FeedInv, UNCHANGED clientVars, NEW o \in open, NEW q \in Entry,
         q.id = o[2], q.seq = o[1], NEW D \in SUBSET cat,
         \A r \in cat \ D : r.id # o[2], cat' = (cat \ D) \cup {q}, Close(o)
  PROVE  FeedInv'
<1>1. FeedTypeOK /\ CatalogInv
  BY DEF FeedInv
<1>2. UNCHANGED <<view, mark, page, late, crashes, seq, lastId>> /\ open' = open \ {o}
  BY DEF Close, clientVars
<1>3. \A r \in cat' : r \in cat \ D \/ r = q
  OBVIOUS
<1>4. \A p \in open' : p \in open /\ p # o /\ p[1] # o[1] /\ p[2] # o[2]
  BY <1>1, <1>2 DEF CatalogInv
<1>5. FeedTypeOK'
  BY <1>1, <1>2, <1>3 DEF FeedTypeOK
<1>6. CatalogInv'
  <2>1. IsFiniteSet(cat')
    <3>1. IsFiniteSet(cat \ D)
      BY <1>1, FS_Subset DEF CatalogInv
    <3> QED BY <3>1, FS_AddElement
  <2>2. \A r \in cat' : r.seq <= seq /\ r.id <= lastId
    BY <1>1, <1>3 DEF CatalogInv
  <2>3. \A r, s \in cat' : (r.id = s.id \/ r.seq = s.seq) => r = s
    BY <1>1, <1>3 DEF CatalogInv
  <2>4. \A p \in open', r \in cat' : r.seq # p[1] /\ (r.id = p[2] => r.seq < p[1])
    BY <1>1, <1>3, <1>4 DEF CatalogInv
  <2>5. /\ \A p \in open' : p[1] <= seq /\ p[2] <= lastId
        /\ \A p, u \in open' : (p[1] = u[1] \/ p[2] = u[2]) => p = u
    BY <1>1, <1>4 DEF CatalogInv
  <2> QED BY <1>2, <2>1, <2>2, <2>3, <2>4, <2>5 DEF CatalogInv
<1>7. ASSUME NEW c \in Clients PROVE MarkInv(c)'
  BY <1>2, <1>4 DEF FeedInv, MarkInv
<1>8. ASSUME NEW c \in Clients, page'[c].step # "none" PROVE PageInv(c)'
  <2>1. PICK p : p = page[c] /\ p = page'[c] /\ p.step # "none"
    BY <1>2, <1>8
  <2>2. PageInv(c)
    BY <2>1 DEF FeedInv
  <2>3. o[1] <= p.next => o[1] \in p.late
    BY <2>1, <2>2 DEF PageInv
  <2>4. \A r \in cat' : (Matches(c, r) /\ mark[c] < r.seq /\ r.seq <= p.next)
                          => r \in p.rows \/ r.seq \in p.late
    BY <1>3, <2>1, <2>2, <2>3 DEF PageInv
  <2>5. ASSUME NEW r \in p.rows, NEW s \in cat', r.id = s.id PROVE r.seq <= s.seq
    <3>1. CASE s \in cat
      BY <2>1, <2>2, <2>5, <3>1 DEF PageInv
    <3>2. CASE s = q
      <4>1. r.seq < q.seq
        BY <2>1, <2>2, <2>5, <3>2 DEF PageInv
      <4>2. r.seq \in Nat /\ q.seq \in Nat
        <5>1. p = page[c] /\ q.seq \in Nat
          BY <2>1 DEF Entry
        <5> QED BY <1>1, <5>1, PageTyped
      <4> QED BY <3>2, <4>1, <4>2
    <3> QED BY <1>3, <3>1, <3>2
  <2>6. /\ \A u \in open' : u[1] <= p.next => u[1] \in p.late
        /\ \A r \in p.rows, u \in open' : r.id = u[2] => r.seq < u[1]
    BY <1>4, <2>1, <2>2 DEF PageInv
  <2>7. p.step = "save" => \A r \in p.rows : (r.id \in view[c] <=> r.status = "active")
    BY <2>1, <2>2 DEF PageInv, Agrees
  <2>8. /\ mark[c] <= p.next /\ p.next <= seq
        /\ \A r \in p.rows : mark[c] < r.seq /\ r.seq <= p.next /\ r.id <= lastId
        /\ \A r, s \in p.rows : r.id = s.id => r = s
    BY <2>1, <2>2 DEF PageInv
  <2> QED BY <1>2, <2>1, <2>4, <2>5, <2>6, <2>7, <2>8 DEF PageInv, Agrees, Matches
<1>9. OnlyOvertakenMissed'
  <2> SUFFICES ASSUME NEW c \in Clients, NEW r \in cat', Matches(c, r), r.seq <= mark[c]
               PROVE  (r.id \in view[c] <=> r.status = "active") \/ r.seq \in late[c]
    BY <1>2 DEF OnlyOvertakenMissed, Agrees, Matches
  <2>1. CASE r \in cat
    BY <2>1 DEF FeedInv, OnlyOvertakenMissed, Agrees
  <2>2. CASE r = q
    BY <2>2 DEF FeedInv, MarkInv
  <2> QED BY <1>3, <2>1, <2>2
<1> QED BY <1>5, <1>6, <1>7, <1>8, <1>9 DEF FeedInv

\* A transaction is abandoned, or tombstones are purged.
LEMMA ShrinkInv ==
  ASSUME FeedInv, UNCHANGED clientVars, cat' \subseteq cat, open' \subseteq open,
         UNCHANGED <<seq, lastId>>
  PROVE  FeedInv'
<1>1. UNCHANGED <<view, mark, page, late, crashes>>
  BY DEF clientVars
<1>2. FeedTypeOK'
  BY <1>1 DEF FeedInv, FeedTypeOK
<1>3. CatalogInv'
  BY FS_Subset DEF FeedInv, CatalogInv
<1>4. ASSUME NEW c \in Clients PROVE MarkInv(c)' /\ (page'[c].step # "none" => PageInv(c)')
  BY <1>1 DEF FeedInv, MarkInv, PageInv, Agrees, Matches
<1>5. OnlyOvertakenMissed'
  BY <1>1 DEF FeedInv, OnlyOvertakenMissed, Agrees, Matches
<1> QED BY <1>2, <1>3, <1>4, <1>5 DEF FeedInv

LEMMA ChangeInv == ASSUME FeedInv, Change PROVE FeedInv'
<1>0. FeedTypeOK /\ CatalogInv /\ UNCHANGED clientVars
  BY DEF Change, FeedInv
<1>1. lastId \in Nat /\ \A r \in cat : r.id \in Nat /\ r.id <= lastId
  BY <1>0 DEF FeedTypeOK, CatalogInv, Entry
<1>2. CASE StartInsert
  <2>1. Draw(lastId + 1) /\ lastId' = lastId + 1
    BY <1>2 DEF StartInsert
  <2>2. \A o \in open : o[2] # lastId + 1
    BY <1>0, <1>1 DEF CatalogInv, FeedTypeOK
  <2>3. PICK i \in Nat : i = lastId + 1
    BY <1>1
  <2> QED BY <1>0, <1>1, <2>1, <2>2, <2>3, DrawInv
<1>3. CASE \E r \in cat : StartUpdate(r)
  <2>1. PICK r \in cat : StartUpdate(r)
    BY <1>3
  <2>2. PICK i \in Nat : i = r.id /\ i <= lastId
    BY <1>1
  <2>3. Draw(i) /\ lastId' = lastId /\ \A o \in open : o[2] # i
    BY <2>1, <2>2 DEF StartUpdate
  <2> QED BY <1>0, <1>1, <2>2, <2>3, DrawInv
<1>4. ASSUME NEW o \in open, PublishInsert(o) PROVE FeedInv'
  <2>1. PICK c \in Consumers, tr \in Triples :
          cat' = cat \cup {[id |-> o[2], owner |-> c, status |-> "active",
                            seq |-> o[1], triple |-> tr]}
    BY <1>4 DEF PublishInsert
  <2>2. PICK q : q = [id |-> o[2], owner |-> c, status |-> "active", seq |-> o[1], triple |-> tr]
    OBVIOUS
  <2>3. q \in Entry /\ q.id = o[2] /\ q.seq = o[1] /\ cat' = (cat \ {}) \cup {q}
    BY <1>0, <2>1, <2>2 DEF FeedTypeOK, Entry
  <2>4. Close(o) /\ \A r \in cat : r.id # o[2]
    BY <1>4 DEF PublishInsert
  <2>5. PICK D \in SUBSET cat : D = {}
    OBVIOUS
  <2> QED BY <1>0, <2>3, <2>4, <2>5, PublishInv
<1>5. ASSUME NEW o \in open, PublishUpdate(o) PROVE FeedInv'
  <2>1. PICK r \in cat : r.id = o[2] /\ \E u \in Updates(r) : cat' = (cat \ {r}) \cup {[u EXCEPT !.seq = o[1]]}
    BY <1>5 DEF PublishUpdate
  <2>2. PICK u \in Updates(r) : cat' = (cat \ {r}) \cup {[u EXCEPT !.seq = o[1]]}
    BY <2>1
  <2>3. u \in Entry /\ u.id = r.id
    <3>1. r \in Entry
      BY <1>0 DEF FeedTypeOK
    <3>2. \/ u = [r EXCEPT !.status = "hidden"] \/ u = [r EXCEPT !.status = "deleted"]
          \/ \E tr \in Triples : u = [r EXCEPT !.status = "active", !.triple = tr]
      BY <2>2 DEF Updates
    <3> QED BY <3>1, <3>2 DEF Entry
  <2>4. PICK q : q = [u EXCEPT !.seq = o[1]]
    OBVIOUS
  <2>5. q \in Entry /\ q.id = o[2] /\ q.seq = o[1]
    BY <1>0, <2>1, <2>3, <2>4 DEF FeedTypeOK, Entry
  <2>6. Close(o) /\ \A s \in cat \ {r} : s.id # o[2]
    BY <1>0, <1>5, <2>1 DEF PublishUpdate, CatalogInv
  <2> QED BY <1>0, <2>2, <2>4, <2>5, <2>6, PublishInv
<1>6. ASSUME NEW o \in open, Abandon(o) PROVE FeedInv'
  BY <1>0, <1>6, ShrinkInv DEF Abandon, Close
<1>7. ASSUME NEW T \in SUBSET cat, Purge(T) PROVE FeedInv'
  BY <1>0, <1>7, ShrinkInv DEF Purge
<1> QED BY <1>2, <1>3, <1>4, <1>5, <1>6, <1>7 DEF Change

LEMMA NextFeed == FeedInv /\ [Next]_vars => FeedInv'
<1> SUFFICES ASSUME FeedInv, [Next]_vars PROVE FeedInv'
  OBVIOUS
<1>1. CASE UNCHANGED vars
  BY <1>1, ShrinkInv DEF vars, catVars
<1>2. CASE Change
  BY <1>2, ChangeInv
<1>3. ASSUME NEW c \in Clients, ClientStep(c) \/ Crash(c) PROVE FeedInv'
  <2>1. \A limit \in 0 .. MaxSyncLimit + 1 : limit \in Nat
    OBVIOUS
  <2> QED BY <1>3, <2>1, PullInv, ApplyInv, SaveInv, CrashInv DEF ClientStep
<1> QED BY <1>1, <1>2, <1>3 DEF Next

LEMMA AlwaysFeedInv == Spec => []FeedInv
BY InitFeed, NextFeed, PTL DEF Spec

-----------------------------------------------------------------------------

\* Every variable of the feed and its clients keeps its type.
THEOREM FeedTypes == Spec => []FeedTypeOK
BY AlwaysFeedInv, PTL DEF FeedInv

\* A client that follows the feed of sync() misses nothing up to its watermark but
\* changes whose transaction was open when a page with a larger number was read,
\* whatever is inserted, changed or purged and wherever the client stops.
THEOREM NothingElseMissed == Spec => []OnlyOvertakenMissed
BY AlwaysFeedInv, PTL DEF FeedInv

\* Every answer of sync() is the part of the feed between the client's watermark and
\* next_since, has_more is exact, and a page is empty only when the feed is.
THEOREM PagesAreExact == Spec => PagesExact
<1>1. FeedInv /\ [Next]_vars => PageStep
  <2> SUFFICES ASSUME FeedInv, [Next]_vars, NEW c \in Clients, page[c] = NoPage, page'[c] # NoPage
               PROVE  LET p == page'[c] IN
                        /\ p.rows = After(c, mark[c]) \ After(c, p.next)
                        /\ p.more <=> After(c, p.next) # {}
                        /\ After(c, mark[c]) # {} => p.rows # {}
    BY DEF PageStep
  <2>0. page \in [Clients -> [step: {"none", "apply", "save"}, rows: SUBSET Entry,
                              next: Nat, more: BOOLEAN, late: SUBSET Nat]]
    BY DEF FeedInv, FeedTypeOK
  <2>1. ~ UNCHANGED vars /\ ~ Change
    BY DEF vars, clientVars, Change
  <2>2. PICK d \in Clients : ClientStep(d) \/ Crash(d)
    BY <2>1 DEF Next
  <2>3. ~ SaveMark(d) /\ ~ Crash(d) /\ ~ ApplyPage(d)
    <3>1. page[c].step = "none"
      BY DEF NoPage
    <3>2. ASSUME ApplyPage(d) PROVE FALSE
      <4>1. d # c
        BY <3>1, <3>2 DEF ApplyPage
      <4> QED BY <2>0, <3>2, <4>1 DEF ApplyPage
    <3>3. ASSUME SaveMark(d) \/ Crash(d) PROVE FALSE
      BY <2>0, <3>3 DEF SaveMark, Crash
    <3> QED BY <3>2, <3>3
  <2>4. PICK limit \in 0 .. MaxSyncLimit + 1 : Pull(d, limit)
    BY <2>2, <2>3 DEF ClientStep
  <2>5. PICK k \in Nat : k >= 1 /\ k = Clamp(limit)
    BY ClampedLimit
  <2>6. d = c
    BY <2>0, <2>4 DEF Pull
  <2>7. PICK p : p = page'[c] /\ p = Sync(c, mark[c], k)
    BY <2>0, <2>4, <2>5, <2>6 DEF Pull
  <2>8. /\ p.next \in Nat /\ mark[c] <= p.next
        /\ p.rows = {r \in After(c, mark[c]) : r.seq <= p.next}
        /\ p.more <=> \E r \in After(c, mark[c]) : ~ (r.seq <= p.next)
        /\ After(c, mark[c]) # {} => p.rows # {}
    BY <2>5, <2>7, PageRead
  <2>9. After(c, p.next) = {r \in After(c, mark[c]) : ~ (r.seq <= p.next)}
    BY <2>8 DEF After, FeedInv, FeedTypeOK, Entry
  <2>10. p.rows = After(c, mark[c]) \ After(c, p.next) /\ (p.more <=> After(c, p.next) # {})
    BY <2>8, <2>9
  <2> QED BY <2>7, <2>8, <2>10
<1>2. FeedInv /\ [Next]_vars => [PageStep]_vars
  BY <1>1
<1> QED BY <1>2, AlwaysFeedInv, PTL DEF Spec, PagesExact
=============================================================================
