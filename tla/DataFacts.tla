------------------------------ MODULE DataFacts ------------------------------
(***************************************************************************)
(* Facts about the data the model is built from, for data of any size:     *)
(* least elements and sums of sets of numbers, and the lists of ListModel. *)
(* Induction is over sets: a set that has 0 and with every number the next *)
(* one has them all.                                                       *)
(***************************************************************************)
EXTENDS ListModel, WellFoundedInduction, FiniteSetTheorems, SequenceTheorems, TLAPS

LEMMA LeastNatural ==
    ASSUME NEW T \in SUBSET Nat, T # {}
    PROVE  \E x \in T : \A y \in T : x <= y
<1> DEFINE R == OpToRel(<, Nat)
<1>1. PICK x \in T : \A y \in T : <<y, x>> \notin R
  <2>1. IsWellFoundedOn(R, Nat)
    BY NatLessThanWellFounded
  <2> HIDE DEF R
  <2> QED
    BY <2>1, WFMin
<1>2. \A y, z \in Nat : y < z => <<y, z>> \in R
  BY DEF OpToRel
<1>3. \A y \in T : ~(y < x)
  BY <1>1, <1>2
<1> QED
  BY <1>3

LEMMA SetInduction ==
    ASSUME NEW P, 0 \in P, \A n \in Nat : n \in P => n + 1 \in P
    PROVE  \A n \in Nat : n \in P
<1> SUFFICES ASSUME NEW m \in Nat, m \notin P PROVE FALSE
  OBVIOUS
<1> DEFINE T == Nat \ P
<1>1. PICK x \in T : \A y \in T : x <= y
  <2>1. T \in SUBSET Nat /\ T # {}
    OBVIOUS
  <2> HIDE DEF T
  <2> QED
    BY <2>1, LeastNatural
<1>2. x # 0 /\ x \in Nat
  OBVIOUS
<1>3. x - 1 \in Nat /\ ~(x <= x - 1) /\ x = (x - 1) + 1
  BY <1>2
<1>4. x - 1 \notin T
  BY <1>1, <1>3
<1> QED
  BY <1>3, <1>4

\* What Min is: a set of numbers has a least element.
LEMMA MinIsLeast ==
    ASSUME NEW T \in SUBSET Nat, T # {}
    PROVE  Min(T) \in T /\ \A y \in T : Min(T) <= y
BY LeastNatural DEF Min

-----------------------------------------------------------------------------
(* Sums *)

Pick(s) == CHOOSE x \in s : TRUE

\* The equation by which SumSet is defined.
SumsOf(S, f) ==
    f = [s \in SUBSET S |-> IF s = {} THEN 0 ELSE Pick(s) + f[s \ {Pick(s)}]]

LEMMA SumSetIsFold == \A S : SumSet(S) = (CHOOSE f : SumsOf(S, f))[S]
BY Zenon DEF SumSet, FoldSet, MapThenFoldSet, SumsOf, Pick

\* Without the element that is taken there is one less.
LEMMA OneLess ==
    ASSUME NEW S, IsFiniteSet(S), NEW s \in SUBSET S, s # {}
    PROVE  /\ Pick(s) \in s
           /\ s \ {Pick(s)} \in SUBSET S
           /\ Cardinality(s) \in Nat /\ Cardinality(s \ {Pick(s)}) = Cardinality(s) - 1
<1>1. Pick(s) \in s
  BY DEF Pick
<1>2. IsFiniteSet(s)
  BY FS_Subset
<1> QED
  BY <1>1, <1>2, FS_RemoveElement, FS_CardinalityType

\* Sums of the subsets with at most n elements.
Small(S, n) == {s \in SUBSET S : Cardinality(s) <= n}

LEMMA SomeSums ==
    ASSUME NEW S, IsFiniteSet(S)
    PROVE  \E f : SumsOf(S, f)
<1> DEFINE Sums(n, f) ==
             f = [s \in Small(S, n) |-> IF s = {} THEN 0 ELSE Pick(s) + f[s \ {Pick(s)}]]
           P == {n \in Nat : \E f : Sums(n, f)}
<1>e. \A s \in SUBSET S : Cardinality(s) \in Nat /\ (Cardinality(s) = 0 <=> s = {})
  BY FS_Subset, FS_CardinalityType, FS_EmptySet
<1>1. 0 \in P
  <2>1. Small(S, 0) = {{}}
    BY <1>e DEF Small
  <2>2. Sums(0, [s \in Small(S, 0) |-> 0])
    BY <2>1
  <2> QED
    BY <2>2
<1>2. ASSUME NEW n \in Nat, n \in P PROVE n + 1 \in P
  <2>1. PICK f : Sums(n, f)
    BY <1>2
  <2> DEFINE g == [s \in Small(S, n + 1) |-> IF s = {} THEN 0 ELSE Pick(s) + f[s \ {Pick(s)}]]
  <2>2. ASSUME NEW s \in Small(S, n + 1), s # {}
        PROVE  g[s \ {Pick(s)}] = f[s \ {Pick(s)}]
    <3> DEFINE t == s \ {Pick(s)}
    <3>1. t \in Small(S, n) /\ t \in Small(S, n + 1)
      BY <2>2, OneLess DEF Small
    <3> HIDE DEF t
    <3>2. f[t] = IF t = {} THEN 0 ELSE Pick(t) + f[t \ {Pick(t)}]
      BY <2>1, <3>1
    <3> QED
      BY <3>1, <3>2 DEF t
  <2>3. Sums(n + 1, g)
    BY <2>2
  <2> HIDE DEF g, Sums
  <2> QED
    BY <2>3
<1>3. Cardinality(S) \in P
  <2>1. Cardinality(S) \in Nat
    BY FS_CardinalityType
  <2> HIDE DEF P
  <2> QED
    BY <1>1, <1>2, <2>1, SetInduction
<1>4. Small(S, Cardinality(S)) = SUBSET S
  BY FS_Subset DEF Small
<1> QED
  BY <1>3, <1>4 DEF SumsOf

\* The sum of a finite set of numbers is a number.
LEMMA SumSetType ==
    ASSUME NEW S \in SUBSET Nat, IsFiniteSet(S)
    PROVE  SumSet(S) \in Nat
<1> DEFINE f == CHOOSE g : SumsOf(S, g)
           P == {n \in Nat : \A s \in Small(S, n) : f[s] \in Nat}
<1>1. SumsOf(S, f)
  BY SomeSums
<1>2. SumSet(S) = f[S]
  BY SumSetIsFold
<1> HIDE DEF f
<1>e. \A s \in SUBSET S : Cardinality(s) \in Nat /\ (Cardinality(s) = 0 <=> s = {})
  BY FS_Subset, FS_CardinalityType, FS_EmptySet
<1>f. \A s \in SUBSET S : f[s] = IF s = {} THEN 0 ELSE Pick(s) + f[s \ {Pick(s)}]
  BY <1>1 DEF SumsOf
<1>3. 0 \in P
  <2>1. ASSUME NEW s \in Small(S, 0) PROVE s = {} /\ s \in SUBSET S
    BY <1>e DEF Small
  <2> QED
    BY <1>f, <2>1
<1>4. ASSUME NEW n \in Nat, n \in P PROVE n + 1 \in P
  <2>1. ASSUME NEW s \in Small(S, n + 1) PROVE f[s] \in Nat
    <3>0. s \in SUBSET S /\ Cardinality(s) <= n + 1
      BY DEF Small
    <3>1. CASE s = {}
      BY <1>f, <3>0, <3>1
    <3>2. CASE s # {}
      <4> DEFINE t == s \ {Pick(s)}
      <4>1. t \in Small(S, n) /\ Pick(s) \in Nat
        <5>1. Pick(s) \in s /\ t \in SUBSET S /\ Cardinality(s) \in Nat /\ Cardinality(t) = Cardinality(s) - 1
          BY <3>0, <3>2, OneLess
        <5> HIDE DEF t
        <5>2. Cardinality(t) <= n
          BY <3>0, <5>1
        <5>3. Pick(s) \in Nat
          BY <3>0, <5>1
        <5> QED
          BY <5>1, <5>2, <5>3 DEF Small
      <4>2. f[t] \in Nat
        BY <1>4, <4>1
      <4>3. f[s] = Pick(s) + f[t]
        BY <1>f, <3>0, <3>2
      <4> HIDE DEF t
      <4> QED
        BY <4>1, <4>2, <4>3
    <3> QED
      BY <3>1, <3>2
  <2> QED
    BY <2>1
<1>5. Cardinality(S) \in Nat /\ S \in Small(S, Cardinality(S))
  BY FS_CardinalityType DEF Small
<1>6. Cardinality(S) \in P
  <2> HIDE DEF P
  <2> QED
    BY <1>3, <1>4, <1>5, SetInduction
<1> QED
  BY <1>2, <1>5, <1>6

-----------------------------------------------------------------------------
(* Folds of lists *)

LEMMA MaxIsGreatest ==
    ASSUME NEW n \in Nat, NEW s \in SUBSET (1..n), s # {}
    PROVE  Max(s) \in s /\ \A y \in s : Max(s) >= y
<1> DEFINE T == {k \in Nat : \A y \in s : y <= k}
<1>1. n \in T /\ T \in SUBSET Nat
  OBVIOUS
<1>2. PICK m \in T : \A k \in T : m <= k
  <2> HIDE DEF T
  <2> QED
    BY <1>1, LeastNatural
<1>3. m \in s
  <2> SUFFICES ASSUME m \notin s PROVE FALSE
    OBVIOUS
  <2>1. \A y \in s : y \in 1..n /\ y <= m /\ y # m
    BY <1>2
  <2>0. PICK y \in s : TRUE
    OBVIOUS
  <2>2. m \in Nat /\ m # 0
    BY <1>2, <2>0, <2>1
  <2>3. m - 1 \in T
    BY <2>1, <2>2
  <2> QED
    BY <1>2, <2>2, <2>3
<1>4. \A y \in s : m >= y
  BY <1>2
<1> QED
  BY <1>3, <1>4 DEF Max

\* Without its greatest element a set of positions is a set of earlier ones.
LEMMA WithoutMax ==
    ASSUME NEW n \in Nat, NEW s \in SUBSET (1..n + 1), s # {}
    PROVE  Max(s) \in 1..n + 1 /\ s \ {Max(s)} \in SUBSET (1..n)
<1>0. n + 1 \in Nat
  OBVIOUS
<1>1. Max(s) \in s /\ \A y \in s : Max(s) >= y
  BY <1>0, MaxIsGreatest
<1> DEFINE m == Max(s)
<1> HIDE DEF m
<1>3. m \in 1..n + 1 /\ \A y \in s : y \in 1..n + 1 /\ m >= y
  BY <1>1 DEF m
<1>2. \A y \in s \ {m} : y \in 1..n
  BY <1>3
<1> QED
  BY <1>3, <1>2 DEF m

LEMMA MaxOfAll ==
    ASSUME NEW n \in Nat
    PROVE  Max(1..n + 1) = n + 1 /\ (1..n + 1) \ {n + 1} = 1..n /\ 1..n + 1 # {}
<1>0. n + 1 \in Nat /\ n + 1 \in 1..n + 1
  OBVIOUS
<1>1. Max(1..n + 1) \in 1..n + 1 /\ \A y \in 1..n + 1 : Max(1..n + 1) >= y
  BY <1>0, MaxIsGreatest
<1> QED
  BY <1>0, <1>1

\* The equation by which a fold over n positions is defined, and its solution.
FoldOf(n, base, step, f) ==
    f = [s \in SUBSET (1..n) |-> IF s = {} THEN base ELSE step[<<Max(s), f[s \ {Max(s)}]>>]]

LEMMA FoldExists ==
    ASSUME NEW V, NEW N \in Nat, NEW base \in V, NEW step \in [(1..N) \X V -> V]
    PROVE  \E f \in [SUBSET (1..N) -> V] : FoldOf(N, base, step, f)
<1> DEFINE P == {n \in 0..N : \E f \in [SUBSET (1..n) -> V] : FoldOf(n, base, step, f)}
<1>1. 0 \in P
  <2> DEFINE f == [s \in SUBSET (1..0) |-> base]
  <2>1. SUBSET (1..0) = {{}}
    OBVIOUS
  <2>2. f \in [SUBSET (1..0) -> V] /\ FoldOf(0, base, step, f)
    BY <2>1 DEF FoldOf
  <2> QED
    BY <2>2
<1>2. ASSUME NEW n \in Nat, n \in P, n + 1 <= N PROVE n + 1 \in P
  <2>1. PICK f \in [SUBSET (1..n) -> V] : FoldOf(n, base, step, f)
    BY <1>2
  <2> DEFINE g == [s \in SUBSET (1..n + 1) |-> IF s = {} THEN base ELSE step[<<Max(s), f[s \ {Max(s)}]>>]]
  <2>2. ASSUME NEW s \in SUBSET (1..n + 1), s # {}
        PROVE  /\ step[<<Max(s), f[s \ {Max(s)}]>>] \in V
               /\ g[s \ {Max(s)}] = f[s \ {Max(s)}]
    <3> DEFINE t == s \ {Max(s)}
    <3>1. Max(s) \in 1..n + 1 /\ t \in SUBSET (1..n)
      BY <1>2, <2>2, WithoutMax
    <3>2. Max(s) \in 1..N /\ t \in SUBSET (1..n + 1)
      BY <1>2, <3>1
    <3> HIDE DEF t
    <3>3. step[<<Max(s), f[t]>>] \in V
      BY <3>1, <3>2
    <3>4. f[t] = IF t = {} THEN base ELSE step[<<Max(t), f[t \ {Max(t)}]>>]
      BY <2>1, <3>1 DEF FoldOf
    <3> QED
      BY <3>2, <3>3, <3>4 DEF t
  <2>3. g \in [SUBSET (1..n + 1) -> V]
    BY <2>2
  <2>4. FoldOf(n + 1, base, step, g)
    BY <2>2 DEF FoldOf
  <2> HIDE DEF g
  <2> QED
    BY <1>2, <2>3, <2>4
<1>3. N \in P
  <2> DEFINE Q == {n \in Nat : n <= N => n \in P}
  <2>1. 0 \in Q
    BY <1>1
  <2>2. ASSUME NEW n \in Nat, n \in Q PROVE n + 1 \in Q
    <3> HIDE DEF P
    <3> QED
      BY <1>2, <2>2
  <2>3. \A n \in Nat : n \in Q
    <3> HIDE DEF Q
    <3> QED
      BY <2>1, <2>2, SetInduction
  <2> HIDE DEF P
  <2> QED
    BY <2>3
<1> QED
  BY <1>3

-----------------------------------------------------------------------------
(* The rows of lists *)

RowsIn(list) == {list[i] : i \in 1..Len(list)}
IdsIn(rows) == {x.id : x \in rows}
Without(rows, ids) == {x \in rows : x.id \notin ids}

\* No two rows have the same id.
OneEach(list) == \A i, j \in 1..Len(list) : list[i].id = list[j].id => i = j

LEMMA RowOfFacts ==
    ASSUME NEW S, NEW list \in Seq(S), NEW item
    PROVE  \/ /\ RowOf(list, item) = 0
              /\ \A i \in 1..Len(list) : list[i].id # item.id
           \/ /\ RowOf(list, item) \in 1..Len(list)
              /\ list[RowOf(list, item)].id = item.id
<1> DEFINE I == {i \in 1..Len(list) : list[i].id = item.id}
<1>1. RowOf(list, item) = IF I # {} THEN Min(I) ELSE 0
  BY Zenon DEF RowOf, SelectInSeq
<1>2. I \in SUBSET Nat
  OBVIOUS
<1>3. I # {} => Min(I) \in I
  <2> HIDE DEF I
  <2> QED
    BY <1>2, MinIsLeast
<1> QED
  BY <1>1, <1>3

LEMMA ConcatFacts ==
    ASSUME NEW S, NEW a \in Seq(S), NEW b \in Seq(S)
    PROVE  /\ a \o b \in Seq(S) /\ Len(a \o b) = Len(a) + Len(b)
           /\ Len(a) \in Nat /\ Len(b) \in Nat
           /\ \A i \in 1..Len(a) + Len(b) :
                 (a \o b)[i] = IF i <= Len(a) THEN a[i] ELSE b[i - Len(a)]
BY ConcatProperties

LEMMA RemoveAtFacts ==
    ASSUME NEW S, NEW list \in Seq(S), NEW k \in 1..Len(list)
    PROVE  /\ RemoveAt(list, k) \in Seq(S) /\ Len(list) \in Nat
           /\ Len(RemoveAt(list, k)) = Len(list) - 1
           /\ \A i \in 1..Len(list) - 1 :
                 RemoveAt(list, k)[i] = IF i < k THEN list[i] ELSE list[i + 1]
<1> DEFINE n == Len(list)
           a == SubSeq(list, 1, k - 1)
           b == SubSeq(list, k + 1, n)
           r == a \o b
<1>0. n \in Nat /\ k \in 1..n
  OBVIOUS
<1>1. a \in Seq(S) /\ Len(a) = k - 1 /\ \A i \in 1..k - 1 : a[i] = list[i]
  OBVIOUS
<1>2. b \in Seq(S) /\ Len(b) = n - k /\ \A i \in 1..n - k : b[i] = list[k + i]
  OBVIOUS
<1>3. RemoveAt(list, k) = r
  BY DEF RemoveAt
<1> HIDE DEF a, b, n
<1>4. /\ r \in Seq(S) /\ Len(r) = Len(a) + Len(b)
      /\ \A i \in 1..Len(a) + Len(b) : r[i] = IF i <= Len(a) THEN a[i] ELSE b[i - Len(a)]
  BY <1>1, <1>2, ConcatFacts
<1> HIDE DEF r
<1>5. Len(r) = n - 1
  BY <1>0, <1>1, <1>2, <1>4
<1>6. ASSUME NEW i \in 1..n - 1 PROVE r[i] = IF i < k THEN list[i] ELSE list[i + 1]
  <2>0. i \in 1..Len(a) + Len(b)
    BY <1>0, <1>1, <1>2
  <2>1. CASE i < k
    BY <1>0, <1>1, <1>4, <2>0, <2>1
  <2>2. CASE i >= k
    <3>1. i - (k - 1) \in 1..n - k /\ k + (i - (k - 1)) = i + 1
      BY <1>0, <2>2
    <3>2. r[i] = b[i - (k - 1)]
      BY <1>0, <1>1, <1>4, <2>0, <2>2
    <3> QED
      BY <1>0, <1>2, <2>2, <3>1, <3>2
  <2> QED
    BY <1>0, <2>1, <2>2
<1> QED
  BY <1>0, <1>3, <1>4, <1>5, <1>6 DEF n

LEMMA InsertAtFacts ==
    ASSUME NEW S, NEW list \in Seq(S), NEW item \in S, NEW k \in 1..Len(list) + 1
    PROVE  /\ InsertAt(list, k, item) \in Seq(S) /\ Len(list) \in Nat
           /\ Len(InsertAt(list, k, item)) = Len(list) + 1
           /\ \A i \in 1..Len(list) + 1 :
                 InsertAt(list, k, item)[i] =
                     IF i < k THEN list[i] ELSE IF i = k THEN item ELSE list[i - 1]
<1> DEFINE n == Len(list)
           a == SubSeq(list, 1, k - 1)
           b == SubSeq(list, k, n)
           r == a \o <<item>> \o b
<1>0. n \in Nat /\ k \in 1..n + 1
  OBVIOUS
<1>1. a \in Seq(S) /\ Len(a) = k - 1 /\ \A i \in 1..k - 1 : a[i] = list[i]
  OBVIOUS
<1>2. b \in Seq(S) /\ Len(b) = n + 1 - k /\ \A i \in 1..n + 1 - k : b[i] = list[k + i - 1]
  OBVIOUS
<1>3. InsertAt(list, k, item) = r
  BY DEF InsertAt
<1> HIDE DEF a, b, n
<1>4. /\ r \in Seq(S) /\ Len(r) = Len(a) + 1 + Len(b)
      /\ \A i \in 1..Len(a) + 1 + Len(b) :
            r[i] = IF i <= Len(a) THEN a[i] ELSE IF i = Len(a) + 1 THEN item ELSE b[i - Len(a) - 1]
  <2> DEFINE c == a \o <<item>>
  <2>1. /\ c \in Seq(S) /\ Len(c) = Len(a) + 1
        /\ \A i \in 1..Len(a) + 1 : c[i] = IF i <= Len(a) THEN a[i] ELSE item
    BY <1>1
  <2> HIDE DEF c
  <2>2. /\ c \o b \in Seq(S) /\ Len(c \o b) = Len(c) + Len(b)
        /\ \A i \in 1..Len(c) + Len(b) : (c \o b)[i] = IF i <= Len(c) THEN c[i] ELSE b[i - Len(c)]
    BY <1>2, <2>1, ConcatFacts
  <2>3. r = c \o b
    BY DEF c
  <2>4. Len(a) \in Nat /\ Len(b) \in Nat
    BY <1>1, <1>2
  <2> HIDE DEF r
  <2>5. ASSUME NEW i \in 1..Len(a) + 1 + Len(b)
        PROVE  r[i] = IF i <= Len(a) THEN a[i] ELSE IF i = Len(a) + 1 THEN item ELSE b[i - Len(a) - 1]
    <3>1. i - Len(c) = i - Len(a) - 1
      BY <2>1, <2>4
    <3> QED
      BY <2>1, <2>2, <2>3, <2>4, <3>1
  <2> QED
    BY <2>1, <2>2, <2>3, <2>4, <2>5
<1> HIDE DEF r
<1>5. Len(r) = n + 1
  BY <1>0, <1>1, <1>2, <1>4
<1>6. ASSUME NEW i \in 1..n + 1
      PROVE  r[i] = IF i < k THEN list[i] ELSE IF i = k THEN item ELSE list[i - 1]
  <2>0. i \in 1..Len(a) + 1 + Len(b)
    BY <1>0, <1>1, <1>2
  <2>1. CASE i <= k
    BY <1>0, <1>1, <1>4, <2>0, <2>1
  <2>2. CASE i > k
    <3>1. i - (k - 1) - 1 \in 1..n + 1 - k /\ k + (i - (k - 1) - 1) - 1 = i - 1
      BY <1>0, <2>2
    <3>2. r[i] = b[i - (k - 1) - 1]
      BY <1>0, <1>1, <1>4, <2>0, <2>2
    <3> QED
      BY <1>0, <1>2, <2>2, <3>1, <3>2
  <2> QED
    BY <1>0, <2>1, <2>2
<1> QED
  BY <1>0, <1>3, <1>4, <1>5, <1>6 DEF n

\* A row is taken out.
LEMMA RemoveItemRows ==
    ASSUME NEW S, NEW list \in Seq(S), NEW item
    PROVE  /\ RemoveItem(list, item) \in Seq(S)
           /\ OneEach(list) =>
                 /\ OneEach(RemoveItem(list, item))
                 /\ RowsIn(RemoveItem(list, item)) = Without(RowsIn(list), {item.id})
<1> DEFINE k == RowOf(list, item)
           r == RemoveItem(list, item)
<1>1. CASE k = 0
  <2>1. r = list /\ \A i \in 1..Len(list) : list[i].id # item.id
    BY <1>1, RowOfFacts DEF RemoveItem
  <2> QED
    BY <2>1 DEF RowsIn, Without
<1>2. CASE k # 0
  <2>1. k \in 1..Len(list) /\ list[k].id = item.id
    BY <1>2, RowOfFacts
  <2>2. r = RemoveAt(list, k)
    BY <1>2 DEF RemoveItem
  <2> HIDE DEF k, r
  <2>3. /\ r \in Seq(S) /\ Len(list) \in Nat /\ Len(r) = Len(list) - 1
        /\ \A i \in 1..Len(list) - 1 : r[i] = IF i < k THEN list[i] ELSE list[i + 1]
    BY <2>1, <2>2, RemoveAtFacts
  <2>4. ASSUME OneEach(list) PROVE OneEach(r) /\ RowsIn(r) = Without(RowsIn(list), {item.id})
    <3> DEFINE at(i) == IF i < k THEN i ELSE i + 1
    <3>1. \A i \in 1..Len(r) : at(i) \in 1..Len(list) /\ at(i) # k /\ r[i] = list[at(i)]
      BY <2>1, <2>3
    <3>2. \A i, j \in 1..Len(r) : at(i) = at(j) => i = j
      BY <2>1, <2>3
    <3>3. \A i \in 1..Len(list) : i # k => \E j \in 1..Len(r) : at(j) = i
      <4> SUFFICES ASSUME NEW i \in 1..Len(list), i # k PROVE \E j \in 1..Len(r) : at(j) = i
        OBVIOUS
      <4>1. CASE i < k
        BY <2>1, <2>3, <4>1
      <4>2. CASE i > k
        <5>1. i - 1 \in 1..Len(r) /\ at(i - 1) = i
          BY <2>1, <2>3, <4>2
        <5> QED
          BY <5>1
      <4> QED
        BY <2>1, <2>3, <4>1, <4>2
    <3> HIDE DEF at
    <3>4. \A i \in 1..Len(list) : list[i].id # item.id <=> i # k
      BY <2>1, <2>4 DEF OneEach
    <3>5. OneEach(r)
      BY <2>4, <3>1, <3>2 DEF OneEach
    <3>6. RowsIn(r) = Without(RowsIn(list), {item.id})
      <4>1. \A x \in RowsIn(r) : x \in Without(RowsIn(list), {item.id})
        BY <3>1, <3>4 DEF RowsIn, Without
      <4>2. \A x \in Without(RowsIn(list), {item.id}) : x \in RowsIn(r)
        BY <3>1, <3>3, <3>4 DEF RowsIn, Without
      <4> QED
        BY <4>1, <4>2
    <3> QED
      BY <3>5, <3>6
  <2> QED
    BY <2>3, <2>4 DEF r
<1> QED
  BY <1>1, <1>2

\* An item takes the place of the row with its id, or comes as another one.
LEMMA UpdateItemRows ==
    ASSUME NEW S, NEW list \in Seq(S), NEW item \in S
    PROVE  /\ UpdateItem(list, item) \in Seq(S)
           /\ OneEach(list) =>
                 /\ OneEach(UpdateItem(list, item))
                 /\ RowsIn(UpdateItem(list, item)) =
                       Without(RowsIn(list), {item.id}) \cup {item}
<1> DEFINE k == RowOf(list, item)
           r == UpdateItem(list, item)
<1>0. Len(list) \in Nat /\ (list = <<>> <=> Len(list) = 0)
  OBVIOUS
<1>1. CASE k = 0
  <2> DEFINE last == IF list = <<>> THEN 1 ELSE Len(list)
  <2>1. last \in 1..Len(list) + 1 /\ \A i \in 1..Len(list) : list[i].id # item.id
    BY <1>0, <1>1, RowOfFacts
  <2>2. r = InsertAt(list, last, item)
    BY <1>1 DEF UpdateItem
  <2> HIDE DEF last, r, k
  <2>3. /\ r \in Seq(S) /\ Len(r) = Len(list) + 1
        /\ \A i \in 1..Len(list) + 1 :
              r[i] = IF i < last THEN list[i] ELSE IF i = last THEN item ELSE list[i - 1]
    <3> DEFINE q == InsertAt(list, last, item)
    <3>1. /\ q \in Seq(S) /\ Len(q) = Len(list) + 1
          /\ \A i \in 1..Len(list) + 1 :
                q[i] = IF i < last THEN list[i] ELSE IF i = last THEN item ELSE list[i - 1]
      BY <2>1, InsertAtFacts
    <3>2. r = q
      BY <2>2
    <3> HIDE DEF q
    <3> QED
      BY <3>1, <3>2
  <2> DEFINE at(i) == IF i < last THEN i ELSE i - 1
  <2>4. \A i \in 1..Len(r) : i # last => at(i) \in 1..Len(list) /\ r[i] = list[at(i)]
    BY <1>0, <2>1, <2>3
  <2>5. \A i, j \in 1..Len(r) : i # last /\ j # last /\ at(i) = at(j) => i = j
    BY <1>0, <2>1, <2>3
  <2>6. \A i \in 1..Len(list) : \E j \in 1..Len(r) : j # last /\ at(j) = i
    <3> SUFFICES ASSUME NEW i \in 1..Len(list) PROVE \E j \in 1..Len(r) : j # last /\ at(j) = i
      OBVIOUS
    <3>1. CASE i < last
      BY <1>0, <2>1, <2>3, <3>1
    <3>2. CASE i >= last
      <4>1. i + 1 \in 1..Len(r) /\ i + 1 # last /\ at(i + 1) = i
        BY <1>0, <2>1, <2>3, <3>2
      <4> QED
        BY <4>1
    <3> QED
      BY <1>0, <2>1, <3>1, <3>2
  <2>7. last \in 1..Len(r) /\ r[last] = item
    BY <1>0, <2>1, <2>3
  <2> HIDE DEF at
  <2>8. OneEach(list) => OneEach(r)
    <3> SUFFICES ASSUME OneEach(list), NEW i \in 1..Len(r), NEW j \in 1..Len(r), r[i].id = r[j].id
                 PROVE  i = j
      BY DEF OneEach
    <3>1. CASE i = last
      BY <2>1, <2>4, <2>7, <3>1
    <3>2. CASE j = last
      BY <2>1, <2>4, <2>7, <3>2
    <3>3. CASE i # last /\ j # last
      <4>1. list[at(i)].id = list[at(j)].id /\ at(i) \in 1..Len(list) /\ at(j) \in 1..Len(list)
        BY <2>4, <3>3
      <4>2. at(i) = at(j)
        BY <4>1 DEF OneEach
      <4> QED
        BY <2>5, <3>3, <4>2
    <3> QED
      BY <3>1, <3>2, <3>3
  <2>9. RowsIn(r) = RowsIn(list) \cup {item}
    BY <2>4, <2>6, <2>7 DEF RowsIn
  <2>10. RowsIn(list) = Without(RowsIn(list), {item.id})
    BY <2>1 DEF RowsIn, Without
  <2> QED
    BY <2>3, <2>8, <2>9, <2>10 DEF r
<1>2. CASE k # 0
  <2>1. k \in 1..Len(list) /\ list[k].id = item.id
    BY <1>2, RowOfFacts
  <2>2. r = [list EXCEPT ![k] = item]
    BY <1>2 DEF UpdateItem, ReplaceAt
  <2> HIDE DEF k, r
  <2>3. /\ r \in Seq(S) /\ Len(r) = Len(list) /\ r[k] = item
        /\ \A i \in 1..Len(list) : i # k => r[i] = list[i]
    BY <2>1, <2>2
  <2>4. \A i \in 1..Len(list) : r[i].id = list[i].id
    BY <2>1, <2>3
  <2>5. OneEach(list) => OneEach(r)
    BY <2>3, <2>4 DEF OneEach
  <2>6. ASSUME OneEach(list)
        PROVE  RowsIn(r) = Without(RowsIn(list), {item.id}) \cup {item}
    <3>1. \A i \in 1..Len(list) : list[i].id # item.id <=> i # k
      BY <2>1, <2>6 DEF OneEach
    <3> QED
      BY <2>1, <2>3, <3>1 DEF RowsIn, Without
  <2> QED
    BY <2>3, <2>5, <2>6 DEF r
<1> QED
  BY <1>1, <1>2

\* RemoveItems takes the rows of the items out one after the other.
RemovesOf(list, items, f) ==
    f = [s \in SUBSET DOMAIN items |->
            IF s = {} THEN list ELSE RemoveItem(f[s \ {Max(s)}], items[Max(s)])]

\* r[n] is the list after n of the items were taken out.
RemovalRun(r, list, items) ==
    /\ r[0] = list /\ r[Len(items)] = RemoveItems(list, items)
    /\ \A n \in 0..Len(items) - 1 : r[n + 1] = RemoveItem(r[n], items[n + 1])

LEMMA RemovesSteps ==
    ASSUME NEW S, NEW T, NEW list \in Seq(S), NEW items \in Seq(T)
    PROVE  \E r : RemovalRun(r, list, items)
<1> DEFINE N == Len(items)
           V == Seq(S)
           step == [p \in (1..N) \X V |-> RemoveItem(p[2], items[p[1]])]
           h == CHOOSE f : RemovesOf(list, items, f)
           r == [n \in 0..N |-> h[1..n]]
<1>0. N \in Nat /\ DOMAIN items = 1..N /\ list \in V /\ \A n \in 1..N : items[n] \in T
  OBVIOUS
<1>1. step \in [(1..N) \X V -> V]
  BY <1>0, RemoveItemRows
<1>2. \A n \in 1..N, v \in V : step[<<n, v>>] = RemoveItem(v, items[n])
  OBVIOUS
<1>3. RemoveItems(list, items) = h[DOMAIN items]
  BY Zenon DEF RemoveItems, FoldLeft, MapThenFoldSet, RemovesOf
<1> HIDE DEF N, V, step, h
<1>4. PICK f \in [SUBSET (1..N) -> V] : FoldOf(N, list, step, f)
  BY <1>0, <1>1, FoldExists
<1>5. RemovesOf(list, items, f)
  <2>1. ASSUME NEW s \in SUBSET (1..N), s # {}
        PROVE  step[<<Max(s), f[s \ {Max(s)}]>>] = RemoveItem(f[s \ {Max(s)}], items[Max(s)])
    <3>1. Max(s) \in 1..N /\ s \ {Max(s)} \in SUBSET (1..N)
      BY <1>0, <2>1, MaxIsGreatest
    <3>2. f[s \ {Max(s)}] \in V
      BY <1>4, <3>1
    <3> QED
      BY <1>2, <3>1, <3>2
  <2> QED
    BY <1>0, <1>4, <2>1 DEF FoldOf, RemovesOf
<1>6. RemovesOf(list, items, h)
  BY <1>5 DEF h
<1>7. \A s \in SUBSET (1..N) : h[s] = IF s = {} THEN list ELSE RemoveItem(h[s \ {Max(s)}], items[Max(s)])
  BY <1>0, <1>6 DEF RemovesOf
<1>8. r[0] = list /\ r[N] = RemoveItems(list, items)
  <2>1. 1..0 = {} /\ {} \in SUBSET (1..N) /\ 0 \in 0..N /\ N \in 0..N
    BY <1>0
  <2> QED
    BY <1>0, <1>3, <1>7, <2>1
<1>9. ASSUME NEW n \in 0..N - 1 PROVE r[n + 1] = RemoveItem(r[n], items[n + 1])
  <2>1. 1..n + 1 \in SUBSET (1..N) /\ n \in Nat /\ n \in 0..N /\ n + 1 \in 0..N
    BY <1>0
  <2>2. h[1..n + 1] = RemoveItem(h[1..n], items[n + 1])
    BY <1>7, <2>1, MaxOfAll
  <2> QED
    BY <2>1, <2>2
<1> HIDE DEF r
<1> QED
  BY <1>8, <1>9 DEF N, RemovalRun

\* Update puts the items in one after the other.
UpdatesOf(list, items, f) ==
    f = [s \in SUBSET DOMAIN items |->
            IF s = {} THEN list ELSE UpdateItem(f[s \ {Max(s)}], items[Max(s)])]

\* r[n] is the list after n of the items were put in.
UpdateRun(r, list, items) ==
    /\ r[0] = list /\ r[Len(items)] = Update(list, items)
    /\ \A n \in 0..Len(items) - 1 : r[n + 1] = UpdateItem(r[n], items[n + 1])

LEMMA UpdatesSteps ==
    ASSUME NEW S, NEW list \in Seq(S), NEW items \in Seq(S)
    PROVE  \E r : UpdateRun(r, list, items)
<1> DEFINE N == Len(items)
           V == Seq(S)
           step == [p \in (1..N) \X V |-> UpdateItem(p[2], items[p[1]])]
           h == CHOOSE f : UpdatesOf(list, items, f)
           r == [n \in 0..N |-> h[1..n]]
<1>0. N \in Nat /\ DOMAIN items = 1..N /\ list \in V /\ \A n \in 1..N : items[n] \in S
  OBVIOUS
<1>1. step \in [(1..N) \X V -> V]
  BY <1>0, UpdateItemRows
<1>2. \A n \in 1..N, v \in V : step[<<n, v>>] = UpdateItem(v, items[n])
  OBVIOUS
<1>3. Update(list, items) = h[DOMAIN items]
  BY Zenon DEF Update, FoldLeft, MapThenFoldSet, UpdatesOf
<1> HIDE DEF N, V, step, h
<1>4. PICK f \in [SUBSET (1..N) -> V] : FoldOf(N, list, step, f)
  BY <1>0, <1>1, FoldExists
<1>5. UpdatesOf(list, items, f)
  <2>1. ASSUME NEW s \in SUBSET (1..N), s # {}
        PROVE  step[<<Max(s), f[s \ {Max(s)}]>>] = UpdateItem(f[s \ {Max(s)}], items[Max(s)])
    <3>1. Max(s) \in 1..N /\ s \ {Max(s)} \in SUBSET (1..N)
      BY <1>0, <2>1, MaxIsGreatest
    <3>2. f[s \ {Max(s)}] \in V
      BY <1>4, <3>1
    <3> QED
      BY <1>2, <3>1, <3>2
  <2> QED
    BY <1>0, <1>4, <2>1 DEF FoldOf, UpdatesOf
<1>6. UpdatesOf(list, items, h)
  BY <1>5 DEF h
<1>7. \A s \in SUBSET (1..N) : h[s] = IF s = {} THEN list ELSE UpdateItem(h[s \ {Max(s)}], items[Max(s)])
  BY <1>0, <1>6 DEF UpdatesOf
<1>8. r[0] = list /\ r[N] = Update(list, items)
  <2>1. 1..0 = {} /\ {} \in SUBSET (1..N) /\ 0 \in 0..N /\ N \in 0..N
    BY <1>0
  <2> QED
    BY <1>0, <1>3, <1>7, <2>1
<1>9. ASSUME NEW n \in 0..N - 1 PROVE r[n + 1] = UpdateItem(r[n], items[n + 1])
  <2>1. 1..n + 1 \in SUBSET (1..N) /\ n \in Nat /\ n \in 0..N /\ n + 1 \in 0..N
    BY <1>0
  <2>2. h[1..n + 1] = UpdateItem(h[1..n], items[n + 1])
    BY <1>7, <2>1, MaxOfAll
  <2> QED
    BY <2>1, <2>2
<1> HIDE DEF r
<1> QED
  BY <1>8, <1>9 DEF N, UpdateRun

\* Several rows are taken out.
LEMMA RemoveItemsRows ==
    ASSUME NEW S, NEW T, NEW list \in Seq(S), NEW items \in Seq(T)
    PROVE  /\ RemoveItems(list, items) \in Seq(S)
           /\ OneEach(list) =>
                 /\ OneEach(RemoveItems(list, items))
                 /\ RowsIn(RemoveItems(list, items)) =
                       Without(RowsIn(list), IdsIn(RowsIn(items)))
<1>s. PICK r : RemovalRun(r, list, items)
  BY RemovesSteps
<1>2. /\ r[0] = list /\ r[Len(items)] = RemoveItems(list, items)
      /\ \A n \in 0..Len(items) - 1 : r[n + 1] = RemoveItem(r[n], items[n + 1])
  BY <1>s DEF RemovalRun
<1> DEFINE Right(n) ==
             /\ r[n] \in Seq(S)
             /\ OneEach(list) =>
                   /\ OneEach(r[n])
                   /\ RowsIn(r[n]) = Without(RowsIn(list), {items[j].id : j \in 1..n})
           P == {n \in Nat : n <= Len(items) => Right(n)}
<1>3. 0 \in P
  BY <1>2 DEF Without
<1>4. ASSUME NEW n \in Nat, n \in P PROVE n + 1 \in P
  <2> SUFFICES ASSUME n + 1 <= Len(items) PROVE Right(n + 1)
    OBVIOUS
  <2>0. Len(items) \in Nat
    OBVIOUS
  <2>1. Right(n) /\ n \in 0..Len(items) - 1
    BY <1>4, <2>0
  <2>2. r[n + 1] = RemoveItem(r[n], items[n + 1])
    BY <1>2, <2>1
  <2>3. 1..n + 1 = 1..n \cup {n + 1}
    OBVIOUS
  <2> DEFINE a == r[n]
             b == r[n + 1]
             x == items[n + 1]
  <2>a. a \in Seq(S) /\ b = RemoveItem(a, x)
    BY <2>1, <2>2
  <2> HIDE DEF a, b, x
  <2>b. b \in Seq(S) /\ (OneEach(a) =>
           OneEach(b) /\ RowsIn(b) = Without(RowsIn(a), {x.id}))
    BY <2>a, RemoveItemRows
  <2>4. r[n + 1] \in Seq(S)
    BY <2>b DEF b
  <2>5. ASSUME OneEach(list)
        PROVE  /\ OneEach(r[n + 1])
               /\ RowsIn(r[n + 1]) =
                     Without(RowsIn(list), {items[j].id : j \in 1..n + 1})
    <3>1. /\ OneEach(r[n + 1])
          /\ RowsIn(r[n + 1]) = Without(RowsIn(r[n]), {items[n + 1].id})
      BY <2>1, <2>5, <2>b DEF a, b, x
    <3>2. RowsIn(r[n]) = Without(RowsIn(list), {items[j].id : j \in 1..n})
      BY <2>1, <2>5
    <3> QED
      BY <2>3, <3>1, <3>2 DEF Without
  <2> QED
    BY <2>4, <2>5
<1>5. Len(items) \in Nat /\ Len(items) \in P
  <2>1. Len(items) \in Nat
    OBVIOUS
  <2> HIDE DEF P
  <2> QED
    BY <1>3, <1>4, <2>1, SetInduction
<1>6. Right(Len(items))
  BY <1>5
<1>7. Without(RowsIn(list), {items[j].id : j \in 1..Len(items)})
      = Without(RowsIn(list), IdsIn(RowsIn(items)))
  BY DEF RowsIn, IdsIn
<1> QED
  BY <1>2, <1>6, <1>7

\* Several items come, none of them twice.
LEMMA UpdateRows ==
    ASSUME NEW S, NEW list \in Seq(S), NEW items \in Seq(S)
    PROVE  /\ Update(list, items) \in Seq(S)
           /\ OneEach(list) /\ OneEach(items) =>
                 /\ OneEach(Update(list, items))
                 /\ RowsIn(Update(list, items)) =
                       Without(RowsIn(list), IdsIn(RowsIn(items)))
                       \cup RowsIn(items)
<1>s. PICK r : UpdateRun(r, list, items)
  BY UpdatesSteps
<1>2. /\ r[0] = list /\ r[Len(items)] = Update(list, items)
      /\ \A n \in 0..Len(items) - 1 : r[n + 1] = UpdateItem(r[n], items[n + 1])
  BY <1>s DEF UpdateRun
<1> DEFINE Former(n) == Without(RowsIn(list), {items[j].id : j \in 1..n})
           Come(n) == {items[j] : j \in 1..n}
           Right(n) ==
             /\ r[n] \in Seq(S)
             /\ OneEach(list) /\ OneEach(items) =>
                   OneEach(r[n]) /\ RowsIn(r[n]) = Former(n) \cup Come(n)
           P == {n \in Nat : n <= Len(items) => Right(n)}
<1>3. 0 \in P
  <2>1. Former(0) = RowsIn(list) /\ Come(0) = {}
    BY DEF Without
  <2> QED
    BY <1>2, <2>1
<1>4. ASSUME NEW n \in Nat, n \in P PROVE n + 1 \in P
  <2> SUFFICES ASSUME n + 1 <= Len(items) PROVE Right(n + 1)
    <3> HIDE DEF Right
    <3> QED
      OBVIOUS
  <2>0. Len(items) \in Nat /\ n + 1 \in 1..Len(items) /\ items[n + 1] \in S
    OBVIOUS
  <2>1. Right(n) /\ n \in 0..Len(items) - 1
    <3>1. n <= Len(items) /\ n \in 0..Len(items) - 1
      BY <2>0
    <3> HIDE DEF Right
    <3> QED
      BY <1>4, <3>1
  <2>2. r[n + 1] = UpdateItem(r[n], items[n + 1])
    BY <1>2, <2>1
  <2>3. 1..n + 1 = 1..n \cup {n + 1} /\ \A j \in 1..n : j \in 1..Len(items) /\ j # n + 1
    BY <2>0
  <2> DEFINE a == r[n]
             b == r[n + 1]
             x == items[n + 1]
  <2>a. a \in Seq(S) /\ x \in S /\ b = UpdateItem(a, x)
    BY <2>0, <2>1, <2>2
  <2> HIDE DEF a, b, x
  <2>b. b \in Seq(S) /\ (OneEach(a) =>
           OneEach(b) /\ RowsIn(b) = Without(RowsIn(a), {x.id}) \cup {x})
    BY <2>a, UpdateItemRows
  <2>4. r[n + 1] \in Seq(S)
    BY <2>b DEF b
  <2>5. ASSUME OneEach(list), OneEach(items)
        PROVE  OneEach(r[n + 1]) /\ RowsIn(r[n + 1]) = Former(n + 1) \cup Come(n + 1)
    <3>1. /\ OneEach(r[n + 1])
          /\ RowsIn(r[n + 1]) = Without(RowsIn(r[n]), {items[n + 1].id}) \cup {items[n + 1]}
      BY <2>1, <2>5, <2>b DEF a, b, x
    <3>2. RowsIn(r[n]) = Former(n) \cup Come(n)
      BY <2>1, <2>5
    <3>3. \A y \in Come(n) : y.id # items[n + 1].id
      BY <2>0, <2>3, <2>5 DEF OneEach
    <3>4. Without(Former(n), {items[n + 1].id}) = Former(n + 1)
      BY <2>3 DEF Without
    <3>5. Come(n + 1) = Come(n) \cup {items[n + 1]}
      BY <2>3
    <3> HIDE DEF Former, Come
    <3> QED
      BY <3>1, <3>2, <3>3, <3>4, <3>5 DEF Without
  <2> QED
    BY <2>4, <2>5
<1>5. Len(items) \in Nat /\ Len(items) \in P
  <2>1. Len(items) \in Nat
    OBVIOUS
  <2> HIDE DEF P
  <2> QED
    BY <1>3, <1>4, <2>1, SetInduction
<1>6. Right(Len(items))
  <2> HIDE DEF Right
  <2> QED
    BY <1>5
<1>7. Former(Len(items)) = Without(RowsIn(list), IdsIn(RowsIn(items)))
      /\ Come(Len(items)) = RowsIn(items)
  BY DEF RowsIn, IdsIn
<1> QED
  BY <1>2, <1>6, <1>7

\* The rows of a complete list, in the opposite order.
LEMMA ResetRows ==
    ASSUME NEW S, NEW items \in Seq(S)
    PROVE  /\ Reset(items) \in Seq(S)
           /\ RowsIn(Reset(items)) = RowsIn(items)
           /\ OneEach(items) => OneEach(Reset(items))
<1> DEFINE n == Len(items)
           r == Reset(items)
<1>1. n \in Nat /\ \A i \in 1..n : n - i + 1 \in 1..n /\ n - (n - i + 1) + 1 = i
  OBVIOUS
<1>2. r = [i \in 1..n |-> items[n - i + 1]]
  BY DEF Reset, Reverse
<1>3. r \in Seq(S) /\ Len(r) = n
  BY <1>1, <1>2
<1> HIDE DEF n, r
<1>4. \A i \in 1..n : r[i] = items[n - i + 1] /\ r[n - i + 1] = items[i]
  BY <1>1, <1>2
<1>e. Len(items) = n
  BY DEF n
<1>5. RowsIn(r) = RowsIn(items)
  <2>1. \A i \in 1..n : \E j \in 1..n : r[i] = items[j]
    BY <1>1, <1>4
  <2>2. \A i \in 1..n : \E j \in 1..n : items[i] = r[j]
    BY <1>1, <1>4
  <2>3. \A x \in RowsIn(r) : x \in RowsIn(items)
    BY <1>3, <1>e, <2>1 DEF RowsIn
  <2>4. \A x \in RowsIn(items) : x \in RowsIn(r)
    BY <1>3, <1>e, <2>2 DEF RowsIn
  <2> QED
    BY <2>3, <2>4
<1>6. ASSUME OneEach(items), NEW i \in 1..n, NEW j \in 1..n, r[i].id = r[j].id PROVE i = j
  <2>1. n - i + 1 = n - j + 1
    <3>1. items[n - i + 1].id = items[n - j + 1].id
      BY <1>4, <1>6
    <3> QED
      BY <1>1, <1>6, <1>e, <3>1 DEF OneEach
  <2> QED
    BY <1>1, <2>1
<1>7. OneEach(items) => OneEach(r)
  BY <1>3, <1>6 DEF OneEach
<1> QED
  BY <1>3, <1>5, <1>7 DEF r

\* New rows come at the end.
LEMMA InsertRows ==
    ASSUME NEW S, NEW list \in Seq(S), NEW items \in Seq(S)
    PROVE  /\ Insert(list, items) \in Seq(S)
           /\ RowsIn(Insert(list, items)) = RowsIn(list) \cup RowsIn(items)
           /\ OneEach(list) /\ OneEach(items)
              /\ (\A x \in RowsIn(list), y \in RowsIn(items) : x.id # y.id)
              => OneEach(Insert(list, items))
<1> DEFINE r == list \o items
           n == Len(list)
<1>1. /\ r \in Seq(S) /\ Len(r) = n + Len(items) /\ n \in Nat /\ Len(items) \in Nat
      /\ \A i \in 1..n + Len(items) : r[i] = IF i <= n THEN list[i] ELSE items[i - n]
  BY ConcatFacts
<1>2. Insert(list, items) = r
  BY DEF Insert
<1> HIDE DEF r, n
<1>3. \A i \in 1..Len(items) : r[n + i] = items[i] /\ n + i \in 1..n + Len(items)
  <2> SUFFICES ASSUME NEW i \in 1..Len(items)
               PROVE  r[n + i] = items[i] /\ n + i \in 1..n + Len(items)
    OBVIOUS
  <2>1. n + i \in 1..n + Len(items) /\ ~(n + i <= n) /\ (n + i) - n = i
    BY <1>1
  <2> QED
    BY <1>1, <2>1
<1>4. \A i \in 1..n : r[i] = list[i] /\ i \in 1..n + Len(items)
  BY <1>1
<1>5. ASSUME NEW i \in 1..n + Len(items)
      PROVE  \/ i \in 1..n /\ r[i] = list[i]
             \/ i > n /\ i - n \in 1..Len(items) /\ r[i] = items[i - n]
  BY <1>1
<1>e. Len(list) = n
  BY DEF n
<1>6. RowsIn(r) = RowsIn(list) \cup RowsIn(items)
  <2>1. \A x \in RowsIn(r) : x \in RowsIn(list) \cup RowsIn(items)
    BY <1>1, <1>5, <1>e DEF RowsIn
  <2>2. \A x \in RowsIn(list) : x \in RowsIn(r)
    BY <1>1, <1>4, <1>e DEF RowsIn
  <2>3. \A x \in RowsIn(items) : x \in RowsIn(r)
    <3> SUFFICES ASSUME NEW i \in 1..Len(items) PROVE items[i] \in RowsIn(r)
      BY DEF RowsIn
    <3>1. r[n + i] = items[i] /\ n + i \in 1..Len(r)
      BY <1>1, <1>3
    <3> QED
      BY <3>1 DEF RowsIn
  <2> QED
    BY <2>1, <2>2, <2>3
<1>7. ASSUME OneEach(list), OneEach(items),
             \A x \in RowsIn(list), y \in RowsIn(items) : x.id # y.id,
             NEW i \in 1..n + Len(items), NEW j \in 1..n + Len(items), r[i].id = r[j].id
      PROVE  i = j
  <2>0. \A k \in 1..n, l \in 1..Len(items) : list[k].id # items[l].id
    BY <1>7 DEF RowsIn, n
  <2>a. \/ i \in 1..n /\ r[i] = list[i]
        \/ i > n /\ i - n \in 1..Len(items) /\ r[i] = items[i - n]
    BY <1>5
  <2>b. \/ j \in 1..n /\ r[j] = list[j]
        \/ j > n /\ j - n \in 1..Len(items) /\ r[j] = items[j - n]
    BY <1>5
  <2>1. CASE i <= n /\ j <= n
    BY <1>1, <1>7, <1>e, <2>1, <2>a, <2>b DEF OneEach
  <2>2. CASE i > n /\ j > n
    <3>1. items[i - n].id = items[j - n].id /\ i - n \in 1..Len(items) /\ j - n \in 1..Len(items)
      BY <1>1, <1>7, <2>2, <2>a, <2>b
    <3>2. i - n = j - n
      BY <1>7, <3>1 DEF OneEach
    <3> QED
      BY <1>1, <3>2
  <2>3. CASE i <= n /\ j > n
    <3>1. list[i].id = items[j - n].id /\ i \in 1..n /\ j - n \in 1..Len(items)
      BY <1>1, <1>7, <2>3, <2>a, <2>b
    <3> QED
      BY <2>0, <3>1
  <2>4. CASE i > n /\ j <= n
    <3>1. items[i - n].id = list[j].id /\ j \in 1..n /\ i - n \in 1..Len(items)
      BY <1>1, <1>7, <2>4, <2>a, <2>b
    <3> QED
      BY <2>0, <3>1
  <2> QED
    BY <1>1, <2>1, <2>2, <2>3, <2>4
<1>8. OneEach(list) /\ OneEach(items)
      /\ (\A x \in RowsIn(list), y \in RowsIn(items) : x.id # y.id)
      => OneEach(r)
  BY <1>1, <1>7 DEF OneEach
<1> QED
  BY <1>1, <1>2, <1>6, <1>8

\* What an order of a set is.
LEMMA OrderFacts ==
    ASSUME NEW S, IsFiniteSet(S), NEW items \in SetToSeqs(S)
    PROVE  /\ items \in Seq(S)
           /\ RowsIn(items) = S
           /\ Len(items) = Cardinality(S) /\ Cardinality(S) \in Nat
           /\ \A i, j \in 1..Len(items) : items[i] = items[j] => i = j
<1> DEFINE n == Cardinality(S)
<1>1. n \in Nat /\ IsFiniteSet(1..n) /\ Cardinality(1..n) = n
  BY FS_CardinalityType, FS_Interval
<1>2. items \in [1..n -> S] /\ \A i, j \in 1..n : i # j => items[i] # items[j]
  BY DEF SetToSeqs
<1> HIDE DEF n
<1>3. items \in Seq(S) /\ Len(items) = n
  BY <1>1, <1>2
<1>4. items \in Injection(1..n, S)
  BY <1>2 DEF Injection, IsInjective
<1>5. items \in Surjection(1..n, S)
  BY <1>1, <1>4, FS_Injection DEF n
<1>6. \A x \in S : \E i \in 1..n : items[i] = x
  BY <1>5 DEF Surjection
<1> QED
  BY <1>1, <1>2, <1>3, <1>6 DEF RowsIn, n

\* As many ids as rows.
LEMMA DistinctRows ==
    ASSUME NEW S, NEW list \in Seq(S), OneEach(list)
    PROVE  Cardinality({list[i].id : i \in 1..Len(list)}) = Len(list)
<1> DEFINE n == Len(list)
           I == {list[i].id : i \in 1..n}
           f == [i \in 1..n |-> list[i].id]
<1>1. n \in Nat
  OBVIOUS
<1>2. f \in Bijection(1..n, I)
  BY DEF Bijection, Injection, Surjection, IsInjective, OneEach
<1>3. ExistsBijection(1..n, I)
  BY <1>2 DEF ExistsBijection
<1> HIDE DEF I
<1>4. Cardinality(I) = n
  BY <1>1, <1>3, FS_CountingElements
<1> QED
  BY <1>4 DEF I

LEMMA FiniteImage ==
    ASSUME NEW S, IsFiniteSet(S), NEW f
    PROVE  IsFiniteSet({f[x] : x \in S})
<1> DEFINE T == {f[x] : x \in S}
           g == [x \in S |-> f[x]]
<1>1. g \in Surjection(S, T)
  BY DEF Surjection
<1> HIDE DEF T, g
<1>2. IsFiniteSet(T)
  BY <1>1, FS_Surjection
<1> QED
  BY <1>2 DEF T

\* Whatever their order, items of different ids are different rows.
LEMMA OrderOneEach ==
    ASSUME NEW S, IsFiniteSet(S), NEW items \in SetToSeqs(S),
           \A x, y \in S : x.id = y.id => x = y
    PROVE  OneEach(items)
<1>1. /\ RowsIn(items) = S
      /\ \A i, j \in 1..Len(items) : items[i] = items[j] => i = j
  BY OrderFacts
<1>2. \A i \in 1..Len(items) : items[i] \in S
  BY <1>1 DEF RowsIn
<1> QED
  BY <1>1, <1>2 DEF OneEach

-----------------------------------------------------------------------------
(* The order of rows *)

\* The rows that two lists have in common are in the same order.
KeepsOrder(list, other) ==
    \A i, j \in 1..Len(list) : \A k, l \in 1..Len(other) :
        list[i].id = other[k].id /\ list[j].id = other[l].id => (i < j <=> k < l)

LEMMA OrderComposes ==
    ASSUME NEW a, NEW b, NEW c, KeepsOrder(a, b), KeepsOrder(b, c),
           \A i \in 1..Len(a), k \in 1..Len(c) :
              a[i].id = c[k].id => \E m \in 1..Len(b) : b[m].id = a[i].id
    PROVE  KeepsOrder(a, c)
<1> SUFFICES ASSUME NEW i \in 1..Len(a), NEW j \in 1..Len(a),
                    NEW k \in 1..Len(c), NEW l \in 1..Len(c),
                    a[i].id = c[k].id, a[j].id = c[l].id
             PROVE  i < j <=> k < l
  BY DEF KeepsOrder
<1>1. PICK m \in 1..Len(b) : b[m].id = a[i].id
  OBVIOUS
<1>2. PICK n \in 1..Len(b) : b[n].id = a[j].id
  OBVIOUS
<1>3. i < j <=> m < n
  BY <1>1, <1>2 DEF KeepsOrder
<1>4. m < n <=> k < l
  BY <1>1, <1>2 DEF KeepsOrder
<1> QED
  BY <1>3, <1>4

\* A list whose rows are those of another at increasing places, and new ones,
\* keeps the order of that one.
LEMMA PlacesKeepOrder ==
    ASSUME NEW list, NEW other, OneEach(list), NEW at,
           \A k \in 1..Len(other) :
              \/ at[k] \in 1..Len(list) /\ other[k].id = list[at[k]].id
              \/ \A i \in 1..Len(list) : list[i].id # other[k].id,
           \A k, l \in 1..Len(other) :
              at[k] \in 1..Len(list) /\ at[l] \in 1..Len(list) => (at[k] < at[l] <=> k < l)
    PROVE  KeepsOrder(list, other)
<1> SUFFICES ASSUME NEW i \in 1..Len(list), NEW j \in 1..Len(list),
                    NEW k \in 1..Len(other), NEW l \in 1..Len(other),
                    list[i].id = other[k].id, list[j].id = other[l].id
             PROVE  i < j <=> k < l
  BY DEF KeepsOrder
<1>1. at[k] \in 1..Len(list) /\ at[k] = i
  BY DEF OneEach
<1>2. at[l] \in 1..Len(list) /\ at[l] = j
  BY DEF OneEach
<1> QED
  BY <1>1, <1>2

LEMMA RemoveItemOrder ==
    ASSUME NEW S, NEW list \in Seq(S), NEW item, OneEach(list)
    PROVE  KeepsOrder(list, RemoveItem(list, item))
<1> DEFINE k == RowOf(list, item)
           r == RemoveItem(list, item)
<1>0. Len(list) \in Nat
  OBVIOUS
<1>1. CASE k = 0
  <2> DEFINE at == [i \in 1..Len(list) |-> i]
  <2>1. r = list
    BY <1>1 DEF RemoveItem
  <2>2. \A i \in 1..Len(r) : at[i] = i /\ at[i] \in 1..Len(list) /\ r[i].id = list[at[i]].id
    BY <2>1
  <2> HIDE DEF at, r
  <2>o. \A i, j \in 1..Len(r) : at[i] < at[j] <=> i < j
    BY <2>2
  <2>3. KeepsOrder(list, r)
    BY <2>2, <2>o, PlacesKeepOrder
  <2> QED
    BY <2>3 DEF r
<1>2. CASE k # 0
  <2>1. k \in 1..Len(list)
    BY <1>2, RowOfFacts
  <2>2. r = RemoveAt(list, k)
    BY <1>2 DEF RemoveItem
  <2> HIDE DEF k, r
  <2>3. /\ Len(r) = Len(list) - 1
        /\ \A i \in 1..Len(list) - 1 : r[i] = IF i < k THEN list[i] ELSE list[i + 1]
    BY <2>1, <2>2, RemoveAtFacts
  <2> DEFINE at == [i \in 1..Len(r) |-> IF i < k THEN i ELSE i + 1]
  <2>4. \A i \in 1..Len(r) : at[i] \in 1..Len(list) /\ r[i].id = list[at[i]].id
    BY <1>0, <2>1, <2>3
  <2>5. \A i, j \in 1..Len(r) : at[i] < at[j] <=> i < j
    BY <1>0, <2>1, <2>3
  <2> HIDE DEF at
  <2>6. KeepsOrder(list, r)
    BY <2>4, <2>5, PlacesKeepOrder
  <2> QED
    BY <2>6 DEF r
<1> QED
  BY <1>1, <1>2

LEMMA UpdateItemOrder ==
    ASSUME NEW S, NEW list \in Seq(S), NEW item \in S, OneEach(list)
    PROVE  KeepsOrder(list, UpdateItem(list, item))
<1> DEFINE k == RowOf(list, item)
           r == UpdateItem(list, item)
<1>0. Len(list) \in Nat /\ (list = <<>> <=> Len(list) = 0)
  OBVIOUS
<1>1. CASE k = 0
  <2> DEFINE last == IF list = <<>> THEN 1 ELSE Len(list)
  <2>1. last \in 1..Len(list) + 1 /\ \A i \in 1..Len(list) : list[i].id # item.id
    BY <1>0, <1>1, RowOfFacts
  <2>2. r = InsertAt(list, last, item)
    BY <1>1 DEF UpdateItem
  <2> HIDE DEF last, r, k
  <2>3. /\ Len(r) = Len(list) + 1
        /\ \A i \in 1..Len(list) + 1 :
              r[i] = IF i < last THEN list[i] ELSE IF i = last THEN item ELSE list[i - 1]
    BY <2>1, <2>2, InsertAtFacts
  <2> DEFINE at == [i \in 1..Len(r) |-> IF i < last THEN i ELSE IF i = last THEN 0 ELSE i - 1]
  <2>4. ASSUME NEW i \in 1..Len(r)
        PROVE  \/ at[i] \in 1..Len(list) /\ r[i].id = list[at[i]].id
               \/ \A j \in 1..Len(list) : list[j].id # r[i].id
    <3>1. CASE i = last
      BY <2>1, <2>3, <3>1
    <3>2. CASE i # last
      BY <1>0, <2>1, <2>3, <3>2
    <3> QED
      BY <3>1, <3>2
  <2>5. \A i, j \in 1..Len(r) :
           at[i] \in 1..Len(list) /\ at[j] \in 1..Len(list) => (at[i] < at[j] <=> i < j)
    BY <1>0, <2>1, <2>3
  <2> HIDE DEF at
  <2>6. KeepsOrder(list, r)
    BY <2>4, <2>5, PlacesKeepOrder
  <2> QED
    BY <2>6 DEF r
<1>2. CASE k # 0
  <2>1. k \in 1..Len(list) /\ list[k].id = item.id
    BY <1>2, RowOfFacts
  <2>2. r = [list EXCEPT ![k] = item]
    BY <1>2 DEF UpdateItem, ReplaceAt
  <2> HIDE DEF k, r
  <2> DEFINE at == [i \in 1..Len(list) |-> i]
  <2>3. Len(r) = Len(list) /\ \A i \in 1..Len(r) :
           at[i] = i /\ at[i] \in 1..Len(list) /\ r[i].id = list[at[i]].id
    BY <2>1, <2>2
  <2> HIDE DEF at
  <2>o. \A i, j \in 1..Len(r) : at[i] < at[j] <=> i < j
    BY <2>3
  <2>4. KeepsOrder(list, r)
    BY <2>3, <2>o, PlacesKeepOrder
  <2> QED
    BY <2>4 DEF r
<1> QED
  BY <1>1, <1>2

LEMMA RemoveItemsOrder ==
    ASSUME NEW S, NEW T, NEW list \in Seq(S), NEW items \in Seq(T), OneEach(list)
    PROVE  KeepsOrder(list, RemoveItems(list, items))
<1>s. PICK r : RemovalRun(r, list, items)
  BY RemovesSteps
<1>1. /\ r[0] = list /\ r[Len(items)] = RemoveItems(list, items)
      /\ \A n \in 0..Len(items) - 1 : r[n + 1] = RemoveItem(r[n], items[n + 1])
  BY <1>s DEF RemovalRun
<1> DEFINE Right(n) == r[n] \in Seq(S) /\ OneEach(r[n]) /\ KeepsOrder(list, r[n])
           P == {n \in Nat : n <= Len(items) => Right(n)}
<1>2. 0 \in P
  <2>1. KeepsOrder(list, list)
    BY DEF KeepsOrder, OneEach
  <2> QED
    BY <1>1, <2>1
<1>3. ASSUME NEW n \in Nat, n \in P, n + 1 <= Len(items) PROVE Right(n + 1)
  <2>0. Len(items) \in Nat
    OBVIOUS
  <2>1. Right(n) /\ n \in 0..Len(items) - 1
    BY <1>3, <2>0
  <2> DEFINE a == r[n]
             b == r[n + 1]
             x == items[n + 1]
  <2>2. a \in Seq(S) /\ OneEach(a) /\ KeepsOrder(list, a) /\ b = RemoveItem(a, x)
    BY <1>1, <2>1
  <2> HIDE DEF a, b, x
  <2>3. b \in Seq(S) /\ OneEach(b) /\ RowsIn(b) = Without(RowsIn(a), {x.id})
    BY <2>2, RemoveItemRows
  <2>4. KeepsOrder(a, b)
    BY <2>2, RemoveItemOrder
  <2>5. \A k \in 1..Len(b) : \E m \in 1..Len(a) : a[m].id = b[k].id
    BY <2>3 DEF RowsIn, Without
  <2>6. KeepsOrder(list, b)
    BY <2>2, <2>4, <2>5, OrderComposes
  <2> QED
    BY <2>3, <2>6 DEF b
<1>4. Len(items) \in Nat /\ Len(items) \in P
  <2>1. Len(items) \in Nat
    OBVIOUS
  <2>2. ASSUME NEW n \in Nat, n \in P PROVE n + 1 \in P
    <3> HIDE DEF Right
    <3> QED
      BY <1>3, <2>2
  <2> HIDE DEF P
  <2> QED
    BY <1>2, <2>1, <2>2, SetInduction
<1>5. Right(Len(items))
  BY <1>4
<1> QED
  BY <1>1, <1>5

LEMMA UpdateOrder ==
    ASSUME NEW S, NEW list \in Seq(S), NEW items \in Seq(S), OneEach(list)
    PROVE  KeepsOrder(list, Update(list, items))
<1>s. PICK r : UpdateRun(r, list, items)
  BY UpdatesSteps
<1>1. /\ r[0] = list /\ r[Len(items)] = Update(list, items)
      /\ \A n \in 0..Len(items) - 1 : r[n + 1] = UpdateItem(r[n], items[n + 1])
  BY <1>s DEF UpdateRun
<1> DEFINE Right(n) == /\ r[n] \in Seq(S) /\ OneEach(r[n]) /\ KeepsOrder(list, r[n])
                       /\ \A i \in 1..Len(list) : \E m \in 1..Len(r[n]) : r[n][m].id = list[i].id
           P == {n \in Nat : n <= Len(items) => Right(n)}
<1>2. 0 \in P
  <2>1. KeepsOrder(list, list)
    BY DEF KeepsOrder, OneEach
  <2> QED
    BY <1>1, <2>1
<1>3. ASSUME NEW n \in Nat, n \in P, n + 1 <= Len(items) PROVE Right(n + 1)
  <2>0. Len(items) \in Nat /\ items[n + 1] \in S
    BY <1>3
  <2>1. Right(n) /\ n \in 0..Len(items) - 1
    BY <1>3, <2>0
  <2> DEFINE a == r[n]
             b == r[n + 1]
             x == items[n + 1]
  <2>2. /\ a \in Seq(S) /\ OneEach(a) /\ KeepsOrder(list, a) /\ b = UpdateItem(a, x) /\ x \in S
        /\ \A i \in 1..Len(list) : \E m \in 1..Len(a) : a[m].id = list[i].id
    BY <1>1, <2>0, <2>1
  <2> HIDE DEF a, b, x
  <2>3. b \in Seq(S) /\ OneEach(b) /\ RowsIn(b) = Without(RowsIn(a), {x.id}) \cup {x}
    BY <2>2, UpdateItemRows
  <2>4. KeepsOrder(a, b)
    BY <2>2, UpdateItemOrder
  <2>5. KeepsOrder(list, b)
    BY <2>2, <2>4, OrderComposes
  <2>6. ASSUME NEW i \in 1..Len(list) PROVE \E m \in 1..Len(b) : b[m].id = list[i].id
    <3>1. PICK m \in 1..Len(a) : a[m].id = list[i].id
      BY <2>2
    <3>2. \E y \in RowsIn(b) : y.id = list[i].id
      BY <2>3, <3>1 DEF RowsIn, Without
    <3> QED
      BY <3>2 DEF RowsIn
  <2> QED
    BY <2>3, <2>5, <2>6 DEF b
<1>4. Len(items) \in Nat /\ Len(items) \in P
  <2>1. Len(items) \in Nat
    OBVIOUS
  <2>2. ASSUME NEW n \in Nat, n \in P PROVE n + 1 \in P
    <3> HIDE DEF Right
    <3> QED
      BY <1>3, <2>2
  <2> HIDE DEF P
  <2> QED
    BY <1>2, <2>1, <2>2, SetInduction
<1>5. Right(Len(items))
  BY <1>4
<1> QED
  BY <1>1, <1>5

LEMMA InsertOrder ==
    ASSUME NEW S, NEW list \in Seq(S), NEW items \in Seq(S), OneEach(Insert(list, items))
    PROVE  KeepsOrder(list, Insert(list, items))
<1> DEFINE r == Insert(list, items)
<1>1. /\ Len(r) = Len(list) + Len(items) /\ Len(list) \in Nat /\ Len(items) \in Nat
      /\ \A i \in 1..Len(list) + Len(items) :
            r[i] = IF i <= Len(list) THEN list[i] ELSE items[i - Len(list)]
  BY ConcatFacts DEF Insert
<1> HIDE DEF r
<1>2. \A i \in 1..Len(list) : i \in 1..Len(r) /\ r[i] = list[i]
  BY <1>1
<1>3. OneEach(r)
  BY DEF r
<1>4. \A i \in 1..Len(list), k \in 1..Len(r) : list[i].id = r[k].id => i = k
  BY <1>2, <1>3 DEF OneEach
<1>5. KeepsOrder(list, r)
  BY <1>4 DEF KeepsOrder
<1> QED
  BY <1>5 DEF r

-----------------------------------------------------------------------------
(* Rows that are kept *)

KeepRow(kept, x, rows) == IF x \in rows THEN Append(kept, x) ELSE kept

KeptsOf(list, rows, f) ==
    f = [s \in SUBSET DOMAIN list |->
            IF s = {} THEN <<>> ELSE KeepRow(f[s \ {Max(s)}], list[Max(s)], rows)]

\* r[n] has what is kept of the first n rows.
KeepRun(r, list, rows) ==
    /\ r[0] = <<>> /\ r[Len(list)] = Kept(list, rows)
    /\ \A n \in 0..Len(list) - 1 : r[n + 1] = KeepRow(r[n], list[n + 1], rows)

LEMMA KeptSteps ==
    ASSUME NEW S, NEW list \in Seq(S), NEW rows
    PROVE  \E r : KeepRun(r, list, rows)
<1> DEFINE N == Len(list)
           V == Seq(S)
           step == [p \in (1..N) \X V |-> KeepRow(p[2], list[p[1]], rows)]
           h == CHOOSE f : KeptsOf(list, rows, f)
           r == [n \in 0..N |-> h[1..n]]
<1>0. N \in Nat /\ DOMAIN list = 1..N /\ <<>> \in V /\ \A n \in 1..N : list[n] \in S
  OBVIOUS
<1>1. step \in [(1..N) \X V -> V]
  BY <1>0 DEF KeepRow
<1>2. \A n \in 1..N, v \in V : step[<<n, v>>] = KeepRow(v, list[n], rows)
  OBVIOUS
<1>3. Kept(list, rows) = h[DOMAIN list]
  BY Zenon DEF Kept, FoldLeft, MapThenFoldSet, KeptsOf, KeepRow
<1> HIDE DEF N, V, step, h
<1>4. PICK f \in [SUBSET (1..N) -> V] : FoldOf(N, <<>>, step, f)
  BY <1>0, <1>1, FoldExists
<1>5. KeptsOf(list, rows, f)
  <2>1. ASSUME NEW s \in SUBSET (1..N), s # {}
        PROVE  step[<<Max(s), f[s \ {Max(s)}]>>] = KeepRow(f[s \ {Max(s)}], list[Max(s)], rows)
    <3>1. Max(s) \in 1..N /\ s \ {Max(s)} \in SUBSET (1..N)
      BY <1>0, <2>1, MaxIsGreatest
    <3>2. f[s \ {Max(s)}] \in V
      BY <1>4, <3>1
    <3> QED
      BY <1>2, <3>1, <3>2
  <2> QED
    BY <1>0, <1>4, <2>1 DEF FoldOf, KeptsOf
<1>6. KeptsOf(list, rows, h)
  BY <1>5 DEF h
<1>7. \A s \in SUBSET (1..N) :
         h[s] = IF s = {} THEN <<>> ELSE KeepRow(h[s \ {Max(s)}], list[Max(s)], rows)
  BY <1>0, <1>6 DEF KeptsOf
<1>8. r[0] = <<>> /\ r[N] = Kept(list, rows)
  <2>1. 1..0 = {} /\ {} \in SUBSET (1..N) /\ 0 \in 0..N /\ N \in 0..N
    BY <1>0
  <2> QED
    BY <1>0, <1>3, <1>7, <2>1
<1>9. ASSUME NEW n \in 0..N - 1 PROVE r[n + 1] = KeepRow(r[n], list[n + 1], rows)
  <2>1. 1..n + 1 \in SUBSET (1..N) /\ n \in Nat /\ n \in 0..N /\ n + 1 \in 0..N
    BY <1>0
  <2>2. h[1..n + 1] = KeepRow(h[1..n], list[n + 1], rows)
    BY <1>7, <2>1, MaxOfAll
  <2> QED
    BY <2>1, <2>2
<1> HIDE DEF r
<1> QED
  BY <1>8, <1>9 DEF N, KeepRun

\* Every row is there once.
NoRowTwice(list) == \A i, j \in 1..Len(list) : list[i] = list[j] => i = j

LEMMA AppendRows ==
    ASSUME NEW S, NEW list \in Seq(S), NEW x \in S
    PROVE  /\ Append(list, x) \in Seq(S) /\ Len(Append(list, x)) = Len(list) + 1
           /\ RowsIn(Append(list, x)) = RowsIn(list) \cup {x}
           /\ OneEach(list) /\ (\A y \in RowsIn(list) : y.id # x.id) => OneEach(Append(list, x))
           /\ NoRowTwice(list) /\ x \notin RowsIn(list) => NoRowTwice(Append(list, x))
<1> DEFINE r == Append(list, x)
<1>1. /\ r \in Seq(S) /\ Len(list) \in Nat /\ Len(r) = Len(list) + 1
      /\ \A i \in 1..Len(list) : r[i] = list[i] /\ i \in 1..Len(r)
      /\ r[Len(list) + 1] = x /\ Len(list) + 1 \in 1..Len(r)
      /\ \A i \in 1..Len(r) : i \in 1..Len(list) \/ i = Len(list) + 1
  OBVIOUS
<1> HIDE DEF r
<1>2. RowsIn(r) = RowsIn(list) \cup {x}
  BY <1>1 DEF RowsIn
<1>3. OneEach(list) /\ (\A y \in RowsIn(list) : y.id # x.id) => OneEach(r)
  BY <1>1 DEF OneEach, RowsIn
<1>4. NoRowTwice(list) /\ x \notin RowsIn(list) => NoRowTwice(r)
  BY <1>1 DEF NoRowTwice, RowsIn
<1> QED
  BY <1>1, <1>2, <1>3, <1>4 DEF r

\* Exactly the rows that are looked for are kept.
LEMMA KeptRows ==
    ASSUME NEW S, NEW list \in Seq(S), NEW rows
    PROVE  /\ Kept(list, rows) \in Seq(S)
           /\ RowsIn(Kept(list, rows)) = RowsIn(list) \cap rows
           /\ OneEach(list) => OneEach(Kept(list, rows))
           /\ NoRowTwice(list) => NoRowTwice(Kept(list, rows))
<1>s. PICK r : KeepRun(r, list, rows)
  BY KeptSteps
<1>1. /\ r[0] = <<>> /\ r[Len(list)] = Kept(list, rows)
      /\ \A n \in 0..Len(list) - 1 : r[n + 1] = KeepRow(r[n], list[n + 1], rows)
  BY <1>s DEF KeepRun
<1> DEFINE Right(n) ==
             /\ r[n] \in Seq(S)
             /\ RowsIn(r[n]) = {list[i] : i \in 1..n} \cap rows
             /\ OneEach(list) => OneEach(r[n])
             /\ NoRowTwice(list) => NoRowTwice(r[n])
           P == {n \in Nat : n <= Len(list) => Right(n)}
<1>2. 0 \in P
  <2>1. <<>> \in Seq(S) /\ RowsIn(<<>>) = {} /\ OneEach(<<>>) /\ NoRowTwice(<<>>)
    BY DEF RowsIn, OneEach, NoRowTwice
  <2>2. {list[i] : i \in 1..0} \cap rows = {}
    OBVIOUS
  <2>3. Right(0)
    BY <1>1, <2>1, <2>2
  <2> HIDE DEF Right
  <2> QED
    BY <2>3
<1>3. ASSUME NEW n \in Nat, n \in P, n + 1 <= Len(list) PROVE Right(n + 1)
  <2>0. Len(list) \in Nat /\ list[n + 1] \in S
    BY <1>3
  <2>1. Right(n) /\ n \in 0..Len(list) - 1
    BY <1>3, <2>0
  <2> DEFINE a == r[n]
             b == r[n + 1]
             x == list[n + 1]
             Before == {list[i] : i \in 1..n}
  <2>2. /\ a \in Seq(S) /\ RowsIn(a) = Before \cap rows
        /\ OneEach(list) => OneEach(a)
        /\ NoRowTwice(list) => NoRowTwice(a)
        /\ b = KeepRow(a, x, rows) /\ x \in S
    BY <1>1, <2>0, <2>1
  <2>3. {list[i] : i \in 1..n + 1} = Before \cup {x}
    <3>1. 1..n + 1 = 1..n \cup {n + 1}
      OBVIOUS
    <3> QED
      BY <3>1
  <2>4. OneEach(list) => \A y \in Before : y.id # x.id
    BY <1>3, <2>0 DEF OneEach
  <2>5. NoRowTwice(list) => x \notin Before
    BY <1>3, <2>0 DEF NoRowTwice
  <2> HIDE DEF a, b, x, Before
  <2>6. CASE x \in rows
    <3>1. b = Append(a, x)
      BY <2>2, <2>6 DEF KeepRow
    <3>2. /\ b \in Seq(S) /\ RowsIn(b) = RowsIn(a) \cup {x}
          /\ OneEach(a) /\ (\A y \in RowsIn(a) : y.id # x.id) => OneEach(b)
          /\ NoRowTwice(a) /\ x \notin RowsIn(a) => NoRowTwice(b)
      BY <2>2, <3>1, AppendRows
    <3>3. RowsIn(b) = (Before \cup {x}) \cap rows
      BY <2>2, <2>6, <3>2
    <3>4. (OneEach(list) => OneEach(b)) /\ (NoRowTwice(list) => NoRowTwice(b))
      BY <2>2, <2>4, <2>5, <3>2
    <3> QED
      BY <2>3, <3>2, <3>3, <3>4 DEF b
  <2>7. CASE x \notin rows
    <3>1. b = a
      BY <2>2, <2>7 DEF KeepRow
    <3>2. RowsIn(b) = (Before \cup {x}) \cap rows
      BY <2>2, <2>7, <3>1
    <3>3. /\ b \in Seq(S)
          /\ (OneEach(list) => OneEach(b)) /\ (NoRowTwice(list) => NoRowTwice(b))
      BY <2>2, <3>1
    <3> QED
      BY <2>3, <3>2, <3>3 DEF b
  <2> QED
    BY <2>6, <2>7
<1>4. Len(list) \in Nat /\ Len(list) \in P
  <2>1. Len(list) \in Nat
    OBVIOUS
  <2>2. ASSUME NEW n \in Nat, n \in P PROVE n + 1 \in P
    <3> HIDE DEF Right
    <3> QED
      BY <1>3, <2>2
  <2> HIDE DEF P
  <2> QED
    BY <1>2, <2>1, <2>2, SetInduction
<1>5. Right(Len(list))
  BY <1>4
<1> QED
  BY <1>1, <1>5 DEF RowsIn
=============================================================================
