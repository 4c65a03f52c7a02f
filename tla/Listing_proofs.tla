---------------------------- MODULE Listing_proofs ----------------------------
(***************************************************************************)
(* Lemmas about numbers and sequences that several proofs need: least and  *)
(* last positions, the operators of Listing, and InsertAt and FlattenSeq   *)
(* of the community modules.                                               *)
(***************************************************************************)
EXTENDS Listing, SequencesExt, SequenceTheorems, FiniteSetTheorems, WellFoundedInduction, TLAPS

-----------------------------------------------------------------------------
(* Positions.                                                              *)

\* Induction over positions is by the least counterexample.
LEMMA Least ==
    ASSUME NEW I \in SUBSET Nat, I # {}
    PROVE  \E m \in I : \A k \in I : m <= k
<1> DEFINE T == {0 .. k : k \in I}
<1>1. T \subseteq FiniteSubsetsOf(Nat) /\ T # {}
  <2>1. ASSUME NEW k \in I PROVE 0 .. k \in FiniteSubsetsOf(Nat)
    <3>1. IsFiniteSet(0 .. k)
      BY FS_Interval
    <3> QED
      BY <3>1 DEF FiniteSubsetsOf
  <2> QED
    BY <2>1
<1>2. PICK U \in T : \A V \in T : <<V, U>> \notin StrictSubsetOrdering(Nat)
  <2> HIDE DEF T
  <2> QED
    BY <1>1, WFMin, FS_StrictSubsetOrderingWellFounded
<1>3. PICK m \in I : U = 0 .. m
  OBVIOUS
<1>4. ASSUME NEW k \in I, k < m
      PROVE  FALSE
  <2>1. 0 .. k \subseteq 0 .. m /\ m \in 0 .. m /\ m \notin 0 .. k
    BY <1>4
  <2>2. <<0 .. k, U>> \in StrictSubsetOrdering(Nat)
    BY <1>3, <2>1 DEF StrictSubsetOrdering
  <2> QED
    BY <1>2, <2>2
<1> QED
  BY <1>4

\* Some position is the last of a set of them.
LEMMA Greatest ==
    ASSUME NEW n \in Nat, NEW I \in SUBSET (1 .. n), I # {}
    PROVE  \E m \in I : \A k \in I : k <= m
<1> DEFINE J == {n - k : k \in I}
<1>1. J \in SUBSET Nat /\ J # {}
  OBVIOUS
<1>2. PICK j \in J : \A k \in J : j <= k
  <2> HIDE DEF J
  <2> QED
    BY <1>1, Least
<1>3. PICK m \in I : j = n - m
  OBVIOUS
<1>4. \A k \in I : n - m <= n - k
  BY <1>2, <1>3
<1> QED
  BY <1>4

\* A non-empty set of naturals has the minimum that Min chooses.
LEMMA MinOfNaturals ==
    ASSUME NEW I \in SUBSET Nat, I # {}
    PROVE  Min(I) \in I /\ \A y \in I : Min(I) <= y
BY Least DEF Min

-----------------------------------------------------------------------------
(* Listing.                                                                *)

StrictOrder(R, S) ==
    /\ \A x \in S : <<x, x>> \notin R
    /\ \A x, y, z \in S : <<x, y>> \in R /\ <<y, z>> \in R => <<x, z>> \in R
    /\ \A x, y \in S : x # y => <<x, y>> \in R \/ <<y, x>> \in R

\* Every element has one place in the list of a finite set, and these are in
\* order.
LEMMA ListedLists ==
    ASSUME NEW S, IsFiniteSet(S), NEW R, StrictOrder(R, S)
    PROVE  LET n == Cardinality(S)
               list == Listed(S, R)
           IN  /\ n \in Nat /\ list \in [1 .. n -> S]
               /\ \A x \in S : \E k \in 1 .. n : list[k] = x
               /\ \A i, k \in 1 .. n : list[i] = list[k] => i = k
               /\ \A i, k \in 1 .. n : i < k => <<list[i], list[k]>> \in R
<1> DEFINE n == Cardinality(S)
           Before(x) == {y \in S : <<y, x>> \in R}
           place == [x \in S |-> Cardinality(Before(x)) + 1]
<1>1. n \in Nat
  BY FS_CardinalityType
<1>2. ASSUME NEW x \in S
      PROVE  IsFiniteSet(Before(x)) /\ Cardinality(Before(x)) \in 0 .. n - 1
  <2>1. Before(x) \in SUBSET S /\ x \notin Before(x)
    BY DEF StrictOrder
  <2> HIDE DEF Before
  <2>2. /\ IsFiniteSet(Before(x)) /\ Cardinality(Before(x)) <= n
        /\ n = Cardinality(Before(x)) => S = Before(x)
    BY <2>1, FS_Subset
  <2>3. Cardinality(Before(x)) \in Nat
    BY <2>2, FS_CardinalityType
  <2> QED
    BY <1>1, <2>1, <2>2, <2>3
<1> DEFINE rank(x) == Cardinality(Before(x))
<1>a. \A x \in S : rank(x) \in 0 .. n - 1 /\ rank(x) \in Nat
  <2> SUFFICES ASSUME NEW x \in S PROVE rank(x) \in 0 .. n - 1
    <3> HIDE DEF rank, n
    <3> QED
      BY <1>1
  <2> QED
    BY <1>2
<1>3. ASSUME NEW x \in S, NEW y \in S, <<x, y>> \in R
      PROVE  rank(x) < rank(y)
  <2>1. Before(x) \in SUBSET Before(y) /\ x \in Before(y) /\ x \notin Before(x)
    BY <1>3 DEF StrictOrder
  <2>2. IsFiniteSet(Before(y))
    BY <1>2
  <2>4. Cardinality(Before(x)) \in Nat /\ Cardinality(Before(y)) \in Nat
    BY <1>a
  <2> HIDE DEF Before
  <2>3. /\ Cardinality(Before(x)) <= Cardinality(Before(y))
        /\ Cardinality(Before(y)) = Cardinality(Before(x)) => Before(y) = Before(x)
    BY <2>1, <2>2, FS_Subset
  <2> QED
    BY <2>1, <2>3, <2>4
<1>b. place = [x \in S |-> rank(x) + 1]
  OBVIOUS
<1>c. \A x, y \in S : <<x, y>> \in R => rank(x) < rank(y)
  BY <1>3
<1>d. Listed(S, R) = [k \in 1 .. n |-> CHOOSE x \in S : rank(x) = k - 1]
  BY DEF Listed
<1> HIDE DEF n, place, rank
<1>4. place \in [S -> 1 .. n]
  BY <1>1, <1>a, <1>b
<1>5. \A x, y \in S : place[x] = place[y] => x = y
  <2> SUFFICES ASSUME NEW x \in S, NEW y \in S, place[x] = place[y], x # y
               PROVE  FALSE
    OBVIOUS
  <2>1. rank(x) = rank(y)
    BY <1>a, <1>b
  <2>2. <<x, y>> \in R \/ <<y, x>> \in R
    BY DEF StrictOrder
  <2> QED
    BY <1>a, <1>c, <2>1, <2>2
<1>6. \A k \in 1 .. n : \E x \in S : place[x] = k
  <2>1. place \in Injection(S, 1 .. n)
    BY <1>4, <1>5 DEF Injection, IsInjective
  <2>2. IsFiniteSet(1 .. n) /\ Cardinality(1 .. n) = n
    BY <1>1, FS_Interval
  <2>3. place \in Surjection(S, 1 .. n)
    BY <2>1, <2>2, FS_Injection DEF n
  <2> QED
    BY <2>3 DEF Surjection
<1>7. ASSUME NEW k \in 1 .. n
      PROVE  Listed(S, R)[k] \in S /\ place[Listed(S, R)[k]] = k
  <2>1. \E x \in S : rank(x) = k - 1
    <3>1. PICK x \in S : place[x] = k
      BY <1>6
    <3>2. place[x] = rank(x) + 1
      BY <1>b
    <3> QED
      BY <1>1, <1>a, <3>1, <3>2
  <2>2. Listed(S, R)[k] = CHOOSE x \in S : rank(x) = k - 1
    BY <1>d
  <2>3. Listed(S, R)[k] \in S /\ rank(Listed(S, R)[k]) = k - 1
    BY <2>1, <2>2
  <2> QED
    BY <1>1, <1>b, <2>3
<1>9. Listed(S, R) \in [1 .. n -> S]
  BY <1>7, <1>d
<1>10. \A x \in S : \E k \in 1 .. n : Listed(S, R)[k] = x
  BY <1>4, <1>5, <1>7
<1>11. \A i, k \in 1 .. n : Listed(S, R)[i] = Listed(S, R)[k] => i = k
  BY <1>7
<1>12. ASSUME NEW i \in 1 .. n, NEW k \in 1 .. n, i < k
       PROVE  <<Listed(S, R)[i], Listed(S, R)[k]>> \in R
  <2> DEFINE x == Listed(S, R)[i]
             y == Listed(S, R)[k]
  <2>1. x \in S /\ y \in S /\ place[x] = i /\ place[y] = k
    BY <1>7
  <2> HIDE DEF x, y
  <2>2. x # y
    BY <1>12, <2>1
  <2>3. <<y, x>> \notin R
    <3>1. rank(y) = k - 1 /\ rank(x) = i - 1 /\ ~(k - 1 < i - 1)
      BY <1>a, <1>b, <1>12, <2>1
    <3> QED
      BY <1>c, <2>1, <3>1
  <2>4. <<x, y>> \in R
    BY <2>1, <2>2, <2>3 DEF StrictOrder
  <2> QED
    BY <2>4 DEF x, y
<1> QED
  BY <1>1, <1>9, <1>10, <1>11, <1>12 DEF n

\* What is taken from a sequence at some positions.
LEMMA AtTakes ==
    ASSUME NEW T, NEW seq \in Seq(T), NEW I \in SUBSET (DOMAIN seq)
    PROVE  /\ At(seq, I) \in Seq(T)
           /\ ToSet(At(seq, I)) = {seq[i] : i \in I}
           /\ (\A i, j \in I : seq[i] = seq[j] => i = j)
                 => IsInjective(At(seq, I))
<1> DEFINE R == {p \in I \X I : p[1] < p[2]}
           n == Cardinality(I)
           order == Listed(I, R)
<1>1. I \in SUBSET Nat /\ IsFiniteSet(I)
  <2>1. Len(seq) \in Nat /\ DOMAIN seq = 1 .. Len(seq)
    OBVIOUS
  <2>2. IsFiniteSet(1 .. Len(seq))
    BY <2>1, FS_Interval
  <2> QED
    BY <2>1, <2>2, FS_Subset
<1>2. StrictOrder(R, I)
  BY <1>1 DEF StrictOrder
<1>3. /\ n \in Nat /\ order \in [1 .. n -> I]
      /\ \A x \in I : \E k \in 1 .. n : order[k] = x
      /\ \A i, k \in 1 .. n : order[i] = order[k] => i = k
  <2> HIDE DEF R
  <2> QED
    BY <1>1, <1>2, ListedLists
<1>4. At(seq, I) = [k \in DOMAIN order |-> seq[order[k]]]
  BY DEF At
<1> HIDE DEF R, n, order
<1>5. At(seq, I) = [k \in 1 .. n |-> seq[order[k]]]
  BY <1>3, <1>4
<1>6. At(seq, I) \in Seq(T)
  <2>1. \A k \in 1 .. n : seq[order[k]] \in T
    BY <1>3
  <2> QED
    BY <1>3, <1>5, <2>1
<1>7. ToSet(At(seq, I)) = {seq[i] : i \in I}
  <2>1. \A k \in 1 .. n : order[k] \in I
    BY <1>3
  <2> QED
    BY SMTT(30), <1>3, <1>5, <2>1 DEF ToSet
<1>8. ASSUME \A i, j \in I : seq[i] = seq[j] => i = j
      PROVE  IsInjective(At(seq, I))
  BY <1>3, <1>5, <1>8 DEF IsInjective
<1> QED
  BY <1>6, <1>7, <1>8

\* They keep their order.
LEMMA AtInOrder ==
    ASSUME NEW T, NEW seq \in Seq(T), NEW I \in SUBSET (DOMAIN seq)
    PROVE  /\ \E pos \in [DOMAIN At(seq, I) -> I] :
                 /\ \A k \in DOMAIN At(seq, I) : At(seq, I)[k] = seq[pos[k]]
                 /\ \A k, l \in DOMAIN At(seq, I) : k < l => pos[k] < pos[l]
           /\ \A i \in I : \E k \in DOMAIN At(seq, I) : At(seq, I)[k] = seq[i]
<1> DEFINE R == {p \in I \X I : p[1] < p[2]}
           n == Cardinality(I)
           order == Listed(I, R)
<1>1. I \in SUBSET Nat /\ IsFiniteSet(I)
  <2>1. Len(seq) \in Nat /\ DOMAIN seq = 1 .. Len(seq)
    OBVIOUS
  <2>2. IsFiniteSet(1 .. Len(seq))
    BY <2>1, FS_Interval
  <2> QED
    BY <2>1, <2>2, FS_Subset
<1>2. StrictOrder(R, I)
  BY <1>1 DEF StrictOrder
<1>3. \A k, l : <<k, l>> \in R => k < l
  OBVIOUS
<1>4. /\ n \in Nat /\ order \in [1 .. n -> I]
      /\ \A x \in I : \E k \in 1 .. n : order[k] = x
      /\ \A k, l \in 1 .. n : k < l => <<order[k], order[l]>> \in R
  <2> HIDE DEF R
  <2> QED
    BY <1>1, <1>2, ListedLists
<1>5. At(seq, I) = [k \in DOMAIN order |-> seq[order[k]]]
  BY DEF At
<1> HIDE DEF R, n, order
<1>6. DOMAIN At(seq, I) = 1 .. n /\ \A k \in 1 .. n : At(seq, I)[k] = seq[order[k]]
  BY <1>4, <1>5
<1>7. \A k, l \in 1 .. n : k < l => order[k] < order[l]
  BY <1>3, <1>4
<1> DEFINE taken == At(seq, I)
<1> HIDE DEF taken
<1>8. DOMAIN taken = 1 .. n /\ \A k \in 1 .. n : taken[k] = seq[order[k]]
  BY <1>6 DEF taken
<1>9. \E pos \in [DOMAIN taken -> I] :
         /\ \A k \in DOMAIN taken : taken[k] = seq[pos[k]]
         /\ \A k, l \in DOMAIN taken : k < l => pos[k] < pos[l]
  BY <1>4, <1>7, <1>8
<1>10. \A i \in I : \E k \in DOMAIN taken : taken[k] = seq[i]
  BY <1>4, <1>8
<1> QED
  BY <1>9, <1>10 DEF taken

LEMMA WithoutTakes ==
    ASSUME NEW T, NEW seq \in Seq(T), NEW out
    PROVE  /\ Without(seq, out) \in Seq(T)
           /\ ToSet(Without(seq, out)) = ToSet(seq) \ out
<1> DEFINE I == {i \in DOMAIN seq : seq[i] \notin out}
<1>1. Without(seq, out) \in Seq(T) /\ ToSet(Without(seq, out)) = {seq[i] : i \in I}
  BY AtTakes DEF Without
<1>2. {seq[i] : i \in I} = ToSet(seq) \ out
  BY DEF ToSet
<1> QED
  BY <1>1, <1>2

\* A sort neither loses nor adds anything.
LEMMA SortedKeeps ==
    ASSUME NEW T, NEW seq \in Seq(T), NEW key \in [DOMAIN seq -> Int]
    PROVE  Sorted(seq, key) \in Seq(T) /\ ToSet(Sorted(seq, key)) = ToSet(seq)
<1> DEFINE I == DOMAIN seq
           R == {p \in I \X I : key[p[1]] < key[p[2]] \/ (key[p[1]] = key[p[2]] /\ p[1] < p[2])}
           n == Cardinality(I)
           order == Listed(I, R)
<1>1. I \in SUBSET Nat /\ IsFiniteSet(I)
  <2>1. Len(seq) \in Nat /\ DOMAIN seq = 1 .. Len(seq)
    OBVIOUS
  <2> QED
    BY <2>1, FS_Interval
<1>2. StrictOrder(R, I)
  BY <1>1 DEF StrictOrder
<1>3. /\ n \in Nat /\ order \in [1 .. n -> I]
      /\ \A x \in I : \E k \in 1 .. n : order[k] = x
  <2> HIDE DEF R, I
  <2> QED
    BY <1>1, <1>2, ListedLists
<1>4. Sorted(seq, key) = [k \in DOMAIN order |-> seq[order[k]]]
  BY DEF Sorted
<1> HIDE DEF R, n, order
<1>5. Sorted(seq, key) = [k \in 1 .. n |-> seq[order[k]]]
  BY <1>3, <1>4
<1>6. \A k \in 1 .. n : order[k] \in DOMAIN seq /\ seq[order[k]] \in T
  BY <1>3
<1>7. Sorted(seq, key) \in Seq(T)
  BY <1>3, <1>5, <1>6
<1>8. ToSet(Sorted(seq, key)) = {seq[order[k]] : k \in 1 .. n}
  <2>1. DOMAIN Sorted(seq, key) = 1 .. n /\ \A k \in 1 .. n : Sorted(seq, key)[k] = seq[order[k]]
    BY <1>5
  <2> QED
    BY <2>1 DEF ToSet
<1>9. {seq[order[k]] : k \in 1 .. n} = {seq[i] : i \in DOMAIN seq}
  BY <1>3, <1>6
<1> QED
  BY <1>7, <1>8, <1>9 DEF ToSet

-----------------------------------------------------------------------------
(* What a sort makes of a list is what it holds, not how it was ordered.    *)

\* By keys that differ, a sort puts the elements in the order of their keys.
LEMMA SortedOrders ==
    ASSUME NEW T, NEW seq \in Seq(T), NEW key \in [DOMAIN seq -> Int],
           \A i, j \in DOMAIN seq : key[i] = key[j] => i = j
    PROVE  \E order \in [1 .. Len(seq) -> 1 .. Len(seq)] :
              /\ Sorted(seq, key) = [k \in 1 .. Len(seq) |-> seq[order[k]]]
              /\ \A i \in 1 .. Len(seq) : \E k \in 1 .. Len(seq) : order[k] = i
              /\ \A k, l \in 1 .. Len(seq) : k < l => key[order[k]] < key[order[l]]
<1> DEFINE I == DOMAIN seq
           R == {p \in I \X I : key[p[1]] < key[p[2]] \/ (key[p[1]] = key[p[2]] /\ p[1] < p[2])}
           order == Listed(I, R)
<1>1. /\ Len(seq) \in Nat /\ I = 1 .. Len(seq) /\ IsFiniteSet(I)
      /\ Cardinality(I) = Len(seq)
  <2>1. Len(seq) \in Nat /\ I = 1 .. Len(seq)
    OBVIOUS
  <2>2. ASSUME NEW n \in Nat
        PROVE  IsFiniteSet(1 .. n) /\ Cardinality(1 .. n) = n
    BY FS_Interval
  <2> HIDE DEF I
  <2> QED
    BY <2>1, <2>2
<1>2. StrictOrder(R, I)
  BY <1>1 DEF StrictOrder
<1>3. /\ order \in [1 .. Len(seq) -> I]
      /\ \A x \in I : \E k \in 1 .. Len(seq) : order[k] = x
      /\ \A i, k \in 1 .. Len(seq) : i < k => <<order[i], order[k]>> \in R
  <2> HIDE DEF R, I
  <2>1. LET m == Cardinality(I) IN
        /\ order \in [1 .. m -> I]
        /\ \A x \in I : \E k \in 1 .. m : order[k] = x
        /\ \A i, k \in 1 .. m : i < k => <<order[i], order[k]>> \in R
    BY <1>1, <1>2, ListedLists
  <2> HIDE DEF order
  <2> QED
    BY <1>1, <2>1
<1>4. Sorted(seq, key) = [k \in DOMAIN order |-> seq[order[k]]]
  BY DEF Sorted
<1>5. ASSUME NEW i \in I, NEW j \in I, <<i, j>> \in R
      PROVE  key[i] < key[j]
  BY <1>1, <1>5
<1> HIDE DEF R, order
<1>6. \A k, l \in 1 .. Len(seq) : k < l => key[order[k]] < key[order[l]]
  BY <1>3, <1>5
<1> QED
  BY <1>1, <1>3, <1>4, <1>6

Rising(a, n) ==
    /\ n \in Nat /\ a \in [1 .. n -> Int]
    /\ \A i, j \in 1 .. n : i < j => a[i] < a[j]
Among(a, n, b, m) == \A i \in 1 .. n : \E j \in 1 .. m : a[i] = b[j]

\* Of two rising lists of the same numbers the first starts the second.
LEMMA RisingStarts ==
    ASSUME NEW n, NEW m, NEW a, NEW b, Rising(a, n), Rising(b, m),
           Among(a, n, b, m), Among(b, m, a, n)
    PROVE  n <= m /\ \A i \in 1 .. n : a[i] = b[i]
<1> USE DEF Rising, Among
<1> DEFINE Wrong == {i \in 1 .. n : ~(i \in 1 .. m /\ a[i] = b[i])}
<1>1. ASSUME Wrong # {}
      PROVE  FALSE
  <2>1. PICK i \in Wrong : \A k \in Wrong : i <= k
    <3>1. Wrong \in SUBSET Nat
      OBVIOUS
    <3> HIDE DEF Wrong
    <3> QED
      BY <1>1, <3>1, Least
  <2>2. i \in 1 .. n /\ ~(i \in 1 .. m /\ a[i] = b[i])
    OBVIOUS
  <2>3. \A k \in 1 .. i - 1 : k \in 1 .. n /\ k \in 1 .. m /\ a[k] = b[k]
    <3> TAKE k \in 1 .. i - 1
    <3>1. k \in 1 .. n /\ k < i
      BY <2>2
    <3>2. k \notin Wrong
      BY <2>1, <2>2, <3>1
    <3> QED
      BY <3>1, <3>2
  <2> HIDE DEF Wrong
  <2>4. PICK j \in 1 .. m : a[i] = b[j]
    BY <2>2
  <2>5. CASE j < i
    <3>1. j \in 1 .. i - 1 /\ a[j] < a[i]
      BY <2>2, <2>4, <2>5
    <3> QED
      BY <2>2, <2>3, <2>4, <3>1
  <2>6. CASE j = i
    BY <2>2, <2>4, <2>6
  <2>7. CASE i < j
    <3>1. i \in 1 .. m /\ b[i] < b[j] /\ b[i] \in Int
      BY <2>2, <2>4, <2>7
    <3>2. PICK k \in 1 .. n : a[k] = b[i]
      BY <3>1
    <3>3. a[k] < a[i]
      BY <2>4, <3>1, <3>2
    <3>4. k < i
      <4>1. a[k] \in Int /\ a[i] \in Int /\ k \in Int /\ i \in Int
        BY <2>2
      <4>2. k = i => a[k] = a[i]
        OBVIOUS
      <4>3. i < k => a[i] < a[k]
        BY <2>2
      <4> QED
        BY <3>3, <4>1, <4>2, <4>3
    <3>5. k \in 1 .. m /\ a[k] = b[k]
      <4>1. k \in 1 .. i - 1
        BY <2>2, <3>4
      <4> QED
        BY <2>3, <4>1
    <3>6. b[k] < b[i]
      BY <3>1, <3>4, <3>5
    <3> QED
      BY <3>1, <3>2, <3>5, <3>6
  <2> QED
    BY <2>2, <2>4, <2>5, <2>6, <2>7
<1>2. \A i \in 1 .. n : i \in 1 .. m /\ a[i] = b[i]
  BY <1>1
<1> HIDE DEF Wrong
<1>3. n <= m
  <2>1. CASE n = 0
    BY <2>1
  <2>2. CASE n # 0
    <3>1. n \in 1 .. n
      BY <2>2
    <3> QED
      BY <1>2, <3>1
  <2> QED
    BY <2>1, <2>2
<1> QED
  BY <1>2, <1>3

\* There is one way to put numbers in order.
LEMMA OneOrder ==
    ASSUME NEW n, NEW m, NEW a, NEW b, Rising(a, n), Rising(b, m),
           Among(a, n, b, m), Among(b, m, a, n)
    PROVE  n = m /\ \A i \in 1 .. n : a[i] = b[i]
<1>1. n <= m /\ \A i \in 1 .. n : a[i] = b[i]
  BY RisingStarts
<1>2. m <= n
  BY RisingStarts
<1> QED
  BY <1>1, <1>2 DEF Rising

Tells(rank, S) == \A x, y \in S : rank[x] = rank[y] => x = y
Ranked(seq, rank) == Sorted(seq, [i \in DOMAIN seq |-> rank[seq[i]]])

\* Distinct elements in order of a rank that tells them apart are the same list,
\* whichever order they come in.
LEMMA RankedForgets ==
    ASSUME NEW T, NEW s \in Seq(T), NEW t \in Seq(T), ToSet(s) = ToSet(t),
           IsInjective(s), IsInjective(t),
           NEW rank \in [T -> Int], Tells(rank, ToSet(s))
    PROVE  Ranked(s, rank) = Ranked(t, rank)
<1> DEFINE Key(seq) == [i \in DOMAIN seq |-> rank[seq[i]]]
           In(seq, order) ==
              /\ order \in [1 .. Len(seq) -> 1 .. Len(seq)]
              /\ Sorted(seq, Key(seq)) = [k \in 1 .. Len(seq) |-> seq[order[k]]]
              /\ \A i \in 1 .. Len(seq) : \E k \in 1 .. Len(seq) : order[k] = i
              /\ \A k, l \in 1 .. Len(seq) : k < l => Key(seq)[order[k]] < Key(seq)[order[l]]
           By(seq, order) == [k \in 1 .. Len(seq) |-> rank[seq[order[k]]]]
<1>1. ASSUME NEW seq \in Seq(T), IsInjective(seq), ToSet(seq) = ToSet(s)
      PROVE  \E order :
                /\ In(seq, order) /\ By(seq, order) \in [1 .. Len(seq) -> Int]
                /\ \A k, l \in 1 .. Len(seq) : k < l => By(seq, order)[k] < By(seq, order)[l]
                /\ \A k \in 1 .. Len(seq) : \E x \in ToSet(s) : By(seq, order)[k] = rank[x]
                /\ \A x \in ToSet(s) : \E k \in 1 .. Len(seq) : By(seq, order)[k] = rank[x]
  <2>1. Len(seq) \in Nat /\ DOMAIN seq = 1 .. Len(seq) /\ \A i \in 1 .. Len(seq) : seq[i] \in T
    OBVIOUS
  <2>2. Key(seq) \in [DOMAIN seq -> Int]
    BY <2>1
  <2>3. \A i, j \in DOMAIN seq : Key(seq)[i] = Key(seq)[j] => i = j
    <3>1. \A i \in DOMAIN seq : seq[i] \in ToSet(s)
      BY <1>1 DEF ToSet
    <3>2. \A i, j \in DOMAIN seq : seq[i] = seq[j] => i = j
      BY <1>1 DEF IsInjective
    <3> QED
      BY <3>1, <3>2 DEF Tells
  <2> HIDE DEF Key
  <2>4. PICK order \in [1 .. Len(seq) -> 1 .. Len(seq)] : In(seq, order)
    BY <2>2, <2>3, SortedOrders
  <2>5. By(seq, order) \in [1 .. Len(seq) -> Int]
    BY <2>1
  <2>6. \A k \in 1 .. Len(seq) : By(seq, order)[k] = Key(seq)[order[k]]
    BY <2>1, <2>4 DEF Key
  <2>7. /\ \A k \in 1 .. Len(seq) : \E x \in ToSet(s) : By(seq, order)[k] = rank[x]
        /\ \A x \in ToSet(s) : \E k \in 1 .. Len(seq) : By(seq, order)[k] = rank[x]
    <3>1. /\ order \in [1 .. Len(seq) -> 1 .. Len(seq)]
          /\ \A i \in 1 .. Len(seq) : \E k \in 1 .. Len(seq) : order[k] = i
      BY <2>4
    <3>2. \A k \in 1 .. Len(seq) : By(seq, order)[k] = rank[seq[order[k]]]
      OBVIOUS
    <3>3. ToSet(s) = {seq[i] : i \in 1 .. Len(seq)}
      BY <1>1, <2>1 DEF ToSet
    <3> DEFINE f == By(seq, order)
    <3> HIDE DEF f, In
    <3>4. ASSUME NEW k \in 1 .. Len(seq)
          PROVE  \E x \in ToSet(s) : f[k] = rank[x]
      <4>1. order[k] \in 1 .. Len(seq)
        BY <3>1
      <4>2. seq[order[k]] \in ToSet(s)
        BY <3>3, <4>1
      <4> QED
        BY <3>2, <4>2 DEF f
    <3>5. ASSUME NEW x \in ToSet(s)
          PROVE  \E k \in 1 .. Len(seq) : f[k] = rank[x]
      <4>1. PICK i \in 1 .. Len(seq) : x = seq[i]
        BY <3>3
      <4>2. PICK k \in 1 .. Len(seq) : order[k] = i
        BY <3>1
      <4> QED
        BY <3>2, <4>1, <4>2 DEF f
    <3> QED
      BY <3>4, <3>5 DEF f
  <2>8. \A k, l \in 1 .. Len(seq) : k < l => By(seq, order)[k] < By(seq, order)[l]
    BY <2>4, <2>6
  <2> HIDE DEF By, In
  <2> QED
    BY <2>4, <2>5, <2>7, <2>8
<1>2. PICK o : /\ In(s, o) /\ By(s, o) \in [1 .. Len(s) -> Int]
               /\ \A k, l \in 1 .. Len(s) : k < l => By(s, o)[k] < By(s, o)[l]
               /\ \A k \in 1 .. Len(s) : \E x \in ToSet(s) : By(s, o)[k] = rank[x]
               /\ \A x \in ToSet(s) : \E k \in 1 .. Len(s) : By(s, o)[k] = rank[x]
  BY <1>1
<1>3. PICK u : /\ In(t, u) /\ By(t, u) \in [1 .. Len(t) -> Int]
               /\ \A k, l \in 1 .. Len(t) : k < l => By(t, u)[k] < By(t, u)[l]
               /\ \A k \in 1 .. Len(t) : \E x \in ToSet(s) : By(t, u)[k] = rank[x]
               /\ \A x \in ToSet(s) : \E k \in 1 .. Len(t) : By(t, u)[k] = rank[x]
  BY <1>1
<1>4. Len(s) \in Nat /\ Len(t) \in Nat /\ DOMAIN s = 1 .. Len(s) /\ DOMAIN t = 1 .. Len(t)
  OBVIOUS
<1>5. Len(s) = Len(t) /\ \A k \in 1 .. Len(s) : By(s, o)[k] = By(t, u)[k]
  <2>1. Rising(By(s, o), Len(s)) /\ Rising(By(t, u), Len(t))
    <3> HIDE DEF By, In
    <3> QED
      BY <1>2, <1>3, <1>4 DEF Rising
  <2>2. Among(By(s, o), Len(s), By(t, u), Len(t)) /\ Among(By(t, u), Len(t), By(s, o), Len(s))
    <3> DEFINE a == By(s, o)
               b == By(t, u)
    <3>1. /\ \A k \in 1 .. Len(s) : \E x \in ToSet(s) : a[k] = rank[x]
          /\ \A x \in ToSet(s) : \E k \in 1 .. Len(s) : a[k] = rank[x]
      BY <1>2
    <3>2. /\ \A k \in 1 .. Len(t) : \E x \in ToSet(s) : b[k] = rank[x]
          /\ \A x \in ToSet(s) : \E k \in 1 .. Len(t) : b[k] = rank[x]
      BY <1>3
    <3> HIDE DEF a, b
    <3>3. Among(a, Len(s), b, Len(t))
      BY ONLY <3>1, <3>2 DEF Among
    <3>4. Among(b, Len(t), a, Len(s))
      BY ONLY <3>1, <3>2 DEF Among
    <3> QED
      BY <3>3, <3>4 DEF a, b
  <2> HIDE DEF By
  <2> QED
    BY <2>1, <2>2, OneOrder
<1>6. ASSUME NEW k \in 1 .. Len(s)
      PROVE  s[o[k]] = t[u[k]]
  <2>1. s[o[k]] \in ToSet(s) /\ t[u[k]] \in ToSet(s)
    BY <1>2, <1>3, <1>4, <1>5 DEF ToSet
  <2>2. rank[s[o[k]]] = rank[t[u[k]]]
    BY <1>5
  <2> QED
    BY <2>1, <2>2 DEF Tells
<1>7. Sorted(s, Key(s)) = Sorted(t, Key(t))
  <2>1. Sorted(s, Key(s)) = [k \in 1 .. Len(s) |-> s[o[k]]]
    BY <1>2
  <2>2. Sorted(t, Key(t)) = [k \in 1 .. Len(s) |-> t[u[k]]]
    BY <1>3, <1>5
  <2> HIDE DEF Key
  <2> QED
    BY <1>6, <2>1, <2>2
<1> QED
  BY <1>7 DEF Ranked

\* Elements taken from a list repeat if they repeat in what is made of them.
LEMMA AtRepeats ==
    ASSUME NEW T, NEW seq \in Seq(T), NEW I \in SUBSET (DOMAIN seq), IsInjective(At(seq, I))
    PROVE  \A i, j \in I : seq[i] = seq[j] => i = j
<1> DEFINE R == {p \in I \X I : p[1] < p[2]}
           n == Cardinality(I)
           order == Listed(I, R)
<1>1. I \in SUBSET Nat /\ IsFiniteSet(I)
  <2>1. Len(seq) \in Nat /\ DOMAIN seq = 1 .. Len(seq)
    OBVIOUS
  <2>2. IsFiniteSet(1 .. Len(seq))
    BY <2>1, FS_Interval
  <2> QED
    BY <2>1, <2>2, FS_Subset
<1>2. StrictOrder(R, I)
  BY <1>1 DEF StrictOrder
<1>3. /\ n \in Nat /\ order \in [1 .. n -> I]
      /\ \A x \in I : \E k \in 1 .. n : order[k] = x
  <2> HIDE DEF R
  <2> QED
    BY <1>1, <1>2, ListedLists
<1>4. At(seq, I) = [k \in DOMAIN order |-> seq[order[k]]]
  BY DEF At
<1> HIDE DEF R, n, order
<1>5. At(seq, I) = [k \in 1 .. n |-> seq[order[k]]]
  BY <1>3, <1>4
<1>6. \A k, l \in 1 .. n : seq[order[k]] = seq[order[l]] => k = l
  <2>1. \A k, l \in DOMAIN At(seq, I) : At(seq, I)[k] = At(seq, I)[l] => k = l
    BY DEF IsInjective
  <2>2. DOMAIN At(seq, I) = 1 .. n /\ \A k \in 1 .. n : At(seq, I)[k] = seq[order[k]]
    BY <1>5
  <2> QED
    BY <2>1, <2>2
<1> QED
  BY <1>3, <1>6

LEMMA ReverseIs ==
    ASSUME NEW T, NEW seq \in Seq(T)
    PROVE  /\ Reverse(seq) \in Seq(T) /\ Len(Reverse(seq)) = Len(seq)
           /\ \A i \in 1 .. Len(seq) : Reverse(seq)[i] = seq[Len(seq) + 1 - i]
           /\ ToSet(Reverse(seq)) = ToSet(seq)
<1> DEFINE n == Len(seq)
           r == Reverse(seq)
<1>1. n \in Nat /\ DOMAIN seq = 1 .. n /\ \A i \in 1 .. n : seq[i] \in T
  OBVIOUS
<1>2. r = [i \in 1 .. n |-> seq[(n - i) + 1]]
  BY DEF Reverse
<1> HIDE DEF n, r
<1>3. \A i \in 1 .. n : (n - i) + 1 = n + 1 - i /\ n + 1 - i \in 1 .. n /\ n + 1 - (n + 1 - i) = i
  BY <1>1
<1>4. \A i \in 1 .. n : r[i] = seq[n + 1 - i] /\ r[n + 1 - i] = seq[i]
  BY <1>2, <1>3
<1>5. r \in [1 .. n -> T]
  BY <1>1, <1>2, <1>3
<1>6. r \in Seq(T) /\ Len(r) = n /\ DOMAIN r = 1 .. n
  BY <1>1, <1>5
<1>7. ToSet(r) = ToSet(seq)
  BY <1>1, <1>3, <1>4, <1>6 DEF ToSet
<1> QED
  BY <1>1, <1>4, <1>6, <1>7 DEF n, r

\* Two lists with keys that differ, those of one from behind.
KeysFromBehind(T, s, key, t, back) ==
    /\ s \in Seq(T) /\ t \in Seq(T) /\ Len(t) = Len(s)
    /\ key \in [DOMAIN s -> Int] /\ back \in [DOMAIN t -> Int]
    /\ \A i, j \in DOMAIN s : key[i] = key[j] => i = j
    /\ \A i \in DOMAIN t : back[i] = key[Len(s) + 1 - i]

\* They are sorted in the same order.
LEMMA SortedFromBehind ==
    ASSUME NEW T, NEW s, NEW key, NEW t, NEW back, KeysFromBehind(T, s, key, t, back)
    PROVE  \E order \in [1 .. Len(s) -> 1 .. Len(s)] :
              /\ Sorted(s, key) = [k \in 1 .. Len(s) |-> s[order[k]]]
              /\ Sorted(t, back) = [k \in 1 .. Len(s) |-> t[Len(s) + 1 - order[k]]]
<1> USE DEF KeysFromBehind
<1> DEFINE n == Len(s)
<1>1. n \in Nat /\ DOMAIN s = 1 .. n /\ DOMAIN t = 1 .. n /\ Len(t) = n
  OBVIOUS
<1>2. PICK o \in [1 .. n -> 1 .. n] :
         /\ Sorted(s, key) = [k \in 1 .. n |-> s[o[k]]]
         /\ \A i \in 1 .. n : \E k \in 1 .. n : o[k] = i
         /\ \A k, l \in 1 .. n : k < l => key[o[k]] < key[o[l]]
  BY SortedOrders
<1> HIDE DEF n
<1>3. \A i \in 1 .. n : n + 1 - i \in 1 .. n /\ n + 1 - (n + 1 - i) = i
  BY <1>1
<1>4. \A i \in 1 .. n : back[i] = key[n + 1 - i]
  BY <1>1 DEF n
<1>5. \A i, j \in 1 .. n : key[i] = key[j] => i = j
  BY <1>1
<1>6. \A i, j \in 1 .. n : back[i] = back[j] => i = j
  <2> TAKE i, j \in 1 .. n
  <2> HAVE back[i] = back[j]
  <2>1. n + 1 - i \in 1 .. n /\ n + 1 - j \in 1 .. n
    BY <1>3
  <2>2. key[n + 1 - i] = key[n + 1 - j]
    BY <1>4
  <2>3. n + 1 - i = n + 1 - j
    BY <1>5, <2>1, <2>2
  <2> QED
    BY <1>3, <2>3
<1>7. PICK u \in [1 .. n -> 1 .. n] :
         /\ Sorted(t, back) = [k \in 1 .. n |-> t[u[k]]]
         /\ \A i \in 1 .. n : \E k \in 1 .. n : u[k] = i
         /\ \A k, l \in 1 .. n : k < l => back[u[k]] < back[u[l]]
  <2>1. \A i, j \in DOMAIN t : back[i] = back[j] => i = j
    BY <1>1, <1>6
  <2>2. \E order \in [1 .. Len(t) -> 1 .. Len(t)] :
           /\ Sorted(t, back) = [k \in 1 .. Len(t) |-> t[order[k]]]
           /\ \A i \in 1 .. Len(t) : \E k \in 1 .. Len(t) : order[k] = i
           /\ \A k, l \in 1 .. Len(t) : k < l => back[order[k]] < back[order[l]]
    BY <2>1, SortedOrders
  <2> QED
    BY <1>1, <2>2
<1> DEFINE a == [k \in 1 .. n |-> key[o[k]]]
           b == [k \in 1 .. n |-> back[u[k]]]
<1>8. Rising(a, n) /\ Rising(b, n)
  BY <1>1, <1>2, <1>7 DEF Rising
<1>9. Among(a, n, b, n)
  <2>1. ASSUME NEW k \in 1 .. n
        PROVE  \E j \in 1 .. n : a[k] = b[j]
    <3>1. o[k] \in 1 .. n /\ n + 1 - o[k] \in 1 .. n /\ n + 1 - (n + 1 - o[k]) = o[k]
      BY <1>3
    <3>2. PICK j \in 1 .. n : u[j] = n + 1 - o[k]
      BY <1>7, <3>1
    <3>3. b[j] = key[o[k]]
      BY <1>4, <3>1, <3>2
    <3> QED
      BY <3>3
  <2> QED
    BY <2>1 DEF Among
<1>10. Among(b, n, a, n)
  <2>1. ASSUME NEW k \in 1 .. n
        PROVE  \E j \in 1 .. n : b[k] = a[j]
    <3>1. u[k] \in 1 .. n /\ n + 1 - u[k] \in 1 .. n
      BY <1>3
    <3>2. PICK j \in 1 .. n : o[j] = n + 1 - u[k]
      BY <1>2, <3>1
    <3>3. a[j] = back[u[k]]
      BY <1>4, <3>1, <3>2
    <3> QED
      BY <3>3
  <2> QED
    BY <2>1 DEF Among
<1>11. \A k \in 1 .. n : a[k] = b[k]
  <2> HIDE DEF a, b
  <2> QED
    BY <1>8, <1>9, <1>10, OneOrder
<1>12. \A k \in 1 .. n : u[k] = n + 1 - o[k]
  <2> TAKE k \in 1 .. n
  <2>1. o[k] \in 1 .. n /\ u[k] \in 1 .. n
    OBVIOUS
  <2>2. key[o[k]] = key[n + 1 - u[k]]
    BY <1>4, <1>11, <2>1
  <2>3. o[k] = n + 1 - u[k]
    BY <1>3, <1>5, <2>1, <2>2
  <2> QED
    BY <1>3, <2>1, <2>3
<1>13. Sorted(t, back) = [k \in 1 .. n |-> t[n + 1 - o[k]]]
  <2> DEFINE From(k) == n + 1 - o[k]
  <2>1. \A k \in 1 .. n : u[k] = From(k)
    BY <1>12
  <2>2. Sorted(t, back) = [k \in 1 .. n |-> t[u[k]]]
    BY <1>7
  <2> HIDE DEF From
  <2>3. Sorted(t, back) = [k \in 1 .. n |-> t[From(k)]]
    BY ONLY <2>1, <2>2
  <2> QED
    BY <2>3 DEF From
<1> QED
  BY <1>2, <1>13 DEF n

-----------------------------------------------------------------------------
(* Insertion and concatenation.                                            *)

\* InsertAt makes room at position k and moves the rest one place back.
LEMMA InsertAtShape ==
    ASSUME NEW S, NEW s \in Seq(S), NEW k \in 1..Len(s) + 1, NEW e \in S
    PROVE  /\ InsertAt(s, k, e) \in Seq(S)
           /\ Len(InsertAt(s, k, e)) = Len(s) + 1
           /\ InsertAt(s, k, e)[k] = e
           /\ \A i \in 1..Len(s) : InsertAt(s, k, e)[IF i < k THEN i ELSE i + 1] = s[i]
<1> DEFINE a == SubSeq(s, 1, k - 1)
           b == SubSeq(s, k, Len(s))
<1>1. /\ a \in Seq(S) /\ Len(a) = k - 1
      /\ \A i \in 1..k - 1 : a[i] = s[i]
  <2>1. \A i \in 1..k - 1 : s[i] \in S
    OBVIOUS
  <2> QED
    BY <2>1, SubSeqProperties
<1>2. /\ b \in Seq(S) /\ Len(b) = Len(s) - k + 1
      /\ \A i \in 1..Len(s) - k + 1 : b[i] = s[k + i - 1]
  <2>1. \A i \in k..Len(s) : s[i] \in S
    OBVIOUS
  <2> QED
    BY <2>1, SubSeqProperties
<1>3. /\ <<e>> \in Seq(S) /\ Len(<<e>>) = 1 /\ <<e>>[1] = e
  OBVIOUS
<1> HIDE DEF a, b
<1>4. /\ a \o <<e>> \in Seq(S) /\ Len(a \o <<e>>) = k
      /\ \A i \in 1..k : (a \o <<e>>)[i] = IF i <= k - 1 THEN a[i] ELSE e
  BY <1>1, <1>3, ConcatProperties
<1> DEFINE t == (a \o <<e>>) \o b
<1>5. /\ t \in Seq(S) /\ Len(t) = Len(s) + 1
      /\ \A i \in 1..Len(s) + 1 : t[i] = IF i <= k THEN (a \o <<e>>)[i] ELSE b[i - k]
  <2> DEFINE c == a \o <<e>>
  <2> HIDE DEF c
  <2>1. c \in Seq(S) /\ b \in Seq(S) /\ Len(c) = k /\ Len(b) = Len(s) - k + 1
    BY <1>2, <1>4 DEF c
  <2>2. Len(c) + Len(b) = Len(s) + 1
    BY <2>1
  <2>3. /\ c \o b \in Seq(S) /\ Len(c \o b) = Len(c) + Len(b)
        /\ \A i \in 1..Len(c) + Len(b) : (c \o b)[i] = IF i <= Len(c) THEN c[i] ELSE b[i - Len(c)]
    BY <2>1, ConcatProperties
  <2> QED
    BY <2>1, <2>2, <2>3 DEF c
<1>6. InsertAt(s, k, e) = t
  BY DEF InsertAt, a, b
<1> HIDE DEF t
<1>7. t[k] = e
  BY <1>4, <1>5
<1>8. ASSUME NEW i \in 1..Len(s)
      PROVE  t[IF i < k THEN i ELSE i + 1] = s[i]
  <2>1. CASE i < k
    BY <2>1, <1>1, <1>4, <1>5
  <2>2. CASE i >= k
    <3>1. t[i + 1] = b[i + 1 - k]
      BY <2>2, <1>5
    <3>2. b[i + 1 - k] = s[k + (i + 1 - k) - 1]
      BY <2>2, <1>2
    <3> QED
      BY <2>2, <3>1, <3>2
  <2> QED
    BY <2>1, <2>2
<1> QED
  BY <1>5, <1>6, <1>7, <1>8

\* What stands at each position once e has been put at position k.
LEMMA InsertAtAt ==
    ASSUME NEW S, NEW s \in Seq(S), NEW k \in 1..Len(s) + 1, NEW e \in S,
           NEW x \in 1..Len(s) + 1
    PROVE  InsertAt(s, k, e)[x] = IF x = k THEN e ELSE IF x < k THEN s[x] ELSE s[x - 1]
<1> DEFINE t == InsertAt(s, k, e)
<1>1. /\ t[k] = e
      /\ \A i \in 1..Len(s) : t[IF i < k THEN i ELSE i + 1] = s[i]
  BY SMTT(30), InsertAtShape
<1> HIDE DEF t
<1>2. CASE x < k
  BY <1>1, <1>2 DEF t
<1>3. CASE x > k
  <2>1. x - 1 \in 1..Len(s) /\ ~(x - 1 < k) /\ (x - 1) + 1 = x
    BY <1>3
  <2> QED
    BY <1>1, <1>3, <2>1 DEF t
<1> QED
  BY <1>1, <1>2, <1>3 DEF t

LEMMA ConcatenationHolds ==
    ASSUME NEW T, NEW s \in Seq(T), NEW t \in Seq(T)
    PROVE  ToSet(s \o t) = ToSet(s) \cup ToSet(t)
<1>1. /\ DOMAIN (s \o t) = 1 .. Len(s) + Len(t)
      /\ \A i \in 1 .. Len(s) + Len(t) :
            (s \o t)[i] = IF i <= Len(s) THEN s[i] ELSE t[i - Len(s)]
  OBVIOUS
<1>2. Len(s) \in Nat /\ Len(t) \in Nat /\ DOMAIN s = 1 .. Len(s) /\ DOMAIN t = 1 .. Len(t)
  OBVIOUS
<1>3. ASSUME NEW i \in DOMAIN s
      PROVE  s[i] \in ToSet(s \o t)
  <2>1. i \in 1 .. Len(s) + Len(t) /\ i <= Len(s)
    BY <1>2
  <2> QED
    BY <1>1, <2>1 DEF ToSet
<1>4. ASSUME NEW i \in DOMAIN t
      PROVE  t[i] \in ToSet(s \o t)
  <2>1. i + Len(s) \in 1 .. Len(s) + Len(t) /\ ~(i + Len(s) <= Len(s)) /\ (i + Len(s)) - Len(s) = i
    BY <1>2
  <2>2. (s \o t)[i + Len(s)] = t[i]
    BY <1>1, <2>1
  <2> QED
    BY <1>1, <2>1, <2>2 DEF ToSet
<1>5. ASSUME NEW i \in 1 .. Len(s) + Len(t)
      PROVE  (s \o t)[i] \in ToSet(s) \cup ToSet(t)
  <2>1. CASE i <= Len(s)
    BY <1>1, <1>2, <2>1 DEF ToSet
  <2>2. CASE ~(i <= Len(s))
    <3>1. i - Len(s) \in DOMAIN t
      BY <1>2, <2>2
    <3> QED
      BY <1>1, <2>2, <3>1 DEF ToSet
  <2> QED
    BY <2>1, <2>2
<1> QED
  BY <1>1, <1>3, <1>4, <1>5 DEF ToSet

Flattens(f, seqs, n) ==
    f = [i \in 1 .. n |-> IF i = 1 THEN seqs[i] ELSE f[i - 1] \o seqs[i]]

Held(seqs, i) == UNION {ToSet(seqs[j]) : j \in 1 .. i}

\* FlattenSeq is a recursive function.  There is one,
LEMMA FlattenExists ==
    ASSUME NEW T, NEW n \in Nat, NEW seqs \in [1 .. n -> Seq(T)]
    PROVE  \E f : Flattens(f, seqs, n)
<1> DEFINE Step(f, i) == IF i = 1 THEN seqs[i] ELSE f[i - 1] \o seqs[i]
           Partial(k) == \E f \in [1 .. k -> Seq(T)] : \A i \in 1 .. k : f[i] = Step(f, i)
           Missing == {k \in 0 .. n : ~Partial(k)}
<1>1. ASSUME Missing # {}
      PROVE  FALSE
  <2>1. Missing \in SUBSET Nat
    OBVIOUS
  <2>2. PICK m \in Missing : \A k \in Missing : m <= k
    <3> HIDE DEF Missing
    <3> QED
      BY <1>1, <2>1, Least
  <2>3. m \in 0 .. n /\ ~Partial(m)
    OBVIOUS
  <2>4. m # 0
    <3>1. [i \in 1 .. 0 |-> <<>>] \in [1 .. 0 -> Seq(T)]
      OBVIOUS
    <3>2. 1 .. 0 = {}
      OBVIOUS
    <3>3. Partial(0)
      <4> HIDE DEF Step
      <4> QED
        BY <3>1, <3>2
    <3> QED
      BY <2>3, <3>3
  <2>5. m - 1 \in 0 .. n /\ m \in 1 .. n /\ ~(m <= m - 1)
    BY <2>3, <2>4
  <2>6. Partial(m - 1)
    <3>1. m - 1 \notin Missing
      BY <2>2, <2>5
    <3> QED
      BY <2>5, <3>1
  <2>7. PICK g \in [1 .. m - 1 -> Seq(T)] : \A i \in 1 .. m - 1 : g[i] = Step(g, i)
    BY <2>6
  <2> DEFINE f == [i \in 1 .. m |-> IF i = m THEN Step(g, m) ELSE g[i]]
  <2>8. Step(g, m) \in Seq(T)
    <3>1. CASE m = 1
      BY <2>5, <3>1
    <3>2. CASE m # 1
      <4>1. m - 1 \in 1 .. m - 1
        BY <2>5, <3>2
      <4>2. g[m - 1] \in Seq(T) /\ seqs[m] \in Seq(T)
        BY <2>5, <4>1
      <4> QED
        BY <3>2, <4>2
    <3> QED
      BY <3>1, <3>2
  <2>9. \A i \in 1 .. m : i # m => i \in 1 .. m - 1
    BY <2>5
  <2>10. f \in [1 .. m -> Seq(T)]
    <3> HIDE DEF Step
    <3> QED
      BY <2>8, <2>9
  <2>11. ASSUME NEW i \in 1 .. m
         PROVE  f[i] = Step(f, i)
    <3>1. i # 1 => i - 1 \in 1 .. m /\ i - 1 # m /\ f[i - 1] = g[i - 1]
      BY <2>5
    <3>2. Step(f, i) = Step(g, i)
      <4> HIDE DEF f
      <4> QED
        BY <3>1
    <3>3. i # m => g[i] = Step(g, i)
      BY <2>7, <2>9
    <3> QED
      <4> HIDE DEF Step
      <4> QED
        BY <3>2, <3>3
  <2>12. Partial(m)
    <3> HIDE DEF f, Step
    <3> QED
      BY <2>10, <2>11
  <2> QED
    BY <2>3, <2>12
<1>2. Partial(n)
  <2>1. n \in 0 .. n
    OBVIOUS
  <2> HIDE DEF Partial
  <2> QED
    BY <1>1, <2>1
<1>3. PICK f \in [1 .. n -> Seq(T)] : \A i \in 1 .. n : f[i] = Step(f, i)
  BY <1>2
<1>4. f = [i \in 1 .. n |-> Step(f, i)]
  <2> HIDE DEF Step
  <2> QED
    BY <1>3
<1> QED
  BY <1>4 DEF Flattens

\* and whichever it is holds what the first sequences hold.
LEMMA FlattenHolds ==
    ASSUME NEW T, NEW n \in Nat, NEW seqs \in [1 .. n -> Seq(T)],
           NEW f, Flattens(f, seqs, n)
    PROVE  \A i \in 1 .. n :
              f[i] \in Seq(T) /\ ToSet(f[i]) = Held(seqs, i)
<1> DEFINE Wrong == {i \in 1 .. n : ~(f[i] \in Seq(T) /\ ToSet(f[i]) = Held(seqs, i))}
<1>a. ASSUME NEW i \in 1 .. n
      PROVE  f[i] = IF i = 1 THEN seqs[i] ELSE f[i - 1] \o seqs[i]
  BY DEF Flattens
<1>1. ASSUME Wrong # {}
      PROVE  FALSE
  <2>1. Wrong \in SUBSET Nat
    OBVIOUS
  <2>2. PICK m \in Wrong : \A k \in Wrong : m <= k
    <3> HIDE DEF Wrong
    <3> QED
      BY <1>1, <2>1, Least
  <2>3. m \in 1 .. n /\ ~(f[m] \in Seq(T) /\ ToSet(f[m]) = Held(seqs, m))
    OBVIOUS
  <2>4. CASE m = 1
    <3>1. f[m] = seqs[m] /\ seqs[m] \in Seq(T)
      BY <1>a, <2>3, <2>4
    <3>2. 1 .. 1 = {1}
      OBVIOUS
    <3>3. Held(seqs, 1) = ToSet(seqs[1])
      BY <3>2 DEF Held
    <3> QED
      BY <2>3, <2>4, <3>1, <3>3
  <2>5. CASE m # 1
    <3>1. m - 1 \in 1 .. n /\ ~(m <= m - 1)
      BY <2>3, <2>5
    <3>2. m - 1 \notin Wrong
      BY <2>2, <3>1
    <3>3. f[m - 1] \in Seq(T) /\ ToSet(f[m - 1]) = Held(seqs, m - 1)
      BY <3>1, <3>2
    <3>4. f[m] = f[m - 1] \o seqs[m] /\ seqs[m] \in Seq(T)
      BY <1>a, <2>3, <2>5
    <3>5. \A a, b \in Seq(T) : a \o b \in Seq(T) /\ ToSet(a \o b) = ToSet(a) \cup ToSet(b)
      BY ConcatenationHolds
    <3>6. f[m] \in Seq(T) /\ ToSet(f[m]) = ToSet(f[m - 1]) \cup ToSet(seqs[m])
      BY <3>3, <3>4, <3>5
    <3>7. 1 .. m = (1 .. m - 1) \cup {m}
      BY <2>3
    <3>8. Held(seqs, m) = Held(seqs, m - 1) \cup ToSet(seqs[m])
      BY <3>7 DEF Held
    <3> QED
      BY <2>3, <3>3, <3>6, <3>8
  <2> QED
    BY <2>4, <2>5
<1> QED
  BY <1>1

LEMMA FlattenJoins ==
    ASSUME NEW T, NEW n \in Nat, NEW seqs \in [1 .. n -> Seq(T)]
    PROVE  /\ FlattenSeq(seqs) \in Seq(T)
           /\ ToSet(FlattenSeq(seqs)) = UNION {ToSet(seqs[i]) : i \in 1 .. n}
<1>1. seqs \in Seq(Seq(T)) /\ Len(seqs) = n
  OBVIOUS
<1>2. CASE n = 0
  <2>1. FlattenSeq(seqs) = <<>>
    BY <1>1, <1>2 DEF FlattenSeq
  <2> QED
    BY <1>2, <2>1 DEF ToSet
<1>3. CASE n # 0
  <2> DEFINE flatten == CHOOSE f : f = [i \in 1 .. n |-> IF i = 1 THEN seqs[i] ELSE f[i - 1] \o seqs[i]]
  <2>1. FlattenSeq(seqs) = flatten[n]
    BY <1>1, <1>3 DEF FlattenSeq
  <2>2. Flattens(flatten, seqs, n)
    <3>1. PICK g : Flattens(g, seqs, n)
      BY FlattenExists
    <3> QED
      BY <3>1 DEF Flattens
  <2> HIDE DEF flatten
  <2>3. flatten[n] \in Seq(T) /\ ToSet(flatten[n]) = UNION {ToSet(seqs[j]) : j \in 1 .. n}
    <3>1. \A i \in 1 .. n :
             flatten[i] \in Seq(T) /\ ToSet(flatten[i]) = Held(seqs, i)
      BY <2>2, FlattenHolds
    <3>2. n \in 1 .. n
      BY <1>3
    <3> QED
      BY <3>1, <3>2 DEF Held
  <2> QED
    BY <2>1, <2>3
<1> QED
  BY <1>2, <1>3

-----------------------------------------------------------------------------
(* Lists without repetition.                                              *)

LEMMA ConcatenationOnce ==
    ASSUME NEW T, NEW s \in Seq(T), NEW t \in Seq(T)
    PROVE  /\ IsInjective(s \o t) => IsInjective(s)
           /\ IsInjective(s) /\ IsInjective(t) /\ ToSet(s) \cap ToSet(t) = {} => IsInjective(s \o t)
<1> DEFINE n == Len(s)
           m == Len(t)
           c == s \o t
<1>1. /\ n \in Nat /\ m \in Nat /\ DOMAIN s = 1 .. n /\ DOMAIN t = 1 .. m /\ DOMAIN c = 1 .. n + m
      /\ \A i \in 1 .. n + m : c[i] = IF i <= n THEN s[i] ELSE t[i - n]
  OBVIOUS
<1> HIDE DEF n, m, c
<1>2. \A i \in 1 .. n : i \in 1 .. n + m /\ c[i] = s[i]
  BY <1>1
<1>3. IsInjective(c) => IsInjective(s)
  BY <1>1, <1>2 DEF IsInjective
<1>4. ASSUME IsInjective(s), IsInjective(t), ToSet(s) \cap ToSet(t) = {},
             NEW i \in 1 .. n + m, NEW j \in 1 .. n + m, c[i] = c[j]
      PROVE  i = j
  <2>1. /\ i <= n => i \in DOMAIN s /\ c[i] = s[i]
        /\ ~(i <= n) => i - n \in DOMAIN t /\ c[i] = t[i - n]
        /\ j <= n => j \in DOMAIN s /\ c[j] = s[j]
        /\ ~(j <= n) => j - n \in DOMAIN t /\ c[j] = t[j - n]
    BY <1>1
  <2>2. \A x \in DOMAIN s : \A y \in DOMAIN t : s[x] # t[y]
    BY <1>4 DEF ToSet
  <2>3. /\ \A x, y \in DOMAIN s : s[x] = s[y] => x = y
        /\ \A x, y \in DOMAIN t : t[x] = t[y] => x = y
    BY <1>4 DEF IsInjective
  <2>4. CASE i <= n
    BY <1>4, <2>1, <2>2, <2>3, <2>4
  <2>5. CASE ~(i <= n)
    <3>1. ~(j <= n) /\ i - n = j - n
      BY <1>4, <2>1, <2>2, <2>3, <2>5
    <3> QED
      BY <1>1, <3>1
  <2> QED
    BY <2>4, <2>5
<1>5. IsInjective(s) /\ IsInjective(t) /\ ToSet(s) \cap ToSet(t) = {} => IsInjective(c)
  BY <1>1, <1>4 DEF IsInjective
<1> QED
  BY <1>3, <1>5 DEF c

\* What is left of a list is left of it from behind, and repeats no more.
LEMMA WithoutFromBehind ==
    ASSUME NEW T, NEW seq \in Seq(T), NEW out, IsInjective(Without(seq, out))
    PROVE  /\ Without(Reverse(seq), out) \in Seq(T)
           /\ ToSet(Without(Reverse(seq), out)) = ToSet(Without(seq, out))
           /\ IsInjective(Without(Reverse(seq), out))
<1> DEFINE n == Len(seq)
           r == Reverse(seq)
           I == {i \in DOMAIN seq : seq[i] \notin out}
           J == {i \in DOMAIN r : r[i] \notin out}
<1>1. /\ n \in Nat /\ DOMAIN seq = 1 .. n /\ r \in Seq(T) /\ DOMAIN r = 1 .. n
      /\ ToSet(r) = ToSet(seq) /\ \A i \in 1 .. n : r[i] = seq[n + 1 - i]
  <2>1. Len(seq) \in Nat /\ DOMAIN seq = 1 .. Len(seq)
    OBVIOUS
  <2>2. r \in Seq(T) /\ Len(r) = n
    BY ReverseIs
  <2>3. DOMAIN r = 1 .. n
    <3> HIDE DEF r, n
    <3> QED
      BY <2>2
  <2> QED
    BY <2>1, <2>2, <2>3, ReverseIs
<1> HIDE DEF r, n
<1>2. /\ Without(r, out) \in Seq(T) /\ ToSet(Without(r, out)) = ToSet(Without(seq, out))
  <2>1. r \in Seq(T) /\ seq \in Seq(T)
    BY <1>1
  <2>2. /\ Without(r, out) \in Seq(T) /\ ToSet(Without(r, out)) = ToSet(r) \ out
        /\ ToSet(Without(seq, out)) = ToSet(seq) \ out
    BY ONLY <2>1, WithoutTakes
  <2> QED
    BY <1>1, <2>2
<1>3. I \in SUBSET (DOMAIN seq) /\ Without(seq, out) = At(seq, I)
  BY DEF Without
<1>4. \A i, j \in I : seq[i] = seq[j] => i = j
  <2> HIDE DEF I
  <2> QED
    BY <1>3, AtRepeats
<1>5. J \in SUBSET (DOMAIN r) /\ Without(r, out) = At(r, J)
  BY DEF Without
<1>6. \A i, j \in J : r[i] = r[j] => i = j
  <2> TAKE i, j \in J
  <2> HAVE r[i] = r[j]
  <2>1. i \in 1 .. n /\ j \in 1 .. n
    BY <1>1
  <2>2. n + 1 - i \in I /\ n + 1 - j \in I
    BY <1>1, <2>1
  <2>3. n + 1 - i = n + 1 - j
    BY <1>1, <1>4, <2>1, <2>2
  <2> QED
    BY <1>1, <2>1, <2>3
<1>7. IsInjective(Without(r, out))
  <2> HIDE DEF J
  <2> QED
    BY <1>1, <1>5, <1>6, AtTakes
<1> QED
  BY <1>2, <1>7 DEF r

LEMMA WithoutOnce ==
    ASSUME NEW T, NEW seq \in Seq(T), NEW out, IsInjective(seq)
    PROVE  IsInjective(Without(seq, out))
<1> DEFINE I == {i \in DOMAIN seq : seq[i] \notin out}
<1>1. I \in SUBSET (DOMAIN seq) /\ Without(seq, out) = At(seq, I)
  BY DEF Without
<1>2. \A i, j \in I : seq[i] = seq[j] => i = j
  BY DEF IsInjective
<1> HIDE DEF I
<1> QED
  BY <1>1, <1>2, AtTakes
=============================================================================
