----------------------- MODULE DetectorRegistry_proofs -----------------------
(***************************************************************************)
(* What holds of the detector registry for any number of goroutines, any   *)
(* built-in list, any registrations and any directories.                   *)
(***************************************************************************)
EXTENDS DetectorRegistry, Listing_proofs

-----------------------------------------------------------------------------
(* The operators of RegistryOps, for any entries and names.                *)

\* PositionOf is 0 or the index of the first entry with the name.
LEMMA PositionOfRange ==
    ASSUME NEW reg \in Seq(Entries), NEW name
    PROVE  PositionOf(reg, name) \in 0..Len(reg)
<1> DEFINE I == {i \in 1..Len(reg) : NameOf[reg[i]] = name}
<1>1. I # {} => Min(I) \in I
  BY MinOfNaturals
<1>2. PositionOf(reg, name) = IF I # {} THEN Min(I) ELSE 0
  BY DEF PositionOf, SelectInSeq
<1> HIDE DEF I
<1>3. I \subseteq 1..Len(reg)
  BY DEF I
<1>4. Len(reg) \in Nat
  OBVIOUS
<1>5. CASE I # {}
  <2>1. Min(I) \in 1..Len(reg)
    BY <1>1, <1>3, <1>5
  <2>2. PositionOf(reg, name) = Min(I)
    BY <1>2, <1>5
  <2> QED
    BY <1>4, <2>1, <2>2
<1>6. CASE I = {}
  <2>1. PositionOf(reg, name) = 0
    BY <1>2, <1>6
  <2> QED
    BY <1>4, <2>1
<1> QED
  BY <1>5, <1>6

\* PositionOf is 0 when no entry has the name, else where the first one is.
LEMMA PositionOfFirst ==
    ASSUME NEW reg \in Seq(Entries), NEW name
    PROVE  LET k == PositionOf(reg, name) IN
           /\ k = 0 => \A i \in 1..Len(reg) : NameOf[reg[i]] # name
           /\ k # 0 => /\ k \in 1..Len(reg) /\ NameOf[reg[k]] = name
                       /\ \A i \in 1..Len(reg) : NameOf[reg[i]] = name => k <= i
<1> DEFINE I == {i \in 1..Len(reg) : NameOf[reg[i]] = name}
           k == PositionOf(reg, name)
<1>1. I # {} => Min(I) \in I /\ \A i \in I : Min(I) <= i
  <2>1. I \in SUBSET Nat
    OBVIOUS
  <2> HIDE DEF I
  <2> QED
    BY <2>1, MinOfNaturals
<1>2. k = IF I # {} THEN Min(I) ELSE 0
  BY DEF PositionOf, SelectInSeq
<1> HIDE DEF k
<1>3. CASE I = {}
  BY <1>2, <1>3 DEF k
<1>4. CASE I # {}
  <2>1. k \in I /\ \A i \in I : k <= i
    BY <1>1, <1>2, <1>4
  <2>2. k # 0
    BY <2>1
  <2> QED
    BY <2>1, <2>2 DEF k
<1> QED
  BY <1>3, <1>4

\* Where a registration puts its entry.
Place(reg, before) ==
    IF before = NoName \/ PositionOf(reg, before) = 0 THEN 1 ELSE PositionOf(reg, before)

LEMMA RegisteredAtPlace ==
    ASSUME NEW reg \in Seq(Entries), NEW before, NEW e \in Entries
    PROVE  /\ Place(reg, before) \in 1..Len(reg) + 1
           /\ Registered(reg, before, e) = InsertAt(reg, Place(reg, before), e)
<1>1. CASE before = NoName
  <2>1. SubSeq(reg, 1, 0) = <<>> /\ SubSeq(reg, 1, Len(reg)) = reg
    BY SubSeqEmpty, SubSeqFull
  <2>2. <<e>> \in Seq(Entries)
    OBVIOUS
  <2>3. InsertAt(reg, 1, e) = Cons(e, reg)
    BY <2>1, <2>2, ConcatEmptySeq DEF InsertAt, Cons
  <2>4. Place(reg, before) = 1
    BY <1>1 DEF Place
  <2> QED
    BY <1>1, <2>3, <2>4 DEF Registered, Prepend
<1>2. CASE before # NoName
  <2> DEFINE k == PositionOf(reg, before)
  <2>1. k \in 0..Len(reg)
    BY PositionOfRange
  <2>2. Registered(reg, before, e) = InsertAt(reg, IF k = 0 THEN 1 ELSE k, e)
    BY <1>2 DEF Registered, InsertBefore
  <2>3. Place(reg, before) = IF k = 0 THEN 1 ELSE k
    BY <1>2 DEF Place
  <2> HIDE DEF k
  <2> QED
    BY <2>1, <2>2, <2>3
<1> QED
  BY <1>1, <1>2

\* Both registrations insert the entry somewhere and keep the rest in order.
LEMMA RegisteredInserts ==
    ASSUME NEW reg \in Seq(Entries), NEW before, NEW e \in Entries
    PROVE  \E k \in 1..Len(reg) + 1 : Registered(reg, before, e) = InsertAt(reg, k, e)
BY RegisteredAtPlace

\* FirstMatch answers a recognising entry that no recognising entry precedes.
LEMMA FirstMatchFound ==
    ASSUME NEW reg \in Seq(Entries), NEW hits, NEW k \in 1..Len(reg),
           reg[k] \in hits, \A i \in 1..k - 1 : reg[i] \notin hits
    PROVE  FirstMatch(reg, hits) = reg[k]
<1> DEFINE I == {i \in 1..Len(reg) : reg[i] \in hits}
           m == SelectInSeq(reg, LAMBDA e : e \in hits)
<1>1. I # {}
  OBVIOUS
<1>2. Min(I) \in I /\ \A i \in I : Min(I) <= i
  <2>1. I \in SUBSET Nat
    OBVIOUS
  <2> HIDE DEF I
  <2> QED
    BY <1>1, <2>1, MinOfNaturals
<1>3. m = Min(I)
  BY <1>1 DEF SelectInSeq
<1> HIDE DEF m
<1>4. m = k
  BY <1>2, <1>3
<1>5. k # 0
  OBVIOUS
<1> QED
  BY <1>4, <1>5 DEF FirstMatch, m

\* ... and NoEntry when no entry recognises the directory.
LEMMA FirstMatchNone ==
    ASSUME NEW reg \in Seq(Entries), NEW hits,
           \A i \in 1..Len(reg) : reg[i] \notin hits
    PROVE  FirstMatch(reg, hits) = NoEntry
<1> DEFINE I == {i \in 1..Len(reg) : reg[i] \in hits}
<1>1. I = {}
  OBVIOUS
<1> QED
  BY <1>1 DEF FirstMatch, SelectInSeq

\* What FirstMatch answers in either case.
LEMMA FirstMatchCases ==
    ASSUME NEW reg \in Seq(Entries), NEW hits
    PROVE  \/ /\ \A i \in 1..Len(reg) : reg[i] \notin hits
              /\ FirstMatch(reg, hits) = NoEntry
           \/ \E k \in 1..Len(reg) :
                 /\ reg[k] \in hits /\ \A i \in 1..k - 1 : reg[i] \notin hits
                 /\ FirstMatch(reg, hits) = reg[k]
<1>1. CASE \A i \in 1..Len(reg) : reg[i] \notin hits
  BY <1>1, FirstMatchNone
<1>2. CASE \E i \in 1..Len(reg) : reg[i] \in hits
  <2> DEFINE I == {i \in 1..Len(reg) : reg[i] \in hits}
  <2>1. I \in SUBSET Nat /\ I # {}
    BY <1>2
  <2>2. Min(I) \in I /\ \A i \in I : Min(I) <= i
    <3> HIDE DEF I
    <3> QED
      BY <2>1, MinOfNaturals
  <2>3. PICK k \in I : \A i \in I : k <= i
    BY <2>2
  <2>4. k \in 1..Len(reg) /\ reg[k] \in hits /\ \A i \in 1..k - 1 : reg[i] \notin hits
    <3>1. k \in 1..Len(reg) /\ reg[k] \in hits
      BY <2>3
    <3>2. ASSUME NEW i \in 1..k - 1 PROVE reg[i] \notin hits
      <4>1. i \in 1..Len(reg) /\ ~(k <= i)
        BY <3>1
      <4> QED
        BY <2>3, <4>1
    <3> QED
      BY <3>1, <3>2
  <2>5. FirstMatch(reg, hits) = reg[k]
    BY <2>4, FirstMatchFound
  <2> QED
    BY <2>4, <2>5
<1> QED
  BY <1>1, <1>2

\* A prepended entry is the first, and the rest moves one place back.
LEMMA PrependShape ==
    ASSUME NEW reg \in Seq(Entries), NEW e \in Entries
    PROVE  /\ Prepend(reg, e) \in Seq(Entries)
           /\ Len(Prepend(reg, e)) = Len(reg) + 1
           /\ Prepend(reg, e)[1] = e
           /\ \A i \in 1..Len(reg) : Prepend(reg, e)[i + 1] = reg[i]
<1>1. Prepend(reg, e) = InsertAt(reg, 1, e)
  BY RegisteredAtPlace DEF Registered, Place
<1>2. 1 \in 1..Len(reg) + 1
  OBVIOUS
<1>3. /\ InsertAt(reg, 1, e) \in Seq(Entries)
      /\ Len(InsertAt(reg, 1, e)) = Len(reg) + 1
      /\ InsertAt(reg, 1, e)[1] = e
      /\ \A i \in 1..Len(reg) : InsertAt(reg, 1, e)[IF i < 1 THEN i ELSE i + 1] = reg[i]
  BY <1>2, InsertAtShape
<1> QED
  BY <1>1, <1>3

\* A registration keeps every pair of entries in the order they were in.
LEMMA RegisteredKeepsRanking ==
    ASSUME NEW reg \in Seq(Entries), NEW before, NEW e \in Entries,
           NEW f, NEW g, Outranks(reg, f, g)
    PROVE  Outranks(Registered(reg, before, e), f, g)
<1>1. PICK k \in 1..Len(reg) + 1 : Registered(reg, before, e) = InsertAt(reg, k, e)
  BY RegisteredInserts
<1>2. PICK i \in 1..Len(reg), j \in 1..Len(reg) : i < j /\ reg[i] = f /\ reg[j] = g
  BY DEF Outranks
<1> DEFINE m == IF i < k THEN i ELSE i + 1
           n == IF j < k THEN j ELSE j + 1
           new == InsertAt(reg, k, e)
<1>3. Len(new) = Len(reg) + 1 /\ new[m] = f /\ new[n] = g
  BY SMTT(30), <1>2, InsertAtShape
<1>4. m \in 1..Len(reg) + 1 /\ n \in 1..Len(reg) + 1 /\ m < n
  BY <1>2
<1> HIDE DEF m, n, new
<1>5. Outranks(new, f, g)
  BY <1>3, <1>4 DEF Outranks
<1> QED
  BY <1>1, <1>5 DEF new

-----------------------------------------------------------------------------
(* A registry that grew from another one by registrations.                 *)

\* `at` gives the entries of base their positions in reg, in their order; what
\* stands between them are entries of extra.
Fits(base, reg, extra, at) ==
    /\ at \in [1..Len(base) -> 1..Len(reg)]
    /\ \A i \in 1..Len(base) : reg[at[i]] = base[i]
    /\ \A i, j \in 1..Len(base) : i < j => at[i] < at[j]
    /\ \A x \in 1..Len(reg) : (\E i \in 1..Len(base) : at[i] = x) \/ reg[x] \in extra

\* An insertion moves some entries of the base one place back.
LEMMA InsertionFits ==
    ASSUME NEW base \in Seq(Entries), NEW reg \in Seq(Entries), NEW extra, NEW at,
           NEW k \in 1..Len(reg) + 1, NEW e \in Entries, Fits(base, reg, extra, at)
    PROVE  \E moved : Fits(base, InsertAt(reg, k, e), extra \cup {e}, moved)
<1> DEFINE new == InsertAt(reg, k, e)
           moved == [i \in 1..Len(base) |-> IF at[i] < k THEN at[i] ELSE at[i] + 1]
<1>1. /\ at \in [1..Len(base) -> 1..Len(reg)]
      /\ \A i \in 1..Len(base) : reg[at[i]] = base[i]
      /\ \A i, j \in 1..Len(base) : i < j => at[i] < at[j]
      /\ \A x \in 1..Len(reg) : (\E i \in 1..Len(base) : at[i] = x) \/ reg[x] \in extra
  BY DEF Fits
<1>2. /\ Len(new) = Len(reg) + 1
      /\ \A i \in 1..Len(reg) : new[IF i < k THEN i ELSE i + 1] = reg[i]
  BY InsertAtShape
<1>3. \A x \in 1..Len(reg) + 1 :
          new[x] = IF x = k THEN e ELSE IF x < k THEN reg[x] ELSE reg[x - 1]
  BY InsertAtAt
<1> HIDE DEF new
<1>4. moved \in [1..Len(base) -> 1..Len(new)]
  BY <1>1, <1>2
<1>5. ASSUME NEW i \in 1..Len(base)
      PROVE  new[moved[i]] = base[i]
  <2>1. moved[i] = IF at[i] < k THEN at[i] ELSE at[i] + 1
    OBVIOUS
  <2>2. at[i] \in 1..Len(reg) /\ reg[at[i]] = base[i]
    BY <1>1
  <2> HIDE DEF moved
  <2> QED
    BY <1>2, <2>1, <2>2
<1>6. ASSUME NEW i \in 1..Len(base), NEW j \in 1..Len(base), i < j
      PROVE  moved[i] < moved[j]
  <2>1. at[i] < at[j] /\ at[i] \in Int /\ at[j] \in Int
    BY <1>1, <1>6
  <2>2. /\ moved[i] = IF at[i] < k THEN at[i] ELSE at[i] + 1
        /\ moved[j] = IF at[j] < k THEN at[j] ELSE at[j] + 1
    OBVIOUS
  <2> HIDE DEF moved
  <2> QED
    BY <2>1, <2>2
<1>7. ASSUME NEW x \in 1..Len(new)
      PROVE  (\E i \in 1..Len(base) : moved[i] = x) \/ new[x] \in extra \cup {e}
  <2>1. CASE x = k
    BY <1>2, <1>3, <2>1
  <2>2. CASE x # k
    <3> DEFINE y == IF x < k THEN x ELSE x - 1
    <3>1. y \in 1..Len(reg) /\ new[x] = reg[y] /\ x = IF y < k THEN y ELSE y + 1
      BY <1>2, <1>3, <2>2
    <3> HIDE DEF y
    <3>2. CASE \E i \in 1..Len(base) : at[i] = y
      BY <3>1, <3>2
    <3>3. CASE reg[y] \in extra
      BY <3>1, <3>3
    <3> QED
      BY <1>1, <3>1, <3>2, <3>3
  <2> QED
    BY <2>1, <2>2
<1> HIDE DEF moved
<1>8. Fits(base, new, extra \cup {e}, moved)
  BY <1>4, <1>5, <1>6, <1>7 DEF Fits
<1> QED
  BY <1>8 DEF new

\* A prepended entry is consulted before the whole base.
LEMMA PrependedOutranks ==
    ASSUME NEW base \in Seq(Entries), NEW reg \in Seq(Entries), NEW extra, NEW at,
           NEW e \in Entries, Fits(base, reg, extra, at), NEW i \in 1..Len(base)
    PROVE  Outranks(Registered(reg, NoName, e), e, base[i])
<1> DEFINE new == InsertAt(reg, 1, e)
<1>1. Registered(reg, NoName, e) = new
  BY RegisteredAtPlace DEF Place
<1>2. at[i] \in 1..Len(reg) /\ reg[at[i]] = base[i]
  BY DEF Fits
<1>3. /\ Len(new) = Len(reg) + 1 /\ new[1] = e
      /\ \A j \in 1..Len(reg) : new[IF j < 1 THEN j ELSE j + 1] = reg[j]
  <2>1. 1 \in 1..Len(reg) + 1
    OBVIOUS
  <2> QED
    BY <2>1, InsertAtShape
<1> HIDE DEF new
<1>4. new[at[i] + 1] = base[i]
  <2>1. new[IF at[i] < 1 THEN at[i] ELSE at[i] + 1] = reg[at[i]]
    BY <1>2, <1>3
  <2>2. ~(at[i] < 1)
    BY <1>2
  <2> QED
    BY <1>2, <2>1, <2>2
<1>5. 1 \in 1..Len(new) /\ at[i] + 1 \in 1..Len(new) /\ 1 < at[i] + 1
  BY <1>2, <1>3
<1> QED
  BY <1>1, <1>3, <1>4, <1>5 DEF Outranks

\* An entry inserted before a name precedes the base from that name on ...
LEMMA InsertedOutranks ==
    ASSUME NEW base \in Seq(Entries), NEW reg \in Seq(Entries), NEW extra, NEW at,
           NEW e \in Entries, Fits(base, reg, extra, at), NEW before, before # NoName,
           PositionOf(base, before) # 0,
           NEW i \in 1..Len(base), i >= PositionOf(base, before)
    PROVE  Outranks(Registered(reg, before, e), e, base[i])
<1> DEFINE a == PositionOf(base, before)
           k == PositionOf(reg, before)
           new == InsertAt(reg, k, e)
<1>1. a \in 1..Len(base) /\ NameOf[base[a]] = before
  BY PositionOfFirst
<1>2. /\ at[a] \in 1..Len(reg) /\ reg[at[a]] = base[a]
      /\ at[i] \in 1..Len(reg) /\ reg[at[i]] = base[i]
      /\ at[a] <= at[i]
  <2>1. CASE i = a
    BY <1>1, <2>1 DEF Fits
  <2>2. CASE i # a
    <3>1. a < i
      BY <1>1, <2>2
    <3> HIDE DEF a
    <3> QED
      BY <1>1, <3>1 DEF Fits
  <2> QED
    BY <2>1, <2>2
<1>3. NameOf[reg[at[a]]] = before
  BY <1>1, <1>2
<1>4. k \in 1..Len(reg) /\ k <= at[a]
  BY <1>2, <1>3, PositionOfFirst
<1>5. Registered(reg, before, e) = new
  BY <1>4, RegisteredAtPlace DEF Place
<1> HIDE DEF a, k
<1>6. /\ Len(new) = Len(reg) + 1 /\ new[k] = e
      /\ \A j \in 1..Len(reg) : new[IF j < k THEN j ELSE j + 1] = reg[j]
  BY <1>4, InsertAtShape
<1> HIDE DEF new
<1>7. new[at[i] + 1] = base[i]
  <2>1. at[i] \in 1..Len(reg) /\ ~(at[i] < k)
    BY <1>2, <1>4
  <2> QED
    BY <1>2, <1>6, <2>1
<1>8. k \in 1..Len(new) /\ at[i] + 1 \in 1..Len(new) /\ k < at[i] + 1
  BY <1>2, <1>4, <1>6
<1> QED
  BY <1>5, <1>6, <1>7, <1>8 DEF Outranks

\* ... and follows the base up to that name, when only the base has the name.
LEMMA InsertedIsOutranked ==
    ASSUME NEW base \in Seq(Entries), NEW reg \in Seq(Entries), NEW extra, NEW at,
           NEW e \in Entries, Fits(base, reg, extra, at), NEW before, before # NoName,
           \A x \in extra : NameOf[x] # before,
           NEW i \in 1..Len(base), i < PositionOf(base, before)
    PROVE  Outranks(Registered(reg, before, e), base[i], e)
<1> DEFINE a == PositionOf(base, before)
           k == PositionOf(reg, before)
           new == InsertAt(reg, k, e)
<1>1. /\ a \in 1..Len(base) /\ NameOf[base[a]] = before
      /\ \A j \in 1..Len(base) : NameOf[base[j]] = before => a <= j
  BY PositionOfFirst, PositionOfRange
<1>2. /\ at \in [1..Len(base) -> 1..Len(reg)]
      /\ \A j \in 1..Len(base) : reg[at[j]] = base[j]
      /\ \A j, l \in 1..Len(base) : j < l => at[j] < at[l]
      /\ \A x \in 1..Len(reg) : (\E j \in 1..Len(base) : at[j] = x) \/ reg[x] \in extra
  BY DEF Fits
<1>3. k \in 1..Len(reg) /\ NameOf[reg[k]] = before
  <2>1. at[a] \in 1..Len(reg) /\ NameOf[reg[at[a]]] = before
    BY <1>1, <1>2
  <2> QED
    BY <2>1, PositionOfFirst
<1>4. PICK j \in 1..Len(base) : at[j] = k
  BY <1>2, <1>3
<1>5. a <= j
  BY <1>1, <1>2, <1>3, <1>4
<1>6. Registered(reg, before, e) = new
  BY <1>3, RegisteredAtPlace DEF Place
<1> HIDE DEF k
<1>7. i < j
  BY <1>1, <1>5
<1>8. at[i] \in 1..Len(reg) /\ reg[at[i]] = base[i] /\ at[i] < k
  BY <1>2, <1>4, <1>7
<1>9. /\ Len(new) = Len(reg) + 1 /\ new[k] = e
      /\ \A x \in 1..Len(reg) : new[IF x < k THEN x ELSE x + 1] = reg[x]
  <2>1. k \in 1..Len(reg) + 1
    BY <1>3
  <2> QED
    BY <2>1, InsertAtShape
<1> HIDE DEF new
<1>10. new[at[i]] = base[i]
  BY <1>8, <1>9
<1>11. at[i] \in 1..Len(new) /\ k \in 1..Len(new)
  BY <1>3, <1>8, <1>9
<1> QED
  BY <1>6, <1>8, <1>9, <1>10, <1>11 DEF Outranks

-----------------------------------------------------------------------------
(* The inductive invariant.  TypeOK and RaceFree are not inductive: why    *)
(* nobody else writes follows from who owns the mutex, and that a store    *)
(* only inserts follows from the slice having been built from a registry   *)
(* that nobody has replaced since.                                         *)

InWriteSection(p) == pc[p] \in {"drain", "build", "store", "unlock"}

\* A goroutine inside Lock .. Unlock has a registration to make.
RequestInv == \A p \in Procs :
    InWriteSection(p) \/ pc[p] = "lock" => req[p] \in Requests

\* A writer owns the mutex, and past the drain there are no readers.
MutexInv == \A p \in Procs :
    /\ InWriteSection(p) => mu.owner = p
    /\ InWriteSection(p) /\ pc[p] # "drain" => mu.readers = {}

\* What is about to be stored extends the registry as it is now.
StoreInv == \A p \in Procs :
    pc[p] = "store" =>
        updated[p] = Registered(detectors, req[p].before, req[p].entry)

IInv == TypeOK /\ RequestInv /\ MutexInv /\ StoreInv

LEMMA RegisteredType ==
    ASSUME NEW reg \in Seq(Entries), NEW r \in Requests
    PROVE  Registered(reg, r.before, r.entry) \in Seq(Entries)
<1>1. r.entry \in Entries
  BY RequestsAssumption
<1>2. PICK k \in 1..Len(reg) + 1 :
        Registered(reg, r.before, r.entry) = InsertAt(reg, k, r.entry)
  BY <1>1, RegisteredInserts
<1> QED
  BY <1>1, <1>2, InsertAtShape

LEMMA InitIInv == Init => IInv
<1> SUFFICES ASSUME Init PROVE IInv
  OBVIOUS
<1>1. Outcome("none", NoEntry) \in Outcomes
  BY DEF Outcome, Outcomes
<1>2. TypeOK
  BY <1>1, BuiltinAssumption DEF Init, TypeOK, Labels
<1> QED
  BY <1>2 DEF Init, IInv, RequestInv, MutexInv, StoreInv, InWriteSection

\* Returning from DetectWithOptions keeps the types.
LEMMA ReturnType ==
    ASSUME TypeOK, NEW p \in Procs, NEW o \in Outcomes, Return(p, o)
    PROVE  /\ pc' \in [Procs -> Labels] /\ pc' = [pc EXCEPT ![p] = "idle"]
           /\ result' \in [Procs -> Outcomes]
           /\ dir' \in [Procs -> Dirs \cup {NoDir}]
           /\ snapshot' \in [Procs -> Seq(Entries)]
           /\ pos' \in [Procs -> Nat]
BY DEF Return, TypeOK, Labels

-----------------------------------------------------------------------------
(* Type correctness: every step of every goroutine.                        *)

LEMMA TypeStep ==
    ASSUME IInv, [Next]_vars
    PROVE  TypeOK'
<1> USE DEF IInv
<1>1. CASE UNCHANGED vars
  BY <1>1 DEF vars, TypeOK
<1> SUFFICES ASSUME NEW p \in Procs, Call(p) \/ Step(p)
             PROVE  TypeOK'
  BY <1>1 DEF Next
<1>2. ASSUME NEW r \in Requests, CallRegister(p, r) PROVE TypeOK'
  BY <1>2 DEF CallRegister, Goto, TypeOK, Labels
<1>3. ASSUME NEW d \in Dirs, CallDetect(p, d) PROVE TypeOK'
  BY <1>3 DEF CallDetect, Goto, TypeOK, Labels
<1>4. CASE Lock(p)
  BY <1>4 DEF Lock, MuLock, Goto, TypeOK, Labels
<1>5. CASE Drain(p)
  BY <1>5 DEF Drain, Goto, TypeOK, Labels
<1>6. CASE Build(p)
  <2>1. req[p] \in Requests
    BY <1>6 DEF Build, Goto, RequestInv, InWriteSection
  <2>2. Registered(detectors, req[p].before, req[p].entry) \in Seq(Entries)
    BY <2>1, RegisteredType DEF TypeOK
  <2> QED
    BY <1>6, <2>2 DEF Build, Goto, TypeOK, Labels
<1>7. CASE Store(p)
  BY <1>7 DEF Store, Goto, TypeOK, Labels
<1>8. CASE Unlock(p)
  <2>1. <<>> \in Seq(Entries)
    OBVIOUS
  <2> QED
    BY <1>8, <2>1 DEF Unlock, MuUnlock, Goto, TypeOK, Labels
<1>9. CASE LoadConfig(p)
  <2>1. \A kind \in {"config", "configError", "dockerfile"} :
          Outcome(kind, NoEntry) \in Outcomes
    BY DEF Outcome, Outcomes
  <2>2. CASE Goto(p, "config", "rlock") /\ UNCHANGED <<dir, snapshot, pos, result>>
    BY <1>9, <2>2 DEF LoadConfig, Goto, TypeOK, Labels
  <2>3. ASSUME NEW o \in Outcomes, Return(p, o) PROVE TypeOK'
    BY <1>9, <2>3, ReturnType DEF LoadConfig, TypeOK
  <2> QED
    BY <1>9, <2>1, <2>2, <2>3 DEF LoadConfig
<1>10. CASE RLock(p)
  BY <1>10 DEF RLock, MuRLock, Goto, TypeOK, Labels
<1>11. CASE Copy(p)
  BY <1>11 DEF Copy, Goto, TypeOK, Labels
<1>12. CASE RUnlock(p)
  BY <1>12 DEF RUnlock, MuRUnlock, Goto, TypeOK, Labels
<1>13. CASE Scan(p)
  <2> DEFINE e == snapshot[p][pos[p]]
  <2>1. e \in Entries
    BY <1>13 DEF Scan, TypeOK
  <2>2. Outcome("detected", e) \in Outcomes
    BY <2>1 DEF Outcome, Outcomes
  <2>3. CASE Return(p, Outcome("detected", e))
    BY <1>13, <2>2, <2>3, ReturnType DEF Scan, TypeOK
  <2>4. CASE pos' = [pos EXCEPT ![p] = @ + 1] /\ UNCHANGED <<pc, dir, snapshot, result>>
    BY <1>13, <2>4 DEF Scan, TypeOK
  <2> QED
    BY <1>13, <2>3, <2>4 DEF Scan
<1>14. CASE ScanEnd(p)
  BY <1>14 DEF ScanEnd, Goto, TypeOK, Labels
<1>15. CASE AutoFetch(p)
  <2>1. \A kind \in {"fetched", "fetchError", "static", "error"} :
          Outcome(kind, NoEntry) \in Outcomes
    BY DEF Outcome, Outcomes
  <2>2. \E o \in Outcomes : Return(p, o)
    BY <1>15, <2>1 DEF AutoFetch
  <2> QED
    BY <1>15, <2>2, ReturnType DEF AutoFetch, TypeOK
<1> QED
  BY <1>2, <1>3, <1>4, <1>5, <1>6, <1>7, <1>8, <1>9, <1>10, <1>11, <1>12,
     <1>13, <1>14, <1>15 DEF Call, Step

-----------------------------------------------------------------------------
(* The rest of the inductive invariant.                                    *)

\* Steps that neither touch the mutex and the slice nor enter or leave the
\* write section: the client's own part of a detection.
QuietLabels == {"idle", "config", "rlock", "scan", "autofetch"}

Quiet(p) ==
    /\ UNCHANGED <<detectors, mu, fresh, req, updated>>
    /\ pc[p] \in QuietLabels
    /\ \E l \in QuietLabels : pc' = [pc EXCEPT ![p] = l]

LEMMA QuietSteps ==
    ASSUME TypeOK, NEW p \in Procs,
           \/ \E d \in Dirs : CallDetect(p, d)
           \/ LoadConfig(p) \/ Scan(p) \/ ScanEnd(p) \/ AutoFetch(p)
    PROVE  Quiet(p)
<1>1. ASSUME NEW o, Return(p, o) PROVE pc' = [pc EXCEPT ![p] = "idle"]
  BY <1>1 DEF Return
<1>2. CASE \E d \in Dirs : CallDetect(p, d)
  BY <1>2 DEF CallDetect, Goto, Quiet, QuietLabels
<1>3. CASE LoadConfig(p)
  BY <1>1, <1>3 DEF LoadConfig, Goto, Quiet, QuietLabels
<1>4. CASE Scan(p)
  <2>1. CASE UNCHANGED pc
    <3>1. pc' = [pc EXCEPT ![p] = "scan"]
      BY <1>4, <2>1 DEF Scan, TypeOK
    <3> QED
      BY <1>4, <3>1 DEF Scan, Quiet, QuietLabels
  <2>2. CASE \E o : Return(p, o)
    BY <1>1, <1>4, <2>2 DEF Scan, Quiet, QuietLabels
  <2> QED
    BY <1>4, <2>1, <2>2 DEF Scan
<1>5. CASE ScanEnd(p)
  BY <1>5 DEF ScanEnd, Goto, Quiet, QuietLabels
<1>6. CASE AutoFetch(p)
  BY <1>1, <1>6 DEF AutoFetch, Quiet, QuietLabels
<1> QED
  BY <1>2, <1>3, <1>4, <1>5, <1>6

\* The steps of Next, with the quiet ones taken together.
LEMMA NextCases ==
    ASSUME TypeOK, [Next]_vars
    PROVE  \/ UNCHANGED vars
           \/ \E p \in Procs :
                 \/ \E r \in Requests : CallRegister(p, r)
                 \/ Lock(p) \/ Drain(p) \/ Build(p) \/ Store(p) \/ Unlock(p)
                 \/ RLock(p) \/ Copy(p) \/ RUnlock(p) \/ Quiet(p)
BY QuietSteps DEF Next, Call, Step

LEMMA RequestStep ==
    ASSUME IInv, [Next]_vars
    PROVE  RequestInv'
<1> USE DEF IInv, RequestInv, InWriteSection, TypeOK
<1>1. CASE UNCHANGED vars
  BY <1>1 DEF vars
<1>2. ASSUME NEW p \in Procs, NEW r \in Requests, CallRegister(p, r) PROVE RequestInv'
  BY <1>2 DEF CallRegister, Goto
<1>3. ASSUME NEW p \in Procs, Lock(p) \/ Drain(p) \/ Build(p) \/ Store(p)
      PROVE  RequestInv'
  BY <1>3 DEF Lock, Drain, Build, Store, Goto
<1>4. ASSUME NEW p \in Procs, Unlock(p) PROVE RequestInv'
  BY <1>4 DEF Unlock, Goto
<1>5. ASSUME NEW p \in Procs, RLock(p) \/ Copy(p) \/ RUnlock(p) PROVE RequestInv'
  BY <1>5 DEF RLock, Copy, RUnlock, Goto
<1>6. ASSUME NEW p \in Procs, Quiet(p) PROVE RequestInv'
  BY <1>6 DEF Quiet, QuietLabels
<1> QED
  BY <1>1, <1>2, <1>3, <1>4, <1>5, <1>6, NextCases

LEMMA MutexStep ==
    ASSUME IInv, [Next]_vars
    PROVE  MutexInv'
<1> USE DEF IInv, MutexInv, InWriteSection, TypeOK
<1>1. CASE UNCHANGED vars
  BY <1>1 DEF vars
<1>2. ASSUME NEW p \in Procs, NEW r \in Requests, CallRegister(p, r) PROVE MutexInv'
  BY <1>2 DEF CallRegister, Goto
<1>3. ASSUME NEW p \in Procs, Lock(p) PROVE MutexInv'
  \* The mutex was free, so nobody else is in the write section.
  BY <1>3, SentinelAssumption DEF Lock, MuLock, Goto
<1>4. ASSUME NEW p \in Procs, Drain(p) PROVE MutexInv'
  BY <1>4 DEF Drain, CanWrite, Goto
<1>5. ASSUME NEW p \in Procs, Build(p) \/ Store(p) PROVE MutexInv'
  BY <1>5 DEF Build, Store, Goto
<1>6. ASSUME NEW p \in Procs, Unlock(p) PROVE MutexInv'
  \* p owned the mutex, so the parked readers disturb no writer.
  BY <1>6 DEF Unlock, MuUnlock, Goto
<1>7. ASSUME NEW p \in Procs, RLock(p) PROVE MutexInv'
  <2>1. CASE mu.owner = Nobody
    BY <1>7, <2>1, SentinelAssumption DEF RLock, MuRLock, Goto
  <2>2. CASE mu.owner # Nobody
    BY <1>7, <2>2 DEF RLock, MuRLock, Goto
  <2> QED
    BY <2>1, <2>2
<1>8. ASSUME NEW p \in Procs, Copy(p) PROVE MutexInv'
  BY <1>8 DEF Copy, Goto
<1>9. ASSUME NEW p \in Procs, RUnlock(p) PROVE MutexInv'
  BY <1>9 DEF RUnlock, MuRUnlock, Goto
<1>10. ASSUME NEW p \in Procs, Quiet(p) PROVE MutexInv'
  BY <1>10 DEF Quiet, QuietLabels
<1> QED
  BY <1>1, <1>2, <1>3, <1>4, <1>5, <1>6, <1>7, <1>8, <1>9, <1>10, NextCases

LEMMA StoreStep ==
    ASSUME IInv, [Next]_vars
    PROVE  StoreInv'
<1> USE DEF IInv, StoreInv, TypeOK
<1>1. CASE UNCHANGED vars
  BY <1>1 DEF vars
<1>2. ASSUME NEW p \in Procs, NEW r \in Requests, CallRegister(p, r) PROVE StoreInv'
  BY <1>2 DEF CallRegister, Goto
<1>3. ASSUME NEW p \in Procs, Lock(p) \/ Drain(p) PROVE StoreInv'
  BY <1>3 DEF Lock, Drain, Goto
<1>4. ASSUME NEW p \in Procs, Build(p) PROVE StoreInv'
  BY <1>4 DEF Build, Goto
<1>5. ASSUME NEW p \in Procs, Store(p) PROVE StoreInv'
  \* p owns the mutex, so no other goroutine is about to store.
  <2>1. \A q \in Procs : pc'[q] # "store"
    BY <1>5 DEF Store, Goto, MutexInv, InWriteSection
  <2> QED
    BY <2>1
<1>6. ASSUME NEW p \in Procs, Unlock(p) PROVE StoreInv'
  BY <1>6 DEF Unlock, Goto
<1>7. ASSUME NEW p \in Procs, RLock(p) \/ Copy(p) \/ RUnlock(p) PROVE StoreInv'
  BY <1>7 DEF RLock, Copy, RUnlock, Goto
<1>8. ASSUME NEW p \in Procs, Quiet(p) PROVE StoreInv'
  BY <1>8 DEF Quiet, QuietLabels
<1> QED
  BY <1>1, <1>2, <1>3, <1>4, <1>5, <1>6, <1>7, <1>8, NextCases

(* The mutex, the Go slices and the goroutines stay consistent: the        *)
(* invariant that data races and ranking rest on.                          *)
THEOREM Inductive == Spec => []IInv
<1>1. Init => IInv
  BY InitIInv
<1>2. IInv /\ [Next]_vars => IInv'
  BY TypeStep, RequestStep, MutexStep, StoreStep DEF IInv
<1> QED
  BY <1>1, <1>2, PTL DEF Spec

-----------------------------------------------------------------------------
(* The theorems.                                                           *)

(* The types of the registry, its mutex and the goroutines' locals.        *)
THEOREM TypeCorrect == Spec => []TypeOK
<1>1. IInv => TypeOK
  BY DEF IInv
<1> QED
  BY <1>1, Inductive, PTL

(* However many goroutines detect and register, and whatever their         *)
(* callbacks register, the slice is never read or written during a write.  *)
THEOREM NoDataRace == Spec => []RaceFree
<1>1. IInv => RaceFree
  BY DEF IInv, TypeOK, MutexInv, InWriteSection, RaceFree, Reading, Writing, CanRead
<1> QED
  BY <1>1, Inductive, PTL

(* No step ever changes which of two registered detectors is asked first.  *)
THEOREM RankingIsKept == Spec => RankingKept
<1>1. ASSUME IInv, [Next]_vars, NEW e \in Entries, NEW f \in Entries,
             Outranks(detectors, e, f)
      PROVE  Outranks(detectors', e, f)
  <2>1. CASE UNCHANGED detectors
    BY <1>1, <2>1
  <2>2. ASSUME NEW p \in Procs, Store(p)
        PROVE  Outranks(detectors', e, f)
    <3>1. /\ detectors' = Registered(detectors, req[p].before, req[p].entry)
          /\ req[p] \in Requests
      BY <1>1, <2>2 DEF Store, Goto, IInv, StoreInv, RequestInv, InWriteSection
    <3> QED
      BY <1>1, <3>1, RequestsAssumption, RegisteredKeepsRanking DEF IInv, TypeOK
  <2>3. UNCHANGED detectors \/ \E p \in Procs : Store(p)
    BY <1>1, NextCases DEF IInv, vars, Quiet, CallRegister, Lock, Drain, Build,
                           Unlock, RLock, Copy, RUnlock
  <2> QED
    BY <2>1, <2>2, <2>3
<1>2. IInv /\ [Next]_vars =>
        [\A e, f \in Entries : Outranks(detectors, e, f) => Outranks(detectors', e, f)]_vars
  BY <1>1
<1> QED
  BY <1>2, Inductive, PTL DEF Spec, RankingKept

-----------------------------------------------------------------------------
(* No registration is lost.  NothingLost and PriorityHonoured need to know *)
(* whose registration is in progress and where each detector came from:    *)
(* the built-ins stand in the registry in their own order, and what stands *)
(* between them is a stored registration.                                  *)

Done == {r \in Requests : Stored(r)}

\* A registration is being made by one goroutine at most, and has been taken.
OwnInv ==
    /\ \A p \in Procs : /\ req[p] \in Requests => InWriteSection(p) \/ pc[p] = "lock"
                        /\ req[p] \notin fresh
    /\ \A p, q \in Procs : req[p] \in Requests /\ req[p] = req[q] => p = q

DoneEntries == {r.entry : r \in Done}

\* The built-ins are all there, in their order, and the rest was registered.
OriginInv == \E at : Fits(Builtin, detectors, DoneEntries, at)

\* Each stored registration occupies a position.
CountInv ==
    /\ IsFiniteSet(Done)
    /\ Len(detectors) = Len(Builtin) + Cardinality(Done)
    /\ \A r \in Done : \E x \in 1..Len(detectors) : detectors[x] = r.entry

\* What PriorityHonoured says of one registration and one built-in.
Placed(r, i) ==
    LET b == Builtin[i]
        anchor == PositionOf(Builtin, r.before)
        unique == \A s \in Done : NameOf[s.entry] # r.before
    IN  IF r.before = NoName THEN Outranks(detectors, r.entry, b)
        ELSE /\ anchor # 0 /\ i >= anchor => Outranks(detectors, r.entry, b)
             /\ unique /\ i < anchor => Outranks(detectors, b, r.entry)

RegistrationInv == OwnInv /\ OriginInv /\ CountInv /\ PriorityHonoured

LEMMA OwnStep ==
    ASSUME IInv, OwnInv, [Next]_vars
    PROVE  OwnInv'
<1> USE DEF IInv, OwnInv, InWriteSection, TypeOK
<1>1. CASE UNCHANGED vars
  BY <1>1 DEF vars
<1>2. ASSUME NEW p \in Procs, NEW r \in Requests, CallRegister(p, r) PROVE OwnInv'
  <2>1. /\ req' = [req EXCEPT ![p] = r] /\ fresh' = fresh \ {r} /\ r \in fresh
        /\ pc' = [pc EXCEPT ![p] = "lock"]
        /\ pc[p] \in {"idle", "scan"}
    BY <1>2 DEF CallRegister, Goto
  <2>2. req[p] \notin Requests
    BY <2>1
  <2> QED
    BY <2>1, <2>2
<1>3. ASSUME NEW p \in Procs, Lock(p) \/ Drain(p) \/ Build(p) \/ Store(p)
      PROVE  OwnInv'
  BY <1>3 DEF Lock, Drain, Build, Store, Goto
<1>4. ASSUME NEW p \in Procs, Unlock(p) PROVE OwnInv'
  BY <1>4, SentinelAssumption DEF Unlock, Goto
<1>5. ASSUME NEW p \in Procs, RLock(p) \/ Copy(p) \/ RUnlock(p) PROVE OwnInv'
  BY <1>5 DEF RLock, Copy, RUnlock, Goto
<1>6. ASSUME NEW p \in Procs, Quiet(p) PROVE OwnInv'
  BY <1>6 DEF Quiet, QuietLabels
<1> QED
  BY <1>1, <1>2, <1>3, <1>4, <1>5, <1>6, NextCases

\* A registration takes effect when it stores its slice, and only then.
LEMMA DoneStep ==
    ASSUME IInv, OwnInv, [Next]_vars
    PROVE  \/ Done' = Done /\ UNCHANGED detectors
           \/ \E p \in Procs :
                 /\ Store(p)
                 /\ req[p] \in Requests \ Done
                 /\ Done' = Done \cup {req[p]}
                 /\ detectors' = Registered(detectors, req[p].before, req[p].entry)
<1> USE DEF IInv, OwnInv, InWriteSection, TypeOK, Done, Stored
<1>1. CASE UNCHANGED vars
  BY <1>1 DEF vars
<1>2. ASSUME NEW p \in Procs, NEW r \in Requests, CallRegister(p, r)
      PROVE  Done' = Done /\ UNCHANGED detectors
  <2>1. /\ req' = [req EXCEPT ![p] = r] /\ fresh' = fresh \ {r} /\ r \in fresh
        /\ pc' = [pc EXCEPT ![p] = "lock"]
        /\ pc[p] \in {"idle", "scan"} /\ UNCHANGED detectors
    BY <1>2 DEF CallRegister, Goto
  <2>2. req[p] \notin Requests
    BY <2>1
  <2>3. ASSUME NEW s \in Requests PROVE Stored(s)' <=> Stored(s)
    <3>1. CASE s = r
      BY <2>1, <3>1
    <3>2. CASE s # r
      BY <2>1, <2>2, <3>2
    <3> QED
      BY <3>1, <3>2
  <2> HIDE DEF Stored
  <2> QED
    BY <2>1, <2>3
<1>3. ASSUME NEW p \in Procs, Lock(p) \/ Drain(p) \/ Build(p)
      PROVE  Done' = Done /\ UNCHANGED detectors
  <2>1. /\ pc' \in [Procs -> Labels] /\ UNCHANGED <<detectors, fresh, req>>
        /\ pc[p] # "unlock" /\ pc'[p] # "unlock"
        /\ \A q \in Procs : q # p => pc'[q] = pc[q]
    BY <1>3, TypeStep DEF Lock, Drain, Build, Goto
  <2>2. ASSUME NEW s \in Requests PROVE Stored(s)' <=> Stored(s)
    BY <2>1
  <2> HIDE DEF Stored
  <2> QED
    BY <2>1, <2>2
<1>4. ASSUME NEW p \in Procs, Store(p)
      PROVE  /\ req[p] \in Requests \ Done
             /\ Done' = Done \cup {req[p]}
             /\ detectors' = Registered(detectors, req[p].before, req[p].entry)
  <2>1. /\ pc[p] = "store" /\ pc' = [pc EXCEPT ![p] = "unlock"]
        /\ UNCHANGED <<fresh, req>> /\ detectors' = updated[p]
        /\ req[p] \in Requests
    BY <1>4 DEF Store, Goto, RequestInv
  <2>2. req[p] \notin Done
    BY <2>1
  <2>3. ASSUME NEW s \in Requests, s # req[p] PROVE Stored(s)' <=> Stored(s)
    BY <2>1, <2>3
  <2>4. Stored(req[p])'
    BY <2>1
  <2>5. detectors' = Registered(detectors, req[p].before, req[p].entry)
    BY <2>1 DEF StoreInv
  <2> HIDE DEF Stored
  <2> QED
    BY <2>1, <2>2, <2>3, <2>4, <2>5
<1>5. ASSUME NEW p \in Procs, Unlock(p)
      PROVE  Done' = Done /\ UNCHANGED detectors
  <2>1. /\ pc[p] = "unlock" /\ req' = [req EXCEPT ![p] = NoRequest]
        /\ UNCHANGED <<detectors, fresh>>
        /\ \A q \in Procs : q # p => pc'[q] = pc[q]
    BY <1>5 DEF Unlock, Goto
  <2>2. ASSUME NEW s \in Requests PROVE Stored(s)' <=> Stored(s)
    BY <2>1, SentinelAssumption
  <2> HIDE DEF Stored
  <2> QED
    BY <2>1, <2>2
<1>6. ASSUME NEW p \in Procs,
             /\ UNCHANGED <<detectors, fresh, req>>
             /\ \A q \in Procs : q # p => pc'[q] = pc[q]
             /\ ~(InWriteSection(p) \/ pc[p] = "lock")
      PROVE  Done' = Done /\ UNCHANGED detectors
  <2>1. req[p] \notin Requests
    BY <1>6
  <2>2. ASSUME NEW s \in Requests PROVE Stored(s)' <=> Stored(s)
    BY <1>6, <2>1
  <2> HIDE DEF Stored
  <2> QED
    BY <1>6, <2>2
<1>7. ASSUME NEW p \in Procs, RLock(p) \/ Copy(p) \/ RUnlock(p)
      PROVE  Done' = Done /\ UNCHANGED detectors
  BY <1>6, <1>7 DEF RLock, Copy, RUnlock, Goto
<1>8. ASSUME NEW p \in Procs, Quiet(p)
      PROVE  Done' = Done /\ UNCHANGED detectors
  BY <1>6, <1>8 DEF Quiet, QuietLabels
<1> QED
  BY <1>1, <1>2, <1>3, <1>4, <1>5, <1>7, <1>8, NextCases

LEMMA OriginStep ==
    ASSUME IInv, OwnInv, OriginInv, [Next]_vars
    PROVE  OriginInv'
<1>1. CASE Done' = Done /\ UNCHANGED detectors
  BY <1>1 DEF OriginInv, DoneEntries
<1>2. ASSUME NEW r \in Requests, Done' = Done \cup {r},
             detectors' = Registered(detectors, r.before, r.entry)
      PROVE  OriginInv'
  <2>1. detectors \in Seq(Entries) /\ Builtin \in Seq(Entries) /\ r.entry \in Entries
    BY BuiltinAssumption, RequestsAssumption DEF IInv, TypeOK
  <2>2. PICK at : Fits(Builtin, detectors, DoneEntries, at)
    BY DEF OriginInv
  <2>3. PICK k \in 1..Len(detectors) + 1 : detectors' = InsertAt(detectors, k, r.entry)
    BY <1>2, <2>1, RegisteredInserts
  <2>4. DoneEntries' = DoneEntries \cup {r.entry}
    BY <1>2 DEF DoneEntries
  <2>5. \E moved : Fits(Builtin, InsertAt(detectors, k, r.entry), DoneEntries \cup {r.entry}, moved)
    BY <2>1, <2>2, InsertionFits
  <2> QED
    BY <2>3, <2>4, <2>5 DEF OriginInv
<1> QED
  BY <1>1, <1>2, DoneStep

LEMMA CountStep ==
    ASSUME IInv, OwnInv, CountInv, [Next]_vars
    PROVE  CountInv'
<1>1. CASE Done' = Done /\ UNCHANGED detectors
  BY <1>1 DEF CountInv
<1>2. ASSUME NEW r \in Requests, r \notin Done, Done' = Done \cup {r},
             detectors' = Registered(detectors, r.before, r.entry)
      PROVE  CountInv'
  <2>1. detectors \in Seq(Entries) /\ r.entry \in Entries
    BY RequestsAssumption DEF IInv, TypeOK
  <2>2. PICK k \in 1..Len(detectors) + 1 : detectors' = InsertAt(detectors, k, r.entry)
    BY <1>2, <2>1, RegisteredInserts
  <2>3. /\ Len(detectors') = Len(detectors) + 1
        /\ detectors'[k] = r.entry
        /\ \A i \in 1..Len(detectors) :
              detectors'[IF i < k THEN i ELSE i + 1] = detectors[i]
    BY <2>1, <2>2, InsertAtShape
  <2>4. IsFiniteSet(Done') /\ Cardinality(Done') = Cardinality(Done) + 1
    BY <1>2, FS_AddElement DEF CountInv
  <2>5. Len(detectors') = Len(Builtin) + Cardinality(Done')
    <3>1. Cardinality(Done) \in Nat /\ Len(Builtin) \in Nat
      BY FS_CardinalityType, BuiltinAssumption DEF CountInv
    <3> QED
      BY <2>3, <2>4, <3>1 DEF CountInv
  <2>6. ASSUME NEW s \in Done' PROVE \E x \in 1..Len(detectors') : detectors'[x] = s.entry
    <3>1. CASE s = r
      <4>1. k \in 1..Len(detectors')
        BY <2>3
      <4> QED
        BY <2>3, <3>1, <4>1
    <3>2. CASE s \in Done
      <4>1. PICK x \in 1..Len(detectors) : detectors[x] = s.entry
        BY <3>2 DEF CountInv
      <4>2. /\ detectors'[IF x < k THEN x ELSE x + 1] = s.entry
            /\ (IF x < k THEN x ELSE x + 1) \in 1..Len(detectors')
        BY <2>1, <2>3, <4>1
      <4> QED
        BY <4>2
    <3> QED
      BY <1>2, <3>1, <3>2
  <2> QED
    BY <2>4, <2>5, <2>6 DEF CountInv
<1> QED
  BY <1>1, <1>2, DoneStep

LEMMA PriorityStep ==
    ASSUME IInv, OwnInv, OriginInv, PriorityHonoured, [Next]_vars
    PROVE  PriorityHonoured'
<1>1. CASE Done' = Done /\ UNCHANGED detectors
  BY <1>1 DEF Done, PriorityHonoured
<1>2. ASSUME NEW r \in Requests, Done' = Done \cup {r},
             detectors' = Registered(detectors, r.before, r.entry)
      PROVE  PriorityHonoured'
  <2>1. detectors \in Seq(Entries) /\ Builtin \in Seq(Entries) /\ r.entry \in Entries
    BY BuiltinAssumption, RequestsAssumption DEF IInv, TypeOK
  <2>2. PICK at : Fits(Builtin, detectors, DoneEntries, at)
    BY DEF OriginInv
  <2>3. SUFFICES ASSUME NEW s \in Done', NEW i \in 1..Len(Builtin)
                 PROVE  Placed(s, i)'
    BY DEF PriorityHonoured, Done, Placed
  <2>4. CASE s \in Done
    \* The registry only grows and keeps its order.
    <3>1. \A f, g : Outranks(detectors, f, g) => Outranks(detectors', f, g)
      BY <1>2, <2>1, RegisteredKeepsRanking
    <3>2. Placed(s, i)
      BY <2>4 DEF PriorityHonoured, Done, Placed
    <3>3. Done \subseteq Done'
      BY <1>2
    <3> QED
      BY <3>1, <3>2, <3>3 DEF Placed
  <2>5. CASE s = r
    <3>1. CASE r.before = NoName
      <4>1. Outranks(detectors', r.entry, Builtin[i])
        BY <1>2, <2>1, <2>2, <3>1, PrependedOutranks
      <4> QED
        BY <2>5, <3>1, <4>1 DEF Placed
    <3>2. CASE r.before # NoName
      <4>1. ASSUME PositionOf(Builtin, r.before) # 0, i >= PositionOf(Builtin, r.before)
            PROVE  Outranks(detectors', r.entry, Builtin[i])
        BY <1>2, <2>1, <2>2, <3>2, <4>1, InsertedOutranks
      <4>2. ASSUME i < PositionOf(Builtin, r.before),
                   \A q \in Done' : NameOf[q.entry] # r.before
            PROVE  Outranks(detectors', Builtin[i], r.entry)
        <5>1. \A x \in DoneEntries : NameOf[x] # r.before
          BY <1>2, <4>2 DEF DoneEntries
        <5> QED
          BY <1>2, <2>1, <2>2, <3>2, <4>2, <5>1, InsertedIsOutranked
      <4> QED
        BY <2>5, <3>2, <4>1, <4>2 DEF Placed
    <3> QED
      BY <3>1, <3>2
  <2> QED
    BY <1>2, <2>4, <2>5
<1> QED
  BY <1>1, <1>2, DoneStep

LEMMA InitRegistrationInv == Init => RegistrationInv
<1> SUFFICES ASSUME Init PROVE RegistrationInv
  OBVIOUS
<1>1. Done = {} /\ DoneEntries = {}
  BY DEF Init, Done, Stored, DoneEntries
<1>2. OwnInv
  BY SentinelAssumption DEF Init, OwnInv
<1>3. Fits(Builtin, detectors, DoneEntries, [i \in 1..Len(Builtin) |-> i])
  BY BuiltinAssumption DEF Init, Fits
<1>4. CountInv
  BY <1>1, FS_EmptySet, BuiltinAssumption DEF Init, CountInv
<1>5. PriorityHonoured
  BY <1>1 DEF PriorityHonoured, Done
<1> QED
  BY <1>2, <1>3, <1>4, <1>5 DEF RegistrationInv, OriginInv

(* What is in the registry comes from the built-in list or a registration  *)
(* that was made, and each of these is there once.                         *)
THEOREM RegistrationInductive == Spec => []RegistrationInv
<1>1. IInv /\ RegistrationInv /\ [Next]_vars => RegistrationInv'
  BY OwnStep, OriginStep, CountStep, PriorityStep DEF RegistrationInv
<1> QED
  BY <1>1, InitRegistrationInv, Inductive, PTL DEF Spec

(* Whatever the goroutines, the built-in list and the registrations: the   *)
(* registry is the built-in list and every stored registration, each once. *)
THEOREM NoneLost == Spec => []NothingLost
<1>1. ASSUME IInv, RegistrationInv PROVE NothingLost
  <2>1. PICK at : Fits(Builtin, detectors, DoneEntries, at)
    BY <1>1 DEF RegistrationInv, OriginInv
  <2>2. detectors \in Seq(Entries) /\ Builtin \in Seq(Entries)
    BY <1>1, BuiltinAssumption DEF IInv, TypeOK
  <2>3. ASSUME NEW e \in ToSet(detectors) PROVE e \in ToSet(Builtin) \cup DoneEntries
    <3>1. PICK x \in 1..Len(detectors) : e = detectors[x]
      BY <2>2, <2>3 DEF ToSet
    <3>2. CASE \E i \in 1..Len(Builtin) : at[i] = x
      BY <2>1, <2>2, <3>1, <3>2 DEF Fits, ToSet
    <3>3. CASE detectors[x] \in DoneEntries
      BY <3>1, <3>3
    <3> QED
      BY <2>1, <3>1, <3>2, <3>3 DEF Fits
  <2>4. ASSUME NEW e \in ToSet(Builtin) PROVE e \in ToSet(detectors)
    <3>1. PICK i \in 1..Len(Builtin) : e = Builtin[i]
      BY <2>2, <2>4 DEF ToSet
    <3>2. at[i] \in 1..Len(detectors) /\ detectors[at[i]] = e
      BY <2>1, <3>1 DEF Fits
    <3> QED
      BY <2>2, <3>2 DEF ToSet
  <2>5. ASSUME NEW e \in DoneEntries PROVE e \in ToSet(detectors)
    BY <1>1, <2>2, <2>5 DEF RegistrationInv, CountInv, DoneEntries, ToSet
  <2>6. ToSet(detectors) = ToSet(Builtin) \cup DoneEntries
    BY <2>3, <2>4, <2>5
  <2>7. Len(detectors) = Len(Builtin) + Cardinality(Done)
    BY <1>1 DEF RegistrationInv, CountInv
  <2> QED
    BY <2>6, <2>7 DEF NothingLost, Done, DoneEntries
<1> QED
  BY <1>1, Inductive, RegistrationInductive, PTL

(* A client's place among the built-ins holds for good, in whatever order  *)
(* and from however many goroutines the others register.                   *)
THEOREM PriorityIsHonoured == Spec => []PriorityHonoured
<1>1. RegistrationInv => PriorityHonoured
  BY DEF RegistrationInv
<1> QED
  BY <1>1, RegistrationInductive, PTL

-----------------------------------------------------------------------------
(* The registry implements AtomicRegistry.  The steps map only when a      *)
(* detection is still about its directory, and has passed over nothing     *)
(* that recognises it.                                                     *)

CallInv == \A p \in Procs :
    /\ pc[p] = "idle" => dir[p] = NoDir
    /\ pc[p] \in {"config", "rlock", "copy", "runlock", "scan", "autofetch"} => dir[p] \in Dirs
    /\ pc[p] \in {"rlock", "copy"} => dir[p].config = "none" /\ ~dir[p].dockerfile

ScanInv == \A p \in Procs :
    /\ Resolved(p) /\ pc[p] # "runlock" =>
          \A i \in 1..Len(snapshot[p]) : i < pos[p] => snapshot[p][i] \notin dir[p].hits
    /\ pc[p] = "autofetch" => pos[p] > Len(snapshot[p])

\* What one step of p leaves alone.
OthersSame(p) ==
    \A q \in Procs : q # p => /\ pc'[q] = pc[q] /\ dir'[q] = dir[q]
                              /\ snapshot'[q] = snapshot[q] /\ pos'[q] = pos[q]

LEMMA StepShape ==
    ASSUME TypeOK, CallInv, NEW p \in Procs, Call(p) \/ Step(p)
    PROVE  OthersSame(p)
<1> USE DEF TypeOK, OthersSame, Goto
<1>1. ASSUME NEW o, Return(p, o), TypeOK PROVE OthersSame(p)
  BY <1>1 DEF Return
<1>2. ASSUME NEW r \in Requests, CallRegister(p, r) PROVE OthersSame(p)
  BY <1>2 DEF CallRegister
<1>3. ASSUME NEW d \in Dirs, CallDetect(p, d) PROVE OthersSame(p)
  BY <1>3 DEF CallDetect
<1>4. CASE Lock(p) \/ Drain(p) \/ Build(p) \/ Store(p) \/ Unlock(p)
  BY <1>4 DEF Lock, Drain, Build, Store, Unlock
<1>5. CASE LoadConfig(p)
  BY <1>1, <1>5 DEF LoadConfig
<1>6. CASE RLock(p) \/ Copy(p) \/ RUnlock(p) \/ ScanEnd(p)
  BY <1>6 DEF RLock, Copy, RUnlock, ScanEnd
<1>7. CASE Scan(p)
  <2>1. CASE \E o : Return(p, o)
    BY <1>1, <2>1
  <2>2. CASE pos' = [pos EXCEPT ![p] = @ + 1] /\ UNCHANGED <<pc, dir, snapshot, result>>
    BY <2>2
  <2> QED
    BY <1>7, <2>1, <2>2 DEF Scan
<1>8. CASE AutoFetch(p)
  BY <1>1, <1>8 DEF AutoFetch
<1> QED
  BY <1>2, <1>3, <1>4, <1>5, <1>6, <1>7, <1>8 DEF Call, Step

\* A step of p keeps both invariants if it keeps them for p.
LEMMA InvForOne ==
    ASSUME CallInv, ScanInv, NEW p \in Procs, OthersSame(p),
           /\ pc'[p] = "idle" => dir'[p] = NoDir
           /\ pc'[p] \in {"config", "rlock", "copy", "runlock", "scan", "autofetch"} => dir'[p] \in Dirs
           /\ pc'[p] \in {"rlock", "copy"} => dir'[p].config = "none" /\ ~dir'[p].dockerfile,
           /\ Resolved(p)' /\ pc'[p] # "runlock" =>
                 \A i \in 1..Len(snapshot'[p]) : i < pos'[p] => snapshot'[p][i] \notin dir'[p].hits
           /\ pc'[p] = "autofetch" => pos'[p] > Len(snapshot'[p])
    PROVE  CallInv' /\ ScanInv'
<1>1. ASSUME NEW q \in Procs, q # p PROVE Resolved(q)' = Resolved(q)
  BY <1>1 DEF OthersSame, Resolved
<1>2. CallInv'
  BY DEF CallInv, OthersSame
<1>3. ScanInv'
  BY <1>1 DEF ScanInv, OthersSame
<1> QED
  BY <1>2, <1>3

\* A returned call is idle and has no directory.
LEMMA ReturnInv ==
    ASSUME TypeOK, CallInv, ScanInv, NEW p \in Procs, NEW o, Return(p, o), OthersSame(p)
    PROVE  CallInv' /\ ScanInv'
<1>1. pc'[p] = "idle" /\ dir'[p] = NoDir
  BY DEF Return, TypeOK
<1>2. ~Resolved(p)'
  BY <1>1 DEF Resolved
<1> QED
  BY <1>1, <1>2, InvForOne

LEMMA DetectionStep ==
    ASSUME TypeOK, CallInv, ScanInv, [Next]_vars
    PROVE  CallInv' /\ ScanInv'
<1> USE DEF Goto
<1>1. CASE UNCHANGED vars
  BY <1>1 DEF vars, CallInv, ScanInv, Resolved
<1> SUFFICES ASSUME NEW p \in Procs, Call(p) \/ Step(p)
             PROVE  CallInv' /\ ScanInv'
  BY <1>1 DEF Next
<1>2. OthersSame(p)
  BY StepShape
<1>3. ASSUME NEW r \in Requests, CallRegister(p, r) PROVE CallInv' /\ ScanInv'
  <2>1. /\ pc'[p] = "lock" /\ pc[p] \in {"idle", "scan"}
        /\ UNCHANGED <<dir, snapshot, pos>>
    BY <1>3 DEF CallRegister, TypeOK
  <2>2. Resolved(p)' => Resolved(p)
    BY <2>1 DEF Resolved
  <2> QED
    BY <1>2, <2>1, <2>2, InvForOne DEF ScanInv
<1>4. ASSUME NEW d \in Dirs, CallDetect(p, d) PROVE CallInv' /\ ScanInv'
  <2>1. pc'[p] = "config" /\ dir'[p] = d
    BY <1>4 DEF CallDetect, TypeOK
  <2>2. ~Resolved(p)'
    BY <2>1 DEF Resolved
  <2> QED
    BY <1>2, <2>1, <2>2, InvForOne
<1>5. CASE Lock(p) \/ Drain(p) \/ Build(p) \/ Store(p)
  <2>1. /\ pc'[p] \in {"drain", "build", "store", "unlock"}
        /\ pc[p] \in {"lock", "drain", "build", "store"}
        /\ UNCHANGED <<dir, snapshot, pos>>
    BY <1>5 DEF Lock, Drain, Build, Store, TypeOK
  <2>2. Resolved(p)' => Resolved(p)
    BY <2>1 DEF Resolved
  <2> QED
    BY <1>2, <2>1, <2>2, InvForOne DEF ScanInv
<1>6. CASE Unlock(p)
  <2>1. /\ pc[p] = "unlock" /\ pc'[p] = IF dir[p] = NoDir THEN "idle" ELSE "scan"
        /\ UNCHANGED <<dir, snapshot, pos>>
    BY <1>6 DEF Unlock, TypeOK
  <2>2. Resolved(p)' => Resolved(p)
    BY <2>1 DEF Resolved
  <2>3. pc'[p] = "scan" => dir'[p] \in Dirs
    BY <2>1 DEF TypeOK
  <2> QED
    BY <1>2, <2>1, <2>2, <2>3, InvForOne DEF ScanInv
<1>7. CASE LoadConfig(p)
  <2>1. CASE \E o : Return(p, o)
    BY <1>2, <2>1, ReturnInv
  <2>2. CASE /\ dir[p].config = "none" /\ ~dir[p].dockerfile
             /\ Goto(p, "config", "rlock") /\ UNCHANGED dir
    <3>1. pc[p] = "config" /\ pc'[p] = "rlock" /\ UNCHANGED dir /\ dir[p] \in Dirs
      BY <2>2 DEF CallInv, TypeOK
    <3>2. ~Resolved(p)'
      BY <3>1 DEF Resolved
    <3> QED
      BY <1>2, <2>2, <3>1, <3>2, InvForOne
  <2> QED
    BY <1>7, <2>1, <2>2 DEF LoadConfig
<1>8. CASE RLock(p) \/ Copy(p)
  <2>1. /\ pc[p] \in {"rlock", "copy"} /\ pc'[p] \in {"copy", "runlock"}
        /\ UNCHANGED dir
    BY <1>8 DEF RLock, Copy, TypeOK
  <2>2. pc'[p] # "runlock" => ~Resolved(p)'
    BY <2>1 DEF Resolved
  <2> QED
    BY <1>2, <2>1, <2>2, InvForOne DEF CallInv
<1>9. CASE RUnlock(p)
  <2>1. /\ pc[p] = "runlock" /\ pc'[p] = "scan" /\ pos'[p] = 1
        /\ UNCHANGED <<dir, snapshot>> /\ dir[p] \in Dirs
    BY <1>9 DEF RUnlock, TypeOK, CallInv
  <2> QED
    BY <1>2, <2>1, InvForOne
<1>10. CASE Scan(p)
  <2>1. CASE \E o : Return(p, o)
    BY <1>2, <2>1, ReturnInv
  <2>2. CASE /\ snapshot[p][pos[p]] \notin dir[p].hits
             /\ pos' = [pos EXCEPT ![p] = @ + 1]
             /\ UNCHANGED <<pc, dir, snapshot>>
    <3>1. pc[p] = "scan" /\ dir[p] \in Dirs
      BY <1>10 DEF Scan, CallInv
    <3>2. Resolved(p)
      BY <3>1, SentinelAssumption DEF Resolved
    <3>3. pos'[p] = pos[p] + 1 /\ pos[p] \in Nat
      BY <2>2 DEF TypeOK
    <3>4. \A i \in 1..Len(snapshot[p]) : i < pos'[p] => snapshot[p][i] \notin dir[p].hits
      BY <2>2, <3>1, <3>2, <3>3 DEF ScanInv
    <3> QED
      BY <1>2, <2>2, <3>1, <3>4, InvForOne
  <2> QED
    BY <1>10, <2>1, <2>2 DEF Scan
<1>11. CASE ScanEnd(p)
  <2>1. /\ pc[p] = "scan" /\ pc'[p] = "autofetch" /\ pos[p] > Len(snapshot[p])
        /\ UNCHANGED <<dir, snapshot, pos>> /\ dir[p] \in Dirs
    BY <1>11 DEF ScanEnd, TypeOK, CallInv
  <2>2. Resolved(p)
    BY <2>1, SentinelAssumption DEF Resolved
  <2> QED
    BY <1>2, <2>1, <2>2, InvForOne DEF ScanInv
<1>12. CASE AutoFetch(p)
  BY <1>2, <1>12, ReturnInv DEF AutoFetch
<1> QED
  BY <1>3, <1>4, <1>5, <1>6, <1>7, <1>8, <1>9, <1>10, <1>11, <1>12 DEF Call, Step

LEMMA DetectionInductive == Spec => [](CallInv /\ ScanInv)
<1>1. Init => CallInv /\ ScanInv
  BY DEF Init, CallInv, ScanInv, Resolved
<1>2. IInv /\ CallInv /\ ScanInv /\ [Next]_vars => CallInv' /\ ScanInv'
  BY DetectionStep DEF IInv
<1> QED
  BY <1>1, <1>2, Inductive, PTL DEF Spec

\* The variables of AtomicRegistry, as DetectorRegistry maps them.
AnswerOf(p) == IF Resolved(p) THEN FirstMatch(snapshot[p], dir[p].hits) ELSE Unresolved
Todo == {r \in Requests : ~Stored(r)}
Answer == [p \in Procs |-> AnswerOf(p)]

\* The two modules mean the same by their shared operators.
LEMMA SharedOperators ==
    /\ \A reg, before, e : Atomic!Registered(reg, before, e) = Registered(reg, before, e)
    /\ \A reg, hits : Atomic!FirstMatch(reg, hits) = FirstMatch(reg, hits)
    /\ \A kind, e : Atomic!Outcome(kind, e) = Outcome(kind, e)
<1>1. \A reg, before, e : Atomic!Registered(reg, before, e) = Registered(reg, before, e)
  BY DEF Registered, Prepend, InsertBefore, PositionOf, SelectInSeq, InsertAt, Cons, Min,
         Atomic!Registered, Atomic!Prepend, Atomic!InsertBefore, Atomic!PositionOf,
         Atomic!SelectInSeq, Atomic!InsertAt, Atomic!Cons, Atomic!Min
<1>2. \A reg, hits : Atomic!FirstMatch(reg, hits) = FirstMatch(reg, hits)
  BY DEF FirstMatch, SelectInSeq, Min, Atomic!FirstMatch, Atomic!SelectInSeq, Atomic!Min
<1>3. \A kind, e : Atomic!Outcome(kind, e) = Outcome(kind, e)
  BY DEF Outcome, Atomic!Outcome
<1> QED
  BY <1>1, <1>2, <1>3

\* Each step of AtomicRegistry in terms of the mapped variables.
LEMMA AtomicStutter ==
    ASSUME Todo' = Todo, Answer' = Answer, UNCHANGED <<detectors, dir, result>>
    PROVE  UNCHANGED Atomic!vars
BY DEF Atomic!vars, Todo, Answer, AnswerOf

LEMMA AtomicRegister ==
    ASSUME NEW r \in Todo, Todo' = Todo \ {r}, Answer' = Answer,
           detectors' = Registered(detectors, r.before, r.entry),
           UNCHANGED <<dir, result>>
    PROVE  Atomic!Next
<1>1. Atomic!Register(r)
  BY SharedOperators DEF Atomic!Register, Todo, Answer, AnswerOf
<1> QED
  BY <1>1 DEF Atomic!Next, Todo

LEMMA AtomicBegin ==
    ASSUME NEW p \in Procs, NEW d \in Dirs, dir[p] = NoDir, dir' = [dir EXCEPT ![p] = d],
           Todo' = Todo, Answer' = Answer, UNCHANGED <<detectors, result>>
    PROVE  Atomic!Next
<1>1. Atomic!Begin(p, d)
  BY DEF Atomic!Begin, Todo, Answer, AnswerOf
<1> QED
  BY <1>1 DEF Atomic!Next

LEMMA AtomicResolve ==
    ASSUME NEW p \in Procs, dir[p] # NoDir, dir[p].config = "none", ~dir[p].dockerfile,
           Answer[p] = Unresolved,
           Answer' = [Answer EXCEPT ![p] = FirstMatch(detectors, dir[p].hits)],
           Todo' = Todo, UNCHANGED <<detectors, dir, result>>
    PROVE  Atomic!Next
<1>1. Atomic!Resolve(p)
  BY SharedOperators DEF Atomic!Resolve, Todo, Answer, AnswerOf
<1> QED
  BY <1>1 DEF Atomic!Next

\* What AtomicRegistry lets a detection of p return.
MayReturn(p, o) ==
    o \in IF Answer[p] = Unresolved THEN Atomic!OwnFiles(dir[p])
          ELSE IF Answer[p] = NoEntry THEN Atomic!Unmatched(dir[p])
          ELSE {Outcome("detected", Answer[p])}

LEMMA AtomicFinish ==
    ASSUME NEW p \in Procs, dir[p] # NoDir, NEW o, MayReturn(p, o),
           result' = [result EXCEPT ![p] = o], dir' = [dir EXCEPT ![p] = NoDir],
           Answer' = [Answer EXCEPT ![p] = Unresolved],
           Todo' = Todo, UNCHANGED detectors
    PROVE  Atomic!Next
<1>1. Atomic!Finish(p)
  BY SharedOperators DEF Atomic!Finish, MayReturn, Todo, Answer, AnswerOf
<1> QED
  BY <1>1 DEF Atomic!Next

LEMMA StepOfOne ==
    ASSUME IInv, OwnInv, CallInv, NEW p \in Procs, Call(p) \/ Step(p)
    PROVE  /\ OthersSame(p)
           /\ Answer' = [Answer EXCEPT ![p] = AnswerOf(p)']
           /\ pc[p] # "store" => Todo' = Todo /\ UNCHANGED detectors
<1>1. OthersSame(p)
  BY StepShape DEF IInv
<1>2. \A q \in Procs : q # p => AnswerOf(q)' = AnswerOf(q)
  BY <1>1 DEF OthersSame, AnswerOf, Resolved
<1>3. Answer' = [Answer EXCEPT ![p] = AnswerOf(p)']
  BY <1>2 DEF Answer
<1>4. ASSUME pc[p] # "store" PROVE Todo' = Todo /\ UNCHANGED detectors
  <2>1. ~ \E q \in Procs : Store(q)
    BY <1>1, <1>4 DEF OthersSame, Store, Goto, IInv, TypeOK
  <2>2. Done' = Done /\ UNCHANGED detectors
    <3>1. Next
      BY DEF Next
    <3> QED
      BY <2>1, <3>1, DoneStep
  <2> QED
    BY <2>2 DEF Done, Todo
<1> QED
  BY <1>1, <1>3, <1>4

\* A step that changes nothing of p's call, nor the registry, is a stutter.
LEMMA SameCallStutters ==
    ASSUME IInv, OwnInv, CallInv, NEW p \in Procs, Call(p) \/ Step(p),
           pc[p] # "store", UNCHANGED <<dir, result>>, AnswerOf(p)' = AnswerOf(p)
    PROVE  UNCHANGED Atomic!vars
<1>1. Answer' = Answer
  <2>1. Answer' = [Answer EXCEPT ![p] = AnswerOf(p)]
    BY StepOfOne
  <2> QED
    BY <2>1 DEF Answer
<1> QED
  BY <1>1, StepOfOne, AtomicStutter

\* A return from DetectWithOptions is a Finish, if its outcome is allowed.
LEMMA ReturnFinishes ==
    ASSUME IInv, OwnInv, CallInv, NEW p \in Procs, Call(p) \/ Step(p),
           pc[p] \in {"config", "scan", "autofetch"},
           NEW o, Return(p, o), MayReturn(p, o)
    PROVE  Atomic!Next
<1>1. dir[p] # NoDir
  BY SentinelAssumption DEF CallInv
<1>2. result' = [result EXCEPT ![p] = o] /\ dir' = [dir EXCEPT ![p] = NoDir]
  BY DEF Return
<1>3. AnswerOf(p)' = Unresolved
  BY <1>2 DEF AnswerOf, Resolved, IInv, TypeOK
<1>4. /\ Answer' = [Answer EXCEPT ![p] = Unresolved]
      /\ Todo' = Todo /\ UNCHANGED detectors
  <2>1. Answer' = [Answer EXCEPT ![p] = AnswerOf(p)']
    BY StepOfOne
  <2>2. pc[p] # "store"
    OBVIOUS
  <2> QED
    BY <1>3, <2>1, <2>2, StepOfOne
<1> QED
  BY <1>1, <1>2, <1>4, AtomicFinish

\* Every step of the registry is a step of AtomicRegistry or none.
LEMMA StepSimulation ==
    ASSUME IInv, OwnInv, CallInv, ScanInv, [Next]_vars
    PROVE  [Atomic!Next]_(Atomic!vars)
<1> USE DEF Goto
<1>1. CASE UNCHANGED vars
  <2>1. Todo' = Todo /\ Answer' = Answer
    BY <1>1 DEF vars, Todo, Stored, Answer, AnswerOf, Resolved
  <2> QED
    BY <1>1, <2>1, AtomicStutter DEF vars
<1> SUFFICES ASSUME NEW p \in Procs, Call(p) \/ Step(p)
             PROVE  Atomic!Next \/ UNCHANGED Atomic!vars
  BY <1>1 DEF Next
<1>0. TypeOK
  BY DEF IInv
<1>2. ASSUME NEW r \in Requests, CallRegister(p, r) PROVE UNCHANGED Atomic!vars
  <2>1. /\ pc'[p] = "lock" /\ pc[p] \in {"idle", "scan"}
        /\ UNCHANGED <<dir, snapshot, result>>
    BY <1>0, <1>2 DEF CallRegister, TypeOK
  <2>2. AnswerOf(p)' = AnswerOf(p)
    BY <2>1 DEF AnswerOf, Resolved, CallInv
  <2> QED
    BY <2>1, <2>2, SameCallStutters
<1>3. ASSUME NEW d \in Dirs, CallDetect(p, d) PROVE Atomic!Next
  <2>1. /\ pc[p] = "idle" /\ pc'[p] = "config" /\ dir[p] = NoDir
        /\ dir' = [dir EXCEPT ![p] = d] /\ UNCHANGED result
    BY <1>0, <1>3 DEF CallDetect, TypeOK, CallInv
  <2>2. AnswerOf(p) = Unresolved /\ AnswerOf(p)' = Unresolved
    BY <2>1 DEF AnswerOf, Resolved
  <2>3. Answer' = [Answer EXCEPT ![p] = AnswerOf(p)'] /\ Todo' = Todo /\ UNCHANGED detectors
    BY <2>1, StepOfOne
  <2>4. Answer' = Answer
    BY <2>2, <2>3 DEF Answer
  <2> QED
    BY <2>1, <2>3, <2>4, AtomicBegin
<1>4. CASE Lock(p) \/ Drain(p) \/ Build(p)
  <2>1. /\ pc'[p] \in {"drain", "build", "store"} /\ pc[p] \in {"lock", "drain", "build"}
        /\ UNCHANGED <<dir, snapshot, result>>
    BY <1>0, <1>4 DEF Lock, Drain, Build, TypeOK
  <2>2. AnswerOf(p)' = AnswerOf(p)
    BY <2>1 DEF AnswerOf, Resolved
  <2> QED
    BY <2>1, <2>2, SameCallStutters
<1>5. CASE Store(p)
  <2>1. /\ pc[p] = "store" /\ pc'[p] = "unlock"
        /\ UNCHANGED <<dir, snapshot, result>>
    BY <1>0, <1>5 DEF Store, TypeOK
  <2>2. AnswerOf(p)' = AnswerOf(p)
    BY <2>1 DEF AnswerOf, Resolved
  <2>3. Answer' = Answer
    <3>1. Answer' = [Answer EXCEPT ![p] = AnswerOf(p)]
      BY <2>2, StepOfOne
    <3> QED
      BY <3>1 DEF Answer
  <2>4. CASE Done' = Done /\ UNCHANGED detectors
    <3>1. Todo' = Todo
      BY <2>4 DEF Done, Todo
    <3> QED
      BY <2>1, <2>3, <2>4, <3>1, AtomicStutter
  <2>5. ASSUME NEW r \in Requests \ Done, Done' = Done \cup {r},
               detectors' = Registered(detectors, r.before, r.entry)
        PROVE  Atomic!Next
    <3>1. r \in Todo /\ Todo' = Todo \ {r}
      BY <2>5 DEF Done, Todo
    <3> QED
      BY <2>1, <2>3, <2>5, <3>1, AtomicRegister
  <2> QED
    BY <2>4, <2>5, DoneStep
<1>6. CASE Unlock(p)
  <2>1. /\ pc[p] = "unlock" /\ pc'[p] = IF dir[p] = NoDir THEN "idle" ELSE "scan"
        /\ UNCHANGED <<dir, snapshot, result>>
    BY <1>0, <1>6 DEF Unlock, TypeOK
  <2>2. AnswerOf(p)' = AnswerOf(p)
    BY <2>1 DEF AnswerOf, Resolved
  <2> QED
    BY <2>1, <2>2, SameCallStutters
<1>7. CASE LoadConfig(p)
  <2>1. pc[p] = "config"
    BY <1>7 DEF LoadConfig
  <2>2. Answer[p] = Unresolved
    BY <2>1 DEF Answer, AnswerOf, Resolved
  <2>3. ASSUME NEW o, Return(p, o), o \in Atomic!OwnFiles(dir[p]) PROVE Atomic!Next
    BY <2>1, <2>2, <2>3, ReturnFinishes DEF MayReturn
  <2>4. CASE dir[p].config = "bad" /\ Return(p, Outcome("configError", NoEntry))
    BY <2>3, <2>4, SharedOperators DEF Atomic!OwnFiles
  <2>5. CASE dir[p].config = "ok" /\ Return(p, Outcome("config", NoEntry))
    BY <2>3, <2>5, SharedOperators DEF Atomic!OwnFiles
  <2>6. CASE /\ dir[p].config = "none" /\ dir[p].dockerfile
             /\ Return(p, Outcome("dockerfile", NoEntry))
    BY <2>3, <2>6, SharedOperators DEF Atomic!OwnFiles
  <2>7. CASE Goto(p, "config", "rlock") /\ UNCHANGED <<dir, snapshot, result>>
    <3>1. pc'[p] = "rlock"
      BY <1>0, <2>7 DEF TypeOK
    <3>2. AnswerOf(p)' = AnswerOf(p)
      BY <2>1, <3>1 DEF AnswerOf, Resolved
    <3> QED
      BY <2>1, <2>7, <3>2, SameCallStutters
  <2> QED
    BY <1>7, <2>4, <2>5, <2>6, <2>7 DEF LoadConfig
<1>8. CASE RLock(p) \/ RUnlock(p)
  <2>1. /\ \/ pc[p] = "rlock" /\ pc'[p] = "copy"
           \/ pc[p] = "runlock" /\ pc'[p] = "scan"
        /\ UNCHANGED <<dir, snapshot, result>>
    BY <1>0, <1>8 DEF RLock, RUnlock, TypeOK
  <2>2. AnswerOf(p)' = AnswerOf(p)
    BY <2>1 DEF AnswerOf, Resolved
  <2>3. pc[p] # "store"
    BY <2>1
  <2> QED
    BY <2>1, <2>2, <2>3, SameCallStutters
<1>9. CASE Copy(p)
  <2>1. /\ pc[p] = "copy" /\ pc'[p] = "runlock" /\ snapshot'[p] = detectors
        /\ UNCHANGED <<dir, result>>
    BY <1>0, <1>9 DEF Copy, TypeOK
  <2>2. /\ dir[p] # NoDir
        /\ dir[p].config = "none" /\ ~dir[p].dockerfile
    BY <2>1, SentinelAssumption DEF CallInv
  <2>3. Answer[p] = Unresolved
    BY <2>1 DEF Answer, AnswerOf, Resolved
  <2>4. AnswerOf(p)' = FirstMatch(detectors, dir[p].hits)
    BY <2>1, <2>2 DEF AnswerOf, Resolved
  <2>5. /\ Answer' = [Answer EXCEPT ![p] = FirstMatch(detectors, dir[p].hits)]
        /\ Todo' = Todo /\ UNCHANGED detectors
    BY <2>1, <2>4, StepOfOne
  <2> QED
    BY <2>1, <2>2, <2>3, <2>5, AtomicResolve
<1>10. CASE Scan(p)
  <2> DEFINE e == snapshot[p][pos[p]]
  <2>1. /\ pc[p] = "scan" /\ dir[p] # NoDir
        /\ snapshot[p] \in Seq(Entries) /\ pos[p] \in 1..Len(snapshot[p])
    BY <1>0, <1>10, SentinelAssumption DEF Scan, CallInv, TypeOK
  <2>2. Resolved(p)
    BY <2>1 DEF Resolved
  <2>3. CASE e \in dir[p].hits /\ Return(p, Outcome("detected", e))
    <3>1. \A i \in 1..pos[p] - 1 : snapshot[p][i] \notin dir[p].hits
      BY <2>1, <2>2 DEF ScanInv
    <3>2. FirstMatch(snapshot[p], dir[p].hits) = e
      BY <2>1, <2>3, <3>1, FirstMatchFound
    <3>3. Answer[p] = e
      BY <2>2, <3>2 DEF Answer, AnswerOf
    <3>4. e # Unresolved /\ e # NoEntry
      BY <2>1, EntriesAssumption, UnresolvedAssumption
    <3>5. MayReturn(p, Outcome("detected", e))
      BY <3>3, <3>4 DEF MayReturn
    <3> QED
      BY <2>1, <2>3, <3>5, ReturnFinishes
  <2>4. CASE UNCHANGED <<pc, dir, snapshot, result>>
    <3>1. AnswerOf(p)' = AnswerOf(p)
      BY <2>4 DEF AnswerOf, Resolved
    <3> QED
      BY <2>1, <2>4, <3>1, SameCallStutters
  <2> QED
    BY <1>10, <2>3, <2>4 DEF Scan
<1>11. CASE ScanEnd(p)
  <2>1. /\ pc[p] = "scan" /\ pc'[p] = "autofetch"
        /\ UNCHANGED <<dir, snapshot, result>>
    BY <1>0, <1>11 DEF ScanEnd, TypeOK
  <2>2. AnswerOf(p)' = AnswerOf(p)
    BY <2>1 DEF AnswerOf, Resolved
  <2> QED
    BY <2>1, <2>2, SameCallStutters
<1>12. CASE AutoFetch(p)
  <2>1. /\ pc[p] = "autofetch" /\ dir[p] # NoDir /\ pos[p] > Len(snapshot[p])
        /\ snapshot[p] \in Seq(Entries)
    BY <1>0, <1>12, SentinelAssumption DEF AutoFetch, CallInv, ScanInv, TypeOK
  <2>2. Resolved(p)
    BY <2>1 DEF Resolved
  <2>3. \A i \in 1..Len(snapshot[p]) : snapshot[p][i] \notin dir[p].hits
    <3>1. \A i \in 1..Len(snapshot[p]) : i < pos[p] => snapshot[p][i] \notin dir[p].hits
      BY <2>1, <2>2 DEF ScanInv
    <3>2. pos[p] \in Nat
      BY <1>0 DEF TypeOK
    <3> QED
      BY <2>1, <3>1, <3>2
  <2>4. FirstMatch(snapshot[p], dir[p].hits) = NoEntry
    BY <2>1, <2>3, FirstMatchNone
  <2>5. Answer[p] = NoEntry /\ Answer[p] # Unresolved
    BY <2>2, <2>4, UnresolvedAssumption DEF Answer, AnswerOf
  <2>6. ASSUME NEW o, Return(p, o), o \in Atomic!Unmatched(dir[p]) PROVE Atomic!Next
    BY <2>1, <2>5, <2>6, ReturnFinishes DEF MayReturn
  <2>7. \A kind \in {"fetched", "fetchError"} :
            Outcome(kind, NoEntry) \in Atomic!Unmatched(dir[p])
    BY SharedOperators DEF Atomic!Unmatched
  <2>8. Outcome(IF dir[p].servable THEN "static" ELSE "error", NoEntry) \in Atomic!Unmatched(dir[p])
    BY SharedOperators DEF Atomic!Unmatched
  <2>9. \E o \in Atomic!Unmatched(dir[p]) : Return(p, o)
    <3>1. PICK answer \in {"fetched", "fetchError", "nothing"} :
              Return(p, IF answer # "nothing" THEN Outcome(answer, NoEntry)
                        ELSE IF dir[p].servable THEN Outcome("static", NoEntry)
                        ELSE Outcome("error", NoEntry))
      BY <1>12 DEF AutoFetch
    <3>2. CASE answer # "nothing"
      BY <2>7, <3>1, <3>2
    <3>3. CASE answer = "nothing"
      BY <2>8, <3>1, <3>3
    <3> QED
      BY <3>2, <3>3
  <2> QED
    BY <2>6, <2>9
<1> QED
  BY <1>2, <1>3, <1>4, <1>5, <1>6, <1>7, <1>8, <1>9, <1>10, <1>11, <1>12 DEF Call, Step

(* For any goroutines, detectors, callbacks and directories, the registry  *)
(* with its lock, slices and snapshots implements AtomicRegistry.          *)
THEOREM Refinement == Spec => ImplementsAtomic
<1>1. Init => Atomic!Init
  <2> SUFFICES ASSUME Init PROVE Atomic!Init
    OBVIOUS
  <2>1. \A p \in Procs : ~Resolved(p)
    BY DEF Init, Resolved
  <2>2. \A r \in Requests : ~Stored(r)
    BY DEF Init, Stored
  <2> QED
    BY <2>1, <2>2, SharedOperators DEF Init, Atomic!Init
<1>2. IInv /\ RegistrationInv /\ CallInv /\ ScanInv /\ [Next]_vars
        => [Atomic!Next]_(Atomic!vars)
  BY StepSimulation DEF RegistrationInv
<1> QED
  BY <1>1, <1>2, Inductive, RegistrationInductive, DetectionInductive, PTL
     DEF Spec, ImplementsAtomic, Atomic!Spec
=============================================================================
