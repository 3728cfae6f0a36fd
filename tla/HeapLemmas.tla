----------------------------- MODULE HeapLemmas -----------------------------
(***************************************************************************)
(* Lemmas about heap pages and chains of them, which the proofs about      *)
(* PageLife, HeapOpen, HeapFile, Catalog and StoredTable rest on.          *)
(*                                                                         *)
(* The packed size of a page is a sum over its directory, which LiveBytes  *)
(* defines by recursion: the first part shows, by least counterexamples,   *)
(* that such sums exist, grow, and change where one summand does.  Then    *)
(* each operation is shown to leave a sound page and to keep the rows.     *)
(* The last part is about chains, whose walk is found in the same way.     *)
(***************************************************************************)
EXTENDS SlottedPage, HeapChain, FiniteSetTheorems, WellFoundedInduction, TLAPS

\* A non-empty set of numbers has a least one.
LEMMA LeastExists ==
    ASSUME NEW S, S \subseteq Nat, S # {}
    PROVE  \E k \in S : \A j \in S : k <= j
<1> DEFINE Less == OpToRel(<, Nat)
<1>1. IsWellFoundedOn(Less, Nat)
  BY NatLessThanWellFounded
<1>2. \A x, y \in Nat : y < x => <<y, x>> \in Less
  BY DEF OpToRel
<1> HIDE DEF Less
<1>3. PICK k \in S : \A j \in S : ~(<<j, k>> \in Less)
  BY <1>1, WFMin
<1>4. ASSUME NEW j \in S PROVE k <= j
  <2>1. j \in Nat /\ k \in Nat /\ ~(j < k)
    BY <1>2, <1>3
  <2>2. QED
    BY <2>1
<1>5. QED
  BY <1>4

-----------------------------------------------------------------------------
(* Running totals.                                                         *)

\* f adds up v over 1 .. n.
Totals(f, v, n) == f = [i \in 0 .. n |-> IF i = 0 THEN 0 ELSE f[i - 1] + v[i]]

LEMMA TotalsExist ==
    ASSUME NEW n \in Nat, NEW v, \A i \in 1 .. n : v[i] \in Nat
    PROVE  \E f : Totals(f, v, n)
<1> DEFINE Without == {k \in 0 .. n : ~ \E f : Totals(f, v, k)}
<1> SUFFICES Without = {}
  <2>1. n \in 0 .. n
    OBVIOUS
  <2>2. QED
    BY <2>1
<1> SUFFICES ASSUME Without # {} PROVE FALSE
  OBVIOUS
<1>1. Without \subseteq Nat
  OBVIOUS
<1>2. PICK k \in Without : \A j \in Without : k <= j
  <2> HIDE DEF Without
  <2> QED BY <1>1, LeastExists
<1>3. CASE k = 0
  <2> DEFINE f == [i \in 0 .. 0 |-> 0]
  <2>1. f = [i \in 0 .. 0 |-> IF i = 0 THEN 0 ELSE f[i - 1] + v[i]]
    OBVIOUS
  <2>2. Totals(f, v, 0)
    BY <2>1 DEF Totals
  <2>3. QED
    BY <1>3, <2>2
<1>4. CASE k # 0
  <2>1. k - 1 \in 0 .. n /\ k \in 1 .. n /\ k - 1 \notin Without
    BY <1>2, <1>4
  <2>2. PICK f : Totals(f, v, k - 1)
    BY <2>1
  <2> DEFINE g == [i \in 0 .. k |-> IF i = k THEN f[k - 1] + v[k] ELSE f[i]]
  <2>3. \A i \in 0 .. k - 1 : f[i] = IF i = 0 THEN 0 ELSE f[i - 1] + v[i]
    BY <2>2 DEF Totals
  <2>4. \A i \in 0 .. k : g[i] = IF i = 0 THEN 0 ELSE g[i - 1] + v[i]
    BY <2>1, <2>3
  <2>5. g = [i \in 0 .. k |-> g[i]]
    OBVIOUS
  <2> HIDE DEF g
  <2>6. Totals(g, v, k)
    BY <2>4, <2>5 DEF Totals
  <2>7. QED
    BY <1>2, <2>6
<1>5. QED
  BY <1>3, <1>4

LEMMA TotalsGrow ==
    ASSUME NEW n \in Nat, NEW v, \A i \in 1 .. n : v[i] \in Nat, NEW f, Totals(f, v, n)
    PROVE  /\ f[0] = 0
           /\ \A i \in 1 .. n : f[i] = f[i - 1] + v[i]
           /\ \A i \in 0 .. n : f[i] \in Nat
           /\ \A i, j \in 0 .. n : i <= j => f[i] <= f[j]
<1>1. f[0] = 0 /\ \A i \in 1 .. n : f[i] = f[i - 1] + v[i]
  BY DEF Totals
<1>2. ASSUME NEW i \in 0 .. n PROVE f[i] \in Nat
  <2> DEFINE Bad == {k \in 0 .. n : f[k] \notin Nat}
  <2> SUFFICES ASSUME Bad # {} PROVE FALSE
    OBVIOUS
  <2>1. PICK k \in Bad : \A j \in Bad : k <= j
    <3>1. Bad \subseteq Nat
      OBVIOUS
    <3> HIDE DEF Bad
    <3> QED BY <3>1, LeastExists
  <2>2. k # 0
    BY <1>1, <2>1
  <2>3. k \in 1 .. n /\ k - 1 \in 0 .. n /\ k - 1 \notin Bad
    BY <2>1, <2>2
  <2>4. f[k - 1] \in Nat /\ f[k] = f[k - 1] + v[k] /\ v[k] \in Nat
    BY <1>1, <2>3
  <2>5. f[k] \in Nat
    BY <2>4
  <2> QED BY <2>1, <2>5
<1>3. ASSUME NEW i \in 0 .. n, NEW j \in 0 .. n, i <= j PROVE f[i] <= f[j]
  <2> DEFINE Bad == {k \in i .. n : ~(f[i] <= f[k])}
  <2> SUFFICES ASSUME Bad # {} PROVE FALSE
    BY <1>3
  <2>1. PICK k \in Bad : \A m \in Bad : k <= m
    <3>1. Bad \subseteq Nat
      OBVIOUS
    <3> HIDE DEF Bad
    <3> QED BY <3>1, LeastExists
  <2>2. k # i
    BY <1>2, <2>1
  <2>3. k \in 1 .. n /\ k - 1 \in i .. n /\ k - 1 \in 0 .. n /\ k - 1 \notin Bad
    BY <2>1, <2>2
  <2>4. /\ f[i] \in Nat /\ f[k - 1] \in Nat /\ f[k] = f[k - 1] + v[k] /\ v[k] \in Nat
        /\ f[i] <= f[k - 1]
    BY <1>1, <1>2, <2>3
  <2>5. f[i] <= f[k]
    BY <2>4
  <2> QED BY <2>1, <2>5
<1>4. QED
  BY <1>1, <1>2, <1>3

\* f adds up v step by step.
Accumulates(f, v, n) == f[0] = 0 /\ \A i \in 1 .. n : f[i] = f[i - 1] + v[i]

\* Of the first n summands, only that at t differs, by d.
ChangedAt(w, v, n, t, d) == \A i \in 1 .. n : w[i] = IF i = t THEN v[i] + d ELSE v[i]

\* Totals that begin alike and differ in one summand, by d, differ by d from
\* there on.
LEMMA TotalsChange ==
    ASSUME NEW n \in Nat, NEW f, NEW v, NEW g, NEW w, NEW t \in Nat, t # 0, NEW d \in Int,
           Accumulates(f, v, n), Accumulates(g, w, n), ChangedAt(w, v, n, t, d),
           \A i \in 0 .. n : f[i] \in Nat, \A i \in 1 .. n : v[i] \in Nat
    PROVE  \A i \in 0 .. n : g[i] = IF t <= i THEN f[i] + d ELSE f[i]
<1> DEFINE Claim(i) == g[i] = IF t <= i THEN f[i] + d ELSE f[i]
           Bad == {k \in 0 .. n : ~ Claim(k)}
<1> SUFFICES ASSUME Bad # {} PROVE FALSE
  OBVIOUS
<1>1. PICK k \in Bad : \A m \in Bad : k <= m
  <2>1. Bad \subseteq Nat
    OBVIOUS
  <2> HIDE DEF Bad
  <2> QED BY <2>1, LeastExists
<1>2. k # 0
  BY <1>1 DEF Accumulates
<1>3. k \in 1 .. n /\ k - 1 \in 0 .. n /\ k - 1 \notin Bad
  BY <1>1, <1>2
<1>4. /\ g[k] = g[k - 1] + w[k] /\ f[k] = f[k - 1] + v[k]
      /\ f[k - 1] \in Nat /\ v[k] \in Nat
      /\ w[k] = (IF k = t THEN v[k] + d ELSE v[k]) /\ Claim(k - 1)
  BY <1>3 DEF Accumulates, ChangedAt
<1>5. CASE k = t
  BY <1>1, <1>3, <1>4, <1>5
<1>6. CASE k # t
  BY <1>1, <1>3, <1>4, <1>6
<1>7. QED
  BY <1>5, <1>6

-----------------------------------------------------------------------------
(* Sums over sets, added up in any order.                                  *)

\* v counted on the numbers of S only, and its total up to n.
Masked(v, S, n) == [i \in 1 .. n |-> IF i \in S THEN v[i] ELSE 0]
TotalOf(v, n) == CHOOSE f : Totals(f, v, n)
SumOn(v, S, n) == TotalOf(Masked(v, S, n), n)[n]

LEMMA TotalOfIsTotal ==
    ASSUME NEW n \in Nat, NEW v, \A i \in 1 .. n : v[i] \in Nat
    PROVE  Totals(TotalOf(v, n), v, n)
BY TotalsExist, Zenon DEF TotalOf

\* The sum over a set is that over the set without an element, and the element.
LEMMA SumOnSplits ==
    ASSUME NEW n \in Nat, NEW v, \A i \in 1 .. n : v[i] \in Nat, NEW S \in SUBSET (1 .. n)
    PROVE  /\ SumOn(v, S, n) \in Nat
           /\ S = {} => SumOn(v, S, n) = 0
           /\ \A i \in S : SumOn(v, S, n) = v[i] + SumOn(v, S \ {i}, n)
<1> DEFINE T(R) == TotalOf(Masked(v, R, n), n)
<1>1. ASSUME NEW R
      PROVE  /\ T(R)[0] = 0
             /\ \A i \in 1 .. n : T(R)[i] = T(R)[i - 1] + Masked(v, R, n)[i]
             /\ \A i \in 0 .. n : T(R)[i] \in Nat
             /\ \A i \in 1 .. n : Masked(v, R, n)[i] \in Nat
             /\ \A i \in 1 .. n : Masked(v, R, n)[i] = IF i \in R THEN v[i] ELSE 0
  <2>1. /\ \A i \in 1 .. n : Masked(v, R, n)[i] \in Nat
        /\ \A i \in 1 .. n : Masked(v, R, n)[i] = IF i \in R THEN v[i] ELSE 0
    BY DEF Masked
  <2>2. Totals(T(R), Masked(v, R, n), n)
    BY <2>1, TotalOfIsTotal
  <2> HIDE DEF T
  <2>3. QED
    BY <2>1, <2>2, TotalsGrow, ZenonT(40)
<1>2. \A R : SumOn(v, R, n) = T(R)[n]
  BY DEF SumOn
<1> HIDE DEF T
<1>3. SumOn(v, S, n) \in Nat
  BY <1>1, <1>2
<1>4. ASSUME S = {} PROVE SumOn(v, S, n) = 0
  <2>1. \A i \in 1 .. n : Masked(v, S, n)[i] = 0
    BY <1>1, <1>4
  <2> DEFINE Z == [i \in 0 .. n |-> 0]
             z == [i \in 1 .. n |-> 0]
             f == T(S)
             w == Masked(v, S, n)
  <2>2. /\ Accumulates(Z, z, n)
        /\ \A i \in 0 .. n : Z[i] \in Nat
        /\ \A i \in 1 .. n : z[i] \in Nat
    BY DEF Accumulates
  <2>3. Z[n] = 0 /\ \A i \in 1 .. n : z[i] = 0
    OBVIOUS
  <2>4. PICK d \in Int : d = 0
    OBVIOUS
  <2>5. PICK m \in Nat : m = n + 1
    OBVIOUS
  <2>6. Accumulates(f, w, n)
    BY <1>1 DEF Accumulates
  <2> HIDE DEF Z, z, f, w
  <2>7. ChangedAt(w, z, n, m, d)
    BY <2>1, <2>3, <2>5 DEF w, ChangedAt
  <2>8. m # 0 /\ ~(m <= n) /\ n \in 0 .. n
    BY <2>5
  <2>9. \A i \in 0 .. n : f[i] = IF m <= i THEN Z[i] + d ELSE Z[i]
    BY ONLY n \in Nat, m \in Nat, d \in Int, <2>2, <2>6, <2>7, <2>8, TotalsChange
  <2>10. f[n] = 0
    BY <2>3, <2>8, <2>9
  <2> QED
    BY <1>2, <2>10 DEF f
<1>5. ASSUME NEW i \in S PROVE SumOn(v, S, n) = v[i] + SumOn(v, S \ {i}, n)
  <2> DEFINE R == S \ {i}
  <2>1. i \in Nat /\ i # 0 /\ i <= n /\ v[i] \in Int /\ v[i] \in Nat /\ n \in 0 .. n
    OBVIOUS
  <2>2. \A k \in 1 .. n :
          Masked(v, S, n)[k] = IF k = i THEN Masked(v, R, n)[k] + v[i] ELSE Masked(v, R, n)[k]
    BY <1>1, <2>1
  <2> DEFINE f == T(R)
             g == T(S)
             x == Masked(v, R, n)
             w == Masked(v, S, n)
  <2>3. /\ Accumulates(f, x, n) /\ Accumulates(g, w, n)
        /\ \A k \in 0 .. n : f[k] \in Nat
        /\ \A k \in 1 .. n : x[k] \in Nat
    BY <1>1 DEF Accumulates
  <2>4. PICK d \in Int : d = v[i]
    BY <2>1
  <2>5. PICK m \in Nat : m = i
    BY <2>1
  <2>6. m # 0 /\ ChangedAt(w, x, n, m, d)
    BY <2>1, <2>2, <2>4, <2>5 DEF ChangedAt
  <2> HIDE DEF R, f, g, x, w
  <2>7. \A k \in 0 .. n : g[k] = IF m <= k THEN f[k] + d ELSE f[k]
    BY ONLY n \in Nat, m \in Nat, d \in Int, <2>3, <2>6, TotalsChange
  <2>8. T(S)[n] = T(R)[n] + v[i] /\ T(R)[n] \in Nat
    BY <2>1, <2>3, <2>4, <2>5, <2>7 DEF f, g
  <2> QED
    BY <1>2, <2>1, <2>8 DEF R
<1>6. QED
  BY <1>3, <1>4, <1>5

\* t adds up v over the subsets of L, taking away one element at a time.
AddsUp(t, v, L) ==
    t = [S \in SUBSET L |-> IF S = {} THEN 0
                            ELSE LET i == CHOOSE i \in S : TRUE IN v[i] + t[S \ {i}]]

\* In whatever order, it finds the sum.
LEMMA AddsUpAnyOrder ==
    ASSUME NEW n \in Nat, NEW v, \A i \in 1 .. n : v[i] \in Nat, NEW L \in SUBSET (1 .. n)
    PROVE  /\ \E t : AddsUp(t, v, L)
           /\ \A t : AddsUp(t, v, L) => t[L] = SumOn(v, L, n)
<1> DEFINE first(S) == CHOOSE i \in S : TRUE
<1>1. \A S \in SUBSET L : S # {} => first(S) \in S
  OBVIOUS
<1> HIDE DEF first
<1>2. ASSUME NEW S \in SUBSET L
      PROVE  SumOn(v, S, n) = IF S = {} THEN 0 ELSE v[first(S)] + SumOn(v, S \ {first(S)}, n)
  <2>1. S \in SUBSET (1 .. n)
    OBVIOUS
  <2>2. CASE S = {}
    BY <2>1, <2>2, SumOnSplits
  <2>3. CASE S # {}
    <3>1. first(S) \in S
      BY <1>1, <2>3
    <3> QED
      BY <2>1, <2>3, <3>1, SumOnSplits
  <2> QED
    BY <2>2, <2>3
<1>3. \E t : AddsUp(t, v, L)
  <2> DEFINE t == [S \in SUBSET L |-> SumOn(v, S, n)]
             Step(S) == IF S = {} THEN 0 ELSE v[first(S)] + t[S \ {first(S)}]
  <2>1. ASSUME NEW S \in SUBSET L PROVE t[S] = Step(S)
    <3>1. S \ {first(S)} \in SUBSET L
      OBVIOUS
    <3>2. t[S] = SumOn(v, S, n) /\ t[S \ {first(S)}] = SumOn(v, S \ {first(S)}, n)
      BY <3>1
    <3> QED
      BY <1>2, <3>2
  <2>2. t = [S \in SUBSET L |-> Step(S)]
    BY <2>1
  <2>3. AddsUp(t, v, L)
    BY <2>2, Zenon DEF AddsUp, first
  <2> QED
    BY <2>3
<1>4. ASSUME NEW t, AddsUp(t, v, L) PROVE t[L] = SumOn(v, L, n)
  <2>1. \A S \in SUBSET L : t[S] = IF S = {} THEN 0 ELSE v[first(S)] + t[S \ {first(S)}]
    <3> DEFINE Step(S) == IF S = {} THEN 0 ELSE v[first(S)] + t[S \ {first(S)}]
    <3>1. t = [S \in SUBSET L |-> Step(S)]
      BY <1>4, Zenon DEF AddsUp, first
    <3> HIDE DEF Step
    <3>2. \A S \in SUBSET L : t[S] = Step(S)
      BY <3>1
    <3> QED
      BY <3>2 DEF Step
  <2>2. IsFiniteSet(L)
    <3>1. IsFiniteSet(1 .. n)
      BY FS_Interval
    <3> QED
      BY <3>1, FS_Subset
  <2> DEFINE Bad == {k \in Nat : \E S \in SUBSET L : Cardinality(S) = k /\ t[S] # SumOn(v, S, n)}
  <2>3. ASSUME Bad # {} PROVE FALSE
    <3>1. PICK k \in Bad : \A j \in Bad : k <= j
      <4>1. Bad \subseteq Nat
        OBVIOUS
      <4> HIDE DEF Bad
      <4> QED BY <2>3, <4>1, LeastExists
    <3>2. PICK S \in SUBSET L : Cardinality(S) = k /\ t[S] # SumOn(v, S, n)
      BY <3>1
    <3>3. S # {}
      BY <1>2, <2>1, <3>2
    <3> DEFINE R == S \ {first(S)}
    <3>4. first(S) \in S /\ IsFiniteSet(S) /\ R \in SUBSET L
      BY <1>1, <2>2, <3>3, FS_Subset
    <3>5. IsFiniteSet(R) /\ Cardinality(R) = k - 1 /\ Cardinality(R) \in Nat
      BY <3>2, <3>4, FS_RemoveElement, FS_CardinalityType
    <3>6. t[R] = SumOn(v, R, n)
      <4>1. Cardinality(R) \notin Bad
        <5>1. k \in Nat /\ \A j \in Bad : k <= j
          BY <3>1
        <5> HIDE DEF Bad, R
        <5> QED
          BY <3>5, <5>1
      <4> QED
        BY <3>4, <3>5, <4>1
    <3>7. t[S] = SumOn(v, S, n)
      BY <1>2, <2>1, <3>3, <3>6
    <3> QED
      BY <3>2, <3>7
  <2>4. Cardinality(L) \in Nat /\ L \in SUBSET L
    BY <2>2, FS_CardinalityType
  <2> QED
    BY <2>3, <2>4
<1>5. QED
  BY <1>3, <1>4

-----------------------------------------------------------------------------
(* The bytes of live records.                                              *)

SlotBytes(pg) == [i \in DOMAIN pg.slots |-> IF i \in LiveSlots(pg) THEN pg.slots[i].length ELSE 0]

LEMMA LiveBytesTotals ==
    ASSUME NEW pg, NEW n \in Nat, DOMAIN pg.slots = 1 .. n, Len(pg.slots) = n,
           \A i \in 1 .. n : pg.slots[i].length \in Nat
    PROVE  Totals(LiveBytes(pg), SlotBytes(pg), n)
<1> DEFINE Sum(f) == [i \in 0 .. n |-> IF i = 0 THEN 0 ELSE f[i - 1] + SlotBytes(pg)[i]]
           LiveSum(f) == [i \in 0 .. Len(pg.slots) |->
                            IF i = 0 THEN 0
                            ELSE f[i - 1] + (IF i \in LiveSlots(pg) THEN pg.slots[i].length ELSE 0)]
           Adds(f) == f = LiveSum(f)
<1>1. \A i \in 1 .. n :
        SlotBytes(pg)[i] = IF i \in LiveSlots(pg) THEN pg.slots[i].length ELSE 0
  BY DEF SlotBytes
<1>2. \A i \in 1 .. n : SlotBytes(pg)[i] \in Nat
  BY <1>1
<1>3. PICK f : Totals(f, SlotBytes(pg), n)
  BY <1>2, TotalsExist
<1>4. ASSUME NEW g PROVE Sum(g) = LiveSum(g)
  <2>1. ASSUME NEW i \in 0 .. n PROVE Sum(g)[i] = LiveSum(g)[i]
    <3>1. CASE i = 0
      BY <3>1
    <3>2. CASE i # 0
      <4>1. i \in 1 .. n
        BY <3>2
      <4>2. QED
        BY <1>1, <4>1
    <3>3. QED
      BY <3>1, <3>2
  <2>2. QED
    BY <2>1
<1>5. ASSUME NEW g PROVE Totals(g, SlotBytes(pg), n) <=> Adds(g)
  BY <1>4, Zenon DEF Totals
<1>6. \E g : Adds(g)
  BY <1>3, <1>5, Zenon
<1>7. LiveBytes(pg) = CHOOSE g : Adds(g)
  BY Zenon DEF LiveBytes
<1>8. Adds(LiveBytes(pg))
  <2> HIDE DEF Adds
  <2> QED BY <1>6, <1>7
<1>9. QED
  BY <1>5, <1>8, Zenon

LEMMA SlotsFit ==
    ASSUME NEW m \in Nat, NEW s \in Nat \ {0}, NEW k \in Nat, k * s <= m
    PROVE  k <= m \div s
OBVIOUS

-----------------------------------------------------------------------------
(* Sound pages.                                                            *)

\* What holds of every page between two operations: it is valid, its live
\* records fit above freeEnd, and no slot is without a generation.
Sound(pg) ==
    /\ pg \in Page
    /\ Validate(pg)
    /\ LiveBytes(pg)[Len(pg.slots)] <= PageSize - pg.freeEnd
    /\ \A i \in DOMAIN pg.slots : pg.slots[i].gen # 0

LEMMA SlotTypes ==
    ASSUME NEW pg \in Page
    PROVE  /\ Len(pg.slots) \in Nat /\ DOMAIN pg.slots = 1 .. Len(pg.slots)
           /\ \A i \in 1 .. Len(pg.slots) :
                /\ pg.slots[i] \in Slot
                /\ pg.slots[i].length \in 0 .. PageSize /\ pg.slots[i].offset \in 0 .. PageSize
                /\ pg.slots[i].gen \in 0 .. GenerationLimit
                /\ pg.slots[i].flags \in {"free", "live", "retired"}
           /\ \A i \in LiveSlots(pg) : i \in 1 .. Len(pg.slots)
           /\ pg.freeEnd \in Nat /\ pg.freeStart \in Nat /\ pg.live \in Nat
           /\ PageSize \in Nat /\ HeaderSize \in Nat /\ SlotSize \in Nat /\ SlotSize # 0
<1>1. pg.slots \in Seq(Slot) /\ pg.freeEnd \in 0 .. PageSize /\ pg.freeStart \in 0 .. PageSize
      /\ pg.live \in Nat
  BY DEF Page
<1>2. \A i \in 1 .. Len(pg.slots) : pg.slots[i] \in Slot
  BY <1>1
<1>3. \A i \in LiveSlots(pg) : i \in DOMAIN pg.slots
  BY DEF LiveSlots, SlotsFlagged
<1>4. \A i \in 1 .. Len(pg.slots) :
        /\ pg.slots[i].length \in 0 .. PageSize /\ pg.slots[i].offset \in 0 .. PageSize
        /\ pg.slots[i].gen \in 0 .. GenerationLimit
        /\ pg.slots[i].flags \in {"free", "live", "retired"}
  BY <1>2 DEF Slot
<1>5. /\ Len(pg.slots) \in Nat /\ DOMAIN pg.slots = 1 .. Len(pg.slots)
      /\ \A i \in LiveSlots(pg) : i \in 1 .. Len(pg.slots)
  BY <1>1, <1>3
<1>6. QED
  BY <1>1, <1>2, <1>4, <1>5, SlottedPageAssumption

\* The totals of a page.
LEMMA LiveBytesGrow ==
    ASSUME NEW pg \in Page
    PROVE  /\ Totals(LiveBytes(pg), SlotBytes(pg), Len(pg.slots))
           /\ LiveBytes(pg)[0] = 0
           /\ \A i \in 1 .. Len(pg.slots) :
                /\ LiveBytes(pg)[i] = LiveBytes(pg)[i - 1] + SlotBytes(pg)[i]
                /\ SlotBytes(pg)[i] \in Nat
                /\ SlotBytes(pg)[i] = IF i \in LiveSlots(pg) THEN pg.slots[i].length ELSE 0
           /\ \A i \in 0 .. Len(pg.slots) : LiveBytes(pg)[i] \in Nat
           /\ \A i, j \in 0 .. Len(pg.slots) : i <= j => LiveBytes(pg)[i] <= LiveBytes(pg)[j]
<1>1. Totals(LiveBytes(pg), SlotBytes(pg), Len(pg.slots))
  BY SlotTypes, LiveBytesTotals, SMTT(30)
<1>2. \A i \in 1 .. Len(pg.slots) :
        /\ SlotBytes(pg)[i] = IF i \in LiveSlots(pg) THEN pg.slots[i].length ELSE 0
        /\ SlotBytes(pg)[i] \in Nat
  BY SlotTypes DEF SlotBytes
<1>3. Len(pg.slots) \in Nat
  BY SlotTypes
<1>4. /\ LiveBytes(pg)[0] = 0
      /\ \A i \in 1 .. Len(pg.slots) : LiveBytes(pg)[i] = LiveBytes(pg)[i - 1] + SlotBytes(pg)[i]
      /\ \A i \in 0 .. Len(pg.slots) : LiveBytes(pg)[i] \in Nat
      /\ \A i, j \in 0 .. Len(pg.slots) : i <= j => LiveBytes(pg)[i] <= LiveBytes(pg)[j]
  BY <1>1, <1>2, <1>3, TotalsGrow
<1>5. QED
  BY <1>1, <1>2, <1>4

\* Of the first n slots, only slot t of q counts d bytes more than in pg.
DiffersAt(q, pg, n, t, d) ==
    \A i \in 1 .. n : SlotBytes(q)[i] = IF i = t THEN SlotBytes(pg)[i] + d ELSE SlotBytes(pg)[i]

\* Then the totals differ by d from there on.
LEMMA LiveBytesChange ==
    ASSUME NEW pg \in Page, NEW q \in Page, NEW n \in Nat,
           n <= Len(pg.slots), n <= Len(q.slots),
           NEW t \in Nat, t # 0, NEW d \in Int, DiffersAt(q, pg, n, t, d)
    PROVE  \A i \in 0 .. n :
             LiveBytes(q)[i] = IF t <= i THEN LiveBytes(pg)[i] + d ELSE LiveBytes(pg)[i]
<1> DEFINE f == LiveBytes(pg)
           g == LiveBytes(q)
           v == SlotBytes(pg)
           w == SlotBytes(q)
<1>1. /\ \A i \in 0 .. n : i \in 0 .. Len(pg.slots)
      /\ \A i \in 1 .. n : i \in 1 .. Len(pg.slots) /\ i \in 1 .. Len(q.slots)
  BY SlotTypes
<1>2. /\ \A i \in 0 .. n : f[i] \in Nat
      /\ \A i \in 1 .. n : v[i] \in Nat
  BY <1>1, LiveBytesGrow
<1>3. Accumulates(f, v, n) /\ Accumulates(g, w, n)
  BY <1>1, LiveBytesGrow DEF Accumulates
<1>4. ChangedAt(w, v, n, t, d)
  BY DEF DiffersAt, ChangedAt
<1> HIDE DEF f, g, v, w
<1>5. \A i \in 0 .. n : g[i] = IF t <= i THEN f[i] + d ELSE f[i]
  BY ONLY n \in Nat, t \in Nat, t # 0, d \in Int, <1>2, <1>3, <1>4, TotalsChange
<1>6. QED
  BY <1>5 DEF f, g

\* The two directories differ only in where the records are.
SameRows(pg, q) ==
    /\ Len(q.slots) = Len(pg.slots) /\ LiveSlots(q) = LiveSlots(pg)
    /\ \A i \in 1 .. Len(pg.slots) :
         /\ q.slots[i].gen = pg.slots[i].gen /\ q.slots[i].flags = pg.slots[i].flags
         /\ i \notin LiveSlots(pg) => q.slots[i] = pg.slots[i]
    /\ \A i \in LiveSlots(pg) :
         /\ q.slots[i].length = pg.slots[i].length
         /\ \A k \in 1 .. pg.slots[i].length :
              q.bytes[q.slots[i].offset + k - 1] = pg.bytes[pg.slots[i].offset + k - 1]

\* Where compact puts a live record: the packed records lie above packedEnd,
\* each below the ones before it.
LEMMA PackedPlaces ==
    ASSUME NEW pg \in Page, LiveBytes(pg)[Len(pg.slots)] <= PageSize
    PROVE  /\ \A i \in LiveSlots(pg) :
                /\ PackedOffset(pg, i) \in Nat
                /\ PageSize - LiveBytes(pg)[Len(pg.slots)] <= PackedOffset(pg, i)
                /\ PackedOffset(pg, i) + pg.slots[i].length <= PageSize
           /\ \A i, j \in LiveSlots(pg) :
                i < j => PackedOffset(pg, j) + pg.slots[j].length <= PackedOffset(pg, i)
<1> DEFINE n == Len(pg.slots)
           L == LiveBytes(pg)
<1>1. n \in Nat /\ PageSize \in Nat
  BY SlotTypes
<1>2. ASSUME NEW i \in LiveSlots(pg)
      PROVE  /\ i \in 1 .. n /\ i \in 0 .. n /\ i - 1 \in 0 .. n /\ n \in 0 .. n
             /\ L[i] = L[i - 1] + pg.slots[i].length
             /\ L[i] \in Nat /\ L[i - 1] \in Nat /\ L[i] <= L[n] /\ L[n] \in Nat
             /\ pg.slots[i].length \in Nat
  <2>1. i \in 1 .. n /\ i \in 0 .. n /\ i - 1 \in 0 .. n /\ n \in 0 .. n /\ i <= n
    BY <1>1, SlotTypes
  <2>2. pg.slots[i].length \in Nat
    BY <2>1, SlotTypes
  <2> QED
    BY <2>1, <2>2, LiveBytesGrow
<1>3. ASSUME NEW i \in LiveSlots(pg), NEW j \in LiveSlots(pg), i < j
      PROVE  L[i] <= L[j - 1]
  <2>1. i \in 0 .. n /\ j - 1 \in 0 .. n /\ i <= j - 1
    BY <1>1, <1>2, <1>3
  <2> QED
    BY <2>1, LiveBytesGrow
<1> HIDE DEF n, L
<1>4. \A i \in LiveSlots(pg) : PackedOffset(pg, i) = PageSize - L[i]
  BY DEF PackedOffset, L
<1>5. \A i \in LiveSlots(pg) :
                /\ PackedOffset(pg, i) \in Nat
                /\ PageSize - L[n] <= PackedOffset(pg, i)
                /\ PackedOffset(pg, i) + pg.slots[i].length <= PageSize
  <2> SUFFICES ASSUME NEW i \in LiveSlots(pg)
               PROVE  /\ PackedOffset(pg, i) \in Nat
                      /\ PageSize - L[n] <= PackedOffset(pg, i)
                      /\ PackedOffset(pg, i) + pg.slots[i].length <= PageSize
    OBVIOUS
  <2>1. L[n] <= PageSize
    BY DEF L, n
  <2>2. /\ L[i] = L[i - 1] + pg.slots[i].length /\ L[i] \in Nat /\ L[i - 1] \in Nat
        /\ L[i] <= L[n] /\ L[n] \in Nat /\ pg.slots[i].length \in Nat
    BY <1>2
  <2>3. PackedOffset(pg, i) = PageSize - L[i]
    BY <1>4
  <2> QED
    BY <1>1, <2>1, <2>2, <2>3, SMTT(30)
<1>6. \A i, j \in LiveSlots(pg) :
                i < j => PackedOffset(pg, j) + pg.slots[j].length <= PackedOffset(pg, i)
  <2> SUFFICES ASSUME NEW i \in LiveSlots(pg), NEW j \in LiveSlots(pg), i < j
               PROVE  PackedOffset(pg, j) + pg.slots[j].length <= PackedOffset(pg, i)
    OBVIOUS
  <2>1. /\ L[j] = L[j - 1] + pg.slots[j].length /\ L[j] \in Nat /\ L[j - 1] \in Nat
        /\ L[i] \in Nat /\ pg.slots[j].length \in Nat /\ L[i] <= L[j - 1]
    BY <1>2, <1>3
  <2>2. PackedOffset(pg, i) = PageSize - L[i] /\ PackedOffset(pg, j) = PageSize - L[j]
    BY <1>4
  <2> QED
    BY <1>1, <2>1, <2>2
<1>7. QED
  BY <1>5, <1>6 DEF L, n

LEMMA CompactSound ==
    ASSUME NEW pg, Sound(pg)
    PROVE  /\ Compact(pg).res = "Ok" /\ Sound(Compact(pg).page)
           /\ SameRows(pg, Compact(pg).page)
           /\ Compact(pg).page.freeStart = pg.freeStart
           /\ Compact(pg).page.freeEnd = PageSize - LiveBytes(pg)[Len(pg.slots)]
           /\ LiveBytes(Compact(pg).page)[Len(pg.slots)] = LiveBytes(pg)[Len(pg.slots)]
<1> DEFINE n == Len(pg.slots)
           total == LiveBytes(pg)[n]
           packedEnd == PageSize - total
           at(i) == PackedOffset(pg, i)
           occupant(b) == {i \in LiveSlots(pg) : b \in at(i) .. at(i) + pg.slots[i].length - 1}
           moved == [i \in DOMAIN pg.slots |->
                       IF i \in LiveSlots(pg) THEN [pg.slots[i] EXCEPT !.offset = at(i)]
                       ELSE pg.slots[i]]
           packed == [b \in Area |->
                        IF b < pg.freeStart THEN pg.bytes[b]
                        ELSE IF occupant(b) = {} THEN ZeroByte
                        ELSE LET i == CHOOSE i \in occupant(b) : TRUE
                             IN  pg.bytes[pg.slots[i].offset + b - at(i)]]
           q == [pg EXCEPT !.freeEnd = packedEnd, !.slots = moved, !.bytes = packed]
<1>1. /\ pg \in Page /\ n \in Nat /\ n \in 0 .. n /\ PageSize \in Nat /\ HeaderSize \in Nat
      /\ DOMAIN pg.slots = 1 .. n /\ pg.bytes \in [Area -> Byte]
      /\ pg.freeStart \in Nat /\ pg.freeEnd \in Nat /\ pg.freeEnd <= PageSize
      /\ pg.freeStart <= pg.freeEnd /\ HeaderSize <= pg.freeStart
      /\ total \in Nat /\ total <= PageSize - pg.freeEnd /\ ZeroByte \in Byte
  <2>1. pg \in Page /\ n \in Nat /\ n \in 0 .. n /\ SlotSize \in Nat
    BY SlotTypes DEF Sound
  <2>2. n * SlotSize \in Nat
    BY <2>1
  <2> QED
    BY <2>1, <2>2, SlotTypes, LiveBytesGrow, SlottedPageAssumption DEF Sound, Validate, Page
<1>2. total <= PageSize /\ pg.freeStart <= packedEnd /\ packedEnd \in 0 .. PageSize
  BY <1>1
<1>3. \A i \in LiveSlots(pg) :
        /\ i \in 1 .. n /\ at(i) \in Nat /\ packedEnd <= at(i)
        /\ at(i) + pg.slots[i].length <= PageSize
        /\ pg.slots[i].length \in Nat /\ pg.slots[i].offset \in Nat
        /\ pg.freeEnd <= pg.slots[i].offset
        /\ pg.slots[i].offset + pg.slots[i].length <= PageSize
  <2> SUFFICES ASSUME NEW i \in LiveSlots(pg)
               PROVE  /\ i \in 1 .. n /\ at(i) \in Nat /\ packedEnd <= at(i)
                      /\ at(i) + pg.slots[i].length <= PageSize
                      /\ pg.slots[i].length \in Nat /\ pg.slots[i].offset \in Nat
                      /\ pg.freeEnd <= pg.slots[i].offset
                      /\ pg.slots[i].offset + pg.slots[i].length <= PageSize
    OBVIOUS
  <2>1. i \in 1 .. n /\ pg.slots[i].length \in Nat /\ pg.slots[i].offset \in Nat
    BY <1>1, SlotTypes
  <2>2. at(i) \in Nat /\ packedEnd <= at(i) /\ at(i) + pg.slots[i].length <= PageSize
    BY <1>1, <1>2, PackedPlaces
  <2>3. EndOf(pg.slots[i]) <= PageSize /\ pg.slots[i].offset >= pg.freeEnd
    BY <1>1, <2>1 DEF Sound, Validate
  <2> QED
    BY <1>1, <2>1, <2>2, <2>3 DEF EndOf
<1>4. \A i, j \in LiveSlots(pg) : i < j => at(j) + pg.slots[j].length <= at(i)
  BY <1>1, <1>2, PackedPlaces
<1>5. Compact(pg) = Answer("Ok", q, NoRid)
  <2>1. ~(packedEnd < pg.freeStart)
    BY <1>1, <1>2
  <2> QED
    BY <2>1, Zenon DEF Compact
<1> HIDE DEF at, total
<1>sizes. /\ PageSize \in Nat /\ HeaderSize \in Nat /\ pg.freeStart \in Nat /\ pg.freeEnd \in Nat
       /\ HeaderSize <= pg.freeStart /\ pg.freeStart <= pg.freeEnd
       /\ pg.freeStart <= packedEnd /\ packedEnd \in Nat
  BY <1>1, <1>2
<1> HIDE DEF packedEnd
<1>6. ASSUME NEW i \in LiveSlots(pg), NEW b \in at(i) .. at(i) + pg.slots[i].length - 1
      PROVE  /\ b \in Area /\ ~(b < pg.freeStart) /\ occupant(b) = {i}
             /\ packed[b] = pg.bytes[pg.slots[i].offset + b - at(i)]
  <2>1. b \in Int /\ at(i) <= b /\ b < at(i) + pg.slots[i].length
    BY <1>3
  <2>2. b \in Area /\ ~(b < pg.freeStart)
    <3>1. /\ at(i) \in Nat /\ packedEnd <= at(i) /\ pg.slots[i].length \in Nat
          /\ at(i) + pg.slots[i].length <= PageSize /\ packedEnd \in Int
      BY <1>2, <1>3
    <3>2. HeaderSize <= b /\ b <= PageSize - 1 /\ pg.freeStart <= b
      BY <1>sizes, <2>1, <3>1
    <3> QED
      BY <1>sizes, <2>1, <3>2 DEF Area
  <2>3. occupant(b) = {i}
    <3>1. i \in occupant(b)
      OBVIOUS
    <3>2. ASSUME NEW j \in occupant(b) PROVE j = i
      <4>1. j \in LiveSlots(pg) /\ b \in at(j) .. at(j) + pg.slots[j].length - 1
        OBVIOUS
      <4>2. at(j) <= b /\ b < at(j) + pg.slots[j].length
        BY <1>3, <4>1
      <4>3. i \in Int /\ j \in Int /\ at(i) \in Int /\ at(j) \in Int
            /\ pg.slots[i].length \in Int /\ pg.slots[j].length \in Int
        BY <1>3, <4>1
      <4>4. ~(i < j) /\ ~(j < i)
        BY <1>4, <2>1, <4>1, <4>2, <4>3
      <4> QED
        BY <4>3, <4>4
    <3> QED
      BY <3>1, <3>2
  <2> HIDE DEF occupant
  <2>4. packed[b] = pg.bytes[pg.slots[i].offset + b - at(i)]
    BY <2>2, <2>3
  <2> QED
    BY <2>2, <2>3, <2>4
<1>7. packed \in [Area -> Byte]
  <2> SUFFICES ASSUME NEW b \in Area PROVE packed[b] \in Byte
    OBVIOUS
  <2>1. CASE b < pg.freeStart
    BY <1>1, <2>1
  <2>2. CASE ~(b < pg.freeStart) /\ occupant(b) = {}
    BY <1>1, <2>2
  <2>3. CASE ~(b < pg.freeStart) /\ occupant(b) # {}
    <3>1. PICK i \in LiveSlots(pg) : b \in at(i) .. at(i) + pg.slots[i].length - 1
      BY <2>3
    <3>2. packed[b] = pg.bytes[pg.slots[i].offset + b - at(i)]
      BY <1>6, <3>1
    <3>3. pg.slots[i].offset + b - at(i) \in Area
      <4>1. /\ at(i) \in Nat /\ pg.slots[i].length \in Nat /\ pg.slots[i].offset \in Nat
            /\ pg.freeEnd <= pg.slots[i].offset
            /\ pg.slots[i].offset + pg.slots[i].length <= PageSize
        BY <1>3
      <4>2. b \in Int /\ at(i) <= b /\ b < at(i) + pg.slots[i].length
        BY <3>1, <4>1
      <4>3. HeaderSize <= pg.slots[i].offset
        BY <1>1, <4>1
      <4> QED
        BY <1>sizes, <4>1, <4>2, <4>3 DEF Area
    <3> QED
      BY <1>1, <3>2, <3>3
  <2> QED
    BY <2>1, <2>2, <2>3
<1> HIDE DEF packed
<1>8. /\ moved \in Seq(Slot) /\ Len(moved) = n /\ DOMAIN moved = 1 .. n
      /\ \A i \in 1 .. n :
           /\ i \in LiveSlots(pg) => moved[i] = [pg.slots[i] EXCEPT !.offset = at(i)]
           /\ i \notin LiveSlots(pg) => moved[i] = pg.slots[i]
  <2>1. \A i \in 1 .. n :
           /\ i \in LiveSlots(pg) => moved[i] = [pg.slots[i] EXCEPT !.offset = at(i)]
           /\ i \notin LiveSlots(pg) => moved[i] = pg.slots[i]
    BY <1>1
  <2>2. ASSUME NEW i \in 1 .. n PROVE moved[i] \in Slot
    <3>1. CASE i \in LiveSlots(pg)
      <4>1. at(i) \in 0 .. PageSize
        BY <1>1, <1>3, <3>1
      <4> QED
        BY <1>1, <2>1, <3>1, <4>1, SlotTypes, ZenonT(40) DEF Slot
    <3>2. CASE i \notin LiveSlots(pg)
      BY <1>1, <2>1, <3>2, SlotTypes
    <3> QED
      BY <3>1, <3>2
  <2>3. moved = [i \in 1 .. n |-> moved[i]]
    BY <1>1
  <2> HIDE DEF moved
  <2>4. moved \in Seq(Slot) /\ Len(moved) = n /\ DOMAIN moved = 1 .. n
    BY <1>1, <2>2, <2>3
  <2> QED
    BY <2>1, <2>4
<1> HIDE DEF moved
<1>9. /\ q.slots = moved /\ q.freeEnd = packedEnd /\ q.bytes = packed
      /\ q.freeStart = pg.freeStart /\ q.live = pg.live /\ q \in Page
  BY <1>1, <1>2, <1>7, <1>8 DEF Page
<1> HIDE DEF q
<1>10. ASSUME NEW i \in 1 .. n
       PROVE  /\ q.slots[i].gen = pg.slots[i].gen /\ q.slots[i].flags = pg.slots[i].flags
              /\ q.slots[i].length = pg.slots[i].length
              /\ i \in LiveSlots(pg) => q.slots[i].offset = at(i)
              /\ i \notin LiveSlots(pg) => q.slots[i] = pg.slots[i]
  <2>1. pg.slots[i] \in Slot
    BY <1>1, SlotTypes
  <2> QED
    BY <1>8, <1>9, <2>1 DEF Slot
<1>11. LiveSlots(q) = LiveSlots(pg)
  BY <1>1, <1>8, <1>9, <1>10 DEF LiveSlots, SlotsFlagged
<1>12. SameRows(pg, q)
  <2>1. ASSUME NEW i \in LiveSlots(pg), NEW k \in 1 .. pg.slots[i].length
        PROVE  q.bytes[q.slots[i].offset + k - 1] = pg.bytes[pg.slots[i].offset + k - 1]
    <3>1. /\ at(i) + k - 1 \in at(i) .. at(i) + pg.slots[i].length - 1
          /\ pg.slots[i].offset + (at(i) + k - 1) - at(i) = pg.slots[i].offset + k - 1
          /\ q.slots[i].offset = at(i)
      <4>1. i \in 1 .. n /\ q.slots[i].offset = at(i)
        BY <1>3, <1>10
      <4>2. PICK a, o, l : a = at(i) /\ o = pg.slots[i].offset /\ l = pg.slots[i].length
        OBVIOUS
      <4>3. a \in Nat /\ o \in Nat /\ l \in Nat /\ k \in 1 .. l
        BY <1>3, <4>2
      <4>4. a + k - 1 \in a .. a + l - 1 /\ o + (a + k - 1) - a = o + k - 1
        BY ONLY <4>3
      <4> QED
        BY <4>1, <4>2, <4>4
    <3>2. packed[at(i) + k - 1] = pg.bytes[pg.slots[i].offset + (at(i) + k - 1) - at(i)]
      BY <1>6, <3>1
    <3> QED
      BY <1>9, <3>1, <3>2
  <2> QED
    BY <1>3, <1>8, <1>9, <1>10, <1>11, <2>1 DEF SameRows
<1>size. LiveBytes(q)[n] = total
  <2> DEFINE t == n + 1
             d == 0
  <2>1. t \in Nat /\ t # 0 /\ d \in Int /\ ~(t <= n)
    BY <1>1
  <2>2. DiffersAt(q, pg, n, t, d)
    <3> SUFFICES ASSUME NEW i \in 1 .. n PROVE SlotBytes(q)[i] = SlotBytes(pg)[i]
      BY <1>1, LiveBytesGrow DEF DiffersAt
    <3>1. i \in DOMAIN q.slots /\ i \in DOMAIN pg.slots
      BY <1>1, <1>8, <1>9
    <3> QED
      BY <1>10, <1>11, <3>1 DEF SlotBytes
  <2> HIDE DEF t, d
  <2>3. /\ pg \in Page /\ q \in Page /\ n \in Nat /\ n <= Len(pg.slots) /\ n <= Len(q.slots)
        /\ n \in 0 .. n
    BY <1>1, <1>8, <1>9
  <2>4. LiveBytes(q)[n] = IF t <= n THEN LiveBytes(pg)[n] + d ELSE LiveBytes(pg)[n]
    BY <2>1, <2>2, <2>3, LiveBytesChange
  <2> QED
    BY <2>1, <2>4 DEF total
<1>14. Validate(q)
  <2>1. \A i, j \in LiveSlots(pg) :
          i # j => \/ EndOf(q.slots[i]) <= q.slots[j].offset
                   \/ EndOf(q.slots[j]) <= q.slots[i].offset
    <3> SUFFICES ASSUME NEW i \in LiveSlots(pg), NEW j \in LiveSlots(pg), i # j
                 PROVE  \/ EndOf(q.slots[i]) <= q.slots[j].offset
                        \/ EndOf(q.slots[j]) <= q.slots[i].offset
      OBVIOUS
    <3>1. /\ q.slots[i].offset = at(i) /\ q.slots[j].offset = at(j)
          /\ EndOf(q.slots[i]) = at(i) + pg.slots[i].length
          /\ EndOf(q.slots[j]) = at(j) + pg.slots[j].length
      BY <1>3, <1>10 DEF EndOf
    <3>2. i < j \/ j < i
      BY <1>3
    <3> QED
      BY <1>4, <3>1, <3>2
  <2>2. ASSUME NEW i \in 1 .. n
        PROVE  IF i \in LiveSlots(pg)
               THEN /\ q.slots[i].gen # 0 /\ EndOf(q.slots[i]) <= PageSize
                    /\ q.slots[i].offset >= q.freeEnd
               ELSE q.slots[i].offset = 0 /\ q.slots[i].length = 0
    BY <1>1, <1>2, <1>3, <1>9, <1>10 DEF EndOf, Sound, Validate
  <2> QED
    BY <1>1, <1>2, <1>8, <1>9, <1>11, <2>1, <2>2 DEF Sound, Validate
<1>15. Sound(q)
  <2>1. LiveBytes(q)[Len(q.slots)] <= PageSize - q.freeEnd
    BY <1>1, <1>8, <1>9, <1>size DEF packedEnd
  <2>2. \A i \in DOMAIN q.slots : q.slots[i].gen # 0
    BY <1>1, <1>8, <1>9, <1>10 DEF Sound
  <2> QED
    BY <1>9, <1>14, <2>1, <2>2 DEF Sound
<1>16. QED
  BY <1>5, <1>9, <1>12, <1>size, <1>15 DEF Answer, packedEnd, total

LEMMA LiveSlotsFinite ==
    ASSUME NEW pg \in Page
    PROVE  IsFiniteSet(LiveSlots(pg)) /\ Cardinality(LiveSlots(pg)) \in Nat
<1>1. 1 \in Int /\ Len(pg.slots) \in Int /\ LiveSlots(pg) \in SUBSET (1 .. Len(pg.slots))
  BY SlotTypes
<1>2. IsFiniteSet(1 .. Len(pg.slots))
  BY <1>1, FS_Interval
<1>3. IsFiniteSet(LiveSlots(pg))
  BY <1>1, <1>2, FS_Subset
<1>4. QED
  BY <1>3, FS_CardinalityType

\* The bytes of a record lie between the free space and the end of the page.
LEMMA RecordInside ==
    ASSUME NEW low \in Nat, NEW end \in Nat, NEW at \in Nat, NEW length \in Nat, NEW high \in Nat,
           low <= end, end <= at, at + length <= high, NEW k \in 1 .. length
    PROVE  at + k - 1 \in Int /\ end <= at + k - 1 /\ low <= at + k - 1 /\ at + k - 1 <= high - 1
OBVIOUS

\* Rows are read alike where lengths and bytes agree.
LEMMA SameRowsGet ==
    ASSUME NEW pg, NEW q, SameRows(pg, q), NEW r, r.slot \in LiveSlots(pg)
    PROVE  Get(q, r) = Get(pg, r)
BY DEF SameRows, Get

\* The first free slot, if there is one.
LEMMA ReusableIsFree ==
    ASSUME NEW pg \in Page
    PROVE  \/ ReusableSlot(pg) = 0 /\ SlotsFlagged(pg, "free") = {}
           \/ /\ ReusableSlot(pg) \in 1 .. Len(pg.slots) /\ ReusableSlot(pg) # 0
              /\ pg.slots[ReusableSlot(pg)].flags = "free"
<1> DEFINE free == SlotsFlagged(pg, "free")
           Least(i) == \A j \in free : i <= j
<1>1. free \subseteq 1 .. Len(pg.slots) /\ free \subseteq Nat
      /\ \A i \in free : pg.slots[i].flags = "free"
  BY SlotTypes DEF SlotsFlagged
<1>2. CASE free = {}
  BY <1>2 DEF ReusableSlot
<1>3. CASE free # {}
  <2>1. ReusableSlot(pg) = CHOOSE i \in free : Least(i)
    BY <1>3, Zenon DEF ReusableSlot
  <2>2. \E i \in free : Least(i)
    <3> HIDE DEF free
    <3> QED BY <1>1, <1>3, LeastExists
  <2>3. ReusableSlot(pg) \in free
    <3> HIDE DEF free, Least
    <3> QED BY <2>1, <2>2
  <2>4. QED
    BY <1>1, <2>3
<1>4. QED
  BY <1>2, <1>3

\* What placing a record in slot t, of generation gen, leaves behind.
Places(pg, q, t, gen, record) ==
    /\ DOMAIN q.slots = DOMAIN pg.slots \cup {t}
    /\ t \notin LiveSlots(pg) /\ LiveSlots(q) = LiveSlots(pg) \cup {t}
    /\ q.slots[t].gen = gen
    /\ IF t \in DOMAIN pg.slots
       THEN pg.slots[t].flags = "free" /\ pg.slots[t].gen = gen
       ELSE gen = 1
    /\ \A i \in DOMAIN pg.slots : i # t =>
         /\ q.slots[i].gen = pg.slots[i].gen /\ q.slots[i].flags = pg.slots[i].flags
         /\ i \notin LiveSlots(pg) => q.slots[i] = pg.slots[i]
    /\ q.slots[t].length = Len(record)
    /\ \A k \in 1 .. Len(record) : q.bytes[q.slots[t].offset + k - 1] = record[k]
    /\ \A i \in LiveSlots(pg) :
         /\ q.slots[i].length = pg.slots[i].length
         /\ \A k \in 1 .. pg.slots[i].length :
              q.bytes[q.slots[i].offset + k - 1] = pg.bytes[pg.slots[i].offset + k - 1]

LEMMA PlaceSound ==
    ASSUME NEW pg, Sound(pg), NEW record \in Seq(Byte),
           Contiguous(pg) >= Len(record) + DirectoryGrowth(pg)
    PROVE  /\ Place(pg, record).res = "Ok" /\ Sound(Place(pg, record).page)
           /\ Place(pg, record).rid \in Rid
           /\ Places(pg, Place(pg, record).page, Place(pg, record).rid.slot,
                     Place(pg, record).rid.gen, record)
<1> DEFINE n == Len(pg.slots)
           r == ReusableSlot(pg)
           count == IF r = 0 THEN n + 1 ELSE n
           t == IF r = 0 THEN count ELSE r
           gen == IF r = 0 THEN 1 ELSE pg.slots[r].gen
           size == Len(record)
           offset == pg.freeEnd - size
           slot == [offset |-> offset, length |-> size, gen |-> gen, flags |-> "live"]
           slots == [i \in 1 .. count |-> IF i = t THEN slot ELSE pg.slots[i]]
           bytes == [b \in Area |-> IF b \in offset .. pg.freeEnd - 1
                                    THEN record[b - offset + 1] ELSE pg.bytes[b]]
           q == [slots |-> slots, freeStart |-> HeaderSize + count * SlotSize,
                 freeEnd |-> offset, live |-> pg.live + 1, bytes |-> bytes]
<1>1. Place(pg, record) = Answer("Ok", q, [slot |-> t, gen |-> gen])
  BY Zenon DEF Place
<1>2. /\ pg \in Page /\ n \in Nat /\ n \in 0 .. n /\ DOMAIN pg.slots = 1 .. n
      /\ PageSize \in Nat /\ HeaderSize \in Nat /\ SlotSize \in Nat /\ SlotSize # 0
      /\ pg.freeStart \in Nat /\ pg.freeEnd \in Nat /\ pg.freeEnd <= PageSize
      /\ pg.freeStart = HeaderSize + n * SlotSize
      /\ pg.bytes \in [Area -> Byte] /\ size \in Nat /\ GenerationLimit \in Nat
      /\ GenerationLimit # 0 /\ pg.live \in Nat
      /\ \A i \in 1 .. n : pg.slots[i].gen # 0 /\ pg.slots[i].gen \in 0 .. GenerationLimit
  BY SlotTypes, SlottedPageAssumption DEF Sound, Validate, Page
<1>sizes. /\ PageSize \in Nat /\ HeaderSize \in Nat /\ pg.freeStart \in Nat /\ pg.freeEnd \in Nat
       /\ pg.freeEnd <= PageSize /\ size \in Nat /\ n \in Nat
  BY <1>2
<1>3. /\ count \in Nat /\ n <= count /\ t \in 1 .. count /\ t # 0
      /\ 1 .. count = 1 .. n \cup {t}
      /\ t \in 1 .. n => pg.slots[t].flags = "free" /\ pg.slots[t].gen = gen /\ count = n
      /\ t \notin 1 .. n => gen = 1 /\ t = n + 1 /\ count = n + 1
      /\ gen \in 1 .. GenerationLimit
      /\ DirectoryGrowth(pg) \in Nat
      /\ count * SlotSize = n * SlotSize + DirectoryGrowth(pg)
  <2>1. CASE r = 0
    <3>1. count = n + 1 /\ t = n + 1 /\ gen = 1 /\ DirectoryGrowth(pg) = SlotSize
      BY <2>1 DEF DirectoryGrowth
    <3>2. (n + 1) * SlotSize = n * SlotSize + SlotSize
      BY <1>2
    <3> HIDE DEF count, t, gen, r
    <3> QED
      BY <1>2, <3>1, <3>2
  <2>2. CASE r # 0
    <3>1. count = n /\ t = r /\ gen = pg.slots[r].gen /\ DirectoryGrowth(pg) = 0
      BY <2>2 DEF DirectoryGrowth
    <3>2. r \in 1 .. n /\ pg.slots[r].flags = "free"
      BY <1>2, <2>2, ReusableIsFree
    <3>3. n * SlotSize = n * SlotSize + 0
      BY <1>2
    <3> HIDE DEF count, t, gen, r
    <3> QED
      BY <1>2, <3>1, <3>2, <3>3
  <2> QED
    BY <2>1, <2>2
<1>4. t \notin LiveSlots(pg)
  BY <1>2, <1>3, SlotTypes DEF LiveSlots, SlotsFlagged
<1> HIDE DEF count, t, gen, r
<1> DEFINE directory == count * SlotSize
<1>5. /\ offset \in Nat /\ offset <= PageSize /\ offset + size = pg.freeEnd
      /\ directory \in Nat /\ HeaderSize + directory <= offset
      /\ HeaderSize <= offset /\ size <= PageSize
  <2> DEFINE before == n * SlotSize
  <2>1. pg.freeEnd - pg.freeStart >= size + DirectoryGrowth(pg)
    BY DEF Contiguous
  <2>2. /\ before \in Nat /\ pg.freeStart = HeaderSize + before
        /\ directory = before + DirectoryGrowth(pg) /\ DirectoryGrowth(pg) \in Nat
    BY <1>2, <1>3
  <2> HIDE DEF before, directory
  <2> QED
    BY <1>sizes, <2>1, <2>2, SMTT(30)
<1> HIDE DEF directory
<1>6. /\ slots \in Seq(Slot) /\ Len(slots) = count /\ DOMAIN slots = 1 .. count
      /\ slots[t] = slot
      /\ \A i \in 1 .. n : i # t => slots[i] = pg.slots[i]
  <2>1. slot \in Slot
    BY <1>2, <1>3, <1>5 DEF Slot
  <2>2. \A i \in 1 .. count : slots[i] = IF i = t THEN slot ELSE pg.slots[i]
    OBVIOUS
  <2>3. ASSUME NEW i \in 1 .. count PROVE slots[i] \in Slot
    <3>1. CASE i = t
      BY <2>1, <2>2, <3>1
    <3>2. CASE i # t
      BY <1>2, <1>3, <2>2, <3>2, SlotTypes
    <3> QED
      BY <3>1, <3>2
  <2>4. slots = [i \in 1 .. count |-> slots[i]]
    OBVIOUS
  <2> HIDE DEF slots
  <2>5. slots \in Seq(Slot) /\ Len(slots) = count /\ DOMAIN slots = 1 .. count
    BY <1>3, <2>3, <2>4
  <2> QED
    BY <1>3, <2>2, <2>5
<1> HIDE DEF slots
<1>7. /\ bytes \in [Area -> Byte]
      /\ \A k \in 1 .. size : bytes[offset + k - 1] = record[k]
      /\ \A b \in Area : b >= pg.freeEnd => bytes[b] = pg.bytes[b]
  <2>1. ASSUME NEW b \in Area PROVE bytes[b] \in Byte
    <3>1. CASE b \in offset .. pg.freeEnd - 1
      <4>1. b - offset + 1 \in 1 .. size
        BY <1>sizes, <1>5, <3>1, SMTT(30)
      <4>2. record[b - offset + 1] \in Byte
        BY <4>1
      <4> QED
        BY <3>1, <4>2
    <3>2. CASE b \notin offset .. pg.freeEnd - 1
      BY <1>2, <3>2
    <3> QED
      BY <3>1, <3>2
  <2>2. ASSUME NEW k \in 1 .. size PROVE bytes[offset + k - 1] = record[k]
    <3>1. /\ offset + k - 1 \in offset .. pg.freeEnd - 1 /\ (offset + k - 1) - offset + 1 = k
          /\ HeaderSize <= offset + k - 1 /\ offset + k - 1 <= PageSize - 1
          /\ offset + k - 1 \in Int
      <4>1. PICK o, e : o = offset /\ e = pg.freeEnd
        OBVIOUS
      <4>2. /\ o \in Nat /\ o + size = e /\ HeaderSize <= o /\ HeaderSize \in Nat
            /\ size \in Nat /\ e <= PageSize /\ PageSize \in Nat
        BY <1>sizes, <1>5, <4>1
      <4>3. k \in Nat /\ 1 <= k /\ k <= size
        BY <4>2
      <4>4. /\ o + k - 1 \in o .. e - 1 /\ (o + k - 1) - o + 1 = k
            /\ HeaderSize <= o + k - 1 /\ o + k - 1 <= PageSize - 1 /\ o + k - 1 \in Int
        BY ONLY <4>2, <4>3
      <4> QED
        BY <4>1, <4>4
    <3>2. offset + k - 1 \in Area
      BY <1>2, <3>1 DEF Area
    <3> QED
      BY <3>1, <3>2
  <2>3. ASSUME NEW b \in Area, b >= pg.freeEnd PROVE bytes[b] = pg.bytes[b]
    <3>1. b \notin offset .. pg.freeEnd - 1
      BY <1>2, <1>5, <2>3
    <3> QED
      BY <3>1
  <2> QED
    BY <2>1, <2>2, <2>3
<1> HIDE DEF bytes
<1>8. /\ q.slots = slots /\ q.freeStart = HeaderSize + directory /\ q.freeEnd = offset
      /\ q.live = pg.live + 1 /\ q.bytes = bytes /\ q \in Page
  <2>1. HeaderSize + directory \in 0 .. PageSize /\ offset \in 0 .. PageSize /\ pg.live + 1 \in Nat
    BY <1>2, <1>5, SMTT(30)
  <2>2. q.freeStart = HeaderSize + directory
    BY DEF directory
  <2> QED
    BY <1>6, <1>7, <2>1, <2>2 DEF Page
<1> HIDE DEF q
<1>9. LiveSlots(q) = LiveSlots(pg) \cup {t}
  <2>1. ASSUME NEW i \in 1 .. count PROVE i \in LiveSlots(q) <=> i \in LiveSlots(pg) \cup {t}
    <3>1. CASE i = t
      BY <1>3, <1>6, <1>8, <3>1 DEF LiveSlots, SlotsFlagged
    <3>2. CASE i # t
      <4>1. i \in 1 .. n /\ q.slots[i] = pg.slots[i]
        BY <1>3, <1>6, <1>8, <3>2
      <4> QED
        BY <1>2, <1>6, <1>8, <3>2, <4>1 DEF LiveSlots, SlotsFlagged
    <3> QED
      BY <3>1, <3>2
  <2>2. LiveSlots(q) \subseteq 1 .. count /\ LiveSlots(pg) \subseteq 1 .. count
    BY <1>2, <1>3, <1>6, <1>8 DEF LiveSlots, SlotsFlagged
  <2> QED
    BY <1>3, <2>1, <2>2
<1>10. \A i \in LiveSlots(pg) :
         /\ i \in 1 .. n /\ i # t /\ q.slots[i] = pg.slots[i]
         /\ pg.slots[i].offset \in Nat /\ pg.slots[i].length \in Nat
         /\ pg.freeEnd <= pg.slots[i].offset
         /\ pg.slots[i].offset + pg.slots[i].length <= PageSize
  <2> SUFFICES ASSUME NEW i \in LiveSlots(pg)
               PROVE  /\ i \in 1 .. n /\ i # t /\ q.slots[i] = pg.slots[i]
                      /\ pg.slots[i].offset \in Nat /\ pg.slots[i].length \in Nat
                      /\ pg.freeEnd <= pg.slots[i].offset
                      /\ pg.slots[i].offset + pg.slots[i].length <= PageSize
    OBVIOUS
  <2>1. i \in 1 .. n /\ pg.slots[i].length \in Nat /\ pg.slots[i].offset \in Nat
    BY <1>2, SlotTypes
  <2>2. EndOf(pg.slots[i]) <= PageSize /\ pg.slots[i].offset >= pg.freeEnd
    BY <1>2, <2>1 DEF Sound, Validate
  <2>3. i # t /\ q.slots[i] = pg.slots[i]
    BY <1>4, <1>6, <1>8, <2>1
  <2> QED
    BY <1>2, <2>1, <2>2, <2>3 DEF EndOf
<1>11. /\ q.slots[t].offset = offset /\ q.slots[t].length = size /\ q.slots[t].gen = gen
       /\ q.slots[t].flags = "live" /\ EndOf(q.slots[t]) = pg.freeEnd
  <2>1. q.slots[t] = slot
    BY <1>6, <1>8
  <2> QED
    BY <1>5, <2>1 DEF EndOf
<1>12. Places(pg, q, t, gen, record)
  <2>1. ASSUME NEW i \in LiveSlots(pg), NEW k \in 1 .. pg.slots[i].length
        PROVE  q.bytes[q.slots[i].offset + k - 1] = pg.bytes[pg.slots[i].offset + k - 1]
    <3>1. /\ pg.slots[i].offset + k - 1 \in Int
          /\ pg.freeEnd <= pg.slots[i].offset + k - 1
          /\ HeaderSize <= pg.slots[i].offset + k - 1
          /\ pg.slots[i].offset + k - 1 <= PageSize - 1
      <4>1. /\ pg.slots[i].offset \in Nat /\ pg.slots[i].length \in Nat
            /\ pg.freeEnd <= pg.slots[i].offset
            /\ pg.slots[i].offset + pg.slots[i].length <= PageSize
        BY <1>10
      <4>2. HeaderSize <= pg.freeEnd
        BY <1>sizes, <1>5
      <4> QED
        BY <1>sizes, <4>1, <4>2, RecordInside
    <3>2. pg.slots[i].offset + k - 1 \in Area /\ pg.slots[i].offset + k - 1 >= pg.freeEnd
      BY <1>2, <3>1 DEF Area
    <3> QED
      BY <1>7, <1>8, <1>10, <3>2
  <2>2. \A k \in 1 .. size : q.bytes[q.slots[t].offset + k - 1] = record[k]
    BY <1>7, <1>8, <1>11
  <2>3. DOMAIN q.slots = DOMAIN pg.slots \cup {t}
    BY <1>2, <1>3, <1>6, <1>8
  <2>4. \A i \in DOMAIN pg.slots : i # t => q.slots[i] = pg.slots[i]
    BY <1>2, <1>6, <1>8
  <2>5. IF t \in DOMAIN pg.slots THEN pg.slots[t].flags = "free" /\ pg.slots[t].gen = gen
        ELSE gen = 1
    BY <1>2, <1>3
  <2> QED
    BY <1>4, <1>9, <1>10, <1>11, <2>1, <2>2, <2>3, <2>4, <2>5 DEF Places
<1>size. LiveBytes(q)[Len(q.slots)] <= PageSize - q.freeEnd
  <2>1. /\ pg \in Page /\ q \in Page /\ n \in Nat /\ n <= Len(pg.slots) /\ n <= Len(q.slots)
        /\ Len(q.slots) = count /\ n \in 0 .. n /\ t \in Nat /\ size \in Int
    BY <1>2, <1>3, <1>6, <1>8
  <2>2. DiffersAt(q, pg, n, t, size)
    <3> SUFFICES ASSUME NEW i \in 1 .. n
                 PROVE  SlotBytes(q)[i] = IF i = t THEN SlotBytes(pg)[i] + size ELSE SlotBytes(pg)[i]
      BY DEF DiffersAt
    <3>1. /\ SlotBytes(q)[i] = IF i \in LiveSlots(q) THEN q.slots[i].length ELSE 0
          /\ SlotBytes(pg)[i] = IF i \in LiveSlots(pg) THEN pg.slots[i].length ELSE 0
      BY <1>3, <2>1, LiveBytesGrow
    <3>2. CASE i = t
      BY <1>2, <1>4, <1>9, <1>11, <3>1, <3>2
    <3>3. CASE i # t
      BY <1>6, <1>8, <1>9, <3>1, <3>3
    <3> QED
      BY <3>2, <3>3
  <2>3. LiveBytes(q)[n] = IF t <= n THEN LiveBytes(pg)[n] + size ELSE LiveBytes(pg)[n]
    BY <1>3, <2>1, <2>2, LiveBytesChange
  <2>4. LiveBytes(pg)[n] <= PageSize - pg.freeEnd /\ LiveBytes(pg)[n] \in Nat
    BY <2>1, LiveBytesGrow DEF Sound
  <2>5. LiveBytes(q)[count] = LiveBytes(pg)[n] + size
    <3>1. CASE t \in 1 .. n
      BY <1>2, <1>3, <2>3, <3>1
    <3>2. CASE t \notin 1 .. n
      <4>1. count = n + 1 /\ t = n + 1 /\ count \in 1 .. Len(q.slots)
        BY <1>2, <1>3, <2>1, <3>2
      <4>2. /\ LiveBytes(q)[count] = LiveBytes(q)[count - 1] + SlotBytes(q)[count]
            /\ SlotBytes(q)[count] = IF count \in LiveSlots(q) THEN q.slots[count].length ELSE 0
        BY <2>1, <4>1, LiveBytesGrow
      <4>3. SlotBytes(q)[count] = size /\ count - 1 = n
        BY <1>2, <1>9, <1>11, <4>1, <4>2
      <4>4. LiveBytes(q)[n] = LiveBytes(pg)[n]
        BY <1>2, <2>3, <4>1
      <4> QED
        BY <4>2, <4>3, <4>4
    <3> QED
      BY <3>1, <3>2
  <2> QED
    BY <1>sizes, <1>5, <1>8, <2>1, <2>4, <2>5, SMTT(30)
<1>14. Validate(q)
  <2>1. \A i, j \in LiveSlots(q) :
          (i # j /\ q.slots[i].length # 0 /\ q.slots[j].length # 0) =>
             \/ EndOf(q.slots[i]) <= q.slots[j].offset
             \/ EndOf(q.slots[j]) <= q.slots[i].offset
    <3> SUFFICES ASSUME NEW i \in LiveSlots(q), NEW j \in LiveSlots(q), i # j,
                        q.slots[i].length # 0, q.slots[j].length # 0
                 PROVE  \/ EndOf(q.slots[i]) <= q.slots[j].offset
                        \/ EndOf(q.slots[j]) <= q.slots[i].offset
      OBVIOUS
    <3>1. CASE i = t
      BY <1>9, <1>10, <1>11, <3>1
    <3>2. CASE j = t
      BY <1>9, <1>10, <1>11, <3>2
    <3>3. CASE i # t /\ j # t
      <4>1. i \in LiveSlots(pg) /\ j \in LiveSlots(pg)
        BY <1>9, <3>3
      <4>2. q.slots[i] = pg.slots[i] /\ q.slots[j] = pg.slots[j]
        BY <1>10, <4>1
      <4> QED
        BY <4>1, <4>2 DEF Sound, Validate
    <3> QED
      BY <3>1, <3>2, <3>3
  <2>2. ASSUME NEW i \in 1 .. count
        PROVE  IF i \in LiveSlots(q)
               THEN /\ q.slots[i].gen # 0 /\ EndOf(q.slots[i]) <= PageSize
                    /\ q.slots[i].offset >= q.freeEnd
               ELSE q.slots[i].offset = 0 /\ q.slots[i].length = 0
    <3>1. CASE i = t
      <4>1. i \in LiveSlots(q) /\ gen # 0 /\ offset >= q.freeEnd
        BY <1>3, <1>5, <1>8, <1>9, <3>1
      <4> QED
        BY <1>sizes, <1>11, <3>1, <4>1
    <3>2. CASE i # t
      <4>1. i \in 1 .. n /\ q.slots[i] = pg.slots[i] /\ (i \in LiveSlots(q) <=> i \in LiveSlots(pg))
        BY <1>3, <1>6, <1>8, <1>9, <3>2
      <4>2. CASE i \in LiveSlots(pg)
        <5>1. pg.slots[i].gen # 0 /\ EndOf(pg.slots[i]) <= PageSize
          BY <1>2, <4>1, <4>2 DEF Sound, Validate
        <5>2. pg.slots[i].offset >= q.freeEnd
          BY <1>sizes, <1>5, <1>8, <1>10, <4>2, SMTT(30)
        <5> QED
          BY <4>1, <4>2, <5>1, <5>2
      <4>3. CASE i \notin LiveSlots(pg)
        BY <1>2, <4>1, <4>3 DEF Sound, Validate
      <4> QED
        BY <4>2, <4>3
    <3> QED
      BY <3>1, <3>2
  <2>3. q.live = Cardinality(LiveSlots(q))
    <3>1. IsFiniteSet(LiveSlots(pg)) /\ pg.live = Cardinality(LiveSlots(pg))
      BY <1>2, LiveSlotsFinite DEF Sound, Validate
    <3>2. Cardinality(LiveSlots(pg) \cup {t}) = Cardinality(LiveSlots(pg)) + 1
      BY <1>4, <3>1, FS_AddElement
    <3> QED
      BY <1>8, <1>9, <3>1, <3>2
  <2> QED
    BY <1>5, <1>6, <1>8, <2>1, <2>2, <2>3 DEF Validate, directory
<1>15. Sound(q)
  <2>1. \A i \in DOMAIN q.slots : q.slots[i].gen # 0
    <3> SUFFICES ASSUME NEW i \in 1 .. count PROVE q.slots[i].gen # 0
      BY <1>6, <1>8
    <3>1. CASE i = t
      BY <1>3, <1>11, <3>1
    <3>2. CASE i # t
      <4>1. i \in 1 .. n /\ q.slots[i] = pg.slots[i]
        BY <1>3, <1>6, <1>8, <3>2
      <4> QED
        BY <1>2, <4>1
    <3> QED
      BY <3>1, <3>2
  <2> QED
    BY <1>8, <1>size, <1>14, <2>1 DEF Sound
<1>16. [slot |-> t, gen |-> gen] \in Rid
  <2>1. count * SlotSize <= PageSize - HeaderSize /\ PageSize - HeaderSize \in Nat
    BY <1>sizes, <1>5 DEF directory
  <2>2. count <= (PageSize - HeaderSize) \div SlotSize
    BY <1>2, <1>3, <2>1, SlotsFit
  <2>3. (PageSize - HeaderSize) \div SlotSize \in Int
    BY <1>2, <2>1
  <2>4. t \in 1 .. (PageSize - HeaderSize) \div SlotSize
    BY <1>3, <2>2, <2>3
  <2> QED
    BY <1>3, <2>4 DEF Rid
<1>17. QED
  BY <1>1, <1>12, <1>15, <1>16 DEF Answer

LEMMA SameRowsReflexive ==
    ASSUME NEW pg PROVE SameRows(pg, pg)
BY DEF SameRows

LEMMA PlacesAfterCompact ==
    ASSUME NEW pg \in Page, NEW p \in Page, SameRows(pg, p),
           NEW q, NEW t, NEW gen, NEW record, Places(p, q, t, gen, record)
    PROVE  Places(pg, q, t, gen, record)
<1>1. /\ DOMAIN p.slots = DOMAIN pg.slots /\ LiveSlots(p) = LiveSlots(pg)
      /\ DOMAIN pg.slots = 1 .. Len(pg.slots)
      /\ \A i \in LiveSlots(pg) : i \in DOMAIN pg.slots
  BY SlotTypes DEF SameRows
<1>2. /\ DOMAIN q.slots = DOMAIN pg.slots \cup {t}
      /\ t \notin LiveSlots(pg) /\ LiveSlots(q) = LiveSlots(pg) \cup {t}
      /\ q.slots[t].gen = gen /\ q.slots[t].length = Len(record)
      /\ \A k \in 1 .. Len(record) : q.bytes[q.slots[t].offset + k - 1] = record[k]
  BY <1>1 DEF Places
<1>3. IF t \in DOMAIN pg.slots
      THEN pg.slots[t].flags = "free" /\ pg.slots[t].gen = gen
      ELSE gen = 1
  BY <1>1 DEF Places, SameRows
<1>4. \A i \in DOMAIN pg.slots : i # t =>
         /\ q.slots[i].gen = pg.slots[i].gen /\ q.slots[i].flags = pg.slots[i].flags
         /\ i \notin LiveSlots(pg) => q.slots[i] = pg.slots[i]
  BY <1>1 DEF Places, SameRows
<1>5. ASSUME NEW i \in LiveSlots(pg)
      PROVE  /\ q.slots[i].length = pg.slots[i].length
             /\ \A k \in 1 .. pg.slots[i].length :
                  q.bytes[q.slots[i].offset + k - 1] = pg.bytes[pg.slots[i].offset + k - 1]
  <2>1. /\ q.slots[i].length = p.slots[i].length
        /\ \A k \in 1 .. p.slots[i].length :
             q.bytes[q.slots[i].offset + k - 1] = p.bytes[p.slots[i].offset + k - 1]
    BY <1>1 DEF Places
  <2>2. /\ p.slots[i].length = pg.slots[i].length
        /\ \A k \in 1 .. pg.slots[i].length :
             p.bytes[p.slots[i].offset + k - 1] = pg.bytes[pg.slots[i].offset + k - 1]
    BY DEF SameRows
  <2> QED
    BY <2>1, <2>2
<1>6. QED
  BY <1>2, <1>3, <1>4, <1>5 DEF Places

\* Compaction moves no entry, so it needs no other slot for the record.
LEMMA SameGrowth ==
    ASSUME NEW pg \in Page, NEW p \in Page, SameRows(pg, p)
    PROVE  DirectoryGrowth(p) = DirectoryGrowth(pg)
<1>1. SlotsFlagged(p, "free") = SlotsFlagged(pg, "free")
  BY SlotTypes DEF SameRows, SlotsFlagged
<1> DEFINE First(S) == IF S = {} THEN 0 ELSE CHOOSE i \in S : \A j \in S : i <= j
<1>2. ReusableSlot(p) = ReusableSlot(pg)
  <2>1. ReusableSlot(p) = First(SlotsFlagged(p, "free"))
    BY Zenon DEF ReusableSlot
  <2>2. ReusableSlot(pg) = First(SlotsFlagged(pg, "free"))
    BY Zenon DEF ReusableSlot
  <2> HIDE DEF First
  <2> QED
    BY <1>1, <2>1, <2>2
<1>3. QED
  BY <1>2 DEF DirectoryGrowth

LEMMA InsertSound ==
    ASSUME NEW pg, Sound(pg), NEW record \in Seq(Byte)
    PROVE  /\ Sound(Insert(pg, record).page)
           /\ IF Insert(pg, record).res = "Ok"
              THEN /\ Insert(pg, record).rid \in Rid
                   /\ Places(pg, Insert(pg, record).page, Insert(pg, record).rid.slot,
                             Insert(pg, record).rid.gen, record)
              ELSE SameRows(pg, Insert(pg, record).page)
<1> DEFINE growth == DirectoryGrowth(pg)
           required == Len(record) + growth
           after == FreeAfterCompaction(pg, growth)
           packed == Compact(pg)
<1>1. pg \in Page /\ packed.res = "Ok" /\ Sound(packed.page) /\ SameRows(pg, packed.page)
      /\ packed.page \in Page
  BY CompactSound DEF Sound
<1>2. CASE Contiguous(pg) >= required
  <2>1. Insert(pg, record) = Place(pg, record)
    BY <1>2 DEF Insert
  <2> QED
    BY <1>2, <2>1, PlaceSound
<1>3. CASE ~(Contiguous(pg) >= required) /\ after < 0
  <2>1. Insert(pg, record) = Answer("Corrupt", pg, NoRid)
    BY <1>3 DEF Insert
  <2> QED
    BY <2>1, SameRowsReflexive DEF Answer
<1>4. CASE ~(Contiguous(pg) >= required) /\ ~(after < 0) /\ after < Len(record)
  <2>1. Insert(pg, record) = Answer("NoSpace", pg, NoRid)
    BY <1>4 DEF Insert
  <2> QED
    BY <2>1, SameRowsReflexive DEF Answer
<1>5. CASE /\ ~(Contiguous(pg) >= required) /\ ~(after < 0) /\ ~(after < Len(record))
           /\ Contiguous(packed.page) < required
  <2>1. Insert(pg, record) = Answer("NoSpace", packed.page, NoRid)
    BY <1>1, <1>5 DEF Insert
  <2> QED
    BY <1>1, <2>1 DEF Answer
<1>6. CASE /\ ~(Contiguous(pg) >= required) /\ ~(after < 0) /\ ~(after < Len(record))
           /\ ~(Contiguous(packed.page) < required)
  <2>1. Insert(pg, record) = Place(packed.page, record)
    BY <1>1, <1>6 DEF Insert
  <2>2. Contiguous(packed.page) >= Len(record) + DirectoryGrowth(packed.page)
    <3>1. /\ DirectoryGrowth(packed.page) = growth
          /\ packed.page.freeEnd \in Nat /\ packed.page.freeStart \in Nat
          /\ Len(record) \in Nat
      BY <1>1, SameGrowth, SlotTypes
    <3>2. growth \in Nat
      BY SlottedPageAssumption DEF DirectoryGrowth
    <3> QED
      BY <1>6, <3>1, <3>2 DEF Contiguous
  <2>3. /\ Place(packed.page, record).res = "Ok" /\ Sound(Place(packed.page, record).page)
        /\ Place(packed.page, record).rid \in Rid
        /\ Places(packed.page, Place(packed.page, record).page,
                  Place(packed.page, record).rid.slot, Place(packed.page, record).rid.gen, record)
    BY <1>1, <2>2, PlaceSound
  <2>4. Places(pg, Place(packed.page, record).page,
               Place(packed.page, record).rid.slot, Place(packed.page, record).rid.gen, record)
    <3> HIDE DEF packed
    <3> QED
      BY <1>1, <2>3, PlacesAfterCompact
  <2> QED
    BY <2>1, <2>3, <2>4
<1>7. QED
  BY <1>2, <1>3, <1>4, <1>5, <1>6

\* An insert finds room exactly when there is some, packed or not.
LEMMA RoomFound ==
    ASSUME NEW pg, Sound(pg), NEW record, Len(record) \in Nat
    PROVE  Insert(pg, record).res = "Ok" <=>
             HeaderSize + Len(pg.slots) * SlotSize + DirectoryGrowth(pg)
               + LiveBytes(pg)[Len(pg.slots)] + Len(record) <= PageSize
<1> DEFINE growth == DirectoryGrowth(pg)
           required == Len(record) + growth
           after == FreeAfterCompaction(pg, growth)
           packed == Compact(pg)
           size == LiveBytes(pg)[Len(pg.slots)]
<1>1. /\ pg \in Page /\ packed.res = "Ok" /\ packed.page.freeStart = pg.freeStart
      /\ packed.page.freeEnd = PageSize - size
  BY CompactSound DEF Sound
<1>2. /\ pg.freeStart = HeaderSize + Len(pg.slots) * SlotSize
      /\ size <= PageSize - pg.freeEnd
  BY DEF Sound, Validate
<1>3. /\ pg.freeStart \in Nat /\ pg.freeEnd \in Nat /\ PageSize \in Nat
      /\ Len(record) \in Nat /\ growth \in Nat
  BY <1>1, SlotTypes, SlottedPageAssumption DEF DirectoryGrowth
<1>4. size \in Nat
  <2>1. Len(pg.slots) \in 0 .. Len(pg.slots)
    BY <1>1, SlotTypes
  <2> QED
    BY <1>1, <2>1, LiveBytesGrow
<1>5. \A q, r : Place(q, r).res = "Ok"
  BY DEF Place, Answer
<1>6. Insert(pg, record) =
        IF Contiguous(pg) >= required THEN Place(pg, record)
        ELSE IF after < 0 THEN Answer("Corrupt", pg, NoRid)
        ELSE IF after < Len(record) THEN Answer("NoSpace", pg, NoRid)
        ELSE IF packed.res # "Ok" THEN packed
        ELSE IF Contiguous(packed.page) < required THEN Answer("NoSpace", packed.page, NoRid)
        ELSE Place(packed.page, record)
  BY Zenon DEF Insert
<1>7. Contiguous(pg) = pg.freeEnd - pg.freeStart
      /\ Contiguous(packed.page) = PageSize - size - pg.freeStart
      /\ after = PageSize - pg.freeStart - growth - size
  BY <1>1 DEF Contiguous, FreeAfterCompaction
<1> HIDE DEF growth, after, packed, size
<1>8. Insert(pg, record).res = "Ok" <=> pg.freeStart + growth + size + Len(record) <= PageSize
  <2>1. CASE Contiguous(pg) >= required
    <3>1. Insert(pg, record).res = "Ok"
      BY <1>5, <1>6, <2>1
    <3>2. pg.freeStart + growth + size + Len(record) <= PageSize
      <4>1. size <= PageSize - pg.freeEnd /\ pg.freeEnd - pg.freeStart >= Len(record) + growth
        BY <1>2, <1>7, <2>1
      <4> QED
        BY <1>3, <1>4, <4>1
    <3> QED
      BY <3>1, <3>2
  <2>2. CASE ~(Contiguous(pg) >= required) /\ (after < 0 \/ after < Len(record))
    <3>1. Insert(pg, record).res # "Ok"
      BY <1>6, <2>2 DEF Answer
    <3>2. ~(pg.freeStart + growth + size + Len(record) <= PageSize)
      BY <1>3, <1>4, <1>7, <2>2
    <3> QED
      BY <3>1, <3>2
  <2>3. CASE ~(Contiguous(pg) >= required) /\ ~(after < 0) /\ ~(after < Len(record))
    <3>1. pg.freeStart + growth + size + Len(record) <= PageSize
          /\ ~(Contiguous(packed.page) < required)
      BY <1>3, <1>4, <1>7, <2>3
    <3>2. Insert(pg, record).res = "Ok"
      BY <1>1, <1>5, <1>6, <2>3, <3>1
    <3> QED
      BY <3>1, <3>2
  <2> QED
    BY <2>1, <2>2, <2>3
<1>9. QED
  BY <1>2, <1>3, <1>4, <1>8 DEF growth, size

\* What deleting the record of slot t leaves behind.
Empties(pg, q, t) ==
    /\ t \in LiveSlots(pg) /\ LiveSlots(q) = LiveSlots(pg) \ {t}
    /\ DOMAIN q.slots = DOMAIN pg.slots /\ q.bytes = pg.bytes
    /\ \A i \in DOMAIN pg.slots :
         q.slots[i] = IF i = t THEN Vacated(pg.slots[i]) ELSE pg.slots[i]

LEMMA DeleteSound ==
    ASSUME NEW pg, Sound(pg), NEW rid, ValidRid(pg, rid)
    PROVE  Sound(Delete(pg, rid).page) /\ Empties(pg, Delete(pg, rid).page, rid.slot)
<1> DEFINE n == Len(pg.slots)
           t == rid.slot
           slots == [pg.slots EXCEPT ![t] = Vacated(@)]
           q == [pg EXCEPT !.slots = slots, !.live = @ - 1]
<1>1. Delete(pg, rid).page = q
  BY DEF Delete, Answer
<1>2. /\ pg \in Page /\ n \in Nat /\ n \in 0 .. n /\ DOMAIN pg.slots = 1 .. n
      /\ PageSize \in Nat /\ pg.freeEnd \in Nat /\ pg.freeEnd <= PageSize
      /\ t \in LiveSlots(pg) /\ t \in 1 .. n
      /\ GenerationLimit \in Nat /\ GenerationLimit # 0 /\ pg.live \in Nat
      /\ \A i \in 1 .. n : pg.slots[i].gen # 0 /\ pg.slots[i].gen \in 0 .. GenerationLimit
  BY SlotTypes, SlottedPageAssumption, SMTT(30) DEF Sound, Validate, ValidRid
<1>3. /\ Vacated(pg.slots[t]) \in Slot /\ Vacated(pg.slots[t]).gen # 0
      /\ Vacated(pg.slots[t]).offset = 0 /\ Vacated(pg.slots[t]).length = 0
      /\ Vacated(pg.slots[t]).flags # "live"
  <2> DEFINE s == pg.slots[t]
  <2>1. s.gen \in 1 .. GenerationLimit
    BY <1>2
  <2>2. /\ GenerationLimit \in Nat /\ PageSize \in Nat
    BY <1>2
  <2> HIDE DEF s
  <2>3. CASE s.gen = GenerationLimit
    <3>1. Vacated(s) = [offset |-> 0, length |-> 0, gen |-> s.gen, flags |-> "retired"]
      BY <2>3 DEF Vacated
    <3> QED
      BY <2>1, <2>2, <3>1 DEF Slot, s
  <2>4. CASE s.gen # GenerationLimit
    <3>1. Vacated(s) = [offset |-> 0, length |-> 0, gen |-> s.gen + 1, flags |-> "free"]
      BY <2>4 DEF Vacated
    <3>2. s.gen + 1 \in 0 .. GenerationLimit /\ s.gen + 1 # 0
      BY <2>1, <2>2, <2>4
    <3> QED
      BY <2>2, <3>1, <3>2 DEF Slot, s
  <2> QED
    BY <2>3, <2>4
<1>4. /\ slots \in Seq(Slot) /\ Len(slots) = n /\ DOMAIN slots = 1 .. n
      /\ slots[t] = Vacated(pg.slots[t])
      /\ \A i \in 1 .. n : i # t => slots[i] = pg.slots[i]
  BY <1>2, <1>3 DEF Page
<1>5. LiveSlots(pg) # {} /\ IsFiniteSet(LiveSlots(pg)) /\ pg.live = Cardinality(LiveSlots(pg))
      /\ Cardinality(LiveSlots(pg) \ {t}) = pg.live - 1 /\ pg.live - 1 \in Nat
  <2>1. IsFiniteSet(LiveSlots(pg)) /\ pg.live = Cardinality(LiveSlots(pg))
    BY <1>2, LiveSlotsFinite DEF Sound, Validate
  <2>2. Cardinality(LiveSlots(pg) \ {t}) = pg.live - 1 /\ IsFiniteSet(LiveSlots(pg) \ {t})
    BY <1>2, <2>1, FS_RemoveElement
  <2>3. Cardinality(LiveSlots(pg) \ {t}) \in Nat
    BY <2>2, FS_CardinalityType
  <2> QED
    BY <1>2, <2>1, <2>2, <2>3
<1> HIDE DEF slots
<1>6. /\ q.slots = slots /\ q.live = pg.live - 1 /\ q.freeStart = pg.freeStart
      /\ q.freeEnd = pg.freeEnd /\ q.bytes = pg.bytes /\ q \in Page
  BY <1>2, <1>4, <1>5 DEF Page
<1> HIDE DEF q
<1>7. LiveSlots(q) = LiveSlots(pg) \ {t}
  <2>1. ASSUME NEW i \in 1 .. n PROVE i \in LiveSlots(q) <=> i \in LiveSlots(pg) \ {t}
    BY <1>2, <1>3, <1>4, <1>6 DEF LiveSlots, SlotsFlagged
  <2>2. LiveSlots(q) \subseteq 1 .. n /\ LiveSlots(pg) \subseteq 1 .. n
    BY <1>2, <1>4, <1>6 DEF LiveSlots, SlotsFlagged
  <2> QED
    BY <2>1, <2>2
<1>8. Empties(pg, q, t)
  BY <1>2, <1>4, <1>6, <1>7 DEF Empties
<1>9. LiveBytes(q)[n] <= PageSize - q.freeEnd
  <2> DEFINE d == 0 - pg.slots[t].length
  <2>1. pg \in Page /\ q \in Page /\ n \in Nat /\ n <= Len(pg.slots) /\ n <= Len(q.slots)
        /\ Len(q.slots) = n /\ t \in Nat /\ t # 0 /\ n \in 0 .. n
        /\ pg.slots[t].length \in Nat /\ d \in Int
    BY <1>2, <1>4, <1>6, SlotTypes, SMTT(30)
  <2>2. DiffersAt(q, pg, n, t, d)
    <3> SUFFICES ASSUME NEW i \in 1 .. n
                 PROVE  SlotBytes(q)[i] = IF i = t THEN SlotBytes(pg)[i] + d ELSE SlotBytes(pg)[i]
      BY DEF DiffersAt
    <3>1. /\ SlotBytes(q)[i] = IF i \in LiveSlots(q) THEN q.slots[i].length ELSE 0
          /\ SlotBytes(pg)[i] = IF i \in LiveSlots(pg) THEN pg.slots[i].length ELSE 0
      BY <2>1, LiveBytesGrow
    <3>2. CASE i = t
      BY <1>2, <1>7, <2>1, <3>1, <3>2
    <3>3. CASE i # t
      BY <1>4, <1>6, <1>7, <3>1, <3>3
    <3> QED
      BY <3>2, <3>3
  <2> HIDE DEF d
  <2>3. LiveBytes(q)[n] = IF t <= n THEN LiveBytes(pg)[n] + d ELSE LiveBytes(pg)[n]
    BY <2>1, <2>2, LiveBytesChange
  <2>4. LiveBytes(pg)[n] <= PageSize - pg.freeEnd /\ LiveBytes(pg)[n] \in Nat /\ d <= 0
    BY <2>1, LiveBytesGrow, SMTT(30) DEF Sound, d
  <2> QED
    BY <1>2, <1>6, <2>1, <2>3, <2>4
<1>10. Validate(q)
  <2>1. ASSUME NEW i \in 1 .. n
        PROVE  IF i \in LiveSlots(q)
               THEN /\ q.slots[i].gen # 0 /\ EndOf(q.slots[i]) <= PageSize
                    /\ q.slots[i].offset >= q.freeEnd
               ELSE q.slots[i].offset = 0 /\ q.slots[i].length = 0
    <3>1. CASE i = t
      BY <1>3, <1>4, <1>6, <1>7, <3>1
    <3>2. CASE i # t
      <4>1. q.slots[i] = pg.slots[i] /\ (i \in LiveSlots(q) <=> i \in LiveSlots(pg))
        BY <1>4, <1>6, <1>7, <3>2
      <4> QED
        BY <1>2, <1>6, <4>1 DEF Sound, Validate
    <3> QED
      BY <3>1, <3>2
  <2>2. \A i, j \in LiveSlots(q) :
          (i # j /\ q.slots[i].length # 0 /\ q.slots[j].length # 0) =>
             \/ EndOf(q.slots[i]) <= q.slots[j].offset
             \/ EndOf(q.slots[j]) <= q.slots[i].offset
    <3> SUFFICES ASSUME NEW i \in LiveSlots(q), NEW j \in LiveSlots(q), i # j,
                        q.slots[i].length # 0, q.slots[j].length # 0
                 PROVE  \/ EndOf(q.slots[i]) <= q.slots[j].offset
                        \/ EndOf(q.slots[j]) <= q.slots[i].offset
      OBVIOUS
    <3>1. /\ i \in LiveSlots(pg) /\ j \in LiveSlots(pg)
          /\ q.slots[i] = pg.slots[i] /\ q.slots[j] = pg.slots[j]
      BY <1>2, <1>4, <1>6, <1>7, SlotTypes
    <3> QED
      BY <3>1 DEF Sound, Validate
  <2> QED
    BY <1>2, <1>4, <1>5, <1>6, <1>7, <2>1, <2>2 DEF Sound, Validate
<1>11. Sound(q)
  <2>1. \A i \in DOMAIN q.slots : q.slots[i].gen # 0
    BY <1>2, <1>3, <1>4, <1>6
  <2> QED
    BY <1>4, <1>6, <1>9, <1>10, <2>1 DEF Sound
<1>12. QED
  BY <1>1, <1>8, <1>11

-----------------------------------------------------------------------------
(* The operations, row by row.                                             *)

LEMMA LiveRidsMembers ==
    ASSUME NEW pg
    PROVE  \A r : r \in LiveRids(pg) <=>
             /\ r = [slot |-> r.slot, gen |-> r.gen]
             /\ r.slot \in LiveSlots(pg) /\ r.gen = pg.slots[r.slot].gen
BY DEF LiveRids

LEMMA RidFields ==
    ASSUME NEW r \in Rid
    PROVE  r = [slot |-> r.slot, gen |-> r.gen] /\ r.slot \in Int /\ r.gen \in Nat /\ r.gen # 0
BY SlottedPageAssumption DEF Rid

LEMMA SameRowsKept ==
    ASSUME NEW pg \in Page, NEW q, SameRows(pg, q)
    PROVE  LiveRids(q) = LiveRids(pg) /\ \A r \in LiveRids(pg) : Get(q, r) = Get(pg, r)
<1>1. \A i \in LiveSlots(pg) : q.slots[i].gen = pg.slots[i].gen
  BY SlotTypes DEF SameRows
<1>2. LiveSlots(q) = LiveSlots(pg)
  BY DEF SameRows
<1>3. LiveRids(q) = LiveRids(pg)
  BY <1>1, <1>2 DEF LiveRids
<1>4. \A r \in LiveRids(pg) : Get(q, r) = Get(pg, r)
  BY LiveRidsMembers, SameRowsGet
<1>5. QED
  BY <1>3, <1>4

LEMMA PlacesRow ==
    ASSUME NEW pg \in Page, NEW q, NEW rid \in Rid, NEW record \in Seq(Byte),
           Places(pg, q, rid.slot, rid.gen, record)
    PROVE  /\ rid \notin LiveRids(pg) /\ LiveRids(q) = LiveRids(pg) \cup {rid}
           /\ Get(q, rid) = record
           /\ \A r \in LiveRids(pg) : Get(q, r) = Get(pg, r)
<1> DEFINE t == rid.slot
<1>1. /\ t \notin LiveSlots(pg) /\ LiveSlots(q) = LiveSlots(pg) \cup {t} /\ q.slots[t].gen = rid.gen
      /\ \A i \in LiveSlots(pg) : q.slots[i].gen = pg.slots[i].gen
  BY SlotTypes DEF Places
<1>2. LiveRids(q) = LiveRids(pg) \cup {rid}
  <2>1. ASSUME NEW r \in LiveRids(q) PROVE r \in LiveRids(pg) \cup {rid}
    BY <1>1, RidFields, LiveRidsMembers
  <2>2. ASSUME NEW r \in LiveRids(pg) \cup {rid} PROVE r \in LiveRids(q)
    BY <1>1, RidFields, LiveRidsMembers
  <2> QED
    BY <2>1, <2>2
<1>3. rid \notin LiveRids(pg)
  BY <1>1, LiveRidsMembers
<1>4. Get(q, rid) = record
  <2>1. /\ q.slots[t].length = Len(record)
        /\ \A k \in 1 .. Len(record) : q.bytes[q.slots[t].offset + k - 1] = record[k]
    BY DEF Places
  <2>2. record = [k \in 1 .. Len(record) |-> record[k]]
    OBVIOUS
  <2> QED
    BY <2>1, <2>2 DEF Get
<1>5. ASSUME NEW r \in LiveRids(pg) PROVE Get(q, r) = Get(pg, r)
  <2>1. r.slot \in LiveSlots(pg)
    BY LiveRidsMembers
  <2>2. /\ q.slots[r.slot].length = pg.slots[r.slot].length
        /\ \A k \in 1 .. pg.slots[r.slot].length :
             q.bytes[q.slots[r.slot].offset + k - 1] = pg.bytes[pg.slots[r.slot].offset + k - 1]
    BY <2>1 DEF Places
  <2> QED
    BY <2>2 DEF Get
<1>6. QED
  BY <1>2, <1>3, <1>4, <1>5

LEMMA EmptiesRow ==
    ASSUME NEW pg \in Page, NEW q, NEW rid \in Rid, ValidRid(pg, rid), Empties(pg, q, rid.slot)
    PROVE  /\ rid \in LiveRids(pg) /\ LiveRids(q) = LiveRids(pg) \ {rid}
           /\ \A r \in LiveRids(q) : Get(q, r) = Get(pg, r)
<1> DEFINE t == rid.slot
<1>1. /\ t \in LiveSlots(pg) /\ LiveSlots(q) = LiveSlots(pg) \ {t} /\ pg.slots[t].gen = rid.gen
      /\ \A i \in LiveSlots(q) : q.slots[i] = pg.slots[i]
      /\ q.bytes = pg.bytes
  BY SlotTypes DEF Empties, ValidRid
<1>2. rid \in LiveRids(pg)
  BY <1>1, RidFields, LiveRidsMembers
<1>3. LiveRids(q) = LiveRids(pg) \ {rid}
  <2>1. ASSUME NEW r \in LiveRids(q) PROVE r \in LiveRids(pg) \ {rid}
    BY <1>1, RidFields, LiveRidsMembers
  <2>2. ASSUME NEW r \in LiveRids(pg) \ {rid} PROVE r \in LiveRids(q)
    BY <1>1, RidFields, LiveRidsMembers
  <2> QED
    BY <2>1, <2>2
<1>4. ASSUME NEW r \in LiveRids(q) PROVE Get(q, r) = Get(pg, r)
  <2>1. r.slot \in LiveSlots(q)
    BY LiveRidsMembers
  <2> QED
    BY <1>1, <2>1 DEF Get
<1>5. QED
  BY <1>2, <1>3, <1>4

LEMMA EmptyPageSound == Sound(EmptyPage) /\ LiveRids(EmptyPage) = {}
<1>1. /\ EmptyPage.slots = <<>> /\ EmptyPage.freeStart = HeaderSize /\ EmptyPage.freeEnd = PageSize
      /\ EmptyPage.live = 0 /\ EmptyPage \in Page
  BY SlottedPageAssumption DEF EmptyPage, Page
<1>2. LiveSlots(EmptyPage) = {} /\ Len(EmptyPage.slots) = 0 /\ DOMAIN EmptyPage.slots = {}
  BY <1>1 DEF LiveSlots, SlotsFlagged
<1>3. LiveBytes(EmptyPage)[0] = 0
  BY <1>1, LiveBytesGrow
<1>4. Cardinality({}) = 0
  BY FS_EmptySet
<1>5. Validate(EmptyPage)
  <2>1. 0 * SlotSize = 0
    BY SlottedPageAssumption
  <2> QED
    BY <1>1, <1>2, <1>4, <2>1, SlottedPageAssumption DEF Validate
<1>6. QED
  BY <1>1, <1>2, <1>3, <1>5, SlottedPageAssumption DEF Sound, LiveRids

-----------------------------------------------------------------------------
(* Rids handed out.                                                        *)

\* A rid handed out is that of the slot's record or of an earlier one.
HandedOut(pg, rid) ==
    /\ rid.slot \in DOMAIN pg.slots
    /\ rid.gen <= pg.slots[rid.slot].gen
    /\ pg.slots[rid.slot].flags = "free" => rid.gen < pg.slots[rid.slot].gen

LEMMA LiveHandedOut ==
    ASSUME NEW pg \in Page, NEW r \in LiveRids(pg)
    PROVE  HandedOut(pg, r)
<1>1. r.slot \in LiveSlots(pg) /\ r.gen = pg.slots[r.slot].gen
  BY LiveRidsMembers
<1>2. r.slot \in DOMAIN pg.slots /\ pg.slots[r.slot].flags = "live"
  BY <1>1 DEF LiveSlots, SlotsFlagged
<1>3. pg.slots[r.slot].gen \in Nat
  BY <1>2, SlotTypes
<1>4. QED
  BY <1>1, <1>2, <1>3 DEF HandedOut

LEMMA SameRowsHandedOut ==
    ASSUME NEW pg \in Page, NEW q, SameRows(pg, q), NEW r, HandedOut(pg, r)
    PROVE  HandedOut(q, r)
BY SlotTypes, SMTT(30) DEF SameRows, HandedOut

\* Placing a record in a slot gives a rid not handed out before.
LEMMA PlacesHandsOut ==
    ASSUME NEW pg \in Page, NEW q, NEW rid \in Rid, NEW record,
           Places(pg, q, rid.slot, rid.gen, record),
           NEW U, U \subseteq Rid, \A r \in U : HandedOut(pg, r)
    PROVE  rid \notin U /\ \A r \in U \cup {rid} : HandedOut(q, r)
<1>1. rid \notin U
  BY RidFields DEF HandedOut, Places
<1>2. ASSUME NEW r \in U \cup {rid} PROVE HandedOut(q, r)
  <2>1. CASE r = rid
    <3>1. rid.slot \in LiveSlots(q) /\ rid.slot \in DOMAIN q.slots /\ q.slots[rid.slot].gen = rid.gen
      BY DEF Places
    <3>2. q.slots[rid.slot].flags = "live"
      BY <3>1 DEF LiveSlots, SlotsFlagged
    <3> QED
      BY <2>1, <3>1, <3>2, RidFields DEF HandedOut
  <2>2. CASE r # rid
    <3>1. r \in U /\ HandedOut(pg, r) /\ r \in Rid
      BY <2>2
    <3>2. CASE r.slot = rid.slot
      <4>1. /\ q.slots[rid.slot].gen = pg.slots[rid.slot].gen
            /\ q.slots[rid.slot].flags = "live" /\ rid.slot \in DOMAIN q.slots
        BY <3>1, <3>2 DEF Places, HandedOut, LiveSlots, SlotsFlagged
      <4> QED
        BY <3>1, <3>2, <4>1 DEF HandedOut
    <3>3. CASE r.slot # rid.slot
      BY <3>1, <3>3 DEF Places, HandedOut
    <3> QED
      BY <3>2, <3>3
  <2> QED
    BY <2>1, <2>2
<1>3. QED
  BY <1>1, <1>2

LEMMA EmptiesHandedOut ==
    ASSUME NEW pg \in Page, NEW q, NEW rid \in Rid, Empties(pg, q, rid.slot),
           NEW r \in Rid, HandedOut(pg, r)
    PROVE  HandedOut(q, r)
<1>1. CASE r.slot = rid.slot
  <2>1. /\ q.slots[rid.slot] = Vacated(pg.slots[rid.slot])
        /\ rid.slot \in DOMAIN q.slots
        /\ pg.slots[rid.slot].gen \in Nat /\ GenerationLimit \in Nat
        /\ r.gen \in Nat /\ r.gen <= pg.slots[rid.slot].gen
    BY <1>1, SlotTypes, RidFields, SlottedPageAssumption DEF Empties, HandedOut
  <2> QED
    BY <1>1, <2>1 DEF HandedOut, Vacated
<1>2. CASE r.slot # rid.slot
  BY <1>2 DEF HandedOut, Empties
<1>3. QED
  BY <1>1, <1>2

-----------------------------------------------------------------------------
(* Sequences.                                                              *)

LEMMA StartOfSeq ==
    ASSUME NEW S, NEW s \in Seq(S), NEW m \in 1 .. Len(s)
    PROVE  /\ SubSeq(s, 1, m) \in Seq(S) /\ Len(SubSeq(s, 1, m)) = m
           /\ DOMAIN SubSeq(s, 1, m) = 1 .. m
           /\ \A i \in 1 .. m : SubSeq(s, 1, m)[i] = s[i]
<1>1. Len(s) \in Nat /\ m \in Nat /\ m <= Len(s)
  OBVIOUS
<1>2. \A i \in 1 .. m : s[i] \in S
  OBVIOUS
<1>3. SubSeq(s, 1, m) \in Seq(S) /\ Len(SubSeq(s, 1, m)) = m
  BY <1>1, <1>2
<1>4. DOMAIN SubSeq(s, 1, m) = 1 .. m
  BY <1>1, <1>3
<1>5. \A i \in 1 .. m : SubSeq(s, 1, m)[i] = s[i]
  BY <1>1
<1>6. QED
  BY <1>3, <1>4, <1>5

LEMMA AppendToSeq ==
    ASSUME NEW S, NEW s \in Seq(S), NEW x \in S
    PROVE  /\ Append(s, x) \in Seq(S) /\ Len(Append(s, x)) = Len(s) + 1 /\ Len(s) \in Nat
           /\ DOMAIN Append(s, x) = 1 .. Len(s) + 1
           /\ \A i \in 1 .. Len(s) : Append(s, x)[i] = s[i]
           /\ Append(s, x)[Len(s) + 1] = x
OBVIOUS

LEMMA SameSeq ==
    ASSUME NEW S, NEW s \in Seq(S), NEW t \in Seq(S),
           Len(s) = Len(t), \A i \in 1 .. Len(s) : s[i] = t[i]
    PROVE  s = t
OBVIOUS

LEMMA PageReplaced ==
    ASSUME NEW S, NEW s \in Seq(S), NEW p \in DOMAIN s, NEW v \in S, NEW t, t = [s EXCEPT ![p] = v]
    PROVE  /\ t \in Seq(S) /\ Len(t) = Len(s) /\ DOMAIN t = DOMAIN s
           /\ t[p] = v /\ \A q \in DOMAIN s : q # p => t[q] = s[q]
OBVIOUS

LEMMA StartGrows ==
    ASSUME NEW S, NEW s \in Seq(S), NEW m \in 1 .. Len(s), m < Len(s)
    PROVE  Append(SubSeq(s, 1, m), s[m + 1]) = SubSeq(s, 1, m + 1)
<1> DEFINE u == SubSeq(s, 1, m)
           v == SubSeq(s, 1, m + 1)
           a == Append(u, s[m + 1])
<1>1. s[m + 1] \in S /\ m + 1 \in 1 .. Len(s) /\ m \in Nat
  OBVIOUS
<1>2. /\ u \in Seq(S) /\ Len(u) = m /\ \A i \in 1 .. m : u[i] = s[i]
      /\ v \in Seq(S) /\ Len(v) = m + 1 /\ \A i \in 1 .. m + 1 : v[i] = s[i]
  BY <1>1, StartOfSeq
<1> HIDE DEF u, v
<1>3. /\ a \in Seq(S) /\ Len(a) = m + 1 /\ a[m + 1] = s[m + 1]
      /\ \A i \in 1 .. m : a[i] = u[i]
  BY <1>1, <1>2, AppendToSeq
<1> HIDE DEF a
<1>4. Len(a) = Len(v) /\ \A i \in 1 .. Len(a) : a[i] = v[i]
  BY <1>1, <1>2, <1>3
<1>5. a = v
  BY <1>2, <1>3, <1>4, SameSeq
<1>6. QED
  BY <1>5 DEF a, u, v

LEMMA WholeSeq ==
    ASSUME NEW S, NEW s \in Seq(S), Len(s) > 0
    PROVE  SubSeq(s, 1, Len(s)) = s /\ SubSeq(s, 1, 1) = <<s[1]>>
<1>1. Len(s) \in 1 .. Len(s) /\ 1 \in 1 .. Len(s)
  OBVIOUS
<1>2. /\ SubSeq(s, 1, Len(s)) \in Seq(S) /\ Len(SubSeq(s, 1, Len(s))) = Len(s)
      /\ \A i \in 1 .. Len(s) : SubSeq(s, 1, Len(s))[i] = s[i]
  BY <1>1, StartOfSeq
<1>3. SubSeq(s, 1, Len(s)) = s
  BY <1>2, SameSeq
<1>4. /\ SubSeq(s, 1, 1) \in Seq(S) /\ Len(SubSeq(s, 1, 1)) = 1 /\ SubSeq(s, 1, 1)[1] = s[1]
  BY <1>1, StartOfSeq
<1>5. <<s[1]>> \in Seq(S) /\ Len(<<s[1]>>) = 1 /\ <<s[1]>>[1] = s[1]
  OBVIOUS
<1>6. \A i \in 1 .. 1 : SubSeq(s, 1, 1)[i] = <<s[1]>>[i]
  BY <1>4
<1> DEFINE one == SubSeq(s, 1, 1)
           other == <<s[1]>>
<1> HIDE DEF one, other
<1>7. one = other
  <2>1. one \in Seq(S) /\ other \in Seq(S) /\ Len(one) = Len(other) /\ \A i \in 1 .. Len(one) : one[i] = other[i]
    BY <1>4, <1>5, <1>6 DEF one, other
  <2> QED
    BY <2>1, SameSeq
<1>8. QED
  BY <1>3, <1>7 DEF one, other

-----------------------------------------------------------------------------
(* Chains.                                                                 *)

LEMMA ChainsAreChains ==
    ASSUME NEW links, NEW first, NEW chain \in Chains(links, first)
    PROVE  IsChain(links, first, chain)
BY DEF Chains

\* A set of numbers up to n has a greatest one.
LEMMA GreatestExists ==
    ASSUME NEW n \in Nat, NEW S, S \subseteq 1 .. n, S # {}
    PROVE  \E k \in S : \A j \in S : j <= k
<1> DEFINE T == {n - k : k \in S}
           Less == OpToRel(<, Nat)
<1>1. T \subseteq Nat /\ T # {}
  <2>1. \A k \in S : k \in Nat /\ k <= n /\ n - k \in Nat
    OBVIOUS
  <2>2. QED
    BY <2>1
<1>2. IsWellFoundedOn(Less, Nat)
  BY NatLessThanWellFounded
<1>3. \A x, y \in Nat : y < x => <<y, x>> \in Less
  BY DEF OpToRel
<1> HIDE DEF Less
<1>4. PICK x \in T : \A y \in T : ~(<<y, x>> \in Less)
  <2> HIDE DEF T
  <2> QED
    BY <1>1, <1>2, WFMin
<1>5. PICK k \in S : x = n - k
  BY <1>4
<1>6. ASSUME NEW j \in S PROVE j <= k
  <2>1. /\ n - j \in T /\ n - k \in T
        /\ j \in 1 .. n /\ k \in 1 .. n
    OBVIOUS
  <2>2. ~(n - j < n - k)
    BY <1>1, <1>3, <1>4, <1>5, <2>1
  <2>3. QED
    BY <2>1, <2>2
<1>7. QED
  BY <1>6

\* Positions of a chain, and that its links end it.
LEMMA ChainLinks ==
    ASSUME NEW links, NoPage \notin DOMAIN links, NEW first, NEW chain, IsChain(links, first, chain)
    PROVE  /\ chain \in Seq(DOMAIN links) /\ Len(chain) \in Nat \ {0}
           /\ DOMAIN chain = 1 .. Len(chain) /\ chain[1] = first
           /\ \A i \in 1 .. Len(chain) :
                /\ chain[i] \in DOMAIN links
                /\ i = Len(chain) => links[chain[i]] = NoPage
                /\ i < Len(chain) => /\ links[chain[i]] = chain[i + 1]
                                     /\ links[chain[i]] # NoPage
BY DEF IsChain

\* No page is met twice on a chain: the last one that repeats an earlier one
\* would be followed by another.
LEMMA ChainsDoNotRepeat ==
    ASSUME NEW links, NoPage \notin DOMAIN links, NEW first, NEW chain, IsChain(links, first, chain),
           NEW a \in 1 .. Len(chain), NEW b \in 1 .. Len(chain), a < b
    PROVE  chain[a] # chain[b]
<1> SUFFICES ASSUME chain[a] = chain[b] PROVE FALSE
  OBVIOUS
<1> DEFINE Repeats == {k \in 1 .. Len(chain) : \E j \in 1 .. k - 1 : chain[j] = chain[k]}
<1>1. b \in Repeats
  OBVIOUS
<1>2. Len(chain) \in Nat
  BY ChainLinks
<1>3. PICK k \in Repeats : \A j \in Repeats : j <= k
  BY <1>1, <1>2, GreatestExists
<1>4. PICK j \in 1 .. k - 1 : chain[j] = chain[k]
  BY <1>3
<1>5. /\ k \in 1 .. Len(chain) /\ j \in 1 .. Len(chain) /\ j < k /\ j < Len(chain)
      /\ links[chain[j]] = chain[j + 1] /\ links[chain[j]] # NoPage
  BY <1>2, <1>3, <1>4, ChainLinks
<1>6. k < Len(chain)
  <2>1. k = Len(chain) => links[chain[k]] = NoPage
    BY <1>5, ChainLinks
  <2>2. k # Len(chain)
    BY <1>4, <1>5, <2>1
  <2>3. QED
    BY <1>2, <1>5, <2>2
<1>7. links[chain[k]] = chain[k + 1]
  BY <1>5, <1>6, ChainLinks
<1>8. k + 1 \in Repeats
  <2>1. j + 1 \in 1 .. (k + 1) - 1 /\ k + 1 \in 1 .. Len(chain)
    BY <1>2, <1>4, <1>5, <1>6
  <2>2. chain[j + 1] = chain[k + 1]
    BY <1>4, <1>5, <1>7
  <2>3. QED
    BY <2>1, <2>2
<1>9. QED
  BY <1>3, <1>5, <1>8

\* The pages of a chain are as many as its length.
LEMMA ChainLength ==
    ASSUME NEW links, IsFiniteSet(DOMAIN links), NoPage \notin DOMAIN links,
           NEW first, NEW chain, IsChain(links, first, chain)
    PROVE  Len(chain) <= Cardinality(DOMAIN links) /\ Cardinality(DOMAIN links) \in Nat
<1> DEFINE n == Len(chain)
<1>1. /\ chain \in Seq(DOMAIN links) /\ n \in Nat /\ DOMAIN chain = 1 .. n
      /\ \A i \in 1 .. n : chain[i] \in DOMAIN links
  BY ChainLinks
<1>2. \A i, j \in 1 .. n : chain[i] = chain[j] => i = j
  <2> SUFFICES ASSUME NEW i \in 1 .. n, NEW j \in 1 .. n, i # j PROVE chain[i] # chain[j]
    OBVIOUS
  <2>1. i < j \/ j < i
    BY <1>1
  <2> QED
    BY <2>1, ChainsDoNotRepeat
<1>3. IsFiniteSet(1 .. n) /\ Cardinality(1 .. n) = n
  BY <1>1, FS_Interval
<1>4. Cardinality(DOMAIN links) \in Nat
  BY FS_CardinalityType
<1>5. ~(Cardinality(DOMAIN links) < Cardinality(1 .. n))
  <2>1. chain \in [1 .. n -> DOMAIN links]
    BY <1>1
  <2>2. ~ \E i, j \in 1 .. n : i # j /\ chain[i] = chain[j]
    BY <1>2
  <2> QED
    BY <1>3, <2>1, <2>2, FS_PigeonHole
<1>6. QED
  BY <1>1, <1>3, <1>4, <1>5

\* Where there is a chain, the walk finds it, and it is the only one.
LEMMA ChainFound ==
    ASSUME NEW links, IsFiniteSet(DOMAIN links), NoPage \notin DOMAIN links,
           NEW first, NEW chain, IsChain(links, first, chain)
    PROVE  Chains(links, first) = {chain}
<1> DEFINE n == Len(chain)
           Further(before) ==
             LET last == before[Len(before)]
             IN  IF last \in DOMAIN links /\ links[last] # NoPage
                 THEN Append(before, links[last]) ELSE before
           WalkOf(f) == [k \in Nat |-> IF k = 0 THEN <<first>> ELSE Further(f[k - 1])]
           Walks(f) == f = WalkOf(f)
           part(m) == SubSeq(chain, 1, m)
           met(k) == IF k < n THEN k + 1 ELSE n
           known == [k \in Nat |-> part(met(k))]
           walk == CHOOSE f : Walks(f)
           count == Cardinality(DOMAIN links)
<1>1. /\ chain \in Seq(DOMAIN links) /\ n \in Nat \ {0} /\ DOMAIN chain = 1 .. n
      /\ chain[1] = first
      /\ \A i \in 1 .. n :
           /\ chain[i] \in DOMAIN links
           /\ i = n => links[chain[i]] = NoPage
           /\ i < n => links[chain[i]] = chain[i + 1] /\ links[chain[i]] # NoPage
  BY ChainLinks
<1>2. n <= count /\ count \in Nat
  BY ChainLength
<1>size. n \in Nat /\ n > 0 /\ chain \in Seq(DOMAIN links)
  <2>1. n \in Nat \ {0} /\ chain \in Seq(DOMAIN links)
    BY <1>1
  <2> HIDE DEF n
  <2> QED
    BY <2>1
<1>3. ASSUME NEW m \in 1 .. n
      PROVE  /\ Len(part(m)) = m /\ part(m)[m] = chain[m]
             /\ m < n => part(m + 1) = Append(part(m), chain[m + 1])
  <2>1. m \in Nat /\ m >= 1
    BY <1>size
  <2>2. Len(part(m)) = m /\ \A i \in 1 .. m : part(m)[i] = chain[i]
    BY <1>size, StartOfSeq
  <2>3. m < n => part(m + 1) = Append(part(m), chain[m + 1])
    BY <1>size, StartGrows
  <2> HIDE DEF part
  <2> QED
    BY <2>1, <2>2, <2>3
<1>4. part(1) = <<first>>
  <2>1. part(1) = <<chain[1]>>
    BY <1>size, WholeSeq
  <2> QED
    BY <1>1, <2>1
<1>5. ASSUME NEW k \in Nat \ {0} PROVE Further(part(met(k - 1))) = part(met(k))
  <2> HIDE DEF part
  <2>1. CASE k < n
    <3>1. met(k - 1) = k /\ met(k) = k + 1 /\ k \in 1 .. n
      BY <1>size, <2>1
    <3>2. part(k + 1) = Append(part(k), chain[k + 1]) /\ part(k)[Len(part(k))] = chain[k]
      BY <1>3, <2>1, <3>1
    <3>3. chain[k] \in DOMAIN links /\ links[chain[k]] = chain[k + 1] /\ links[chain[k]] # NoPage
      BY <1>1, <2>1, <3>1
    <3> HIDE DEF met
    <3>4. Further(part(k)) = Append(part(k), links[chain[k]])
      BY <3>2, <3>3
    <3> QED
      BY <3>1, <3>2, <3>3, <3>4
  <2>2. CASE ~(k < n)
    <3>1. met(k - 1) = n /\ met(k) = n /\ n \in 1 .. n
      BY <1>size, <2>2
    <3>2. part(n)[Len(part(n))] = chain[n] /\ links[chain[n]] = NoPage
      BY <1>1, <1>3, <3>1
    <3> HIDE DEF met
    <3>3. Further(part(n)) = part(n)
      BY <3>2
    <3> QED
      BY <3>1, <3>3
  <2> QED
    BY <2>1, <2>2
<1>6. met(0) = 1
  BY <1>size
<1>7. Walks(known)
  <2> HIDE DEF part, met, Further
  <2>1. \A k \in Nat : known[k] = IF k = 0 THEN <<first>> ELSE Further(known[k - 1])
    <3> SUFFICES ASSUME NEW k \in Nat
                 PROVE  known[k] = IF k = 0 THEN <<first>> ELSE Further(known[k - 1])
      OBVIOUS
    <3>1. CASE k = 0
      BY <1>4, <1>6, <3>1
    <3>2. CASE k # 0
      <4>1. k - 1 \in Nat /\ known[k - 1] = part(met(k - 1)) /\ known[k] = part(met(k))
        BY <3>2
      <4> HIDE DEF known
      <4> QED
        BY <1>5, <3>2, <4>1
    <3> QED
      BY <3>1, <3>2
  <2>2. known = [k \in Nat |-> known[k]]
    OBVIOUS
  <2> HIDE DEF known
  <2> QED
    BY <2>1, <2>2
<1>8. Walks(walk)
  <2> HIDE DEF Walks, known
  <2> QED
    BY <1>7
<1>9. ASSUME NEW k \in Nat PROVE walk[k] = part(met(k))
  <2> DEFINE Wrong == {j \in Nat : walk[j] # part(met(j))}
  <2> HIDE DEF walk, part, met, Further
  <2> SUFFICES ASSUME Wrong # {} PROVE FALSE
    OBVIOUS
  <2>1. \A j \in Nat : walk[j] = IF j = 0 THEN <<first>> ELSE Further(walk[j - 1])
    BY <1>8
  <2>2. PICK j \in Wrong : \A i \in Wrong : j <= i
    <3>1. Wrong \subseteq Nat
      OBVIOUS
    <3> HIDE DEF Wrong
    <3> QED
      BY <3>1, LeastExists
  <2>3. CASE j = 0
    BY <1>4, <1>6, <2>1, <2>2, <2>3
  <2>4. CASE j # 0
    <3>1. j \in Nat \ {0} /\ j - 1 \in Nat /\ j - 1 \notin Wrong
      BY <2>2, <2>4
    <3>2. walk[j - 1] = part(met(j - 1))
      BY <3>1
    <3>3. walk[j] = Further(part(met(j - 1)))
      BY <2>1, <3>1, <3>2
    <3> QED
      BY <1>5, <2>2, <3>1, <3>3
  <2> QED
    BY <2>3, <2>4
<1>10. walk[count] = chain
  <2>1. met(count) = n
    BY <1>size, <1>2
  <2>2. part(n) = chain
    BY <1>size, WholeSeq
  <2> HIDE DEF walk, part, met
  <2> QED
    BY <1>2, <1>9, <2>1, <2>2
<1>11. Chains(links, first) = {pages \in {walk[count]} : IsChain(links, first, pages)}
  BY Zenon DEF Chains
<1>12. QED
  <2> HIDE DEF walk
  <2> QED
    BY <1>10, <1>11

LEMMA ChainUnique ==
    ASSUME NEW links, IsFiniteSet(DOMAIN links), NoPage \notin DOMAIN links, NEW first,
           NEW c, IsChain(links, first, c), NEW d, IsChain(links, first, d)
    PROVE  c = d
<1>1. Chains(links, first) = {c} /\ Chains(links, first) = {d}
  BY ChainFound
<1>2. QED
  BY <1>1

\* A chain stays one when its pages keep their links.
LEMMA ChainKept ==
    ASSUME NEW links, NEW first, NEW c, IsChain(links, first, c), NEW links2,
           \A p \in ListedPages(c) : p \in DOMAIN links2 /\ links2[p] = links[p]
    PROVE  IsChain(links2, first, c)
<1>1. c \in Seq(DOMAIN links) /\ \A i \in DOMAIN c : c[i] \in DOMAIN links2 /\ links2[c[i]] = links[c[i]]
  BY DEF IsChain, ListedPages
<1>2. c \in Seq(DOMAIN links2)
  BY <1>1
<1>3. QED
  BY <1>1, <1>2 DEF IsChain

\* Linking page n of a chain to a page that links to none ends the chain there.
LEMMA ChainRelinked ==
    ASSUME NEW links, NoPage \notin DOMAIN links, NEW first, NEW c, IsChain(links, first, c),
           NEW n \in 1 .. Len(c), NEW links2, NEW q \in DOMAIN links2,
           links2[q] = NoPage, c[n] \in DOMAIN links2, links2[c[n]] = q,
           \A p \in ListedPages(c) \ {c[n]} : p \in DOMAIN links2 /\ links2[p] = links[p]
    PROVE  IsChain(links2, first, Append(SubSeq(c, 1, n), q))
<1> DEFINE d == Append(SubSeq(c, 1, n), q)
<1>1. /\ c \in Seq(DOMAIN links) /\ Len(c) \in Nat /\ DOMAIN c = 1 .. Len(c) /\ c[1] = first
      /\ \A i \in 1 .. Len(c) : i < Len(c) => links[c[i]] = c[i + 1]
  BY ChainLinks
<1>2. \A i \in 1 .. n - 1 : c[i] \in DOMAIN links2 /\ links2[c[i]] = c[i + 1]
  <2> SUFFICES ASSUME NEW i \in 1 .. n - 1 PROVE c[i] \in DOMAIN links2 /\ links2[c[i]] = c[i + 1]
    OBVIOUS
  <2>1. i \in 1 .. Len(c) /\ i < n /\ n <= Len(c) /\ i < Len(c)
    BY <1>1
  <2>2. c[i] # c[n]
    BY <2>1, ChainsDoNotRepeat
  <2>3. c[i] \in ListedPages(c) \ {c[n]}
    BY <1>1, <2>1, <2>2 DEF ListedPages
  <2> QED
    BY <1>1, <2>1, <2>3
<1>3. /\ d \in Seq(DOMAIN links2) /\ Len(d) = n + 1
      /\ d[n + 1] = q /\ \A i \in 1 .. n : d[i] = c[i]
  <2> DEFINE s == SubSeq(c, 1, n)
  <2>1. s \in Seq(DOMAIN links) /\ Len(s) = n /\ DOMAIN s = 1 .. n /\ \A i \in 1 .. n : s[i] = c[i]
    BY <1>1, StartOfSeq
  <2> HIDE DEF s
  <2>2. \A i \in 1 .. n : s[i] \in DOMAIN links2
    BY <1>1, <1>2, <2>1
  <2>3. s \in Seq(DOMAIN links2)
    BY <2>1, <2>2
  <2>4. d = Append(s, q)
    BY DEF s
  <2> HIDE DEF d
  <2> QED
    BY <2>1, <2>3, <2>4, AppendToSeq
<1>4. DOMAIN d = 1 .. n + 1 /\ n \in Nat \ {0}
  BY <1>1, <1>3
<1>5. d # <<>> /\ d[1] = first
  <2> HIDE DEF d
  <2>1. 1 \in 1 .. n /\ n + 1 > 0
    BY <1>4
  <2> QED
    BY <1>1, <1>3, <2>1
<1>6. ASSUME NEW i \in 1 .. n + 1 PROVE links2[d[i]] = IF i = n + 1 THEN NoPage ELSE d[i + 1]
  <2>1. CASE i = n + 1
    BY <1>3, <2>1
  <2>2. CASE i = n
    BY <1>3, <1>4, <2>2
  <2>3. CASE i \in 1 .. n - 1
    BY <1>2, <1>3, <1>4, <2>3
  <2> QED
    BY <1>4, <2>1, <2>2, <2>3
<1> HIDE DEF d
<1>7. IsChain(links2, first, d)
  BY <1>3, <1>4, <1>5, <1>6 DEF IsChain
<1>8. QED
  BY <1>7 DEF d

\* A page that no page links to is on no chain that starts elsewhere.
LEMMA NotOnChain ==
    ASSUME NEW links, NoPage \notin DOMAIN links, NEW first, NEW c, IsChain(links, first, c),
           NEW q, q # first, \A p \in DOMAIN links : links[p] # q
    PROVE  q \notin ListedPages(c)
<1> SUFFICES ASSUME NEW i \in DOMAIN c, c[i] = q PROVE FALSE
  BY DEF ListedPages
<1>1. i # 1 /\ i \in 1 .. Len(c) /\ Len(c) \in Nat
  BY ChainLinks
<1>2. i - 1 \in 1 .. Len(c) /\ i - 1 < Len(c) /\ (i - 1) + 1 = i
  BY <1>1
<1>3. c[i - 1] \in DOMAIN links /\ links[c[i - 1]] = q
  BY <1>2, ChainLinks
<1>4. QED
  BY <1>3

\* Chains share no page when each page has one link to it at most, and neither
\* first page has any.
LEMMA ChainsApart ==
    ASSUME NEW links, NoPage \notin DOMAIN links,
           NEW first, NEW c, IsChain(links, first, c), NEW other, NEW d, IsChain(links, other, d),
           first # other, \A p \in DOMAIN links : links[p] # first /\ links[p] # other,
           \A p, q \in DOMAIN links : links[p] = links[q] /\ links[p] # NoPage => p = q
    PROVE  ListedPages(c) \cap ListedPages(d) = {}
<1> DEFINE Shared == {i \in DOMAIN c : \E j \in DOMAIN d : c[i] = d[j]}
<1>1. /\ DOMAIN c = 1 .. Len(c) /\ DOMAIN d = 1 .. Len(d) /\ Len(c) \in Nat /\ Len(d) \in Nat
      /\ c[1] = first /\ d[1] = other
  BY ChainLinks
<1>2. \A i \in 1 .. Len(c) : /\ c[i] \in DOMAIN links
                             /\ i < Len(c) => links[c[i]] = c[i + 1] /\ links[c[i]] # NoPage
  BY ChainLinks
<1>3. \A j \in 1 .. Len(d) : /\ d[j] \in DOMAIN links
                             /\ j < Len(d) => links[d[j]] = d[j + 1] /\ links[d[j]] # NoPage
  BY ChainLinks
<1>4. Shared = {}
  <2> SUFFICES ASSUME Shared # {} PROVE FALSE
    OBVIOUS
  <2>1. Shared \subseteq Nat
    BY <1>1
  <2>2. PICK i \in Shared : \A k \in Shared : i <= k
    BY <2>1, LeastExists
  <2>3. PICK j \in DOMAIN d : c[i] = d[j]
    OBVIOUS
  <2>4. i \in 1 .. Len(c) /\ j \in 1 .. Len(d)
    BY <1>1
  <2>5. i # 1
    <3> SUFFICES ASSUME i = 1 PROVE FALSE
      OBVIOUS
    <3>1. j - 1 \in 1 .. Len(d) /\ j - 1 < Len(d) /\ (j - 1) + 1 = j
      BY <1>1, <2>3, <2>4
    <3> QED
      BY <1>1, <1>3, <2>3, <3>1
  <2>6. i - 1 \in 1 .. Len(c) /\ i - 1 < Len(c) /\ (i - 1) + 1 = i
    BY <1>1, <2>4, <2>5
  <2>7. c[i - 1] \in DOMAIN links /\ links[c[i - 1]] = c[i] /\ links[c[i - 1]] # NoPage
    BY <1>2, <2>6
  <2>8. j - 1 \in 1 .. Len(d) /\ j - 1 < Len(d) /\ (j - 1) + 1 = j
    <3>1. j # 1
      BY <1>1, <2>3, <2>7
    <3> QED
      BY <1>1, <2>4, <3>1
  <2>9. d[j - 1] \in DOMAIN links /\ links[d[j - 1]] = d[j]
    BY <1>3, <2>8
  <2>10. c[i - 1] = d[j - 1]
    BY <2>3, <2>7, <2>9
  <2>11. i - 1 \in Shared
    BY <1>1, <2>6, <2>8, <2>10
  <2> QED
    BY <1>1, <2>2, <2>4, <2>6, <2>11
<1>5. QED
  BY <1>4 DEF ListedPages
=============================================================================
