------------------------- MODULE StoredTableProofs -------------------------
(***************************************************************************)
(* Proofs about a table at rest, for every page size and limit, every      *)
(* declaration and every list of values: its record and its rows decode to *)
(* what was encoded, and only what encode writes is accepted.              *)
(***************************************************************************)
EXTENDS StoredTable, HeapLemmas, SequenceTheorems

-----------------------------------------------------------------------------
(* Sums and concatenations.                                                *)

\* The sums over 1 .. i are the running totals.
LEMMA SumsAccumulate ==
    ASSUME NEW n \in Nat, NEW v, \A i \in 1 .. n : v[i] \in Nat
    PROVE  LET f == [i \in 0 .. n |-> SumOn(v, 1 .. i, n)]
           IN  /\ Accumulates(f, v, n)
               /\ \A i \in 0 .. n : f[i] \in Nat
               /\ \A i, j \in 0 .. n : i <= j => f[i] <= f[j]
<1> DEFINE f == [i \in 0 .. n |-> SumOn(v, 1 .. i, n)]
<1>1. ASSUME NEW i \in 0 .. n PROVE f[i] \in Nat /\ (i = 0 => f[i] = 0)
  <2>1. 1 .. i \in SUBSET (1 .. n) /\ (i = 0 => 1 .. i = {})
    OBVIOUS
  <2> QED
    BY <2>1, SumOnSplits
<1>2. ASSUME NEW i \in 1 .. n PROVE f[i] = f[i - 1] + v[i]
  <2>1. /\ 1 .. i \in SUBSET (1 .. n) /\ i \in 1 .. i /\ (1 .. i) \ {i} = 1 .. (i - 1)
        /\ i \in 0 .. n /\ i - 1 \in 0 .. n
    OBVIOUS
  <2>2. SumOn(v, 1 .. i, n) = v[i] + SumOn(v, (1 .. i) \ {i}, n)
    BY <2>1, SumOnSplits
  <2>3. f[i - 1] \in Nat /\ f[i - 1] = SumOn(v, 1 .. (i - 1), n) /\ f[i] = SumOn(v, 1 .. i, n)
    BY <1>1, <2>1
  <2>4. SumOn(v, (1 .. i) \ {i}, n) = SumOn(v, 1 .. (i - 1), n)
    BY <2>1, Zenon
  <2>5. v[i] \in Nat
    OBVIOUS
  <2> HIDE DEF f
  <2> QED
    BY <2>2, <2>3, <2>4, <2>5
<1>3. f[0] = 0
  BY <1>1
<1>4. Totals(f, v, n)
  <2>1. f = [i \in 0 .. n |-> f[i]]
    OBVIOUS
  <2> HIDE DEF f
  <2>2. \A i \in 0 .. n : f[i] = IF i = 0 THEN 0 ELSE f[i - 1] + v[i]
    BY <1>2, <1>3
  <2> QED
    BY <2>1, <2>2 DEF Totals
<1>5. \A i, j \in 0 .. n : i <= j => f[i] <= f[j]
  <2> HIDE DEF f
  <2> QED BY <1>4, TotalsGrow
<1>6. QED
  BY <1>1, <1>2, <1>3, <1>5 DEF Accumulates

LEMMA ChosenSum ==
    ASSUME NEW n \in Nat, NEW v, \A i \in 1 .. n : v[i] \in Nat, NEW S \in SUBSET (1 .. n)
    PROVE  (CHOOSE t : AddsUp(t, v, S))[S] = SumOn(v, S, n)
<1> DEFINE t == CHOOSE t : AddsUp(t, v, S)
<1>1. AddsUp(t, v, S)
  BY AddsUpAnyOrder, Zenon
<1> HIDE DEF t
<1>2. t[S] = SumOn(v, S, n)
  BY <1>1, AddsUpAnyOrder
<1>3. QED
  BY <1>2 DEF t

LEMMA JoinedSeq ==
    ASSUME NEW X, NEW s \in Seq(X), NEW t \in Seq(X)
    PROVE  /\ s \o t \in Seq(X) /\ Len(s \o t) = Len(s) + Len(t)
           /\ \A p \in 1 .. Len(s) : (s \o t)[p] = s[p]
           /\ \A k \in 1 .. Len(t) : (s \o t)[Len(s) + k] = t[k]
OBVIOUS

LEMMA JoinedNumbers ==
    ASSUME NEW s \in Seq(Nat), NEW t \in Seq(Nat)
    PROVE  \A m, r : Len(s) = m /\ r = s \o t =>
             /\ r \in Seq(Nat) /\ Len(r) = m + Len(t)
             /\ \A p \in 1 .. m : r[p] = s[p]
             /\ \A k \in 1 .. Len(t) : r[m + k] = t[k]
<1>1. s \o t \in Seq(Nat) /\ Len(s \o t) = Len(s) + Len(t)
  OBVIOUS
<1>2. \A p \in 1 .. Len(s) : (s \o t)[p] = s[p]
  OBVIOUS
<1>3. \A k \in 1 .. Len(t) : (s \o t)[Len(s) + k] = t[k]
  OBVIOUS
<1>4. QED
  BY <1>1, <1>2, <1>3, Zenon

\* Every place below the last total lies behind one of the totals.
InPart(p, f, v, n) == \E i \in 1 .. n : \E k \in 1 .. v[i] : p = f[i - 1] + k

LEMMA PlacesCover ==
    ASSUME NEW n \in Nat, NEW v, \A i \in 1 .. n : v[i] \in Nat, NEW f, Accumulates(f, v, n)
    PROVE  \A p \in 1 .. f[n] : InPart(p, f, v, n)
<1> SUFFICES ASSUME NEW p \in 1 .. f[n]
             PROVE  \E i \in 1 .. n : \E k \in 1 .. v[i] : p = f[i - 1] + k
  BY DEF InPart
<1>1. f[0] = 0 /\ \A i \in 1 .. n : f[i] = f[i - 1] + v[i]
  BY DEF Accumulates
<1> DEFINE Past == {i \in 0 .. n : p <= f[i]}
           Bad == {i \in 0 .. n : f[i] \notin Nat}
<1>2. ASSUME Bad # {} PROVE FALSE
  <2>1. PICK i \in Bad : \A j \in Bad : i <= j
    <3>1. Bad \subseteq Nat
      OBVIOUS
    <3> HIDE DEF Bad
    <3> QED BY <1>2, <3>1, LeastExists
  <2>2. i # 0
    BY <1>1, <2>1
  <2>3. i \in 1 .. n /\ i - 1 \in 0 .. n /\ ~(i <= i - 1)
    BY <2>1, <2>2
  <2>4. f[i - 1] \in Nat /\ v[i] \in Nat /\ f[i] = f[i - 1] + v[i]
    BY <1>1, <2>1, <2>3
  <2> QED
    BY <2>1, <2>4
<1>3. PICK i \in Past : \A j \in Past : i <= j
  <2>1. f[n] \in Nat
    BY <1>2
  <2>2. Past \subseteq Nat /\ n \in Past
    BY <2>1
  <2> HIDE DEF Past
  <2> QED BY <2>2, LeastExists
<1>4. i # 0
  BY <1>1, <1>3
<1>5. i \in 1 .. n /\ i - 1 \in 0 .. n /\ ~(i <= i - 1)
  BY <1>3, <1>4
<1>6. ~(p <= f[i - 1]) /\ p <= f[i] /\ f[i] = f[i - 1] + v[i]
  BY <1>1, <1>3, <1>5
<1>7. f[i - 1] \in Nat /\ v[i] \in Nat
  BY <1>2, <1>5
<1>8. p - f[i - 1] \in 1 .. v[i] /\ p = f[i - 1] + (p - f[i - 1])
  BY <1>6, <1>7
<1>9. QED
  BY <1>5, <1>8

\* Where the parts of a concatenation begin, f being the totals of their
\* lengths; and a sequence that has them there is the concatenation.
LEMMA FlattenPlaces ==
    ASSUME NEW X, NEW s \in Seq(Seq(X)), NEW n, n = Len(s),
           NEW f, Accumulates(f, [i \in 1 .. n |-> Len(s[i])], n)
    PROVE  /\ FlattenSeq(s) \in Seq(X) /\ Len(FlattenSeq(s)) = f[n]
           /\ \A i \in 1 .. n : \A k \in 1 .. Len(s[i]) :
                /\ f[i - 1] + k \in 1 .. f[n]
                /\ FlattenSeq(s)[f[i - 1] + k] = s[i][k]
<1>1. n \in Nat /\ \A i \in 1 .. n : s[i] \in Seq(X) /\ Len(s[i]) \in Nat
  OBVIOUS
<1> DEFINE Glue(t) == [i \in 1 .. Len(s) |-> IF i = 1 THEN s[i] ELSE t[i - 1] \o s[i]]
           Glues(t) == t = Glue(t)
           Good(t, m) ==
             /\ t \in Seq(X) /\ Len(t) = f[m] /\ f[m] \in Nat
             /\ \A i \in 1 .. m : \A k \in 1 .. Len(s[i]) :
                  f[i - 1] + k \in 1 .. f[m] /\ t[f[i - 1] + k] = s[i][k]
<1>2. f[0] = 0 /\ \A i \in 1 .. n : f[i] = f[i - 1] + Len(s[i])
  BY DEF Accumulates
<1>3. ASSUME NEW m \in 1 .. n, NEW t, NEW r, Good(t, m - 1), r = t \o s[m] PROVE Good(r, m)
  <2>1. /\ t \in Seq(X) /\ Len(t) = f[m - 1] /\ f[m - 1] \in Nat /\ m \in Nat
        /\ s[m] \in Seq(X) /\ Len(s[m]) \in Nat /\ f[m] = f[m - 1] + Len(s[m])
        /\ f[m] \in Nat /\ f[m - 1] <= f[m]
    BY <1>1, <1>2, <1>3, SMTT(40)
  <2>2. /\ r \in Seq(X) /\ Len(r) = f[m]
        /\ \A p \in 1 .. f[m - 1] : r[p] = t[p]
        /\ \A k \in 1 .. Len(s[m]) : r[f[m - 1] + k] = s[m][k]
    <3>1. r = t \o s[m]
      BY <1>3
    <3>2. /\ t \o s[m] \in Seq(X) /\ Len(t \o s[m]) = Len(t) + Len(s[m])
          /\ \A p \in 1 .. Len(t) : (t \o s[m])[p] = t[p]
          /\ \A k \in 1 .. Len(s[m]) : (t \o s[m])[Len(t) + k] = s[m][k]
      <4>1. t \in Seq(X) /\ s[m] \in Seq(X)
        BY <2>1
      <4>2. \A x \in Seq(X) : \A y \in Seq(X) :
               /\ x \o y \in Seq(X) /\ Len(x \o y) = Len(x) + Len(y)
               /\ \A p \in 1 .. Len(x) : (x \o y)[p] = x[p]
               /\ \A k \in 1 .. Len(y) : (x \o y)[Len(x) + k] = y[k]
        BY JoinedSeq
      <4> HIDE DEF Good, Glue, Glues
      <4> QED
        BY ONLY <4>1, <4>2, Zenon
    <3>3. Len(t) = f[m - 1] /\ Len(t) + Len(s[m]) = f[m]
      BY <2>1
    <3> QED
      BY ONLY <3>1, <3>2, <3>3
  <2>3. ASSUME NEW i \in 1 .. m, NEW k \in 1 .. Len(s[i])
        PROVE  f[i - 1] + k \in 1 .. f[m] /\ r[f[i - 1] + k] = s[i][k]
    <3>1. CASE i = m
      BY <2>1, <2>2, <3>1, SMTT(30)
    <3>2. CASE i # m
      <4>1. i \in 1 .. m - 1
        BY <3>2
      <4>2. f[i - 1] + k \in 1 .. f[m - 1] /\ t[f[i - 1] + k] = s[i][k]
        BY <1>3, <4>1
      <4>3. \A p \in 1 .. f[m - 1] : p \in 1 .. f[m]
        BY <2>1
      <4> QED
        BY <2>2, <4>2, <4>3
    <3> QED
      BY <3>1, <3>2
  <2> QED
    BY <2>1, <2>2, <2>3
<1>4. Good(<<>>, 0)
  BY <1>2
<1>5. CASE n = 0
  <2>1. FlattenSeq(s) = <<>>
    <3>1. Len(s) = 0
      BY <1>5
    <3>2. s = <<>>
      BY <3>1
    <3> QED
      BY <3>1, <3>2, Zenon DEF FlattenSeq
  <2> QED
    BY <1>4, <1>5, <2>1
<1>6. CASE n # 0
  \* The recursion has a solution: the parts glued so far.
  <2> DEFINE Partial(m) == \E t : \A i \in 1 .. m : t[i] = IF i = 1 THEN s[i] ELSE t[i - 1] \o s[i]
             Without == {m \in 0 .. n : ~ Partial(m)}
  <2>1. ASSUME Without # {} PROVE FALSE
    <3>1. PICK m \in Without : \A j \in Without : m <= j
      <4>1. Without \subseteq Nat
        BY <1>1
      <4> HIDE DEF Without
      <4> QED BY <2>1, <4>1, LeastExists
    <3>2. m # 0
      BY <3>1
    <3>3. m \in 1 .. n /\ m - 1 \in 0 .. n /\ ~(m <= m - 1) /\ m \in Nat
      <4> HIDE DEF Partial
      <4> QED BY <1>1, <3>1, <3>2
    <3>4. PICK t : \A i \in 1 .. m - 1 : t[i] = IF i = 1 THEN s[i] ELSE t[i - 1] \o s[i]
      <4>1. Partial(m - 1)
        <5> HIDE DEF Partial
        <5> QED BY <3>1, <3>3
      <4> QED
        BY <4>1
    <3> DEFINE u == [i \in 1 .. m |-> IF i = m THEN IF m = 1 THEN s[1] ELSE t[m - 1] \o s[m] ELSE t[i]]
    <3>5. ASSUME NEW i \in 1 .. m PROVE u[i] = IF i = 1 THEN s[i] ELSE u[i - 1] \o s[i]
      <4>1. CASE i = m
        BY <3>3, <4>1, SMTT(30)
      <4>2. CASE i # m
        <5>1. i \in 1 .. m - 1 /\ (i # 1 => i - 1 \in 1 .. m /\ i - 1 # m)
          BY <3>3, <4>2
        <5>2. u[i] = t[i] /\ (i # 1 => u[i - 1] = t[i - 1])
          <6>1. \A j \in 1 .. m : j # m => u[j] = t[j]
            OBVIOUS
          <6> HIDE DEF u
          <6> QED BY <4>2, <5>1, <6>1
        <5> QED
          BY <3>4, <5>1, <5>2
      <4> QED
        BY <4>1, <4>2
    <3> HIDE DEF u
    <3>6. Partial(m)
      BY <3>5
    <3> QED
      BY <3>1, <3>6
  <2>2. PICK t : \A i \in 1 .. n : t[i] = IF i = 1 THEN s[i] ELSE t[i - 1] \o s[i]
    <3>1. n \in 0 .. n
      BY <1>1
    <3>2. Partial(n)
      <4> HIDE DEF Partial
      <4> QED BY <2>1, <3>1
    <3> QED
      BY <3>2
  <2>3. \E u : Glues(u)
    <3> DEFINE u == [i \in 1 .. n |-> t[i]]
    <3>1. ASSUME NEW i \in 1 .. n PROVE u[i] = IF i = 1 THEN s[i] ELSE u[i - 1] \o s[i]
      <4>1. i # 1 => i - 1 \in 1 .. n
        BY <1>1
      <4> QED
        BY <2>2, <4>1
    <3>2. u = [i \in 1 .. n |-> IF i = 1 THEN s[i] ELSE u[i - 1] \o s[i]]
      BY <3>1
    <3>3. Glues(u)
      BY <3>2, Zenon
    <3> QED
      BY <3>3
  <2> DEFINE g == CHOOSE u : Glues(u)
  <2>4. FlattenSeq(s) = g[n]
    <3>1. Len(s) # 0
      BY <1>6
    <3> QED
      BY <3>1, Zenon DEF FlattenSeq
  <2>5. Glues(g)
    <3> HIDE DEF Glues
    <3> QED BY <2>3, Zenon
  <2> HIDE DEF g
  <2>6. \A i \in 1 .. n : g[i] = IF i = 1 THEN s[i] ELSE g[i - 1] \o s[i]
    <3> DEFINE piece(i) == IF i = 1 THEN s[i] ELSE g[i - 1] \o s[i]
    <3>1. g = [i \in 1 .. n |-> piece(i)]
      BY <2>5, Zenon
    <3> HIDE DEF piece
    <3>2. \A i \in 1 .. n : g[i] = piece(i)
      BY <3>1
    <3> QED
      BY <3>2 DEF piece
  <2> DEFINE Bad == {m \in 1 .. n : ~ Good(g[m], m)}
  <2>7. ASSUME Bad # {} PROVE FALSE
    <3>1. PICK m \in Bad : \A j \in Bad : m <= j
      <4>1. Bad \subseteq Nat
        BY <1>1
      <4> HIDE DEF Bad
      <4> QED BY <2>7, <4>1, LeastExists
    <3>2. m \in 1 .. n /\ m \in Nat /\ ~ Good(g[m], m)
      BY <1>1, <3>1
    <3>3. CASE m = 1
      <4>1. g[m] = <<>> \o s[m]
        <5>1. s[m] \in Seq(X)
          BY <1>1, <3>2
        <5> QED
          BY <2>6, <3>2, <3>3, <5>1
      <4>2. Good(<<>>, m - 1)
        BY <1>4, <3>3
      <4> HIDE DEF Good
      <4> QED
        BY <1>3, <3>2, <4>1, <4>2
    <3>4. CASE m # 1
      <4>1. m - 1 \in 1 .. n /\ ~(m <= m - 1)
        BY <1>1, <3>2, <3>4, SMTT(40)
      <4>2. Good(g[m - 1], m - 1)
        BY <3>1, <4>1
      <4>3. g[m] = g[m - 1] \o s[m]
        BY <2>6, <3>2, <3>4
      <4> HIDE DEF Good
      <4> QED
        BY <1>3, <3>2, <4>2, <4>3
    <3> QED
      BY <3>3, <3>4
  <2>8. Good(FlattenSeq(s), n)
    <3>1. n \in 1 .. n
      BY <1>1, <1>6
    <3> HIDE DEF Good
    <3>2. Good(g[n], n)
      BY <2>7, <3>1
    <3> QED
      BY <2>4, <3>2
  <2> QED
    BY <2>8
<1>7. QED
  BY <1>5, <1>6

-----------------------------------------------------------------------------
(* The sums of the codec.                                                  *)

\* The widths of columns, and where their slots are.
Widths(columns) == [i \in 1 .. Len(columns) |-> Width(columns[i].type)]

LEMMA WidthsAreSizes ==
    ASSUME NEW columns \in Seq(Column), NEW i \in 1 .. Len(columns)
    PROVE  /\ columns[i] \in Column /\ columns[i].type \in DataType
           /\ Widths(columns)[i] = Width(columns[i].type)
           /\ Width(columns[i].type) \in 1 .. 2
<1>1. columns[i] \in Column
  OBVIOUS
<1>2. columns[i].type \in DataType
  BY <1>1 DEF Column
<1>3. QED
  BY <1>1, <1>2 DEF Widths, Width

LEMMA ColumnOffsetSums ==
    ASSUME NEW columns \in Seq(Column), NEW i \in 1 .. Len(columns) + 1
    PROVE  ColumnOffset(columns, i)
             = 1 + BitmapSize(columns) + SumOn(Widths(columns), 1 .. i - 1, Len(columns))
<1> DEFINE n == Len(columns)
           v == Widths(columns)
           S == 1 .. i - 1
           first(s) == CHOOSE x \in s : TRUE
           Step(t, s) == IF s = {} THEN 0 ELSE Width(columns[first(s)].type) + t[s \ {first(s)}]
           Adds(t) == t = [s \in SUBSET S |-> Step(t, s)]
           sum == CHOOSE t : Adds(t)
<1>1. n \in Nat /\ S \in SUBSET (1 .. n) /\ \A j \in 1 .. n : v[j] \in Nat
  BY WidthsAreSizes
<1>2. MapThenSumSet(LAMBDA j : Width(columns[j].type), S) = sum[S]
  BY Zenon DEF MapThenSumSet, MapThenFoldSet
<1>3. ASSUME NEW s \in SUBSET S, s # {} PROVE v[first(s)] = Width(columns[first(s)].type)
  <2>1. first(s) \in s
    BY <1>3
  <2> HIDE DEF first
  <2>2. first(s) \in 1 .. n
    BY <1>1, <2>1
  <2> QED
    BY <2>2, WidthsAreSizes
<1>4. ASSUME NEW t PROVE Adds(t) <=> AddsUp(t, v, S)
  <2> DEFINE Other(s) == IF s = {} THEN 0 ELSE v[first(s)] + t[s \ {first(s)}]
  <2>1. \A s \in SUBSET S : Step(t, s) = Other(s)
    <3> HIDE DEF first, v, S
    <3> QED BY <1>3
  <2>2. AddsUp(t, v, S) <=> t = [s \in SUBSET S |-> Other(s)]
    BY Zenon DEF AddsUp
  <2> HIDE DEF Step, Other, S, v
  <2> QED
    BY <2>1, <2>2
<1>5. Adds(sum)
  <2>1. \E t : Adds(t)
    <3> HIDE DEF Adds, S, v, n
    <3> QED BY <1>1, <1>4, AddsUpAnyOrder
  <2> HIDE DEF Adds
  <2> QED
    BY <2>1, Zenon
<1> HIDE DEF sum, Adds, S, v, n
<1>6. sum[S] = SumOn(v, S, n)
  BY <1>1, <1>4, <1>5, AddsUpAnyOrder
<1>7. QED
  BY <1>2, <1>6, Zenon DEF ColumnOffset, S, v, n

\* The slots lie behind the bitmap, in the order of the columns.
LEMMA SlotPlaces ==
    ASSUME NEW columns \in Seq(Column)
    PROVE  /\ BitmapSize(columns) \in Nat
           /\ ColumnOffset(columns, 1) = 1 + BitmapSize(columns)
           /\ MinimumRowSize(columns) = ColumnOffset(columns, Len(columns) + 1)
           /\ \A i \in 1 .. Len(columns) + 1 : ColumnOffset(columns, i) \in Nat
           /\ \A i \in 1 .. Len(columns) :
                ColumnOffset(columns, i + 1) = ColumnOffset(columns, i) + Width(columns[i].type)
           /\ \A i, j \in 1 .. Len(columns) + 1 :
                i <= j => ColumnOffset(columns, i) <= ColumnOffset(columns, j)
<1> DEFINE n == Len(columns)
           v == Widths(columns)
           f == [i \in 0 .. n |-> SumOn(v, 1 .. i, n)]
<1>1. n \in Nat /\ \A j \in 1 .. n : v[j] \in Nat /\ v[j] = Width(columns[j].type)
  BY WidthsAreSizes
<1>2. /\ Accumulates(f, v, n) /\ \A i \in 0 .. n : f[i] \in Nat
      /\ \A i, j \in 0 .. n : i <= j => f[i] <= f[j]
  <2> HIDE DEF v, n
  <2> QED BY <1>1, SumsAccumulate
<1>3. BitmapSize(columns) \in Nat
  BY <1>1 DEF BitmapSize
<1>4. ASSUME NEW i \in 1 .. n + 1
      PROVE  i - 1 \in 0 .. n /\ ColumnOffset(columns, i) = 1 + BitmapSize(columns) + f[i - 1]
  <2>1. i - 1 \in 0 .. n
    BY <1>1
  <2>2. f[i - 1] = SumOn(v, 1 .. i - 1, n)
    BY <2>1
  <2> QED
    BY <2>1, <2>2, ColumnOffsetSums
<1> HIDE DEF f, v, n
<1>5. f[0] = 0 /\ \A i \in 1 .. n : f[i] = f[i - 1] + v[i]
  BY <1>2 DEF Accumulates
<1>6. ColumnOffset(columns, 1) = 1 + BitmapSize(columns)
  <2>1. 1 \in 1 .. n + 1
    BY <1>1
  <2>2. ColumnOffset(columns, 1) = 1 + BitmapSize(columns) + f[1 - 1]
    BY <1>4, <2>1
  <2> QED
    BY <1>3, <1>5, <2>2
<1>7. ASSUME NEW i \in 1 .. n
      PROVE  ColumnOffset(columns, i + 1) = ColumnOffset(columns, i) + Width(columns[i].type)
  <2>1. i \in 1 .. n + 1 /\ i + 1 \in 1 .. n + 1 /\ (i + 1) - 1 = i /\ i - 1 \in 0 .. n
    BY <1>1
  <2>2. ColumnOffset(columns, i + 1) = 1 + BitmapSize(columns) + f[i]
    BY <1>4, <2>1
  <2>3. ColumnOffset(columns, i) = 1 + BitmapSize(columns) + f[i - 1]
    BY <1>4, <2>1
  <2>4. f[i] = f[i - 1] + v[i] /\ f[i - 1] \in Nat /\ v[i] \in Nat /\ v[i] = Width(columns[i].type)
    BY <1>1, <1>2, <1>5, <2>1
  <2> QED
    BY <1>3, <2>2, <2>3, <2>4
<1>8. ASSUME NEW i \in 1 .. n + 1
      PROVE  ColumnOffset(columns, i) \in Nat
  BY <1>2, <1>3, <1>4
<1>9. ASSUME NEW i \in 1 .. n + 1, NEW j \in 1 .. n + 1, i <= j
      PROVE  ColumnOffset(columns, i) <= ColumnOffset(columns, j)
  <2>1. i - 1 \in 0 .. n /\ j - 1 \in 0 .. n /\ i - 1 <= j - 1
    BY <1>1, <1>9
  <2>2. f[i - 1] <= f[j - 1] /\ f[i - 1] \in Nat /\ f[j - 1] \in Nat
    BY <1>2, <2>1
  <2> QED
    BY <1>3, <1>4, <2>2
<1>10. QED
  BY <1>3, <1>6, <1>7, <1>8, <1>9 DEF MinimumRowSize, n

-----------------------------------------------------------------------------
(* Values.                                                                 *)

Value == {Null} \cup UNION {ValueOf(type) : type \in DataType}

\* Values for columns, as encode may be given them.
Takes(columns, values) ==
    /\ values \in Seq(Value) /\ Len(values) = Len(columns)
    /\ \A i \in 1 .. Len(columns) :
         \/ values[i] = Null /\ columns[i].nullable
         \/ values[i] \in ValueOf(columns[i].type)

LEMMA ValueFacts ==
    ASSUME NEW type \in DataType, NEW value \in ValueOf(type)
    PROVE  /\ value # Null /\ value[1] = type /\ value = <<type, value[2]>>
           /\ type = "bool" => value[2] \in BOOLEAN
           /\ type = "text" => value[2] \in Seq(0 .. 127)
           /\ type = "bytes" => value[2] \in Seq(0 .. 255)
           /\ type \notin {"bool", "text", "bytes"} => value[2] \in Nat
<1> DEFINE Data == CASE type = "bool" -> BOOLEAN
                     [] type = "text" -> Seq(0 .. 127)
                     [] type = "bytes" -> Seq(0 .. 255)
                     [] OTHER -> Nat
<1>1. value \in {type} \X Data
  BY DEF ValueOf
<1> HIDE DEF Data
<1>2. value = <<type, value[2]>> /\ value[1] = type /\ value[2] \in Data
  BY <1>1
<1>3. type # "null"
  BY DEF DataType
<1>4. value # Null
  BY <1>2, <1>3 DEF Null
<1>5. /\ type = "bool" => Data = BOOLEAN
      /\ type = "text" => Data = Seq(0 .. 127)
      /\ type = "bytes" => Data = Seq(0 .. 255)
      /\ type \notin {"bool", "text", "bytes"} => Data = Nat
  BY Zenon DEF Data
<1>6. QED
  BY <1>2, <1>4, <1>5

LEMMA BytesAreNumbers ==
    ASSUME NEW m \in Nat, NEW s \in Seq(0 .. m)
    PROVE  s \in Seq(Nat) /\ Len(s) \in Nat /\ \A i \in 1 .. Len(s) : s[i] \in 0 .. m
<1>1. Len(s) \in Nat /\ \A i \in 1 .. Len(s) : s[i] \in 0 .. m /\ s[i] \in Nat
  OBVIOUS
<1>2. s = [i \in 1 .. Len(s) |-> s[i]]
  OBVIOUS
<1>3. QED
  BY <1>1, <1>2

\* The payload of a value is what its type stores behind the slots.
LEMMA PayloadFacts ==
    ASSUME NEW type \in DataType, NEW value, value = Null \/ value \in ValueOf(type)
    PROVE  /\ Payload(value) \in Seq(Nat) /\ Len(Payload(value)) \in Nat
           /\ value = Null \/ type \notin Variable => Payload(value) = <<>>
           /\ value # Null /\ type \in Variable => Payload(value) = value[2]
<1>1. CASE value = Null
  <2>1. value[1] = "null"
    BY <1>1 DEF Null
  <2>2. value[1] \notin Variable
    BY <2>1 DEF Variable
  <2>3. Payload(value) = <<>>
    BY <2>2 DEF Payload
  <2> QED
    BY <1>1, <2>3
<1>2. CASE value # Null /\ type \in Variable
  <2>1. value \in ValueOf(type) /\ Payload(value) = value[2]
    BY <1>2, ValueFacts DEF Payload
  <2>2. value[2] \in Seq(0 .. 127) \/ value[2] \in Seq(0 .. 255)
    BY <1>2, <2>1, ValueFacts DEF Variable
  <2>3. value[2] \in Seq(Nat) /\ Len(value[2]) \in Nat
    BY <2>2, BytesAreNumbers, ZenonT(40)
  <2> QED
    BY <1>2, <2>1, <2>3
<1>3. CASE value # Null /\ type \notin Variable
  <2>1. Payload(value) = <<>>
    BY <1>3, ValueFacts DEF Payload
  <2> QED
    BY <1>3, <2>1
<1>4. QED
  BY <1>1, <1>2, <1>3

\* The lengths of the payloads, and where they are.
PayloadSizes(values) == [i \in 1 .. Len(values) |-> Len(Payload(values[i]))]

LEMMA TakenValues ==
    ASSUME NEW columns \in Seq(Column), NEW values, Takes(columns, values),
           NEW i \in 1 .. Len(columns)
    PROVE  /\ columns[i].type \in DataType
           /\ values[i] = Null \/ values[i] \in ValueOf(columns[i].type)
           /\ Payload(values[i]) \in Seq(Nat) /\ Len(Payload(values[i])) \in Nat
           /\ PayloadSizes(values)[i] = Len(Payload(values[i]))
<1>1. columns[i].type \in DataType
  BY WidthsAreSizes
<1>2. values[i] = Null \/ values[i] \in ValueOf(columns[i].type)
  BY DEF Takes
<1>3. Payload(values[i]) \in Seq(Nat) /\ Len(Payload(values[i])) \in Nat
  BY <1>1, <1>2, PayloadFacts
<1>4. PayloadSizes(values)[i] = Len(Payload(values[i]))
  BY DEF PayloadSizes, Takes
<1>5. QED
  BY <1>1, <1>2, <1>3, <1>4

LEMMA PayloadOffsetSums ==
    ASSUME NEW columns \in Seq(Column), NEW values, Takes(columns, values),
           NEW i \in 1 .. Len(columns) + 1
    PROVE  PayloadOffset(columns, values, i)
             = MinimumRowSize(columns) + SumOn(PayloadSizes(values), 1 .. i - 1, Len(columns))
<1> DEFINE n == Len(columns)
           v == PayloadSizes(values)
           S == 1 .. i - 1
           first(s) == CHOOSE x \in s : TRUE
           Step(t, s) == IF s = {} THEN 0 ELSE Len(Payload(values[first(s)])) + t[s \ {first(s)}]
           Adds(t) == t = [s \in SUBSET S |-> Step(t, s)]
           sum == CHOOSE t : Adds(t)
<1>1. n \in Nat /\ S \in SUBSET (1 .. n) /\ \A j \in 1 .. n : v[j] \in Nat
  BY TakenValues
<1>2. MapThenSumSet(LAMBDA j : Len(Payload(values[j])), S) = sum[S]
  BY Zenon DEF MapThenSumSet, MapThenFoldSet
<1>3. ASSUME NEW s \in SUBSET S, s # {} PROVE v[first(s)] = Len(Payload(values[first(s)]))
  <2>1. first(s) \in s
    BY <1>3
  <2> HIDE DEF first
  <2>2. first(s) \in 1 .. n
    BY <1>1, <2>1
  <2> QED
    BY <2>2, TakenValues
<1>4. ASSUME NEW t PROVE Adds(t) <=> AddsUp(t, v, S)
  <2> DEFINE Other(s) == IF s = {} THEN 0 ELSE v[first(s)] + t[s \ {first(s)}]
  <2>1. \A s \in SUBSET S : Step(t, s) = Other(s)
    <3> HIDE DEF first, v, S
    <3> QED BY <1>3
  <2>2. AddsUp(t, v, S) <=> t = [s \in SUBSET S |-> Other(s)]
    BY Zenon DEF AddsUp
  <2> HIDE DEF Step, Other, S, v
  <2> QED
    BY <2>1, <2>2
<1>5. Adds(sum)
  <2>1. \E t : Adds(t)
    <3> HIDE DEF Adds, S, v, n
    <3> QED BY <1>1, <1>4, AddsUpAnyOrder
  <2> HIDE DEF Adds
  <2> QED
    BY <2>1, Zenon
<1> HIDE DEF sum, Adds, S, v, n
<1>6. sum[S] = SumOn(v, S, n)
  BY <1>1, <1>4, <1>5, AddsUpAnyOrder
<1>7. QED
  BY <1>2, <1>6, Zenon DEF PayloadOffset, S, v, n

\* The payloads lie behind the slots, in the order of the columns.
LEMMA PayloadPlaces ==
    ASSUME NEW columns \in Seq(Column), NEW values, Takes(columns, values)
    PROVE  /\ PayloadOffset(columns, values, 1) = MinimumRowSize(columns)
           /\ \A i \in 1 .. Len(columns) + 1 : PayloadOffset(columns, values, i) \in Nat
           /\ \A i \in 1 .. Len(columns) :
                PayloadOffset(columns, values, i + 1)
                  = PayloadOffset(columns, values, i) + Len(Payload(values[i]))
           /\ \A i, j \in 1 .. Len(columns) + 1 :
                i <= j => PayloadOffset(columns, values, i) <= PayloadOffset(columns, values, j)
<1> DEFINE n == Len(columns)
           v == PayloadSizes(values)
           m == MinimumRowSize(columns)
           at(i) == PayloadOffset(columns, values, i)
           f == [i \in 0 .. n |-> SumOn(v, 1 .. i, n)]
<1>1. n \in Nat /\ \A j \in 1 .. n : v[j] \in Nat /\ v[j] = Len(Payload(values[j]))
  BY TakenValues
<1>2. m \in Nat
  <2>1. n + 1 \in 1 .. n + 1
    BY <1>1
  <2> QED
    BY <2>1, SlotPlaces
<1>3. /\ Accumulates(f, v, n) /\ \A i \in 0 .. n : f[i] \in Nat
      /\ \A i, j \in 0 .. n : i <= j => f[i] <= f[j]
  <2> HIDE DEF v, n
  <2> QED BY <1>1, SumsAccumulate
<1>4. ASSUME NEW i \in 1 .. n + 1 PROVE i - 1 \in 0 .. n /\ at(i) = m + f[i - 1]
  <2>1. i - 1 \in 0 .. n
    BY <1>1
  <2>2. f[i - 1] = SumOn(v, 1 .. i - 1, n)
    BY <2>1
  <2> QED
    BY <2>1, <2>2, PayloadOffsetSums
<1> HIDE DEF f, v, n, m, at
<1>5. f[0] = 0 /\ \A i \in 1 .. n : f[i] = f[i - 1] + v[i]
  BY <1>3 DEF Accumulates
<1>6. at(1) = m
  <2>1. 1 \in 1 .. n + 1
    BY <1>1
  <2>2. at(1) = m + f[1 - 1]
    BY <1>4, <2>1
  <2> QED
    BY <1>2, <1>5, <2>2
<1>7. ASSUME NEW i \in 1 .. n PROVE at(i + 1) = at(i) + Len(Payload(values[i]))
  <2>1. i \in 1 .. n + 1 /\ i + 1 \in 1 .. n + 1 /\ (i + 1) - 1 = i /\ i - 1 \in 0 .. n
    BY <1>1
  <2>2. at(i + 1) = m + f[i]
    BY <1>4, <2>1
  <2>3. at(i) = m + f[i - 1]
    BY <1>4, <2>1
  <2>4. /\ f[i] = f[i - 1] + v[i] /\ f[i - 1] \in Nat /\ v[i] \in Nat
        /\ v[i] = Len(Payload(values[i]))
    BY <1>1, <1>3, <1>5, <2>1
  <2> QED
    BY <1>2, <2>2, <2>3, <2>4
<1>8. ASSUME NEW i \in 1 .. n + 1 PROVE at(i) \in Nat
  BY <1>2, <1>3, <1>4
<1>9. ASSUME NEW i \in 1 .. n + 1, NEW j \in 1 .. n + 1, i <= j PROVE at(i) <= at(j)
  <2>1. i - 1 \in 0 .. n /\ j - 1 \in 0 .. n /\ i - 1 <= j - 1
    BY <1>1, <1>9
  <2>2. f[i - 1] <= f[j - 1] /\ f[i - 1] \in Nat /\ f[j - 1] \in Nat
    BY <1>3, <2>1
  <2> QED
    BY <1>2, <1>4, <2>2
<1>10. QED
  BY <1>6, <1>7, <1>8, <1>9 DEF n, m, at

\* A slot is as wide as its type says.
LEMMA SlotFits ==
    ASSUME NEW columns \in Seq(Column), NEW values, Takes(columns, values),
           NEW i \in 1 .. Len(columns)
    PROVE  /\ EncodedSlot(columns, values, i) \in Seq(Nat)
           /\ Len(EncodedSlot(columns, values, i)) = Width(columns[i].type)
           /\ values[i] = Null => \A c \in 1 .. Width(columns[i].type) :
                EncodedSlot(columns, values, i)[c] = 0
           /\ values[i] # Null /\ columns[i].type = "bool" =>
                EncodedSlot(columns, values, i)[1] = IF values[i][2] THEN 1 ELSE 0
           /\ values[i] # Null /\ columns[i].type \in Variable =>
                /\ EncodedSlot(columns, values, i)[1] = PayloadOffset(columns, values, i)
                /\ EncodedSlot(columns, values, i)[2] = Len(Payload(values[i]))
           /\ values[i] # Null /\ columns[i].type \notin Variable \cup {"bool"} =>
                EncodedSlot(columns, values, i)[1] = values[i][2]
<1> DEFINE type == columns[i].type
           value == values[i]
           slot == EncodedSlot(columns, values, i)
           width == Width(type)
           at == PayloadOffset(columns, values, i)
<1>1. type \in DataType /\ (value = Null \/ value \in ValueOf(type)) /\ width \in 1 .. 2
  BY TakenValues, WidthsAreSizes
<1>2. at \in Nat
  <2>1. i \in 1 .. Len(columns) + 1
    OBVIOUS
  <2> QED
    BY <2>1, PayloadPlaces
<1>3. CASE value = Null
  <2>1. slot = [c \in 1 .. width |-> 0]
    <3>1. value[1] = "null"
      BY <1>3 DEF Null
    <3>2. value[1] # "bool" /\ value[1] \notin Variable
      BY <3>1 DEF Variable
    <3> QED
      BY <1>3, <3>2 DEF EncodedSlot
  <2> HIDE DEF slot, width
  <2>2. slot \in Seq(Nat) /\ Len(slot) = width /\ \A c \in 1 .. width : slot[c] = 0
    BY <1>1, <2>1
  <2> QED
    BY <1>3, <2>2 DEF slot, width
<1>4. CASE value # Null /\ type = "bool"
  <2>1. value[1] = "bool" /\ value[2] \in BOOLEAN /\ width = 1
    BY <1>1, <1>4, ValueFacts DEF Width, Variable
  <2>2. slot = <<IF value[2] THEN 1 ELSE 0>>
    <3>1. "bool" \notin Variable
      BY DEF Variable
    <3> QED
      BY <1>4, <2>1, <3>1 DEF EncodedSlot
  <2>3. (IF value[2] THEN 1 ELSE 0) \in Nat
    OBVIOUS
  <2> HIDE DEF slot, width
  <2>4. slot \in Seq(Nat) /\ Len(slot) = 1 /\ slot[1] = IF value[2] THEN 1 ELSE 0
    BY <2>2, <2>3
  <2> QED
    BY <1>4, <2>1, <2>4 DEF slot, width, Variable
<1>5. CASE value # Null /\ type \in Variable
  <2>1. value[1] = type /\ type # "bool" /\ width = 2
    BY <1>1, <1>5, ValueFacts DEF Width, Variable
  <2>2. Payload(value) = value[2] /\ Len(Payload(value)) \in Nat
    BY <1>1, <1>5, PayloadFacts
  <2>3. slot = <<at, Len(value[2])>>
    BY <1>5, <2>1 DEF EncodedSlot
  <2> HIDE DEF slot, width, at
  <2>4. slot \in Seq(Nat) /\ Len(slot) = 2 /\ slot[1] = at /\ slot[2] = Len(Payload(value))
    BY <1>2, <2>2, <2>3
  <2> QED
    BY <1>5, <2>1, <2>4 DEF slot, width, at
<1>6. CASE value # Null /\ type \notin Variable \cup {"bool"}
  <2>1. value[1] = type /\ value[2] \in Nat /\ width = 1
    BY <1>1, <1>6, ValueFacts DEF Width, Variable
  <2>2. slot = <<value[2]>>
    BY <1>6, <2>1 DEF EncodedSlot
  <2> HIDE DEF slot, width
  <2>3. slot \in Seq(Nat) /\ Len(slot) = 1 /\ slot[1] = value[2]
    BY <2>1, <2>2
  <2> QED
    BY <1>6, <2>1, <2>3 DEF slot, width
<1>7. QED
  BY <1>3, <1>4, <1>5, <1>6

-----------------------------------------------------------------------------
(* The null bitmap.                                                        *)

BitWeights(n) == [i \in 1 .. n |-> BitmapBit(i)]

\* The columns a byte of the bitmap stands for.
InByte(b, k) == 8 * (b - 1) + k
Digit01(S, i) == IF i \in S THEN 1 ELSE 0

LEMMA Eighths ==
    ASSUME NEW x \in Nat
    PROVE  x \div 8 \in Nat /\ x % 8 \in 0 .. 7 /\ x = 8 * (x \div 8) + (x % 8)
OBVIOUS

LEMMA BitPlaces ==
    ASSUME NEW i \in Nat \ {0}
    PROVE  \E b \in Nat \ {0}, k \in 1 .. 8 :
             i = InByte(b, k) /\ BitmapByte(i) = b /\ (i - 1) % 8 = k - 1
<1>1. i - 1 \in Nat
  OBVIOUS
<1>2. PICK q \in Nat, r \in 0 .. 7 :
        (i - 1) \div 8 = q /\ (i - 1) % 8 = r /\ i - 1 = 8 * q + r
  BY <1>1, Eighths
<1>3. 1 + q \in Nat \ {0} /\ 1 + r \in 1 .. 8 /\ (1 + r) - 1 = r /\ (1 + q) - 1 = q
  OBVIOUS
<1>4. i = 8 * q + (1 + r) /\ BitmapByte(i) = 1 + q
  BY <1>2 DEF BitmapByte
<1>5. QED
  BY <1>2, <1>3, <1>4 DEF InByte

\* Which columns a byte stands for, and with what weights.
LEMMA ByteColumns ==
    ASSUME NEW b \in Nat \ {0}, NEW k \in 1 .. 8
    PROVE  /\ InByte(b, k) \in Nat \ {0} /\ BitmapByte(InByte(b, k)) = b
           /\ BitmapBit(InByte(b, k)) = 2 ^ (k - 1)
<1>1. b - 1 \in Nat /\ k - 1 \in 0 .. 7 /\ InByte(b, k) = 8 * (b - 1) + k
  BY DEF InByte
<1>2. InByte(b, k) \in Nat \ {0} /\ InByte(b, k) - 1 = 8 * (b - 1) + (k - 1)
  BY <1>1
<1>3. \A q \in Nat, r \in 0 .. 7 : (8 * q + r) \div 8 = q /\ (8 * q + r) % 8 = r
  OBVIOUS
<1>4. (InByte(b, k) - 1) \div 8 = b - 1 /\ (InByte(b, k) - 1) % 8 = k - 1
  BY <1>1, <1>2, <1>3
<1>5. QED
  BY <1>2, <1>4 DEF BitmapByte, BitmapBit

LEMMA Weights ==
    ASSUME NEW k \in 1 .. 8
    PROVE  /\ 2 ^ (k - 1) \in Nat
           /\ k = 1 => 2 ^ (k - 1) = 1
           /\ k = 2 => 2 ^ (k - 1) = 2
           /\ k = 3 => 2 ^ (k - 1) = 4
           /\ k = 4 => 2 ^ (k - 1) = 8
           /\ k = 5 => 2 ^ (k - 1) = 16
           /\ k = 6 => 2 ^ (k - 1) = 32
           /\ k = 7 => 2 ^ (k - 1) = 64
           /\ k = 8 => 2 ^ (k - 1) = 128
           /\ k \in {1, 2, 3, 4, 5, 6, 7, 8}
<1>1. /\ 2 ^ 0 = 1 /\ 2 ^ 1 = 2 /\ 2 ^ 2 = 4 /\ 2 ^ 3 = 8
      /\ 2 ^ 4 = 16 /\ 2 ^ 5 = 32 /\ 2 ^ 6 = 64 /\ 2 ^ 7 = 128
  OBVIOUS
<1>2. k \in {1, 2, 3, 4, 5, 6, 7, 8}
  OBVIOUS
<1>3. /\ 1 - 1 = 0 /\ 2 - 1 = 1 /\ 3 - 1 = 2 /\ 4 - 1 = 3
      /\ 5 - 1 = 4 /\ 6 - 1 = 5 /\ 7 - 1 = 6 /\ 8 - 1 = 7
  OBVIOUS
<1>4. /\ 2 ^ (1 - 1) = 1 /\ 2 ^ (2 - 1) = 2 /\ 2 ^ (3 - 1) = 4 /\ 2 ^ (4 - 1) = 8
      /\ 2 ^ (5 - 1) = 16 /\ 2 ^ (6 - 1) = 32 /\ 2 ^ (7 - 1) = 64 /\ 2 ^ (8 - 1) = 128
  BY <1>1, <1>3, ZenonT(40)
<1> DEFINE power(i) == 2 ^ (i - 1)
<1> HIDE DEF power
<1>5. /\ power(1) = 1 /\ power(2) = 2 /\ power(3) = 4 /\ power(4) = 8
      /\ power(5) = 16 /\ power(6) = 32 /\ power(7) = 64 /\ power(8) = 128
  BY <1>4, Zenon DEF power
<1>6. /\ power(k) \in Nat
      /\ (k = 1 => power(k) = 1) /\ (k = 2 => power(k) = 2)
      /\ (k = 3 => power(k) = 4) /\ (k = 4 => power(k) = 8)
      /\ (k = 5 => power(k) = 16) /\ (k = 6 => power(k) = 32)
      /\ (k = 7 => power(k) = 64) /\ (k = 8 => power(k) = 128)
  BY <1>2, <1>5
<1>7. QED
  BY <1>2, <1>6, Zenon DEF power

LEMMA BitTypes ==
    ASSUME NEW i \in Nat \ {0}
    PROVE  BitmapBit(i) \in {1, 2, 4, 8, 16, 32, 64, 128}
<1>1. PICK b \in Nat \ {0}, k \in 1 .. 8 : i = InByte(b, k)
  BY BitPlaces
<1>2. BitmapBit(i) = 2 ^ (k - 1)
  BY <1>1, ByteColumns
<1>3. 2 ^ (k - 1) \in {1, 2, 4, 8, 16, 32, 64, 128}
  BY Weights
<1>4. QED
  BY <1>2, <1>3

\* Eight numbers, of which S has those whose digit is 1.
Binary(d) == d[1] + 2 * d[2] + 4 * d[3] + 8 * d[4] + 16 * d[5] + 32 * d[6] + 64 * d[7] + 128 * d[8]
DigitsOf(S, b) == [k \in 1 .. 8 |-> Digit01(S, InByte(b, k))]

\* The weights of columns of one byte add up to a number of eight digits.
LEMMA ByteSum ==
    ASSUME NEW n \in Nat, NEW b \in Nat \ {0}, NEW S \in SUBSET (1 .. n),
           \A i \in S : BitmapByte(i) = b
    PROVE  SumOn(BitWeights(n), S, n) = Binary(DigitsOf(S, b))
<1> DEFINE w == BitWeights(n)
           at(k) == InByte(b, k)
           sum(R) == SumOn(w, R, n)
           S1 == S \ {at(1)}
           S2 == S1 \ {at(2)}
           S3 == S2 \ {at(3)}
           S4 == S3 \ {at(4)}
           S5 == S4 \ {at(5)}
           S6 == S5 \ {at(6)}
           S7 == S6 \ {at(7)}
           S8 == S7 \ {at(8)}
<1>1. \A i \in 1 .. n : w[i] = BitmapBit(i) /\ w[i] \in Nat
  <2>1. \A i \in 1 .. n : i \in Nat \ {0} /\ w[i] = BitmapBit(i)
    BY DEF BitWeights
  <2> QED
    BY <2>1, BitTypes
<1>2. ASSUME NEW R \in SUBSET (1 .. n), NEW k \in 1 .. 8
      PROVE  /\ sum(R) = 2 ^ (k - 1) * Digit01(R, at(k)) + sum(R \ {at(k)})
             /\ sum(R) \in Nat /\ R \ {at(k)} \in SUBSET (1 .. n)
             /\ Digit01(R, at(k)) \in {0, 1}
  <2>1. sum(R) \in Nat /\ R \ {at(k)} \in SUBSET (1 .. n) /\ sum(R \ {at(k)}) \in Nat
    <3>1. R \ {at(k)} \in SUBSET (1 .. n)
      OBVIOUS
    <3> HIDE DEF w, at
    <3> QED BY <1>1, <3>1, SumOnSplits
  <2>2. 2 ^ (k - 1) \in Nat
    BY Weights
  <2>3. CASE at(k) \in R
    <3>1. w[at(k)] = 2 ^ (k - 1)
      BY <1>1, <2>3, ByteColumns
    <3>2. sum(R) = w[at(k)] + sum(R \ {at(k)})
      <4> HIDE DEF w, at
      <4> QED BY <1>1, <2>3, SumOnSplits
    <3> HIDE DEF w, at, sum
    <3> QED
      BY <2>1, <2>2, <2>3, <3>1, <3>2 DEF Digit01
  <2>4. CASE at(k) \notin R
    <3>1. R \ {at(k)} = R
      BY <2>4
    <3>2. Digit01(R, at(k)) = 0
      BY <2>4 DEF Digit01
    <3>3. \A x \in Nat, y \in Nat : x = y * 0 + x
      OBVIOUS
    <3> HIDE DEF w, at, sum
    <3> QED
      BY <2>1, <2>2, <3>1, <3>2, <3>3
  <2> QED
    BY <2>3, <2>4
<1>3. S8 = {}
  <2>1. ASSUME NEW i \in S PROVE \E k \in 1 .. 8 : i = at(k)
    <3>1. i \in Nat \ {0} /\ BitmapByte(i) = b
      OBVIOUS
    <3>2. PICK c \in Nat \ {0}, k \in 1 .. 8 : i = InByte(c, k) /\ BitmapByte(i) = c
      BY <3>1, BitPlaces
    <3> QED
      BY <3>1, <3>2
  <2> HIDE DEF at
  <2>2. \A k \in 1 .. 8 : k = 1 \/ k = 2 \/ k = 3 \/ k = 4 \/ k = 5 \/ k = 6 \/ k = 7 \/ k = 8
    OBVIOUS
  <2> QED
    BY <2>1, <2>2
<1>4. \A j, k \in 1 .. 8 : at(j) = at(k) => j = k
  BY DEF InByte
<1>5. /\ Digit01(S1, at(2)) = Digit01(S, at(2)) /\ Digit01(S2, at(3)) = Digit01(S, at(3))
      /\ Digit01(S3, at(4)) = Digit01(S, at(4)) /\ Digit01(S4, at(5)) = Digit01(S, at(5))
      /\ Digit01(S5, at(6)) = Digit01(S, at(6)) /\ Digit01(S6, at(7)) = Digit01(S, at(7))
      /\ Digit01(S7, at(8)) = Digit01(S, at(8))
  <2> HIDE DEF at
  <2> QED BY <1>4 DEF Digit01
<1>6. /\ S1 \in SUBSET (1 .. n) /\ S2 \in SUBSET (1 .. n) /\ S3 \in SUBSET (1 .. n)
      /\ S4 \in SUBSET (1 .. n) /\ S5 \in SUBSET (1 .. n) /\ S6 \in SUBSET (1 .. n)
      /\ S7 \in SUBSET (1 .. n)
  OBVIOUS
<1>7. sum({}) = 0
  <2> HIDE DEF w
  <2> QED BY <1>1, SumOnSplits
<1> HIDE DEF sum, w
<1> HIDE DEF S1, S2, S3, S4, S5, S6, S7, S8, at
<1>8. ASSUME NEW R \in SUBSET (1 .. n), NEW k \in 1 .. 8, NEW T, T = R \ {at(k)},
             Digit01(R, at(k)) = Digit01(S, at(k))
      PROVE  sum(R) = 2 ^ (k - 1) * Digit01(S, at(k)) + sum(T)
  BY <1>2, <1>8
<1>9. /\ sum(S) = 1 * Digit01(S, at(1)) + sum(S1)
      /\ sum(S1) = 2 * Digit01(S, at(2)) + sum(S2)
      /\ sum(S2) = 4 * Digit01(S, at(3)) + sum(S3)
      /\ sum(S3) = 8 * Digit01(S, at(4)) + sum(S4)
      /\ sum(S4) = 16 * Digit01(S, at(5)) + sum(S5)
      /\ sum(S5) = 32 * Digit01(S, at(6)) + sum(S6)
      /\ sum(S6) = 64 * Digit01(S, at(7)) + sum(S7)
      /\ sum(S7) = 128 * Digit01(S, at(8)) + sum(S8)
  <2>1. sum(S) = 2 ^ (1 - 1) * Digit01(S, at(1)) + sum(S1)
    BY <1>8 DEF S1
  <2>2. sum(S1) = 2 ^ (2 - 1) * Digit01(S, at(2)) + sum(S2)
    BY <1>5, <1>6, <1>8 DEF S2
  <2>3. sum(S2) = 2 ^ (3 - 1) * Digit01(S, at(3)) + sum(S3)
    BY <1>5, <1>6, <1>8 DEF S3
  <2>4. sum(S3) = 2 ^ (4 - 1) * Digit01(S, at(4)) + sum(S4)
    BY <1>5, <1>6, <1>8 DEF S4
  <2>5. sum(S4) = 2 ^ (5 - 1) * Digit01(S, at(5)) + sum(S5)
    BY <1>5, <1>6, <1>8 DEF S5
  <2>6. sum(S5) = 2 ^ (6 - 1) * Digit01(S, at(6)) + sum(S6)
    BY <1>5, <1>6, <1>8 DEF S6
  <2>7. sum(S6) = 2 ^ (7 - 1) * Digit01(S, at(7)) + sum(S7)
    BY <1>5, <1>6, <1>8 DEF S7
  <2>8. sum(S7) = 2 ^ (8 - 1) * Digit01(S, at(8)) + sum(S8)
    BY <1>5, <1>6, <1>8 DEF S8
  <2>9. /\ 2 ^ (1 - 1) = 1 /\ 2 ^ (2 - 1) = 2 /\ 2 ^ (3 - 1) = 4 /\ 2 ^ (4 - 1) = 8
        /\ 2 ^ (5 - 1) = 16 /\ 2 ^ (6 - 1) = 32 /\ 2 ^ (7 - 1) = 64 /\ 2 ^ (8 - 1) = 128
    BY Weights
  <2> QED
    BY <2>1, <2>2, <2>3, <2>4, <2>5, <2>6, <2>7, <2>8, <2>9
<1>10. \A k \in 1 .. 8 : DigitsOf(S, b)[k] = Digit01(S, at(k)) /\ Digit01(S, at(k)) \in {0, 1}
  BY DEF DigitsOf, Digit01, at
<1>11. /\ sum(S) \in Nat /\ sum(S1) \in Nat /\ sum(S2) \in Nat /\ sum(S3) \in Nat
       /\ sum(S4) \in Nat /\ sum(S5) \in Nat /\ sum(S6) \in Nat /\ sum(S7) \in Nat
       /\ sum(S8) = 0
  <2>1. \A R \in SUBSET (1 .. n) : sum(R) \in Nat
    <3>1. 1 \in 1 .. 8
      OBVIOUS
    <3> QED BY <1>2, <3>1
  <2> QED
    BY <1>3, <1>6, <1>7, <2>1
<1>12. sum(S) = Binary(DigitsOf(S, b))
  BY <1>9, <1>10, <1>11 DEF Binary
<1>13. QED
  BY <1>12 DEF sum, w

\* The digits of a number below 256, and what they say of it.
LEMMA BinaryDigits ==
    ASSUME NEW d, \A k \in 1 .. 8 : d[k] \in {0, 1}
    PROVE  /\ Binary(d) \in 0 .. 255
           /\ (Binary(d) \div 1) % 2 = d[1] /\ (Binary(d) \div 2) % 2 = d[2]
           /\ (Binary(d) \div 4) % 2 = d[3] /\ (Binary(d) \div 8) % 2 = d[4]
           /\ (Binary(d) \div 16) % 2 = d[5] /\ (Binary(d) \div 32) % 2 = d[6]
           /\ (Binary(d) \div 64) % 2 = d[7] /\ (Binary(d) \div 128) % 2 = d[8]
<1>1. /\ d[1] \in {0, 1} /\ d[2] \in {0, 1} /\ d[3] \in {0, 1} /\ d[4] \in {0, 1}
      /\ d[5] \in {0, 1} /\ d[6] \in {0, 1} /\ d[7] \in {0, 1} /\ d[8] \in {0, 1}
  OBVIOUS
<1>2. \A d1, d2, d3, d4, d5, d6, d7, d8 \in {0, 1} :
        LET x == d1 + 2 * d2 + 4 * d3 + 8 * d4 + 16 * d5 + 32 * d6 + 64 * d7 + 128 * d8
        IN  /\ x \in 0 .. 255
            /\ (x \div 1) % 2 = d1 /\ (x \div 2) % 2 = d2
            /\ (x \div 4) % 2 = d3 /\ (x \div 8) % 2 = d4
            /\ (x \div 16) % 2 = d5 /\ (x \div 32) % 2 = d6
            /\ (x \div 64) % 2 = d7 /\ (x \div 128) % 2 = d8
  OBVIOUS
<1>3. QED
  BY <1>1, <1>2 DEF Binary

-----------------------------------------------------------------------------
(* The encoded row.                                                        *)

LEMMA BitmapSums ==
    ASSUME NEW values, Len(values) \in Nat, DOMAIN values = 1 .. Len(values),
           NEW b \in 1 .. BitmapSize(values)
    PROVE  NullBitmap(values)[b]
             = SumOn(BitWeights(Len(values)),
                     {i \in 1 .. Len(values) : values[i] = Null /\ BitmapByte(i) = b},
                     Len(values))
<1> DEFINE n == Len(values)
           v == BitWeights(n)
           S == {i \in 1 .. n : values[i] = Null /\ BitmapByte(i) = b}
           first(s) == CHOOSE x \in s : TRUE
           Step(t, s) == IF s = {} THEN 0 ELSE BitmapBit(first(s)) + t[s \ {first(s)}]
           Adds(t) == t = [s \in SUBSET S |-> Step(t, s)]
           sum == CHOOSE t : Adds(t)
<1>1. /\ n \in Nat /\ S \in SUBSET (1 .. n)
      /\ \A j \in 1 .. n : v[j] = BitmapBit(j) /\ v[j] \in Nat
  <2>1. \A j \in 1 .. n : j \in Nat \ {0} /\ v[j] = BitmapBit(j)
    BY DEF BitWeights
  <2> QED
    BY <2>1, BitTypes
<1>2. NullBitmap(values)[b] = sum[S]
  <2>1. NullBitmap(values)[b] = MapThenSumSet(BitmapBit, S)
    BY DEF NullBitmap
  <2>2. MapThenSumSet(BitmapBit, S) = sum[S]
    BY Zenon DEF MapThenSumSet, MapThenFoldSet
  <2> QED
    BY <2>1, <2>2, Zenon
<1>3. ASSUME NEW s \in SUBSET S, s # {} PROVE v[first(s)] = BitmapBit(first(s))
  <2>1. first(s) \in s
    BY <1>3
  <2> HIDE DEF first
  <2>2. first(s) \in 1 .. n
    BY <1>1, <2>1
  <2> QED
    BY <1>1, <2>2
<1>4. ASSUME NEW t PROVE Adds(t) <=> AddsUp(t, v, S)
  <2> DEFINE Other(s) == IF s = {} THEN 0 ELSE v[first(s)] + t[s \ {first(s)}]
  <2>1. \A s \in SUBSET S : Step(t, s) = Other(s)
    <3> HIDE DEF first, v, S
    <3> QED BY <1>3
  <2>2. AddsUp(t, v, S) <=> t = [s \in SUBSET S |-> Other(s)]
    BY Zenon DEF AddsUp
  <2> HIDE DEF Step, Other, S, v
  <2> QED
    BY <2>1, <2>2
<1>5. Adds(sum)
  <2>1. \E t : Adds(t)
    <3> HIDE DEF Adds, S, v, n
    <3> QED BY <1>1, <1>4, AddsUpAnyOrder
  <2> HIDE DEF Adds
  <2> QED
    BY <2>1, Zenon
<1> HIDE DEF sum, Adds, S, v, n
<1>6. sum[S] = SumOn(v, S, n)
  BY <1>1, <1>4, <1>5, AddsUpAnyOrder
<1>7. QED
  BY <1>2, <1>6, Zenon DEF S, v, n

\* Each bit of the bitmap that belongs to a column is set for Null, each
\* other bit is zero.
LEMMA BitmapDigits ==
    ASSUME NEW values, Len(values) \in Nat, DOMAIN values = 1 .. Len(values),
           NEW b \in 1 .. BitmapSize(values)
    PROVE  \E d : /\ \A k \in 1 .. 8 : d[k] \in {0, 1}
                  /\ NullBitmap(values)[b] = Binary(d)
                  /\ \A k \in 1 .. 8 :
                       d[k] = 1 <=> InByte(b, k) <= Len(values) /\ values[InByte(b, k)] = Null
<1> DEFINE n == Len(values)
           S == {i \in 1 .. n : values[i] = Null /\ BitmapByte(i) = b}
           d == DigitsOf(S, b)
<1>1. b \in Nat \ {0} /\ S \in SUBSET (1 .. n) /\ \A i \in S : BitmapByte(i) = b
  OBVIOUS
<1>2. NullBitmap(values)[b] = SumOn(BitWeights(n), S, n)
  BY BitmapSums
<1>3. SumOn(BitWeights(n), S, n) = Binary(d)
  <2> HIDE DEF S, n
  <2>1. n \in Nat
    BY DEF n
  <2> QED BY <1>1, <2>1, ByteSum
<1>4. ASSUME NEW k \in 1 .. 8
      PROVE  /\ d[k] \in {0, 1}
             /\ d[k] = 1 <=> InByte(b, k) <= n /\ values[InByte(b, k)] = Null
  <2>1. d[k] = IF InByte(b, k) \in S THEN 1 ELSE 0
    BY DEF DigitsOf, Digit01
  <2>2. InByte(b, k) \in Nat \ {0} /\ BitmapByte(InByte(b, k)) = b
    BY <1>1, ByteColumns
  <2>3. InByte(b, k) \in S <=> InByte(b, k) <= n /\ values[InByte(b, k)] = Null
    BY <2>2
  <2> HIDE DEF S, d
  <2> QED
    BY <2>1, <2>3
<1>5. QED
  <2> HIDE DEF d
  <2> QED
    BY <1>2, <1>3, <1>4

\* The byte of a column is one of the bitmap's.
LEMMA BytesEnough ==
    ASSUME NEW columns, Len(columns) \in Nat, NEW i \in 1 .. Len(columns)
    PROVE  /\ BitmapByte(i) \in 1 .. BitmapSize(columns)
           /\ \E k \in 1 .. 8 : i = InByte(BitmapByte(i), k)
<1>1. i \in Nat \ {0} /\ i - 1 \in Nat /\ Len(columns) + 7 \in Nat
  OBVIOUS
<1>2. PICK b \in Nat \ {0}, k \in 1 .. 8 : i = InByte(b, k) /\ BitmapByte(i) = b
  BY <1>1, BitPlaces
<1>3. 8 * (b - 1) + k <= Len(columns)
  BY <1>2 DEF InByte
<1>4. PICK q \in Nat : q = (Len(columns) + 7) \div 8 /\ Len(columns) + 7 < 8 * q + 8
  BY <1>1, Eighths
<1>5. b <= q
  BY <1>3, <1>4
<1>6. QED
  BY <1>2, <1>4, <1>5 DEF BitmapSize

LEMMA BitmapFits ==
    ASSUME NEW columns \in Seq(Column), NEW values, Takes(columns, values)
    PROVE  /\ BitmapSize(values) = BitmapSize(columns)
           /\ Len(values) \in Nat /\ DOMAIN values = 1 .. Len(values) /\ Len(values) = Len(columns)
           /\ NullBitmap(values) \in Seq(Nat) /\ Len(NullBitmap(values)) = BitmapSize(columns)
<1>1. /\ Len(values) = Len(columns) /\ Len(values) \in Nat
      /\ DOMAIN values = 1 .. Len(values)
  BY DEF Takes
<1>2. BitmapSize(values) = BitmapSize(columns) /\ BitmapSize(columns) \in Nat
  BY <1>1, SlotPlaces DEF BitmapSize
<1>3. ASSUME NEW b \in 1 .. BitmapSize(values) PROVE NullBitmap(values)[b] \in Nat
  <2>1. PICK d : (\A k \in 1 .. 8 : d[k] \in {0, 1}) /\ NullBitmap(values)[b] = Binary(d)
    BY <1>1, BitmapDigits
  <2>2. Binary(d) \in 0 .. 255
    BY <2>1, BinaryDigits
  <2>3. \A x \in 0 .. 255 : x \in Nat
    OBVIOUS
  <2> QED
    BY <2>1, <2>2, <2>3, Zenon
<1>4. NullBitmap(values) = [b \in 1 .. BitmapSize(values) |-> NullBitmap(values)[b]]
  BY DEF NullBitmap
<1>5. QED
  BY <1>1, <1>2, <1>3, <1>4

\* The slots in a row, counted from the first.
SlotsFollow(slots, columns, values) ==
    /\ slots \in Seq(Nat)
    /\ Len(slots) = MinimumRowSize(columns) - ColumnOffset(columns, 1)
    /\ \A i \in 1 .. Len(columns) : \A c \in 1 .. Width(columns[i].type) :
         /\ ColumnOffset(columns, i) - ColumnOffset(columns, 1) + c \in 1 .. Len(slots)
         /\ slots[ColumnOffset(columns, i) - ColumnOffset(columns, 1) + c]
              = EncodedSlot(columns, values, i)[c]

LEMMA SlotsJoined ==
    ASSUME NEW columns \in Seq(Column), NEW values, Takes(columns, values)
    PROVE  SlotsFollow(FlattenSeq([i \in DOMAIN values |-> EncodedSlot(columns, values, i)]),
                       columns, values)
<1> DEFINE n == Len(columns)
           off(i) == ColumnOffset(columns, i)
           s == [i \in 1 .. n |-> EncodedSlot(columns, values, i)]
           f == [i \in 0 .. n |-> off(i + 1) - off(1)]
           lengths == [i \in 1 .. n |-> Len(s[i])]
<1>1. n \in Nat /\ DOMAIN values = 1 .. n
  BY BitmapFits
<1>2. \A i \in 1 .. n : s[i] = EncodedSlot(columns, values, i) /\ s[i] \in Seq(Nat)
                          /\ Len(s[i]) = Width(columns[i].type)
  BY SlotFits
<1>3. /\ \A i \in 1 .. n + 1 : off(i) \in Nat
      /\ \A i \in 1 .. n : off(i + 1) = off(i) + Width(columns[i].type)
                             /\ Width(columns[i].type) \in Nat
      /\ MinimumRowSize(columns) = off(n + 1)
  BY SlotPlaces, WidthsAreSizes
<1>4. s \in Seq(Seq(Nat)) /\ Len(s) = n
  <2> HIDE DEF off, n
  <2>1. s = [i \in 1 .. n |-> s[i]]
    OBVIOUS
  <2> HIDE DEF s
  <2> QED BY <1>1, <1>2, <2>1
<1> HIDE DEF off, n, s
<1>5. Accumulates(f, lengths, n)
  <2>1. f[0] = 0
    <3>1. 0 \in 0 .. n /\ 1 \in 1 .. n + 1 /\ f[0] = off(0 + 1) - off(1) /\ off(0 + 1) = off(1)
      BY <1>1
    <3> QED BY <1>3, <3>1
  <2>2. ASSUME NEW i \in 1 .. n PROVE f[i] = f[i - 1] + lengths[i]
    <3>1. i \in 0 .. n /\ i - 1 \in 0 .. n /\ (i - 1) + 1 = i /\ i \in 1 .. n + 1 /\ 1 \in 1 .. n + 1
      BY <1>1
    <3>2. f[i] = off(i + 1) - off(1) /\ f[i - 1] = off(i) - off(1)
      BY <3>1
    <3>3. lengths[i] = Width(columns[i].type)
      BY <1>2
    <3>4. off(i + 1) = off(i) + Width(columns[i].type) /\ Width(columns[i].type) \in Nat
          /\ off(i) \in Nat /\ off(1) \in Nat
      BY <1>3, <3>1
    <3> QED BY <3>2, <3>3, <3>4
  <2> QED BY <2>1, <2>2 DEF Accumulates
<1>6. /\ FlattenSeq(s) \in Seq(Nat) /\ Len(FlattenSeq(s)) = f[n]
      /\ \A i \in 1 .. n : \A k \in 1 .. Len(s[i]) :
           /\ f[i - 1] + k \in 1 .. f[n]
           /\ FlattenSeq(s)[f[i - 1] + k] = s[i][k]
  <2> HIDE DEF f
  <2> QED BY <1>4, <1>5, FlattenPlaces DEF lengths
<1>7. f[n] = off(n + 1) - off(1)
  BY <1>1
<1>8. ASSUME NEW i \in 1 .. n PROVE f[i - 1] = off(i) - off(1)
  <2>1. i - 1 \in 0 .. n /\ (i - 1) + 1 = i
    BY <1>1
  <2> QED BY <2>1
<1> HIDE DEF f
<1>9. /\ Len(FlattenSeq(s)) = MinimumRowSize(columns) - off(1)
      /\ \A i \in 1 .. n : \A c \in 1 .. Width(columns[i].type) :
           /\ off(i) - off(1) + c \in 1 .. Len(FlattenSeq(s))
           /\ FlattenSeq(s)[off(i) - off(1) + c] = EncodedSlot(columns, values, i)[c]
  BY <1>2, <1>3, <1>6, <1>7, <1>8
<1>10. FlattenSeq([i \in DOMAIN values |-> EncodedSlot(columns, values, i)]) = FlattenSeq(s)
  BY <1>1 DEF s
<1>11. QED
  BY <1>6, <1>9, <1>10 DEF n, off, SlotsFollow

\* The payloads of a row, counted from the first.
PayloadsFollow(payloads, columns, values) ==
    LET start(i) == PayloadOffset(columns, values, i) - MinimumRowSize(columns)
    IN  /\ payloads \in Seq(Nat)
        /\ Len(payloads) = start(Len(columns) + 1)
        /\ \A i \in 1 .. Len(columns) : \A k \in 1 .. Len(Payload(values[i])) :
             /\ start(i) + k \in 1 .. Len(payloads)
             /\ payloads[start(i) + k] = Payload(values[i])[k]

LEMMA PayloadsJoined ==
    ASSUME NEW columns \in Seq(Column), NEW values, Takes(columns, values)
    PROVE  PayloadsFollow(FlattenSeq([i \in DOMAIN values |-> Payload(values[i])]), columns, values)
<1> DEFINE n == Len(columns)
           at(i) == PayloadOffset(columns, values, i)
           m == MinimumRowSize(columns)
           s == [i \in 1 .. n |-> Payload(values[i])]
           f == [i \in 0 .. n |-> at(i + 1) - m]
           lengths == [i \in 1 .. n |-> Len(s[i])]
<1>1. n \in Nat /\ DOMAIN values = 1 .. n
  BY BitmapFits
<1>2. \A i \in 1 .. n : s[i] = Payload(values[i]) /\ s[i] \in Seq(Nat) /\ Len(s[i]) \in Nat
  BY TakenValues
<1>3. /\ at(1) = m /\ \A i \in 1 .. n + 1 : at(i) \in Nat
      /\ \A i \in 1 .. n : at(i + 1) = at(i) + Len(s[i])
  BY <1>2, PayloadPlaces
<1>4. s \in Seq(Seq(Nat)) /\ Len(s) = n
  <2> HIDE DEF n
  <2>1. s = [i \in 1 .. n |-> s[i]]
    OBVIOUS
  <2> HIDE DEF s
  <2> QED BY <1>1, <1>2, <2>1
<1> HIDE DEF at, n, s, m
<1>5. Accumulates(f, lengths, n)
  <2>1. f[0] = 0
    <3>1. 0 \in 0 .. n /\ 1 \in 1 .. n + 1 /\ f[0] = at(0 + 1) - m /\ at(0 + 1) = at(1)
      BY <1>1
    <3> QED BY <1>3, <3>1
  <2>2. ASSUME NEW i \in 1 .. n PROVE f[i] = f[i - 1] + lengths[i]
    <3>1. i \in 0 .. n /\ i - 1 \in 0 .. n /\ (i - 1) + 1 = i /\ i \in 1 .. n + 1 /\ 1 \in 1 .. n + 1
      BY <1>1
    <3>2. f[i] = at(i + 1) - m /\ f[i - 1] = at(i) - m
      BY <3>1
    <3>3. lengths[i] = Len(s[i])
      OBVIOUS
    <3>4. at(i + 1) = at(i) + Len(s[i]) /\ Len(s[i]) \in Nat
          /\ at(i) \in Nat /\ at(1) \in Nat /\ m \in Nat
      BY <1>2, <1>3, <3>1
    <3> QED BY <3>2, <3>3, <3>4
  <2> QED BY <2>1, <2>2 DEF Accumulates
<1>6. /\ FlattenSeq(s) \in Seq(Nat) /\ Len(FlattenSeq(s)) = f[n]
      /\ \A i \in 1 .. n : \A k \in 1 .. Len(s[i]) :
           /\ f[i - 1] + k \in 1 .. f[n]
           /\ FlattenSeq(s)[f[i - 1] + k] = s[i][k]
  <2> HIDE DEF f
  <2> QED BY <1>4, <1>5, FlattenPlaces DEF lengths
<1>7. f[n] = at(n + 1) - m
  BY <1>1
<1>8. ASSUME NEW i \in 1 .. n PROVE f[i - 1] = at(i) - m
  <2>1. i - 1 \in 0 .. n /\ (i - 1) + 1 = i
    BY <1>1
  <2> QED BY <2>1
<1> HIDE DEF f
<1>9. /\ Len(FlattenSeq(s)) = at(n + 1) - m
      /\ \A i \in 1 .. n : \A k \in 1 .. Len(Payload(values[i])) :
           /\ at(i) - m + k \in 1 .. Len(FlattenSeq(s))
           /\ FlattenSeq(s)[at(i) - m + k] = Payload(values[i])[k]
  BY <1>2, <1>6, <1>7, <1>8
<1>10. FlattenSeq([i \in DOMAIN values |-> Payload(values[i])]) = FlattenSeq(s)
  BY <1>1 DEF s
<1>11. QED
  BY <1>6, <1>9, <1>10 DEF n, at, m, PayloadsFollow

\* Where everything is in the row that encode writes.
LEMMA RowPlaces ==
    ASSUME NEW columns \in Seq(Column), NEW values, Takes(columns, values)
    PROVE  LET cells == EncodedRow(columns, values)
           IN  /\ cells \in Seq(Nat)
               /\ Len(cells) = PayloadOffset(columns, values, Len(columns) + 1)
               /\ cells[1] = RowVersion
               /\ \A b \in 1 .. BitmapSize(columns) : cells[b + 1] = NullBitmap(values)[b]
               /\ \A i \in 1 .. Len(columns) : \A c \in 1 .. Width(columns[i].type) :
                    SlotCell(columns, cells, i, c) = EncodedSlot(columns, values, i)[c]
               /\ \A i \in 1 .. Len(columns) : \A k \in 1 .. Len(Payload(values[i])) :
                    cells[PayloadOffset(columns, values, i) + k] = Payload(values[i])[k]
<1> DEFINE n == Len(columns)
           B == BitmapSize(columns)
           m == MinimumRowSize(columns)
           off(i) == ColumnOffset(columns, i)
           at(i) == PayloadOffset(columns, values, i)
           slot(i) == EncodedSlot(columns, values, i)
           head == <<RowVersion>>
           bitmap == NullBitmap(values)
           slots == FlattenSeq([i \in DOMAIN values |-> EncodedSlot(columns, values, i)])
           payloads == FlattenSeq([i \in DOMAIN values |-> Payload(values[i])])
           front == head \o bitmap
           fixed == front \o slots
           cells == fixed \o payloads
<1>1. EncodedRow(columns, values) = cells
  BY DEF EncodedRow
<1>2. n \in Nat /\ B \in Nat /\ bitmap \in Seq(Nat) /\ Len(bitmap) = B
  BY BitmapFits, SlotPlaces
<1>3. /\ off(1) = B + 1 /\ m = off(n + 1) /\ off(1) <= m
      /\ m \in Nat /\ \A i \in 1 .. n + 1 : off(i) \in Nat /\ off(1) <= off(i) /\ at(i) \in Nat
      /\ \A i \in 1 .. n + 1 : m <= at(i)
  <2>1. 1 \in 1 .. n + 1 /\ n + 1 \in 1 .. n + 1 /\ \A i \in 1 .. n + 1 : 1 <= i
    BY <1>2
  <2>2. /\ \A i \in 1 .. n + 1 : off(i) \in Nat /\ off(1) <= off(i)
        /\ off(1) = 1 + B /\ m = off(n + 1)
    BY <2>1, SlotPlaces
  <2>3. \A i \in 1 .. n + 1 : m <= at(i) /\ at(i) \in Nat
    BY <2>1, PayloadPlaces
  <2> HIDE DEF n, B, m, off, at
  <2> QED
    BY <1>2, <2>1, <2>2, <2>3
<1>4. /\ slots \in Seq(Nat) /\ Len(slots) = m - off(1)
      /\ \A i \in 1 .. n : \A c \in 1 .. Width(columns[i].type) :
           /\ off(i) - off(1) + c \in 1 .. Len(slots)
           /\ slots[off(i) - off(1) + c] = slot(i)[c]
  <2>1. SlotsFollow(slots, columns, values)
    BY SlotsJoined
  <2> HIDE DEF slots
  <2> QED BY <2>1 DEF SlotsFollow
<1>5. /\ payloads \in Seq(Nat) /\ Len(payloads) = at(n + 1) - m
      /\ \A i \in 1 .. n : \A k \in 1 .. Len(Payload(values[i])) :
           /\ at(i) - m + k \in 1 .. Len(payloads)
           /\ payloads[at(i) - m + k] = Payload(values[i])[k]
  <2>1. PayloadsFollow(payloads, columns, values)
    BY PayloadsJoined
  <2> HIDE DEF payloads
  <2> QED BY <2>1 DEF PayloadsFollow
<1> HIDE DEF n, B, m, off, at, slot, bitmap, slots, payloads
<1>6. head \in Seq(Nat) /\ Len(head) = 1 /\ head[1] = RowVersion
  BY DEF RowVersion
<1> HIDE DEF head
<1>7. /\ front \in Seq(Nat) /\ Len(front) = off(1) /\ front[1] = RowVersion
      /\ \A b \in 1 .. B : front[b + 1] = bitmap[b]
  <2>1. /\ front \in Seq(Nat) /\ Len(front) = 1 + Len(bitmap)
        /\ \A p \in 1 .. 1 : front[p] = head[p]
        /\ \A p \in 1 .. Len(bitmap) : front[1 + p] = bitmap[p]
    <3>1. head \in Seq(Nat) /\ bitmap \in Seq(Nat) /\ Len(head) = 1
      BY <1>2, <1>6
    <3>2. front = head \o bitmap
      OBVIOUS
    <3> HIDE DEF front
    <3>3. \A n1, r : Len(head) = n1 /\ r = head \o bitmap =>
             /\ r \in Seq(Nat) /\ Len(r) = n1 + Len(bitmap)
             /\ \A p \in 1 .. n1 : r[p] = head[p]
             /\ \A k \in 1 .. Len(bitmap) : r[n1 + k] = bitmap[k]
      BY <3>1, JoinedNumbers
    <3> QED
      BY <3>1, <3>2, <3>3, Zenon
  <2> HIDE DEF front
  <2>2. front[1] = RowVersion
    BY <1>6, <2>1
  <2>3. Len(front) = off(1)
    BY <1>2, <1>3, <2>1
  <2>4. \A b \in 1 .. B : front[b + 1] = bitmap[b]
    <3>1. \A b \in 1 .. B : b + 1 = 1 + b /\ b \in 1 .. Len(bitmap)
      BY <1>2
    <3> QED BY <2>1, <3>1
  <2> QED
    BY <2>1, <2>2, <2>3, <2>4
<1> HIDE DEF front
<1>8. /\ fixed \in Seq(Nat) /\ Len(fixed) = m /\ fixed[1] = RowVersion
      /\ \A b \in 1 .. B : fixed[b + 1] = bitmap[b]
      /\ \A p \in 1 .. Len(slots) : fixed[off(1) + p] = slots[p]
  <2>1. /\ fixed \in Seq(Nat) /\ Len(fixed) = off(1) + Len(slots)
        /\ \A p \in 1 .. off(1) : fixed[p] = front[p]
        /\ \A p \in 1 .. Len(slots) : fixed[off(1) + p] = slots[p]
    <3>1. front \in Seq(Nat) /\ slots \in Seq(Nat) /\ Len(front) = off(1)
      BY <1>4, <1>7
    <3>2. fixed = front \o slots
      OBVIOUS
    <3> HIDE DEF fixed
    <3>3. \A n1, r : Len(front) = n1 /\ r = front \o slots =>
             /\ r \in Seq(Nat) /\ Len(r) = n1 + Len(slots)
             /\ \A p \in 1 .. n1 : r[p] = front[p]
             /\ \A k \in 1 .. Len(slots) : r[n1 + k] = slots[k]
      BY <3>1, JoinedNumbers
    <3> QED
      BY <3>1, <3>2, <3>3, Zenon
  <2>2. 1 \in 1 .. n + 1
    BY <1>2
  <2>3. /\ off(1) \in Nat /\ off(1) = B + 1 /\ m \in Nat /\ off(1) <= m /\ Len(slots) = m - off(1)
    BY <1>3, <1>4, <2>2
  <2>4. 1 \in 1 .. off(1) /\ \A b \in 1 .. B : b + 1 \in 1 .. off(1)
    BY <1>2, <2>3
  <2> HIDE DEF fixed
  <2> QED
    BY <1>7, <2>1, <2>3, <2>4
<1>9. ASSUME NEW i \in 1 .. n, NEW c \in 1 .. Width(columns[i].type)
      PROVE  off(i) + c \in 1 .. m /\ fixed[off(i) + c] = slot(i)[c]
  <2>1. /\ off(i) - off(1) + c \in 1 .. Len(slots) /\ off(i) \in Nat /\ off(1) \in Nat
        /\ slots[off(i) - off(1) + c] = slot(i)[c] /\ c \in Int
    <3>1. i \in 1 .. n + 1 /\ 1 \in 1 .. n + 1
      BY <1>2
    <3>2. Width(columns[i].type) \in 1 .. 2
      BY WidthsAreSizes DEF n
    <3> QED BY <1>3, <1>4, <3>1, <3>2
  <2>2. off(1) + (off(i) - off(1) + c) = off(i) + c
    BY <2>1
  <2>3. fixed[off(1) + (off(i) - off(1) + c)] = slots[off(i) - off(1) + c]
    BY <1>8, <2>1
  <2>4. off(1) + (off(i) - off(1) + c) \in 1 .. m
    BY <1>3, <1>4, <2>1, SMTT(40)
  <2> QED
    BY <2>1, <2>2, <2>3, <2>4
<1> HIDE DEF fixed
<1>10. /\ cells \in Seq(Nat) /\ Len(cells) = at(n + 1)
       /\ \A p \in 1 .. m : cells[p] = fixed[p]
       /\ \A p \in 1 .. Len(payloads) : cells[m + p] = payloads[p]
  <2>1. n + 1 \in 1 .. n + 1
    BY <1>2
  <2>2. m \in Nat /\ at(n + 1) \in Nat
    BY <1>3, <2>1
  <2>3. /\ cells \in Seq(Nat) /\ Len(cells) = m + Len(payloads)
        /\ \A p \in 1 .. m : cells[p] = fixed[p]
        /\ \A p \in 1 .. Len(payloads) : cells[m + p] = payloads[p]
    <3>1. fixed \in Seq(Nat) /\ payloads \in Seq(Nat) /\ Len(fixed) = m
      BY <1>5, <1>8
    <3>2. cells = fixed \o payloads
      OBVIOUS
    <3> HIDE DEF cells
    <3>3. \A n1, r : Len(fixed) = n1 /\ r = fixed \o payloads =>
             /\ r \in Seq(Nat) /\ Len(r) = n1 + Len(payloads)
             /\ \A p \in 1 .. n1 : r[p] = fixed[p]
             /\ \A k \in 1 .. Len(payloads) : r[n1 + k] = payloads[k]
      BY <3>1, JoinedNumbers
    <3> QED
      BY <3>1, <3>2, <3>3, Zenon
  <2> HIDE DEF cells
  <2> QED
    BY <1>5, <2>2, <2>3
<1> HIDE DEF cells
<1>11. ASSUME NEW i \in 1 .. n, NEW k \in 1 .. Len(Payload(values[i]))
       PROVE  cells[at(i) + k] = Payload(values[i])[k]
  <2>1. at(i) - m + k \in 1 .. Len(payloads) /\ payloads[at(i) - m + k] = Payload(values[i])[k]
        /\ at(i) \in Nat /\ m \in Nat /\ k \in Int
    <3>1. i \in 1 .. n + 1
      BY <1>2
    <3>2. Len(Payload(values[i])) \in Nat
      BY TakenValues DEF n
    <3> QED BY <1>3, <1>5, <3>1, <3>2
  <2>2. m + (at(i) - m + k) = at(i) + k
    BY <2>1
  <2> QED
    BY <1>10, <2>1, <2>2
<1>12. cells[1] = RowVersion /\ \A b \in 1 .. B : cells[b + 1] = bitmap[b]
  <2>1. 1 \in 1 .. m /\ \A b \in 1 .. B : b + 1 \in 1 .. m
    BY <1>2, <1>3
  <2> QED
    BY <1>8, <1>10, <2>1
<1>13. \A i \in 1 .. n : \A c \in 1 .. Width(columns[i].type) : cells[off(i) + c] = slot(i)[c]
  BY <1>9, <1>10
<1>14. QED
  BY <1>1, <1>10, <1>11, <1>12, <1>13 DEF SlotCell, n, B, off, at, slot, bitmap

-----------------------------------------------------------------------------
(* What validate and decode make of it.                                    *)

\* The cells that column i adds to the offset validate expects.
PayloadSize(columns, cells, i) ==
    IF IsNull(cells, i) \/ columns[i].type \notin Variable THEN 0 ELSE SlotCell(columns, cells, i, 2)

LEMMA ExpectedOffsets ==
    ASSUME NEW columns \in Seq(Column), NEW cells,
           \A i \in 1 .. Len(columns) : PayloadSize(columns, cells, i) \in Nat
    PROVE  LET expected == ExpectedOffset(columns, cells)
           IN  /\ expected[1] = MinimumRowSize(columns)
               /\ \A i \in 1 .. Len(columns) + 1 : expected[i] \in Nat
               /\ \A i \in 1 .. Len(columns) :
                    expected[i + 1] = expected[i] + PayloadSize(columns, cells, i)
<1> DEFINE n == Len(columns)
           m == MinimumRowSize(columns)
           v == [i \in 1 .. n |-> PayloadSize(columns, cells, i)]
           total == [i \in 0 .. n |-> SumOn(v, 1 .. i, n)]
           Step(e, i) == IF i = 1 THEN m
                         ELSE IF IsNull(cells, i - 1) \/ columns[i - 1].type \notin Variable THEN e[i - 1]
                         ELSE e[i - 1] + SlotCell(columns, cells, i - 1, 2)
           Expects(e) == e = [i \in 1 .. n + 1 |-> Step(e, i)]
           expected == CHOOSE e : Expects(e)
<1>1. n \in Nat /\ m \in Nat
  <2>1. n \in Nat /\ n + 1 \in 1 .. n + 1
    OBVIOUS
  <2> QED BY <2>1, SlotPlaces
<1>2. ExpectedOffset(columns, cells) = expected
  BY Zenon DEF ExpectedOffset
<1>3. \A i \in 1 .. n : v[i] = PayloadSize(columns, cells, i) /\ v[i] \in Nat
  OBVIOUS
<1>4. Accumulates(total, v, n) /\ \A i \in 0 .. n : total[i] \in Nat
  <2> HIDE DEF v
  <2> QED BY <1>1, <1>3, SumsAccumulate
<1> HIDE DEF total, v
<1>5. total[0] = 0 /\ \A i \in 1 .. n : total[i] = total[i - 1] + v[i]
  BY <1>4 DEF Accumulates
<1>6. ASSUME NEW e, NEW i \in 2 .. n + 1, e[i - 1] \in Nat
      PROVE  i - 1 \in 1 .. n /\ Step(e, i) = e[i - 1] + v[i - 1]
  <2>1. i - 1 \in 1 .. n /\ i # 1
    BY <1>1
  <2>2. v[i - 1] = PayloadSize(columns, cells, i - 1)
    BY <1>3, <2>1
  <2>3. CASE IsNull(cells, i - 1) \/ columns[i - 1].type \notin Variable
    BY <1>6, <2>1, <2>2, <2>3 DEF PayloadSize
  <2>4. CASE ~(IsNull(cells, i - 1) \/ columns[i - 1].type \notin Variable)
    BY <2>1, <2>2, <2>4 DEF PayloadSize
  <2> QED BY <2>3, <2>4
<1>7. \E e : Expects(e)
  <2> DEFINE e == [i \in 1 .. n + 1 |-> m + total[i - 1]]
  <2>1. ASSUME NEW i \in 1 .. n + 1 PROVE e[i] = Step(e, i)
    <3>1. i - 1 \in 0 .. n
      BY <1>1
    <3>2. CASE i = 1
      BY <1>1, <1>5, <3>1, <3>2
    <3>3. CASE i # 1
      <4>1. i \in 2 .. n + 1 /\ i - 1 \in 1 .. n /\ i - 1 \in 1 .. n + 1 /\ i - 2 \in 0 .. n
            /\ (i - 1) - 1 = i - 2
        BY <1>1, <3>3
      <4>2. e[i] = m + total[i - 1] /\ e[i - 1] = m + total[i - 2]
        BY <4>1
      <4>3. total[i - 1] = total[i - 2] + v[i - 1] /\ v[i - 1] \in Nat /\ total[i - 2] \in Nat
        BY <1>3, <1>4, <1>5, <4>1
      <4> HIDE DEF e, Step
      <4>4. e[i - 1] \in Nat
        BY <1>1, <4>2, <4>3
      <4>5. Step(e, i) = e[i - 1] + v[i - 1]
        BY <1>6, <4>1, <4>4
      <4> QED BY <1>1, <4>2, <4>3, <4>5
    <3> QED BY <3>2, <3>3
  <2> HIDE DEF Step
  <2>2. e = [i \in 1 .. n + 1 |-> Step(e, i)]
    BY <2>1
  <2> QED BY <2>2, Zenon
<1>8. Expects(expected)
  <2> HIDE DEF Expects
  <2> QED BY <1>7, Zenon
<1> HIDE DEF expected
<1>9. \A i \in 1 .. n + 1 : expected[i] = Step(expected, i)
  <2> HIDE DEF Step
  <2> QED BY <1>8
<1>10. expected[1] = m
  BY <1>1, <1>9
<1> DEFINE Bad == {i \in 1 .. n + 1 : expected[i] \notin Nat}
<1> HIDE DEF Step, Expects
<1>11. ASSUME Bad # {} PROVE FALSE
  <2>1. PICK i \in Bad : \A j \in Bad : i <= j
    <3>1. Bad \subseteq Nat
      BY <1>1
    <3> HIDE DEF Bad
    <3> QED BY <1>11, <3>1, LeastExists
  <2>2. i # 1
    BY <1>1, <1>10, <2>1
  <2>3. i \in 2 .. n + 1 /\ i - 1 \in 1 .. n + 1 /\ i \in 1 .. n + 1 /\ ~(i <= i - 1)
    BY <1>1, <2>1, <2>2
  <2>4. expected[i - 1] \in Nat
    BY <2>1, <2>3
  <2>5. i - 1 \in 1 .. n /\ expected[i] = expected[i - 1] + v[i - 1]
    BY <1>6, <1>9, <2>3, <2>4
  <2>6. expected[i] \in Nat
    BY <1>3, <2>4, <2>5
  <2> QED BY <2>1, <2>6
<1>12. ASSUME NEW i \in 1 .. n PROVE expected[i + 1] = expected[i] + PayloadSize(columns, cells, i)
  <2>1. i + 1 \in 2 .. n + 1 /\ i + 1 \in 1 .. n + 1 /\ i \in 1 .. n + 1 /\ (i + 1) - 1 = i
    BY <1>1
  <2>2. expected[i] \in Nat
    BY <1>11, <2>1
  <2>3. Step(expected, i + 1) = expected[(i + 1) - 1] + v[(i + 1) - 1]
    BY <1>6, <2>1, <2>2
  <2> QED BY <1>3, <1>9, <2>1, <2>3
<1>13. QED
  BY <1>2, <1>10, <1>11, <1>12 DEF n, m

LEMMA DigitShows ==
    ASSUME NEW d, \A k \in 1 .. 8 : d[k] \in {0, 1}, NEW k \in 1 .. 8
    PROVE  (Binary(d) \div 2 ^ (k - 1)) % 2 = d[k]
<1> DEFINE power == 2 ^ (k - 1)
<1>1. /\ power \in Nat
      /\ k = 1 => power = 1
      /\ k = 2 => power = 2
      /\ k = 3 => power = 4
      /\ k = 4 => power = 8
      /\ k = 5 => power = 16
      /\ k = 6 => power = 32
      /\ k = 7 => power = 64
      /\ k = 8 => power = 128
      /\ k \in {1, 2, 3, 4, 5, 6, 7, 8}
  BY Weights, Zenon
<1> HIDE DEF power
<1>2. (Binary(d) \div power) % 2 = d[k]
  BY <1>1, BinaryDigits
<1>3. QED
  BY <1>2 DEF power

\* The bitmap says which values are Null.
LEMMA NullsShow ==
    ASSUME NEW columns \in Seq(Column), NEW values, Takes(columns, values),
           NEW i \in 1 .. Len(columns)
    PROVE  IsNull(EncodedRow(columns, values), i) <=> values[i] = Null
<1> DEFINE b == BitmapByte(i)
           cells == EncodedRow(columns, values)
<1>1. /\ BitmapSize(values) = BitmapSize(columns) /\ Len(values) \in Nat
      /\ DOMAIN values = 1 .. Len(values) /\ Len(values) = Len(columns)
  BY BitmapFits
<1>2. b \in 1 .. BitmapSize(columns) /\ \E k \in 1 .. 8 : i = InByte(b, k)
  BY <1>1, BytesEnough
<1>3. PICK k \in 1 .. 8 : i = InByte(b, k)
  BY <1>2
<1>4. b \in Nat \ {0}
  BY <1>2
<1>5. PICK d : /\ \A j \in 1 .. 8 : d[j] \in {0, 1}
               /\ NullBitmap(values)[b] = Binary(d)
               /\ \A j \in 1 .. 8 :
                    d[j] = 1 <=> InByte(b, j) <= Len(values) /\ values[InByte(b, j)] = Null
  <2>1. b \in 1 .. BitmapSize(values)
    BY <1>1, <1>2
  <2> HIDE DEF b
  <2> QED BY <1>1, <2>1, BitmapDigits, ZenonT(40)
<1>6. d[k] = 1 <=> values[i] = Null
  BY <1>1, <1>3, <1>5, SMTT(40)
<1>7. cells[b + 1] = Binary(d)
  BY <1>2, <1>5, RowPlaces
<1>8. BitmapBit(i) = 2 ^ (k - 1)
  BY <1>3, <1>4, ByteColumns
<1>9. (Binary(d) \div BitmapBit(i)) % 2 = d[k]
  BY <1>5, <1>8, DigitShows
<1>10. QED
  BY <1>6, <1>7, <1>9 DEF IsNull

LEMMA PayloadSizesShow ==
    ASSUME NEW columns \in Seq(Column), NEW values, Takes(columns, values),
           NEW i \in 1 .. Len(columns)
    PROVE  PayloadSize(columns, EncodedRow(columns, values), i) = Len(Payload(values[i]))
<1> DEFINE cells == EncodedRow(columns, values)
           type == columns[i].type
<1>1. IsNull(cells, i) <=> values[i] = Null
  BY NullsShow
<1>2. type \in DataType /\ (values[i] = Null \/ values[i] \in ValueOf(type))
  BY TakenValues
<1>3. CASE values[i] = Null \/ type \notin Variable
  <2>1. Payload(values[i]) = <<>>
    BY <1>2, <1>3, PayloadFacts
  <2>2. PayloadSize(columns, cells, i) = 0
    BY <1>1, <1>3 DEF PayloadSize
  <2> QED BY <2>1, <2>2
<1>4. CASE values[i] # Null /\ type \in Variable
  <2>1. PayloadSize(columns, cells, i) = SlotCell(columns, cells, i, 2)
    BY <1>1, <1>4 DEF PayloadSize
  <2>2. 2 \in 1 .. Width(type)
    BY <1>4 DEF Width
  <2>3. SlotCell(columns, cells, i, 2) = EncodedSlot(columns, values, i)[2]
    BY <2>2, RowPlaces
  <2>4. EncodedSlot(columns, values, i)[2] = Len(Payload(values[i]))
    BY <1>4, SlotFits
  <2> QED BY <2>1, <2>3, <2>4
<1>5. QED
  BY <1>3, <1>4

\* validate expects each payload where encode puts it.
LEMMA OffsetsExpected ==
    ASSUME NEW columns \in Seq(Column), NEW values, Takes(columns, values)
    PROVE  \A i \in 1 .. Len(columns) + 1 :
             ExpectedOffset(columns, EncodedRow(columns, values))[i] = PayloadOffset(columns, values, i)
<1> DEFINE n == Len(columns)
           cells == EncodedRow(columns, values)
           expected == ExpectedOffset(columns, cells)
           at(i) == PayloadOffset(columns, values, i)
           size(i) == Len(Payload(values[i]))
           Bad == {i \in 1 .. n + 1 : expected[i] # at(i)}
<1>1. n \in Nat /\ \A i \in 1 .. n : PayloadSize(columns, cells, i) = size(i) /\ size(i) \in Nat
  BY PayloadSizesShow, TakenValues
<1>2. /\ expected[1] = MinimumRowSize(columns)
      /\ \A i \in 1 .. n : expected[i + 1] = expected[i] + size(i)
  <2>1. /\ expected[1] = MinimumRowSize(columns)
        /\ \A i \in 1 .. n : expected[i + 1] = expected[i] + PayloadSize(columns, cells, i)
    <3> HIDE DEF cells
    <3> QED BY <1>1, ExpectedOffsets
  <2> HIDE DEF cells, expected, n, size
  <2> QED BY <1>1, <2>1
<1>3. at(1) = MinimumRowSize(columns) /\ \A i \in 1 .. n : at(i + 1) = at(i) + size(i)
  BY PayloadPlaces
<1>4. ASSUME Bad # {} PROVE FALSE
  <2> HIDE DEF expected, at, n, size
  <2>1. PICK i \in Bad : \A j \in Bad : i <= j
    <3>1. Bad \subseteq Nat
      BY <1>1
    <3> HIDE DEF Bad
    <3> QED BY <1>4, <3>1, LeastExists
  <2>2. i # 1
    BY <1>2, <1>3, <2>1
  <2>3. i - 1 \in 1 .. n /\ i - 1 \in 1 .. n + 1 /\ (i - 1) + 1 = i /\ ~(i <= i - 1)
    BY <1>1, <2>1, <2>2
  <2>4. expected[i - 1] = at(i - 1)
    BY <2>1, <2>3
  <2>5. expected[i] = expected[i - 1] + size(i - 1) /\ at(i) = at(i - 1) + size(i - 1)
    BY <1>2, <1>3, <2>3
  <2> QED BY <2>1, <2>4, <2>5
<1>5. QED
  BY <1>4

LEMMA SubSeqIs ==
    ASSUME NEW cells \in Seq(Nat), NEW s \in Seq(Nat), NEW at \in Nat, at + Len(s) <= Len(cells),
           \A k \in 1 .. Len(s) : cells[at + k] = s[k]
    PROVE  SubSeq(cells, at + 1, at + Len(s)) = s
<1> DEFINE r == SubSeq(cells, at + 1, at + Len(s))
<1>1. Len(s) \in Nat /\ s = [k \in 1 .. Len(s) |-> s[k]]
  OBVIOUS
<1>2. r = [k \in 1 .. Len(s) |-> cells[at + k]]
  <2>1. r = [k \in 1 .. (at + Len(s)) - (at + 1) + 1 |-> cells[k + (at + 1) - 1]]
    OBVIOUS
  <2>2. (at + Len(s)) - (at + 1) + 1 = Len(s) /\ \A k \in 1 .. Len(s) : k + (at + 1) - 1 = at + k
    BY <1>1
  <2> HIDE DEF r
  <2> QED BY <2>1, <2>2
<1>3. QED
  BY <1>1, <1>2

\* What decode finds in the slot of a column.
LEMMA ColumnDecodes ==
    ASSUME NEW columns \in Seq(Column), NEW values, Takes(columns, values),
           NEW i \in 1 .. Len(columns)
    PROVE  /\ ValidColumn(columns, EncodedRow(columns, values), i)
           /\ DecodedColumn(columns, EncodedRow(columns, values), i) = values[i]
<1> DEFINE n == Len(columns)
           cells == EncodedRow(columns, values)
           type == columns[i].type
           value == values[i]
           slot == EncodedSlot(columns, values, i)
           cell(c) == SlotCell(columns, cells, i, c)
           at(j) == PayloadOffset(columns, values, j)
<1>1. IsNull(cells, i) <=> value = Null
  BY NullsShow
<1>2. /\ type \in DataType /\ (value = Null \/ value \in ValueOf(type))
      /\ value = Null => columns[i].nullable
      /\ Width(type) \in 1 .. 2
  <2>1. value = Null => columns[i].nullable
    <3>1. value \in ValueOf(type) => value # Null
      BY TakenValues, ValueFacts
    <3> QED BY <3>1 DEF Takes
  <2> QED BY <2>1, TakenValues, WidthsAreSizes
<1>3. \A c \in 1 .. Width(type) : cell(c) = slot[c]
  BY RowPlaces
<1>4. CASE value = Null
  <2>1. \A c \in 1 .. Width(type) : cell(c) = 0
    BY <1>3, <1>4, SlotFits
  <2>2. ValidNull(columns, cells, i)
    BY <1>2, <1>4, <2>1 DEF ValidNull
  <2>3. ValidColumn(columns, cells, i) /\ DecodedColumn(columns, cells, i) = Null
    BY <1>1, <1>4, <2>2 DEF ValidColumn, DecodedColumn
  <2> QED BY <1>4, <2>3
<1>5. CASE value # Null /\ type = "bool"
  <2>1. value = <<"bool", value[2]>> /\ value[2] \in BOOLEAN /\ 1 \in 1 .. Width(type)
        /\ type \notin Variable
    BY <1>2, <1>5, ValueFacts DEF Variable
  <2>2. cell(1) = IF value[2] THEN 1 ELSE 0
    <3>1. slot[1] = IF value[2] THEN 1 ELSE 0
      BY <1>5, SlotFits
    <3> QED BY <1>3, <2>1, <3>1
  <2>3. cell(1) \in {0, 1} /\ (cell(1) = 1) = value[2]
    BY <2>1, <2>2
  <2>4. ~IsNull(cells, i)
    BY <1>1, <1>5
  <2>5. ValidColumn(columns, cells, i)
    BY <1>5, <2>1, <2>3, <2>4 DEF ValidColumn
  <2>6. DecodedColumn(columns, cells, i) = <<type, cell(1) = 1>>
    BY <1>5, <2>1, <2>4 DEF DecodedColumn
  <2> QED BY <1>5, <2>1, <2>3, <2>5, <2>6
<1>6. CASE value # Null /\ type \in Variable
  <2>1. value = <<type, value[2]>> /\ Payload(value) = value[2] /\ type # "bool"
        /\ 1 \in 1 .. Width(type) /\ 2 \in 1 .. Width(type)
    BY <1>2, <1>6, ValueFacts, PayloadFacts DEF Width, Variable
  <2>2. cell(1) = at(i) /\ cell(2) = Len(value[2])
    <3>1. slot[1] = at(i) /\ slot[2] = Len(Payload(value))
      BY <1>6, SlotFits
    <3> QED BY <1>3, <2>1, <3>1
  <2>3. /\ cells \in Seq(Nat) /\ Len(cells) = at(n + 1)
        /\ \A k \in 1 .. Len(value[2]) : cells[at(i) + k] = value[2][k]
    BY <2>1, RowPlaces
  <2>4. /\ value[2] \in Seq(Nat) /\ Len(value[2]) \in Nat
        /\ type = "text" => value[2] \in Seq(0 .. 127)
    <3>1. Payload(value) \in Seq(Nat) /\ Len(Payload(value)) \in Nat
      BY TakenValues
    <3>2. type = "text" => value[2] \in Seq(0 .. 127)
      BY <1>2, <1>6, ValueFacts
    <3> QED BY <2>1, <3>1, <3>2, Zenon
  <2>5. at(i) \in Nat /\ at(i) + Len(value[2]) <= Len(cells) /\ Len(cells) \in Nat
    <3>1. i \in 1 .. n + 1 /\ i + 1 \in 1 .. n + 1 /\ n + 1 \in 1 .. n + 1 /\ i + 1 <= n + 1
      OBVIOUS
    <3>2. at(i + 1) = at(i) + Len(value[2]) /\ at(i) \in Nat /\ at(n + 1) \in Nat
          /\ at(i + 1) <= at(n + 1)
      BY <2>1, <3>1, PayloadPlaces
    <3> QED BY <2>3, <3>2
  <2>6. SubSeq(cells, at(i) + 1, at(i) + Len(value[2])) = value[2]
    <3> HIDE DEF cells, at, value
    <3> QED BY <2>3, <2>4, <2>5, SubSeqIs
  <2>7. DecodedPayload(columns, cells, i) = value[2]
    BY <2>2, <2>6 DEF DecodedPayload
  <2>8. type = "text" => IsText(value[2])
    <3>1. ASSUME type = "text" PROVE \A k \in DOMAIN value[2] : value[2][k] < 128
      <4>1. value[2] \in Seq(0 .. 127)
        BY <2>4, <3>1
      <4>2. ASSUME NEW s \in Seq(0 .. 127), NEW k \in DOMAIN s PROVE s[k] < 128
        <5>1. k \in 1 .. Len(s)
          OBVIOUS
        <5>2. 127 \in Nat
          OBVIOUS
        <5>3. \A j \in 1 .. Len(s) : s[j] \in 0 .. 127
          BY <5>2, BytesAreNumbers
        <5>4. s[k] \in 0 .. 127
          BY <5>1, <5>3, Zenon
        <5>5. \A x \in 0 .. 127 : x < 128
          OBVIOUS
        <5> QED BY <5>4, <5>5, Zenon
      <4> QED BY <4>1, <4>2, Zenon
    <3> QED BY <3>1 DEF IsText
  <2>9. ExpectedOffset(columns, cells)[i] = at(i)
    <3>1. i \in 1 .. n + 1
      OBVIOUS
    <3> QED BY <3>1, OffsetsExpected
  <2>10. ValidVariable(columns, cells, i)
    BY <2>2, <2>5, <2>7, <2>8, <2>9 DEF ValidVariable
  <2>11. ~IsNull(cells, i)
    BY <1>1, <1>6
  <2>12. ValidColumn(columns, cells, i)
    BY <1>6, <2>1, <2>10, <2>11 DEF ValidColumn
  <2>13. DecodedColumn(columns, cells, i) = <<type, DecodedPayload(columns, cells, i)>>
    BY <1>6, <2>1, <2>11 DEF DecodedColumn
  <2> QED BY <2>1, <2>7, <2>12, <2>13
<1>7. CASE value # Null /\ type \notin Variable \cup {"bool"}
  <2>1. value = <<type, value[2]>> /\ 1 \in 1 .. Width(type)
    BY <1>2, <1>7, ValueFacts
  <2>2. cell(1) = value[2]
    <3>1. slot[1] = value[2]
      BY <1>7, SlotFits
    <3> QED BY <1>3, <2>1, <3>1
  <2>3. ~IsNull(cells, i) /\ type # "bool" /\ type \notin Variable
    BY <1>1, <1>7
  <2>4. ValidColumn(columns, cells, i)
    BY <2>3 DEF ValidColumn
  <2>5. DecodedColumn(columns, cells, i) = <<type, cell(1)>>
    BY <2>3 DEF DecodedColumn
  <2> QED BY <2>1, <2>2, <2>4, <2>5
<1>8. QED
  BY <1>4, <1>5, <1>6, <1>7

\* decode's projection is of all columns, none of them out of bounds.
LEMMA AllProjected ==
    ASSUME NEW columns, NEW cells
    PROVE  DecodedRows(columns, cells) =
             IF ValidRow(columns, cells)
             THEN {[k \in DOMAIN columns |-> DecodedColumn(columns, cells, k)]} ELSE {}
<1> DEFINE all == [k \in DOMAIN columns |-> k]
<1>1. DOMAIN all = DOMAIN columns /\ \A k \in DOMAIN columns : all[k] = k
  OBVIOUS
<1>2. DecodedRows(columns, cells) = ProjectedRows(columns, cells, all)
  BY DEF DecodedRows
<1> HIDE DEF all
<1>3. DecodedRows(columns, cells) =
        IF ValidRow(columns, cells)
        THEN {[k \in DOMAIN all |-> DecodedColumn(columns, cells, all[k])]} ELSE {}
  BY <1>1, <1>2 DEF ProjectedRows
<1>4. [k \in DOMAIN all |-> DecodedColumn(columns, cells, all[k])]
        = [k \in DOMAIN columns |-> DecodedColumn(columns, cells, k)]
  BY <1>1
<1>5. QED
  BY <1>3, <1>4

\* A row that encode takes decodes to the values it was written with.
LEMMA RowDecodes ==
    ASSUME NEW columns \in Seq(Column), NEW values, Takes(columns, values),
           Len(EncodedRow(columns, values)) <= MaxRowSize
    PROVE  DecodedRows(columns, EncodedRow(columns, values)) = {values}
<1> DEFINE n == Len(columns)
           cells == EncodedRow(columns, values)
<1>1. n \in Nat /\ DOMAIN columns = 1 .. n /\ Len(values) = n /\ DOMAIN values = 1 .. n
  BY BitmapFits
<1>2. n + 1 \in 1 .. n + 1 /\ 1 \in 1 .. n + 1 /\ 1 <= n + 1
  BY <1>1
<1>3. Len(cells) = PayloadOffset(columns, values, n + 1) /\ cells[1] = RowVersion
  BY RowPlaces
<1>4. /\ MinimumRowSize(columns) <= Len(cells) /\ MinimumRowSize(columns) \in Nat
      /\ Len(cells) \in Nat /\ Len(cells) <= MaxRowSize
  BY <1>2, <1>3, PayloadPlaces, SlotPlaces
<1>5. ExpectedOffset(columns, cells)[n + 1] = Len(cells)
  BY <1>2, <1>3, OffsetsExpected
<1>6. \A i \in 1 .. n : ValidColumn(columns, cells, i) /\ DecodedColumn(columns, cells, i) = values[i]
  BY ColumnDecodes
<1>7. MaxRowSize \in Int
  BY SlottedPageAssumption DEF MaxRowSize
<1>8. ValidRow(columns, cells)
  <2> HIDE DEF cells
  <2> QED BY <1>1, <1>3, <1>4, <1>5, <1>6, <1>7 DEF ValidRow
<1>9. [k \in DOMAIN columns |-> DecodedColumn(columns, cells, k)] = values
  <2>1. values = [k \in 1 .. n |-> values[k]]
    BY <1>1 DEF Takes
  <2> HIDE DEF cells
  <2> QED BY <1>1, <1>6, <2>1
<1>10. QED
  BY <1>8, <1>9, AllProjected

-----------------------------------------------------------------------------
(* The lists of values rows are given.                                     *)

LEMMA ListsOfValues ==
    ASSUME NEW columns \in Seq(Column), NEW values \in ValueLists(columns)
    PROVE  /\ values \in Seq(Value) /\ Len(values) = Len(columns)
           /\ \A i \in 1 .. Len(columns) :
                values[i] = Null \/ values[i] \in ValueOf(columns[i].type)
<1> DEFINE n == Len(columns)
           Step(l, i) == IF i = 0 THEN {<<>>} ELSE Longer(l[i - 1], columns[i].type)
           Lists(l) == l = [i \in 0 .. n |-> Step(l, i)]
           lists == CHOOSE l : Lists(l)
           Partial(m) == \E l : \A i \in 0 .. m : l[i] = Step(l, i)
           Good(list, m) ==
             /\ list \in Seq(Value) /\ Len(list) = m
             /\ \A i \in 1 .. m : list[i] = Null \/ list[i] \in ValueOf(columns[i].type)
<1>1. n \in Nat
  OBVIOUS
<1>2. ValueLists(columns) = lists[n]
  BY Zenon DEF ValueLists
<1>3. /\ \A l : Step(l, 0) = {<<>>}
      /\ \A l, i : i # 0 => Step(l, i) = Longer(l[i - 1], columns[i].type)
  OBVIOUS
<1> HIDE DEF Step
<1>4. \E l : Lists(l)
  <2> DEFINE Without == {m \in 0 .. n : ~Partial(m)}
  <2>1. ASSUME Without # {} PROVE FALSE
    <3>1. PICK m \in Without : \A j \in Without : m <= j
      <4>1. Without \subseteq Nat
        BY <1>1
      <4> HIDE DEF Without
      <4> QED BY <2>1, <4>1, LeastExists
    <3>2. CASE m = 0
      <4> DEFINE l == [i \in 0 .. 0 |-> {<<>>}]
      <4>1. \A i \in 0 .. 0 : l[i] = Step(l, i)
        BY <1>3
      <4> HIDE DEF l
      <4>2. Partial(0)
        BY <4>1
      <4> HIDE DEF Partial
      <4> QED BY <3>1, <3>2, <4>2
    <3>3. CASE m # 0
      <4>1. m \in 1 .. n /\ m - 1 \in 0 .. n /\ ~(m <= m - 1) /\ m \in Nat
        <5> HIDE DEF Partial
        <5> QED BY <1>1, <3>1, <3>3
      <4>2. Partial(m - 1)
        <5> HIDE DEF Partial
        <5> QED BY <3>1, <4>1
      <4>3. PICK l : \A i \in 0 .. m - 1 : l[i] = Step(l, i)
        BY <4>2
      <4> DEFINE u == [i \in 0 .. m |-> IF i = m THEN Longer(l[m - 1], columns[m].type) ELSE l[i]]
      <4>4. ASSUME NEW i \in 0 .. m PROVE u[i] = Step(u, i)
        <5>1. CASE i = m
          <6>1. u[m - 1] = l[m - 1] /\ u[i] = Longer(l[m - 1], columns[m].type) /\ i # 0
            BY <4>1, <5>1
          <6> HIDE DEF u
          <6> QED BY <1>3, <5>1, <6>1
        <5>2. CASE i # m
          <6>1. i \in 0 .. m - 1 /\ (i # 0 => i - 1 \in 0 .. m /\ i - 1 # m)
            BY <4>1, <5>2
          <6>2. u[i] = l[i] /\ (i # 0 => u[i - 1] = l[i - 1])
            BY <5>2, <6>1
          <6>3. l[i] = Step(l, i)
            BY <4>3, <6>1
          <6> HIDE DEF u
          <6> QED BY <1>3, <6>2, <6>3
        <5> QED BY <5>1, <5>2
      <4> HIDE DEF u
      <4>5. Partial(m)
        BY <4>4
      <4> HIDE DEF Partial
      <4> QED BY <3>1, <4>5
    <3> QED BY <3>2, <3>3
  <2>2. PICK l : \A i \in 0 .. n : l[i] = Step(l, i)
    <3>1. n \in 0 .. n
      BY <1>1
    <3>2. Partial(n)
      <4> HIDE DEF Partial
      <4> QED BY <2>1, <3>1
    <3> QED BY <3>2
  <2> DEFINE u == [i \in 0 .. n |-> l[i]]
  <2>3. ASSUME NEW i \in 0 .. n PROVE u[i] = Step(u, i)
    <3>1. i # 0 => i - 1 \in 0 .. n
      BY <1>1
    <3>2. u[i] = l[i] /\ (i # 0 => u[i - 1] = l[i - 1])
      BY <3>1
    <3>3. l[i] = Step(l, i)
      BY <2>2
    <3> HIDE DEF u
    <3> QED BY <1>3, <3>2, <3>3
  <2>4. u = [i \in 0 .. n |-> Step(u, i)]
    BY <2>3
  <2> QED BY <2>4, Zenon
<1>5. \A i \in 0 .. n : lists[i] = Step(lists, i)
  <2>1. Lists(lists)
    <3> HIDE DEF Lists
    <3> QED BY <1>4, Zenon
  <2> HIDE DEF lists
  <2> QED BY <2>1
<1> HIDE DEF lists
<1>6. ASSUME NEW m \in 1 .. n, NEW shorter, NEW list \in Longer(shorter, columns[m].type),
             \A l \in shorter : Good(l, m - 1)
      PROVE  Good(list, m)
  <2>1. PICK l \in shorter, value \in {Null} \cup ValuesOf[columns[m].type] : list = Append(l, value)
    BY DEF Longer
  <2>2. columns[m].type \in DataType
    BY WidthsAreSizes
  <2>3. value = Null \/ value \in ValueOf(columns[m].type)
    BY <2>1, <2>2, StoredTableAssumption
  <2>4. value \in Value
    BY <2>2, <2>3 DEF Value
  <2>5. Good(l, m - 1)
    BY <1>6
  <2>6. /\ list \in Seq(Value) /\ Len(list) = m /\ list[m] = value
        /\ \A i \in 1 .. m - 1 : list[i] = l[i]
    BY <1>1, <2>1, <2>4, <2>5
  <2>7. ASSUME NEW i \in 1 .. m PROVE list[i] = Null \/ list[i] \in ValueOf(columns[i].type)
    <3>1. i = m \/ i \in 1 .. m - 1
      BY <1>1
    <3> QED BY <2>3, <2>5, <2>6, <3>1
  <2> QED BY <2>6, <2>7
<1> DEFINE Bad == {i \in 0 .. n : \E list \in lists[i] : ~Good(list, i)}
<1>7. ASSUME Bad # {} PROVE FALSE
  <2>1. PICK i \in Bad : \A j \in Bad : i <= j
    <3>1. Bad \subseteq Nat
      BY <1>1
    <3> HIDE DEF Bad
    <3> QED BY <1>7, <3>1, LeastExists
  <2>2. i \in 0 .. n /\ \E list \in lists[i] : ~Good(list, i)
    BY <2>1
  <2>3. CASE i = 0
    <3>1. lists[0] = {<<>>}
      BY <1>3, <1>5, <2>2, <2>3
    <3>2. Good(<<>>, 0)
      OBVIOUS
    <3> QED BY <2>2, <2>3, <3>1, <3>2
  <2>4. CASE i # 0
    <3>1. i \in 1 .. n /\ i - 1 \in 0 .. n /\ ~(i <= i - 1)
      BY <1>1, <2>2, <2>4
    <3>2. \A l \in lists[i - 1] : Good(l, i - 1)
      BY <2>1, <3>1
    <3>3. lists[i] = Longer(lists[i - 1], columns[i].type)
      BY <1>3, <1>5, <2>2, <2>4
    <3> HIDE DEF Good
    <3> QED BY <1>6, <2>2, <3>1, <3>2, <3>3
  <2> QED BY <2>3, <2>4
<1>8. n \in 0 .. n
  BY <1>1
<1>9. QED
  BY <1>2, <1>7, <1>8

\* Those that conform are what encode takes.
LEMMA ConformingTaken ==
    ASSUME NEW columns \in Seq(Column), NEW values \in ValueLists(columns),
           Conforms(columns, values)
    PROVE  Takes(columns, values)
<1>1. /\ values \in Seq(Value) /\ Len(values) = Len(columns)
      /\ \A i \in 1 .. Len(columns) :
           values[i] = Null \/ values[i] \in ValueOf(columns[i].type)
  BY ListsOfValues
<1>2. DOMAIN values = 1 .. Len(columns)
  BY <1>1
<1>3. ASSUME NEW i \in 1 .. Len(columns), values[i] = Null PROVE columns[i].nullable
  <2>1. values[i][1] = "null"
    BY <1>3 DEF Null
  <2>2. columns[i].type \in DataType
    BY WidthsAreSizes
  <2>3. columns[i].type # "null"
    BY <2>2 DEF DataType
  <2>4. \/ values[i] = Null /\ columns[i].nullable
        \/ values[i][1] = columns[i].type
    BY <1>2 DEF Conforms
  <2> QED BY <2>1, <2>3, <2>4
<1>4. QED
  BY <1>1, <1>3 DEF Takes

-----------------------------------------------------------------------------
(* Declarations.                                                           *)

LEMMA TextSizes ==
    ASSUME NEW s \in Seq(Nat)
    PROVE  /\ EncodedString(s) \in Seq(Nat) /\ Len(EncodedString(s)) = 1 + Len(s)
           /\ EncodedString(s)[1] = Len(s)
           /\ \A k \in 1 .. Len(s) : EncodedString(s)[1 + k] = s[k]
<1> DEFINE first == <<Len(s)>>
           cells == EncodedString(s)
<1>1. first \in Seq(Nat) /\ Len(first) = 1 /\ first[1] = Len(s) /\ 1 \in 1 .. 1
  OBVIOUS
<1>2. cells = first \o s
  BY DEF EncodedString
<1> HIDE DEF first, cells
<1>3. \A m, r : Len(first) = m /\ r = first \o s =>
        /\ r \in Seq(Nat) /\ Len(r) = m + Len(s)
        /\ \A p \in 1 .. m : r[p] = first[p]
        /\ \A k \in 1 .. Len(s) : r[m + k] = s[k]
  BY <1>1, JoinedNumbers
<1>4. /\ cells \in Seq(Nat) /\ Len(cells) = 1 + Len(s)
      /\ \A p \in 1 .. 1 : cells[p] = first[p]
      /\ \A k \in 1 .. Len(s) : cells[1 + k] = s[k]
  BY <1>1, <1>2, <1>3, Zenon
<1>5. QED
  BY <1>1, <1>4 DEF cells

\* A string is read from where it was written, and from nothing else.
LEMMA StringsRead ==
    ASSUME NEW cells \in Seq(Nat), NEW at \in Nat, NEW read \in ReadString(cells, at)
    PROVE  /\ read.taken \in Seq(Nat) /\ Len(read.taken) = cells[at + 1] /\ Len(read.taken) \in Nat
           /\ read.at = at + 1 + Len(read.taken) /\ read.at <= Len(cells)
           /\ read.taken = SubSeq(cells, at + 2, read.at)
           /\ read = [taken |-> SubSeq(cells, at + 2, at + 1 + cells[at + 1]),
                      at |-> at + 1 + cells[at + 1]]
           /\ IsText(read.taken)
<1> DEFINE m == cells[at + 1]
           string == SubSeq(cells, at + 2, at + 1 + cells[at + 1])
<1>1. /\ ~(at >= Len(cells) \/ at + 1 + m > Len(cells))
      /\ IsText(string) /\ read = [taken |-> string, at |-> at + 1 + Len(string)]
  BY DEF ReadString
<1>2. m \in Nat /\ at + 1 + m <= Len(cells) /\ Len(cells) \in Nat
  <2> HIDE DEF string
  <2>1. Len(cells) \in Nat
    OBVIOUS
  <2>2. at + 1 \in 1 .. Len(cells)
    <3> HIDE DEF m
    <3> QED BY <1>1, <2>1
  <2>3. m \in Nat
    BY <2>2
  <2> HIDE DEF m
  <2> QED BY <1>1, <2>1, <2>3
<1>3. string \in Seq(Nat) /\ Len(string) = m
  <2>1. string = SubSeq(cells, at + 2, at + 1 + m)
    OBVIOUS
  <2> HIDE DEF m, string
  <2> QED BY <1>2, <2>1
<1> HIDE DEF string
<1>4. QED
  BY <1>1, <1>2, <1>3 DEF string

LEMMA StringReads ==
    ASSUME NEW cells \in Seq(Nat), NEW at \in Nat, NEW s \in Seq(Nat), IsText(s),
           at + 1 + Len(s) <= Len(cells), cells[at + 1] = Len(s),
           \A k \in 1 .. Len(s) : cells[at + 1 + k] = s[k]
    PROVE  ReadString(cells, at) = {[taken |-> s, at |-> at + 1 + Len(s)]}
<1>1. Len(s) \in Nat /\ at + 1 \in Nat /\ Len(cells) \in Nat
  OBVIOUS
<1>2. SubSeq(cells, (at + 1) + 1, (at + 1) + Len(s)) = s
  BY <1>1, SubSeqIs
<1>3. (at + 1) + 1 = at + 2 /\ (at + 1) + Len(s) = at + 1 + cells[at + 1]
  BY <1>1
<1>4. SubSeq(cells, at + 2, at + 1 + cells[at + 1]) = s
  BY <1>2, <1>3
<1>5. ~(at >= Len(cells) \/ at + 1 + cells[at + 1] > Len(cells))
  BY <1>1
<1>6. QED
  BY <1>4, <1>5 DEF ReadString

LEMMA TagsDiffer ==
    ASSUME NEW s \in DataType, NEW t \in DataType
    PROVE  TypeTag[s] \in Nat /\ (TypeTag[s] = TypeTag[t] => s = t)
BY DEF DataType, TypeTag

\* The flags of a column are two bits.
LEMMA FlagsDecode ==
    /\ \A name, type : \A flags \in 0 .. 3 :
         EncodedFlags(ColumnOf(name, type, flags)) = flags
    /\ \A column \in Column :
         /\ EncodedFlags(column) \in 0 .. 3
         /\ ColumnOf(column.name, column.type, EncodedFlags(column)) = column
<1>1. ASSUME NEW name, NEW type, NEW flags \in 0 .. 3
      PROVE  EncodedFlags(ColumnOf(name, type, flags)) = flags
  <2>1. flags = 0 \/ flags = 1 \/ flags = 2 \/ flags = 3
    OBVIOUS
  <2>2. /\ 0 % 2 = 0 /\ 1 % 2 = 1 /\ 2 % 2 = 0 /\ 3 % 2 = 1
        /\ (0 \div 2) % 2 = 0 /\ (1 \div 2) % 2 = 0 /\ (2 \div 2) % 2 = 1 /\ (3 \div 2) % 2 = 1
    OBVIOUS
  <2>3. EncodedFlags(ColumnOf(name, type, flags)) =
          (IF flags % 2 = 1 THEN 1 ELSE 0) + (IF (flags \div 2) % 2 = 1 THEN 2 ELSE 0)
    BY DEF EncodedFlags, ColumnOf
  <2> HIDE DEF EncodedFlags
  <2>4. CASE flags = 0
    BY <2>2, <2>3, <2>4
  <2>5. CASE flags = 1
    BY <2>2, <2>3, <2>5
  <2>6. CASE flags = 2
    BY <2>2, <2>3, <2>6
  <2>7. CASE flags = 3
    BY <2>2, <2>3, <2>7
  <2> QED BY <2>1, <2>4, <2>5, <2>6, <2>7
<1>2. ASSUME NEW column \in Column
      PROVE  /\ EncodedFlags(column) \in 0 .. 3
             /\ ColumnOf(column.name, column.type, EncodedFlags(column)) = column
  <2>1. /\ column.nullable \in BOOLEAN /\ column.primaryKey \in BOOLEAN
        /\ column = [name |-> column.name, type |-> column.type,
                     nullable |-> column.nullable, primaryKey |-> column.primaryKey]
    BY DEF Column
  <2>2. /\ 0 % 2 = 0 /\ 1 % 2 = 1 /\ 2 % 2 = 0 /\ 3 % 2 = 1
        /\ (0 \div 2) % 2 = 0 /\ (1 \div 2) % 2 = 0 /\ (2 \div 2) % 2 = 1 /\ (3 \div 2) % 2 = 1
    OBVIOUS
  <2>3. EncodedFlags(column) = (IF column.nullable THEN 1 ELSE 0) + (IF column.primaryKey THEN 2 ELSE 0)
    BY DEF EncodedFlags
  <2>4. EncodedFlags(column) \in 0 .. 3
    BY <2>1, <2>3
  <2>5. (EncodedFlags(column) % 2 = 1) = column.nullable
    BY <2>1, <2>2, <2>3
  <2>6. ((EncodedFlags(column) \div 2) % 2 = 1) = column.primaryKey
    BY <2>1, <2>2, <2>3
  <2> QED BY <2>1, <2>4, <2>5, <2>6 DEF ColumnOf
<1>3. QED
  BY <1>1, <1>2

LEMMA ColumnSizes ==
    ASSUME NEW column \in Column
    PROVE  LET cells == EncodedColumn(column)
               size == Len(column.name)
           IN  /\ column.name \in Seq(Nat) /\ size \in Nat /\ column.type \in DataType
               /\ cells \in Seq(Nat) /\ Len(cells) = size + 3
               /\ cells[1] = size
               /\ \A k \in 1 .. size : cells[1 + k] = column.name[k]
               /\ cells[size + 2] = TypeTag[column.type]
               /\ cells[size + 3] = EncodedFlags(column)
<1> DEFINE name == EncodedString(column.name)
           rest == <<TypeTag[column.type], EncodedFlags(column)>>
           cells == EncodedColumn(column)
           size == Len(column.name)
<1>1. column.name \in Seq(Nat) /\ column.type \in DataType
  BY DEF Column
<1>2. size \in Nat
  BY <1>1
<1>3. /\ rest \in Seq(Nat) /\ Len(rest) = 2 /\ rest[1] = TypeTag[column.type]
      /\ rest[2] = EncodedFlags(column)
  <2>1. TypeTag[column.type] \in Nat
    BY <1>1, TagsDiffer
  <2>2. EncodedFlags(column) \in 0 .. 3
    BY FlagsDecode
  <2>3. EncodedFlags(column) \in Nat
    BY <2>2
  <2> QED BY <2>1, <2>3
<1>4. /\ name \in Seq(Nat) /\ Len(name) = 1 + size /\ name[1] = size
      /\ \A k \in 1 .. size : name[1 + k] = column.name[k]
  BY <1>1, TextSizes
<1>5. cells = name \o rest
  BY DEF EncodedColumn
<1> HIDE DEF name, rest, cells
<1>6. \A m, r : Len(name) = m /\ r = name \o rest =>
        /\ r \in Seq(Nat) /\ Len(r) = m + Len(rest)
        /\ \A p \in 1 .. m : r[p] = name[p]
        /\ \A k \in 1 .. Len(rest) : r[m + k] = rest[k]
  BY <1>3, <1>4, JoinedNumbers
<1>7. /\ cells \in Seq(Nat) /\ Len(cells) = (1 + size) + Len(rest)
      /\ \A p \in 1 .. 1 + size : cells[p] = name[p]
      /\ \A k \in 1 .. Len(rest) : cells[(1 + size) + k] = rest[k]
  BY <1>4, <1>5, <1>6, ZenonT(40)
<1> HIDE DEF size
<1>8. /\ Len(cells) = size + 3 /\ 1 \in 1 .. 1 + size
      /\ \A k \in 1 .. size : 1 + k \in 1 .. 1 + size
      /\ (1 + size) + 1 = size + 2 /\ (1 + size) + 2 = size + 3
      /\ 1 \in 1 .. Len(rest) /\ 2 \in 1 .. Len(rest)
  BY <1>2, <1>3, <1>7
<1>9. QED
  <2>1. cells[(1 + size) + 1] = rest[1] /\ cells[(1 + size) + 2] = rest[2]
    BY <1>7, <1>8
  <2>2. cells[1] = size /\ \A k \in 1 .. size : cells[1 + k] = column.name[k]
    BY <1>4, <1>7, <1>8
  <2>3. cells[size + 2] = TypeTag[column.type] /\ cells[size + 3] = EncodedFlags(column)
    BY <1>3, <1>8, <2>1
  <2> QED BY <1>1, <1>2, <1>7, <1>8, <2>2, <2>3 DEF cells, size

\* Cells that hold a piece at a place.
Shows(cells, at, piece) ==
    at + Len(piece) <= Len(cells) /\ \A p \in 1 .. Len(piece) : cells[at + p] = piece[p]

\* A column whose name is what decode can read.
Readable(column) == column \in Column /\ IsText(column.name)

\* A column is read from where it was written.
LEMMA ColumnReads ==
    ASSUME NEW cells \in Seq(Nat), NEW before, before.at \in Nat,
           NEW column, Readable(column), Shows(cells, before.at, EncodedColumn(column))
    PROVE  ReadColumn(cells, before) =
             {[taken |-> Append(before.taken, column),
               at |-> before.at + Len(EncodedColumn(column))]}
<1> DEFINE at == before.at
           size == Len(column.name)
           piece == EncodedColumn(column)
           end == at + 1 + size
           names == {n \in ReadString(cells, at) : n.at + 2 <= Len(cells)}
           types == {t \in DataType : TypeTag[t] = cells[end + 1] /\ KnownFlags(cells[end + 2])}
<1>1. column \in Column /\ IsText(column.name) /\ at \in Nat /\ Len(cells) \in Nat
  BY DEF Readable
<1>2. /\ column.name \in Seq(Nat) /\ size \in Nat /\ column.type \in DataType
      /\ piece \in Seq(Nat) /\ Len(piece) = size + 3
      /\ piece[1] = size
      /\ \A k \in 1 .. size : piece[1 + k] = column.name[k]
      /\ piece[size + 2] = TypeTag[column.type]
      /\ piece[size + 3] = EncodedFlags(column)
  BY <1>1, ColumnSizes
<1>3. at + Len(piece) <= Len(cells) /\ \A p \in 1 .. Len(piece) : cells[at + p] = piece[p]
  BY DEF Shows
<1> HIDE DEF piece
<1>4. /\ 1 \in 1 .. Len(piece) /\ \A k \in 1 .. size : 1 + k \in 1 .. Len(piece) /\ at + 1 + k = at + (1 + k)
      /\ size + 2 \in 1 .. Len(piece) /\ size + 3 \in 1 .. Len(piece)
      /\ end + 1 = at + (size + 2) /\ end + 2 = at + (size + 3) /\ end + 2 <= Len(cells)
      /\ at + 1 + size <= Len(cells)
  <2> HIDE DEF size, at
  <2> QED BY <1>1, <1>2, <1>3, SMTT(90)
<1>5. /\ cells[at + 1] = size
      /\ \A k \in 1 .. size : cells[at + 1 + k] = column.name[k]
      /\ cells[end + 1] = TypeTag[column.type]
      /\ cells[end + 2] = EncodedFlags(column)
  <2>1. cells[at + 1] = size
    BY <1>2, <1>3, <1>4
  <2>2. ASSUME NEW k \in 1 .. size PROVE cells[at + 1 + k] = column.name[k]
    BY <1>2, <1>3, <1>4
  <2>3. cells[end + 1] = TypeTag[column.type]
    BY <1>2, <1>3, <1>4
  <2>4. cells[end + 2] = EncodedFlags(column)
    BY <1>2, <1>3, <1>4
  <2> QED BY <2>1, <2>2, <2>3, <2>4
<1>6. ReadString(cells, at) = {[taken |-> column.name, at |-> end]}
  <2>1. \A b \in Nat : \A s \in Seq(Nat) :
          (/\ IsText(s) /\ b + 1 + Len(s) <= Len(cells) /\ cells[b + 1] = Len(s)
           /\ \A k \in 1 .. Len(s) : cells[b + 1 + k] = s[k])
          => ReadString(cells, b) = {[taken |-> s, at |-> b + 1 + Len(s)]}
    BY StringReads
  <2> HIDE DEF at
  <2> QED BY <1>1, <1>2, <1>4, <1>5, <2>1, Zenon
<1>7. names = {[taken |-> column.name, at |-> end]}
  <2> HIDE DEF end
  <2> QED BY <1>4, <1>6, SMTT(40)
<1>8. EncodedFlags(column) \in 0 .. 3
      /\ ColumnOf(column.name, column.type, EncodedFlags(column)) = column
  BY <1>1, FlagsDecode
<1>9. types = {column.type}
  <2>1. KnownFlags(cells[end + 2])
    BY <1>5, <1>8 DEF KnownFlags
  <2>2. \A t \in DataType : TypeTag[t] = cells[end + 1] <=> t = column.type
    <3>1. cells[end + 1] = TypeTag[column.type]
      BY <1>5
    <3>2. \A s, t \in DataType : TypeTag[s] = TypeTag[t] => s = t
      BY TagsDiffer
    <3>3. column.type \in DataType
      BY <1>2
    <3> HIDE DEF end
    <3> QED BY ONLY <3>1, <3>2, <3>3, Zenon
  <2> HIDE DEF end
  <2> QED BY <1>2, <2>1, <2>2
<1>10. ReadColumn(cells, before) =
         {[taken |-> Append(before.taken, ColumnOf(column.name, column.type, cells[end + 2])),
           at |-> end + 2]}
  <2> DEFINE Reads(name) ==
               {[taken |-> Append(before.taken, ColumnOf(name.taken, type, cells[name.at + 2])),
                 at |-> name.at + 2] :
                  type \in {t \in DataType : TypeTag[t] = cells[name.at + 1]
                                               /\ KnownFlags(cells[name.at + 2])}}
             found == [taken |-> column.name, at |-> end]
  <2>1. ReadColumn(cells, before) = UNION {Reads(name) : name \in names}
    BY DEF ReadColumn
  <2>2. Reads(found) = {[taken |-> Append(before.taken, ColumnOf(column.name, type, cells[end + 2])),
                         at |-> end + 2] : type \in types}
    <3> HIDE DEF end
    <3> QED OBVIOUS
  <2>3. Reads(found) = {[taken |-> Append(before.taken, ColumnOf(column.name, column.type, cells[end + 2])),
                         at |-> end + 2]}
    <3> HIDE DEF types, end, Reads
    <3> QED BY <1>9, <2>2
  <2>4. UNION {Reads(name) : name \in {found}} = Reads(found)
    <3> HIDE DEF Reads, found
    <3> QED OBVIOUS
  <2> HIDE DEF Reads, names, end
  <2> QED BY <1>7, <2>1, <2>3, <2>4
<1>11. end + 2 = at + Len(piece)
  <2> HIDE DEF size, at
  <2> QED BY <1>1, <1>2
<1>12. QED
  BY <1>5, <1>8, <1>10, <1>11 DEF piece

\* And from nothing else.
LEMMA ColumnsRead ==
    ASSUME NEW cells \in Seq(Nat), NEW before, before.at \in Nat,
           NEW read \in ReadColumn(cells, before)
    PROVE  \E column : /\ Readable(column) /\ Shows(cells, before.at, EncodedColumn(column))
                       /\ read = [taken |-> Append(before.taken, column),
                                  at |-> before.at + Len(EncodedColumn(column))]
<1> DEFINE at == before.at
<1>1. PICK name \in ReadString(cells, at) :
        /\ name.at + 2 <= Len(cells)
        /\ \E type \in DataType :
             /\ TypeTag[type] = cells[name.at + 1] /\ KnownFlags(cells[name.at + 2])
             /\ read = [taken |-> Append(before.taken, ColumnOf(name.taken, type, cells[name.at + 2])),
                        at |-> name.at + 2]
  <2> HIDE DEF ReadString
  <2> QED BY DEF ReadColumn
<1>2. PICK type \in DataType :
             /\ TypeTag[type] = cells[name.at + 1] /\ KnownFlags(cells[name.at + 2])
             /\ read = [taken |-> Append(before.taken, ColumnOf(name.taken, type, cells[name.at + 2])),
                        at |-> name.at + 2]
  BY <1>1
<1> DEFINE flags == cells[name.at + 2]
           column == ColumnOf(name.taken, type, flags)
           size == Len(name.taken)
           piece == EncodedColumn(column)
<1>3. /\ name.taken \in Seq(Nat) /\ size = cells[at + 1] /\ size \in Nat
      /\ name.at = at + 1 + size /\ name.at <= Len(cells)
      /\ name.taken = SubSeq(cells, at + 2, name.at)
      /\ IsText(name.taken)
  BY StringsRead
<1> DEFINE end == name.at
<1>4. /\ end + 2 \in 1 .. Len(cells) /\ end \in Nat /\ Len(cells) \in Nat /\ at \in Nat
      /\ size \in Nat /\ end = at + 1 + size /\ end + 2 <= Len(cells)
  <2>1. Len(cells) \in Nat /\ at \in Nat
    OBVIOUS
  <2>2. end + 2 <= Len(cells)
    BY <1>1
  <2>3. size \in Nat /\ end = at + 1 + size
    BY <1>3
  <2> HIDE DEF size, end, at
  <2> QED BY <2>1, <2>2, <2>3
<1>5. flags \in Nat
  BY <1>4, SMTT(30)
<1>6. flags \in 0 .. 3
  <2>1. flags <= 3
    BY <1>2 DEF KnownFlags
  <2> HIDE DEF flags
  <2> QED BY <1>5, <2>1
<1>7. /\ column \in Column /\ column.name = name.taken /\ column.type = type
      /\ EncodedFlags(column) = flags
  <2>1. EncodedFlags(column) = flags
    BY <1>6, FlagsDecode
  <2>2. column \in Column /\ column.name = name.taken /\ column.type = type
    <3> HIDE DEF flags
    <3> QED BY <1>2, <1>3 DEF ColumnOf, Column
  <2> QED BY <2>1, <2>2
<1>8. Readable(column)
  BY <1>3, <1>7 DEF Readable
<1> HIDE DEF column, flags
<1>9. /\ piece \in Seq(Nat) /\ Len(piece) = size + 3
      /\ piece[1] = size
      /\ \A k \in 1 .. size : piece[1 + k] = name.taken[k]
      /\ piece[size + 2] = TypeTag[type]
      /\ piece[size + 3] = flags
  BY <1>7, ColumnSizes
<1> HIDE DEF piece
<1>10. ASSUME NEW k \in 1 .. size PROVE name.taken[k] = cells[at + 1 + k]
  <2> DEFINE s == name.taken
             r == [i \in 1 .. end - (at + 2) + 1 |-> cells[i + (at + 2) - 1]]
  <2>1. s = SubSeq(cells, at + 2, end)
    BY <1>3
  <2>2. SubSeq(cells, at + 2, end) = r
    <3> HIDE DEF size, end, at, s
    <3> QED BY <1>4
  <2>3. end - (at + 2) + 1 = size /\ k + (at + 2) - 1 = at + 1 + k
    <3> HIDE DEF size, end, at
    <3> QED BY <1>4
  <2>4. k \in 1 .. end - (at + 2) + 1
    BY <2>3
  <2>5. r[k] = cells[k + (at + 2) - 1]
    <3> HIDE DEF size, end, at
    <3> QED BY <2>4
  <2> HIDE DEF s, r
  <2> QED BY <2>1, <2>2, <2>3, <2>5 DEF s
<1>11. at + Len(piece) <= Len(cells) /\ at + Len(piece) = end + 2
  <2> HIDE DEF size, at, end
  <2> QED BY <1>4, <1>9
<1>12. ASSUME NEW p \in 1 .. Len(piece) PROVE cells[at + p] = piece[p]
  <2>1. p = 1 \/ p \in 2 .. size + 1 \/ p = size + 2 \/ p = size + 3
    <3> HIDE DEF size
    <3>1. Len(piece) = size + 3 /\ size \in Nat
      BY <1>4, <1>9
    <3> QED BY <3>1
  <2>2. CASE p = 1
    BY <1>3, <1>9, <2>2
  <2>3. CASE p \in 2 .. size + 1
    <3>1. p - 1 \in 1 .. size /\ 1 + (p - 1) = p /\ at + 1 + (p - 1) = at + p
      <4> HIDE DEF size, at, end
      <4> QED BY <1>4, <2>3
    <3> QED BY <1>9, <1>10, <3>1
  <2>4. CASE p = size + 2
    <3>1. at + p = end + 1
      <4> HIDE DEF size, at, end
      <4> QED BY <1>4, <2>4
    <3> QED BY <1>2, <1>9, <2>4, <3>1
  <2>5. CASE p = size + 3
    <3>1. at + p = end + 2
      <4> HIDE DEF size, at, end
      <4> QED BY <1>4, <2>5
    <3> QED BY <1>2, <1>9, <2>5, <3>1 DEF flags
  <2> QED BY <2>1, <2>2, <2>3, <2>4, <2>5
<1>13. Shows(cells, at, piece)
  BY <1>11, <1>12 DEF Shows
<1>14. read = [taken |-> Append(before.taken, column), at |-> at + Len(piece)]
  BY <1>2, <1>11 DEF column, flags
<1>15. QED
  BY <1>8, <1>13, <1>14 DEF piece

-----------------------------------------------------------------------------
(* Lists of columns.                                                       *)

\* A piece behind the others.
LEMMA FlattenAppend ==
    ASSUME NEW s \in Seq(Seq(Nat)), NEW t \in Seq(Nat)
    PROVE  /\ FlattenSeq(s) \in Seq(Nat) /\ FlattenSeq(Append(s, t)) = FlattenSeq(s) \o t
<1> DEFINE n == Len(s)
           u == Append(s, t)
           v == [i \in 1 .. n + 1 |-> Len(u[i])]
           w == [i \in 1 .. n |-> Len(s[i])]
           f == [i \in 0 .. n + 1 |-> SumOn(v, 1 .. i, n + 1)]
           flat == FlattenSeq(s)
           flatter == FlattenSeq(u)
           glued == flat \o t
<1>1. n \in Nat /\ n + 1 \in Nat /\ Len(t) \in Nat /\ n + 1 \in 1 .. n + 1 /\ (n + 1) - 1 = n
  OBVIOUS
<1>2. /\ u \in Seq(Seq(Nat)) /\ Len(u) = n + 1 /\ u[n + 1] = t
      /\ \A i \in 1 .. n : u[i] = s[i]
  OBVIOUS
<1>3. \A i \in 1 .. n + 1 : u[i] \in Seq(Nat)
  BY <1>2
<1>4. \A i \in 1 .. n + 1 : v[i] \in Nat
  <2> HIDE DEF u
  <2> QED BY <1>3
<1>5. v[n + 1] = Len(t) /\ \A i \in 1 .. n : w[i] = v[i] /\ w[i] = Len(s[i]) /\ i \in 1 .. n + 1
  <2> HIDE DEF u, n
  <2> QED BY <1>1, <1>2
<1> HIDE DEF u
<1>6. Accumulates(f, v, n + 1) /\ \A i \in 0 .. n + 1 : f[i] \in Nat
  <2> HIDE DEF v, n
  <2> QED BY <1>1, <1>4, SumsAccumulate
<1> HIDE DEF f
<1>7. Accumulates(f, w, n)
  <2> HIDE DEF v, w, n
  <2> QED BY <1>5, <1>6 DEF Accumulates
<1>8. f[n + 1] = f[n] + Len(t) /\ f[n] \in Nat /\ f[n + 1] \in Nat
  <2>1. n \in 0 .. n + 1 /\ n + 1 \in 0 .. n + 1
    BY <1>1
  <2> HIDE DEF v, n
  <2> QED BY <1>1, <1>5, <1>6, <2>1 DEF Accumulates
<1> DEFINE PartsAt(x, c, g) ==
             /\ FlattenSeq(x) \in Seq(Nat) /\ Len(FlattenSeq(x)) = g[c]
             /\ \A i \in 1 .. c : \A k \in 1 .. Len(x[i]) :
                  g[i - 1] + k \in 1 .. g[c] /\ FlattenSeq(x)[g[i - 1] + k] = x[i][k]
<1>9. \A x \in Seq(Seq(Nat)) : \A c, g, y :
         c = Len(x) /\ y = [i \in 1 .. c |-> Len(x[i])] /\ Accumulates(g, y, c) => PartsAt(x, c, g)
  BY FlattenPlaces, SMTT(40)
<1>10. /\ flat \in Seq(Nat) /\ Len(flat) = f[n]
      /\ \A i \in 1 .. n : \A k \in 1 .. Len(s[i]) :
           f[i - 1] + k \in 1 .. f[n] /\ flat[f[i - 1] + k] = s[i][k]
  <2>1. PartsAt(s, n, f)
    <3> HIDE DEF PartsAt
    <3> QED BY <1>7, <1>9, Zenon
  <2> QED BY <2>1
<1>11. /\ flatter \in Seq(Nat) /\ Len(flatter) = f[n + 1]
       /\ \A i \in 1 .. n + 1 : \A k \in 1 .. Len(u[i]) :
            f[i - 1] + k \in 1 .. f[n + 1] /\ flatter[f[i - 1] + k] = u[i][k]
  <2>1. n + 1 = Len(u)
    BY <1>2
  <2>2. PartsAt(u, n + 1, f)
    <3> HIDE DEF PartsAt, n
    <3> QED BY <1>2, <1>6, <1>9, <2>1, Zenon
  <2> QED BY <2>2
<1> HIDE DEF n, v, w, flat, flatter
<1>12. \A m, r : Len(flat) = m /\ r = flat \o t =>
         /\ r \in Seq(Nat) /\ Len(r) = m + Len(t)
         /\ \A p \in 1 .. m : r[p] = flat[p]
         /\ \A k \in 1 .. Len(t) : r[m + k] = t[k]
  BY <1>10, JoinedNumbers
<1>13. /\ glued \in Seq(Nat) /\ Len(glued) = f[n] + Len(t)
       /\ \A p \in 1 .. f[n] : glued[p] = flat[p]
       /\ \A k \in 1 .. Len(t) : glued[f[n] + k] = t[k]
  BY <1>10, <1>12, Zenon
<1> HIDE DEF glued
<1>14. ASSUME NEW p \in 1 .. f[n + 1] PROVE flatter[p] = glued[p]
  <2>1. CASE p \in 1 .. f[n]
    <3>1. \A i \in 1 .. n : w[i] \in Nat
      BY <1>4, <1>5
    <3>2. PICK i \in 1 .. n : \E k \in 1 .. w[i] : p = f[i - 1] + k
      <4>1. InPart(p, f, w, n)
        BY <1>1, <1>7, <2>1, <3>1, PlacesCover
      <4> QED BY <4>1 DEF InPart
    <3>3. PICK k \in 1 .. w[i] : p = f[i - 1] + k
      BY <3>2
    <3>4. k \in 1 .. Len(s[i]) /\ k \in 1 .. Len(u[i]) /\ u[i] = s[i] /\ i \in 1 .. n + 1
      BY <1>2, <1>5, <3>3
    <3>5. flatter[f[i - 1] + k] = u[i][k] /\ flat[f[i - 1] + k] = s[i][k]
      BY <1>10, <1>11, <3>4
    <3> QED BY <1>13, <2>1, <3>3, <3>4, <3>5
  <2>2. CASE p \notin 1 .. f[n]
    <3> DEFINE k == p - f[n]
    <3>1. k \in 1 .. Len(t) /\ p = f[n] + k
      BY <1>1, <1>8, <2>2
    <3> HIDE DEF k
    <3>2. flatter[f[n] + k] = t[k]
      BY <1>1, <1>2, <1>11, <3>1
    <3> QED BY <1>13, <3>1, <3>2
  <2> QED BY <2>1, <2>2
<1>15. Len(flatter) = Len(glued) /\ \A p \in 1 .. Len(flatter) : flatter[p] = glued[p]
  BY <1>8, <1>11, <1>13, <1>14
<1>16. flatter = glued
  BY <1>11, <1>13, <1>15, SeqEqual
<1>17. QED
  BY <1>10, <1>16 DEF flatter, flat, glued, u

\* What precedes and what follows, when a piece is shown behind another.
LEMMA ShownTogether ==
    ASSUME NEW cells \in Seq(Nat), NEW at \in Nat, NEW s \in Seq(Nat), NEW t \in Seq(Nat)
    PROVE  Shows(cells, at, s \o t) <=> Shows(cells, at, s) /\ Shows(cells, at + Len(s), t)
<1> DEFINE r == s \o t
           n == Len(s)
           m == Len(t)
<1>1. n \in Nat /\ m \in Nat /\ Len(cells) \in Nat
  OBVIOUS
<1>2. \A j, q : Len(s) = j /\ q = s \o t =>
        /\ q \in Seq(Nat) /\ Len(q) = j + Len(t)
        /\ \A p \in 1 .. j : q[p] = s[p]
        /\ \A k \in 1 .. Len(t) : q[j + k] = t[k]
  BY JoinedNumbers
<1>3. /\ Len(r) = n + m
      /\ \A p \in 1 .. n : r[p] = s[p]
      /\ \A k \in 1 .. m : r[n + k] = t[k]
  BY <1>2, Zenon
<1> HIDE DEF r, n, m
<1>4. ASSUME Shows(cells, at, r) PROVE Shows(cells, at, s) /\ Shows(cells, at + n, t)
  <2>1. at + (n + m) <= Len(cells) /\ \A p \in 1 .. n + m : cells[at + p] = r[p]
    BY <1>3, <1>4 DEF Shows
  <2>2. at + n <= Len(cells) /\ (at + n) + m <= Len(cells)
    BY <1>1, <2>1
  <2>3. ASSUME NEW p \in 1 .. n PROVE cells[at + p] = s[p]
    <3>1. p \in 1 .. n + m
      BY <1>1
    <3> QED BY <1>3, <2>1, <3>1
  <2>4. ASSUME NEW k \in 1 .. m PROVE cells[(at + n) + k] = t[k]
    <3>1. n + k \in 1 .. n + m /\ at + (n + k) = (at + n) + k
      BY <1>1
    <3> QED BY <1>3, <2>1, <3>1
  <2> QED BY <2>2, <2>3, <2>4 DEF Shows, n, m
<1>5. ASSUME Shows(cells, at, s), Shows(cells, at + n, t) PROVE Shows(cells, at, r)
  <2>1. /\ \A p \in 1 .. n : cells[at + p] = s[p]
        /\ (at + n) + m <= Len(cells) /\ \A k \in 1 .. m : cells[(at + n) + k] = t[k]
    BY <1>5 DEF Shows, n, m
  <2>2. at + Len(r) <= Len(cells)
    BY <1>1, <1>3, <2>1
  <2>3. ASSUME NEW p \in 1 .. Len(r) PROVE cells[at + p] = r[p]
    <3>1. CASE p \in 1 .. n
      BY <1>3, <2>1, <3>1
    <3>2. CASE p \notin 1 .. n
      <4> DEFINE k == p - n
      <4>1. k \in 1 .. m /\ p = n + k /\ at + p = (at + n) + k
        BY <1>1, <1>3, <3>2
      <4> HIDE DEF k
      <4> QED BY <1>3, <2>1, <4>1
    <3> QED BY <3>1, <3>2
  <2> QED BY <2>2, <2>3 DEF Shows
<1>6. QED
  BY <1>4, <1>5 DEF r, n

\* The encodings of columns, one behind the other.
Pieces(columns) == [i \in DOMAIN columns |-> EncodedColumn(columns[i])]
Flat(columns) == FlattenSeq(Pieces(columns))

LEMMA FlatColumns ==
    ASSUME NEW columns \in Seq(Column)
    PROVE  /\ Flat(columns) \in Seq(Nat)
           /\ \A column \in Column :
                Flat(Append(columns, column)) = Flat(columns) \o EncodedColumn(column)
<1>1. \A column \in Column : EncodedColumn(column) \in Seq(Nat)
  BY ColumnSizes
<1>2. Pieces(columns) \in Seq(Seq(Nat))
  <2>1. DOMAIN columns = 1 .. Len(columns) /\ Len(columns) \in Nat
        /\ \A i \in 1 .. Len(columns) : columns[i] \in Column
    OBVIOUS
  <2>2. Pieces(columns) = [i \in 1 .. Len(columns) |-> EncodedColumn(columns[i])]
    BY <2>1 DEF Pieces
  <2> QED BY <1>1, <2>1, <2>2
<1>3. ASSUME NEW column \in Column
      PROVE  Pieces(Append(columns, column)) = Append(Pieces(columns), EncodedColumn(column))
  <2> DEFINE n == Len(columns)
             longer == Append(columns, column)
             piece == EncodedColumn(column)
             s == Pieces(columns)
             t == Pieces(longer)
             u == Append(s, piece)
  <2>1. n \in Nat /\ DOMAIN columns = 1 .. n /\ DOMAIN longer = 1 .. n + 1
        /\ longer[n + 1] = column /\ \A i \in 1 .. n : longer[i] = columns[i]
    OBVIOUS
  <2> HIDE DEF longer, n
  <2>2. t = [i \in 1 .. n + 1 |-> EncodedColumn(longer[i])]
    BY <2>1 DEF Pieces
  <2>3. s = [i \in 1 .. n |-> EncodedColumn(columns[i])]
    BY <2>1 DEF Pieces
  <2>4. Len(s) = n
    <3> HIDE DEF s
    <3> QED BY <1>2, <2>1, <2>3 DEF s
  <2>5. /\ u \in Seq(Seq(Nat)) /\ Len(u) = n + 1 /\ u[n + 1] = piece
        /\ \A i \in 1 .. n : u[i] = s[i]
    <3>1. s \in Seq(Seq(Nat)) /\ piece \in Seq(Nat)
      BY <1>1, <1>2
    <3> HIDE DEF s, piece
    <3> QED BY <2>1, <2>4, <3>1
  <2>6. ASSUME NEW i \in 1 .. n + 1 PROVE t[i] = u[i]
    <3>1. CASE i = n + 1
      <4>1. t[i] = EncodedColumn(longer[i])
        BY <2>2
      <4> QED BY <2>1, <2>5, <3>1, <4>1
    <3>2. CASE i # n + 1
      <4>1. i \in 1 .. n
        BY <2>1, <3>2
      <4>2. t[i] = EncodedColumn(longer[i]) /\ s[i] = EncodedColumn(columns[i])
        BY <2>2, <2>3, <4>1
      <4> HIDE DEF t, u, s
      <4> QED BY <2>1, <2>5, <4>1, <4>2
    <3> QED BY <3>1, <3>2
  <2>7. t = u
    <3>1. \A i \in 1 .. n + 1 : EncodedColumn(longer[i]) \in Seq(Nat)
      <4>1. \A i \in 1 .. n + 1 : longer[i] \in Column
        BY DEF longer, n
      <4> QED BY <1>1, <4>1
    <3>2. t \in Seq(Seq(Nat)) /\ Len(t) = n + 1
      <4> HIDE DEF t
      <4> QED BY <2>1, <2>2, <3>1
    <3> HIDE DEF t, u
    <3> QED BY <2>5, <2>6, <3>2, SeqEqual
  <2> QED BY <2>7 DEF t, u, s, piece, longer
<1>4. ASSUME NEW column \in Column
      PROVE  Flat(Append(columns, column)) = Flat(columns) \o EncodedColumn(column)
  <2>1. FlattenSeq(Append(Pieces(columns), EncodedColumn(column)))
          = FlattenSeq(Pieces(columns)) \o EncodedColumn(column)
    BY <1>1, <1>2, FlattenAppend
  <2> QED BY <1>3, <2>1 DEF Flat
<1>5. FlattenSeq(Pieces(columns)) \in Seq(Nat)
  <2>1. <<>> \in Seq(Nat)
    OBVIOUS
  <2> QED BY <1>2, <2>1, FlattenAppend
<1>6. QED
  BY <1>4, <1>5 DEF Flat

LEMMA FlatNothing == Flat(<<>>) = <<>>
<1>1. Pieces(<<>>) = <<>>
  BY DEF Pieces
<1>2. Len(<<>>) = 0
  OBVIOUS
<1>3. QED
  BY <1>1, <1>2, Zenon DEF Flat, FlattenSeq

LEMMA LastColumn ==
    ASSUME NEW columns \in Seq(Column), NEW k \in Nat, Len(columns) = k, k # 0
    PROVE  \E front \in Seq(Column) : \E column \in Column :
             /\ Len(front) = k - 1 /\ columns = Append(front, column)
<1> DEFINE front == [i \in 1 .. k - 1 |-> columns[i]]
           longer == Append(front, columns[k])
<1>1. k \in 1 .. k /\ k - 1 \in Nat /\ \A i \in 1 .. k : columns[i] \in Column
  OBVIOUS
<1>2. front \in Seq(Column) /\ Len(front) = k - 1
  <2>1. \A i \in 1 .. k - 1 : i \in 1 .. k
    BY <1>1
  <2> QED BY <1>1, <2>1
<1>3. \A i \in 1 .. k - 1 : front[i] = columns[i]
  OBVIOUS
<1> HIDE DEF front
<1>4. /\ longer \in Seq(Column) /\ Len(longer) = k /\ longer[k] = columns[k]
      /\ \A i \in 1 .. k - 1 : longer[i] = front[i]
  BY <1>1, <1>2
<1>5. ASSUME NEW i \in 1 .. Len(columns) PROVE columns[i] = longer[i]
  <2>1. i = k \/ i \in 1 .. k - 1
    BY <1>1
  <2> QED BY <1>3, <1>4, <2>1
<1>6. columns = longer
  <2> HIDE DEF longer
  <2> QED BY <1>4, <1>5, SeqEqual
<1>7. QED
  BY <1>1, <1>2, <1>6

-----------------------------------------------------------------------------
(* Reading lists of columns.                                               *)

\* The walks of ReadColumns, column by column.
Walks(reads, cells, count, at) ==
    /\ reads[0] = {[taken |-> <<>>, at |-> at]}
    /\ \A k \in 1 .. count :
         reads[k] = UNION {ReadColumn(cells, before) : before \in reads[k - 1]}

LEMMA ColumnsInTurn ==
    ASSUME NEW cells, NEW count \in Nat, NEW at
    PROVE  \E reads : Walks(reads, cells, count, at) /\ ReadColumns(cells, count, at) = reads[count]
<1> DEFINE More(S) == UNION {ReadColumn(cells, before) : before \in S}
           Step(l, i) == IF i = 0 THEN {[taken |-> <<>>, at |-> at]} ELSE More(l[i - 1])
           Lists(l) == l = [i \in 0 .. count |-> Step(l, i)]
           lists == CHOOSE l : Lists(l)
           Partial(m) == \E l : \A i \in 0 .. m : l[i] = Step(l, i)
           none == {[taken |-> <<>>, at |-> at]}
<1>1. ReadColumns(cells, count, at) = lists[count]
  BY Zenon DEF ReadColumns
<1>2. (\A l : Step(l, 0) = none) /\ \A l, i : i # 0 => Step(l, i) = More(l[i - 1])
  OBVIOUS
<1> HIDE DEF Step, More, none
<1>3. \E l : Lists(l)
  <2> DEFINE Without == {m \in 0 .. count : ~Partial(m)}
  <2>1. ASSUME Without # {} PROVE FALSE
    <3>1. PICK m \in Without : \A j \in Without : m <= j
      <4>1. Without \subseteq Nat
        OBVIOUS
      <4> HIDE DEF Without
      <4> QED BY <2>1, <4>1, LeastExists
    <3>2. CASE m = 0
      <4> DEFINE l == [i \in 0 .. 0 |-> none]
      <4>1. \A i \in 0 .. 0 : l[i] = Step(l, i)
        BY <1>2
      <4> HIDE DEF l
      <4>2. Partial(0)
        BY <4>1
      <4> HIDE DEF Partial
      <4> QED BY <3>1, <3>2, <4>2
    <3>3. CASE m # 0
      <4>1. m \in 1 .. count /\ m - 1 \in 0 .. count /\ ~(m <= m - 1) /\ m \in Nat
        <5> HIDE DEF Partial
        <5> QED BY <3>1, <3>3
      <4>2. Partial(m - 1)
        <5> HIDE DEF Partial
        <5> QED BY <3>1, <4>1
      <4>3. PICK l : \A i \in 0 .. m - 1 : l[i] = Step(l, i)
        BY <4>2
      <4> DEFINE u == [i \in 0 .. m |-> IF i = m THEN More(l[m - 1]) ELSE l[i]]
      <4>4. ASSUME NEW i \in 0 .. m PROVE u[i] = Step(u, i)
        <5>1. CASE i = m
          <6>1. u[m - 1] = l[m - 1] /\ u[i] = More(l[m - 1]) /\ i # 0
            BY <4>1, <5>1
          <6> HIDE DEF u
          <6> QED BY <1>2, <5>1, <6>1
        <5>2. CASE i # m
          <6>1. i \in 0 .. m - 1 /\ (i # 0 => i - 1 \in 0 .. m /\ i - 1 # m)
            BY <4>1, <5>2
          <6>2. u[i] = l[i] /\ (i # 0 => u[i - 1] = l[i - 1])
            BY <5>2, <6>1
          <6>3. l[i] = Step(l, i)
            BY <4>3, <6>1
          <6> HIDE DEF u
          <6> QED BY <1>2, <6>2, <6>3
        <5> QED BY <5>1, <5>2
      <4> HIDE DEF u
      <4>5. Partial(m)
        BY <4>4
      <4> HIDE DEF Partial
      <4> QED BY <3>1, <4>5
    <3> QED BY <3>2, <3>3
  <2>2. PICK l : \A i \in 0 .. count : l[i] = Step(l, i)
    <3>1. count \in 0 .. count
      OBVIOUS
    <3>2. Partial(count)
      <4> HIDE DEF Partial
      <4> QED BY <2>1, <3>1
    <3> QED BY <3>2
  <2> DEFINE u == [i \in 0 .. count |-> l[i]]
  <2>3. ASSUME NEW i \in 0 .. count PROVE u[i] = Step(u, i)
    <3>1. i # 0 => i - 1 \in 0 .. count
      OBVIOUS
    <3>2. u[i] = l[i] /\ (i # 0 => u[i - 1] = l[i - 1])
      BY <3>1
    <3>3. l[i] = Step(l, i)
      BY <2>2
    <3> HIDE DEF u
    <3> QED BY <1>2, <3>2, <3>3
  <2>4. u = [i \in 0 .. count |-> Step(u, i)]
    BY <2>3
  <2> QED BY <2>4, Zenon
<1>4. \A i \in 0 .. count : lists[i] = Step(lists, i)
  <2>1. Lists(lists)
    <3> HIDE DEF Lists
    <3> QED BY <1>3, Zenon
  <2> HIDE DEF lists
  <2> QED BY <2>1
<1> HIDE DEF lists
<1>5. lists[0] = none
  <2>1. 0 \in 0 .. count
    OBVIOUS
  <2> QED BY <1>2, <1>4, <2>1
<1>6. ASSUME NEW k \in 1 .. count PROVE lists[k] = More(lists[k - 1])
  <2>1. k \in 0 .. count /\ k # 0
    OBVIOUS
  <2> QED BY <1>2, <1>4, <2>1
<1>7. Walks(lists, cells, count, at)
  BY <1>5, <1>6 DEF Walks, none, More
<1>8. QED
  BY <1>1, <1>7, Zenon

\* A walk, and the columns it took.
Walked(cells, at, walk, k) ==
    /\ walk.taken \in Seq(Column) /\ Len(walk.taken) = k
    /\ \A i \in 1 .. k : Readable(walk.taken[i])
    /\ Shows(cells, at, Flat(walk.taken))
    /\ walk = [taken |-> walk.taken, at |-> at + Len(Flat(walk.taken))]

\* The columns are read from where they were written, and from nothing else.
LEMMA ColumnsWalk ==
    ASSUME NEW cells \in Seq(Nat), NEW count \in Nat, NEW at \in Nat, at <= Len(cells)
    PROVE  /\ \A walk \in ReadColumns(cells, count, at) : Walked(cells, at, walk, count)
           /\ \A columns \in Seq(Column) :
                /\ Len(columns) = count /\ Shows(cells, at, Flat(columns))
                /\ \A i \in 1 .. count : Readable(columns[i])
                => ReadColumns(cells, count, at) =
                     {[taken |-> columns, at |-> at + Len(Flat(columns))]}
<1> DEFINE Ready(columns, k) ==
             /\ Len(columns) = k /\ Shows(cells, at, Flat(columns))
             /\ \A i \in 1 .. k : Readable(columns[i])
           Found(columns) == [taken |-> columns, at |-> at + Len(Flat(columns))]
<1>1. PICK reads : Walks(reads, cells, count, at) /\ ReadColumns(cells, count, at) = reads[count]
  BY ColumnsInTurn
<1> DEFINE Good(k) ==
             /\ \A walk \in reads[k] : Walked(cells, at, walk, k)
             /\ \A columns \in Seq(Column) : Ready(columns, k) => reads[k] = {Found(columns)}
<1>2. Good(0)
  <2>1. reads[0] = {[taken |-> <<>>, at |-> at]}
    BY <1>1 DEF Walks
  <2>2. Len(Flat(<<>>)) = 0 /\ <<>> \in Seq(Column) /\ Len(<<>>) = 0
    BY FlatNothing
  <2>3. Found(<<>>) = [taken |-> <<>>, at |-> at]
    BY <2>2
  <2>4. Walked(cells, at, Found(<<>>), 0)
    BY <2>2 DEF Walked, Shows
  <2>5. \A columns \in Seq(Column) : Len(columns) = 0 => columns = <<>>
    OBVIOUS
  <2> HIDE DEF Found
  <2> QED BY <2>1, <2>3, <2>4, <2>5
<1>3. ASSUME NEW k \in 1 .. count, Good(k - 1) PROVE Good(k)
  <2>0. k \in Nat /\ k # 0 /\ reads[k] = UNION {ReadColumn(cells, before) : before \in reads[k - 1]}
    BY <1>1 DEF Walks
  <2>1. ASSUME NEW walk \in reads[k] PROVE Walked(cells, at, walk, k)
    <3>1. PICK before \in reads[k - 1] : walk \in ReadColumn(cells, before)
      BY <2>0
    <3>2. Walked(cells, at, before, k - 1)
      BY <1>3
    <3> DEFINE front == before.taken
    <3>3. /\ front \in Seq(Column) /\ Len(front) = k - 1
          /\ \A i \in 1 .. k - 1 : Readable(front[i])
          /\ Shows(cells, at, Flat(front)) /\ before.at = at + Len(Flat(front))
      BY <3>2 DEF Walked
    <3>4. Flat(front) \in Seq(Nat) /\ Len(Flat(front)) \in Nat /\ before.at \in Nat
      <4>1. Flat(front) \in Seq(Nat)
        BY <3>3, FlatColumns
      <4>2. Len(Flat(front)) \in Nat
        BY <4>1
      <4> QED BY <3>3, <4>1, <4>2
    <3>5. PICK column : /\ Readable(column) /\ Shows(cells, before.at, EncodedColumn(column))
                        /\ walk = [taken |-> Append(front, column),
                                   at |-> before.at + Len(EncodedColumn(column))]
      BY <3>1, <3>4, ColumnsRead
    <3> DEFINE piece == EncodedColumn(column)
               longer == Append(front, column)
    <3>6. column \in Column /\ piece \in Seq(Nat) /\ Len(piece) \in Nat
      <4>1. column \in Column
        BY <3>5 DEF Readable
      <4>2. piece \in Seq(Nat)
        BY <4>1, ColumnSizes
      <4> QED BY <4>1, <4>2
    <3>7. Flat(longer) = Flat(front) \o piece
      BY <3>3, <3>6, FlatColumns
    <3>8. Shows(cells, at, Flat(longer))
      BY <3>3, <3>4, <3>5, <3>6, <3>7, ShownTogether
    <3>9. Len(Flat(longer)) = Len(Flat(front)) + Len(piece)
      <4> HIDE DEF piece, front, longer
      <4> QED BY <3>4, <3>6, <3>7
    <3>10. walk = [taken |-> longer, at |-> at + Len(Flat(longer))]
      <4>1. walk = [taken |-> longer, at |-> before.at + Len(piece)]
        BY <3>5
      <4> HIDE DEF piece, front, longer
      <4>2. before.at + Len(piece) = at + Len(Flat(longer))
        BY <3>3, <3>4, <3>6, <3>9
      <4> QED BY <4>1, <4>2
    <3>11. longer \in Seq(Column) /\ Len(longer) = k /\ longer[k] = column
           /\ \A i \in 1 .. k - 1 : longer[i] = front[i]
      <4> HIDE DEF front, piece
      <4> QED BY <2>0, <3>3, <3>6
    <3>12. ASSUME NEW i \in 1 .. k PROVE Readable(longer[i])
      <4>1. i = k \/ i \in 1 .. k - 1
        BY <2>0
      <4> HIDE DEF longer, front
      <4> QED BY <3>3, <3>5, <3>11, <4>1
    <3>13. walk.taken = longer
      BY <3>10
    <3> HIDE DEF longer
    <3> QED BY <3>8, <3>10, <3>11, <3>12, <3>13 DEF Walked
  <2>2. ASSUME NEW columns \in Seq(Column), Ready(columns, k) PROVE reads[k] = {Found(columns)}
    <3>1. PICK front \in Seq(Column), column \in Column :
            Len(front) = k - 1 /\ columns = Append(front, column)
      BY <2>0, <2>2, LastColumn
    <3> DEFINE piece == EncodedColumn(column)
    <3>2. /\ Flat(front) \in Seq(Nat) /\ Len(Flat(front)) \in Nat
          /\ piece \in Seq(Nat) /\ Len(piece) \in Nat
          /\ Flat(columns) = Flat(front) \o piece
      <4>1. Flat(front) \in Seq(Nat) /\ piece \in Seq(Nat)
        BY FlatColumns, ColumnSizes
      <4>2. Flat(columns) = Flat(front) \o piece
        BY <3>1, FlatColumns
      <4> QED BY <4>1, <4>2
    <3>3. Shows(cells, at, Flat(front)) /\ Shows(cells, at + Len(Flat(front)), piece)
      BY <2>2, <3>2, ShownTogether
    <3>4. columns[k] = column /\ \A i \in 1 .. k - 1 : columns[i] = front[i] /\ i \in 1 .. k
      BY <2>0, <3>1
    <3>5. Readable(column) /\ \A i \in 1 .. k - 1 : Readable(front[i])
      <4>1. k \in 1 .. k
        BY <2>0
      <4> QED BY <2>2, <3>4, <4>1
    <3>6. reads[k - 1] = {Found(front)}
      <4>1. Ready(front, k - 1)
        BY <3>1, <3>3, <3>5
      <4> HIDE DEF Found, Ready
      <4> QED BY <1>3, <4>1
    <3> DEFINE before == Found(front)
    <3>7. before.taken = front /\ before.at = at + Len(Flat(front))
      OBVIOUS
    <3> HIDE DEF before
    <3>8. before.at \in Nat
      BY <3>2, <3>7
    <3>9. ReadColumn(cells, before) = {[taken |-> Append(front, column), at |-> before.at + Len(piece)]}
      <4>1. Shows(cells, before.at, EncodedColumn(column))
        BY <3>3, <3>7
      <4>2. ReadColumn(cells, before) = {[taken |-> Append(before.taken, column),
                                          at |-> before.at + Len(EncodedColumn(column))]}
        BY <3>5, <3>8, <4>1, ColumnReads
      <4> QED BY <3>7, <4>2
    <3>10. reads[k] = ReadColumn(cells, before)
      <4>1. reads[k - 1] = {before}
        BY <3>6 DEF before
      <4>2. UNION {ReadColumn(cells, b) : b \in {before}} = ReadColumn(cells, before)
        OBVIOUS
      <4> QED BY <2>0, <4>1, <4>2
    <3>11. Len(Flat(columns)) = Len(Flat(front)) + Len(piece)
      <4> HIDE DEF piece
      <4> QED BY <3>2
    <3>12. before.at + Len(piece) = at + Len(Flat(columns))
      <4> HIDE DEF piece
      <4> QED BY <3>2, <3>7, <3>11
    <3> QED BY <3>1, <3>9, <3>10, <3>12
  <2> HIDE DEF Ready, Found
  <2> QED BY <2>1, <2>2
<1> HIDE DEF Good
<1>4. \A k \in 0 .. count : Good(k)
  <2> DEFINE Bad == {k \in 0 .. count : ~Good(k)}
  <2>1. ASSUME Bad # {} PROVE FALSE
    <3>1. PICK k \in Bad : \A j \in Bad : k <= j
      <4>1. Bad \subseteq Nat
        OBVIOUS
      <4> HIDE DEF Bad
      <4> QED BY <2>1, <4>1, LeastExists
    <3>2. k # 0
      BY <1>2, <3>1
    <3>3. k \in 1 .. count /\ k - 1 \in 0 .. count /\ ~(k <= k - 1)
      BY <3>1, <3>2
    <3>4. Good(k - 1)
      BY <3>1, <3>3
    <3> QED BY <1>3, <3>1, <3>3, <3>4
  <2> QED BY <2>1
<1>5. Good(count)
  BY <1>4
<1>6. QED
  BY <1>1, <1>5 DEF Good

-----------------------------------------------------------------------------
(* Declarations.                                                           *)

\* What new accepts is made of names that decode can read.
LEMMA ValidIsReadable ==
    ASSUME NEW name, NEW columns \in Seq(Column), ValidSchema(name, columns)
    PROVE  /\ IsText(name) /\ Len(columns) \in 1 .. MaxColumns
           /\ \A i \in 1 .. Len(columns) : Readable(columns[i])
<1>1. ASSUME NEW string, ValidIdentifier(string) PROVE IsText(string)
  <2>1. \A c \in Letter \cup Digit : c < 128
    BY DEF Letter, Digit
  <2>2. \A i \in DOMAIN string : string[i] \in Letter \cup Digit
    BY <1>1 DEF ValidIdentifier
  <2> QED BY <2>1, <2>2, Zenon DEF IsText
<1>2. /\ ValidIdentifier(name) /\ Len(columns) \in 1 .. MaxColumns
      /\ \A i \in DOMAIN columns : ValidIdentifier(columns[i].name)
  BY DEF ValidSchema
<1>3. ASSUME NEW i \in 1 .. Len(columns) PROVE Readable(columns[i])
  <2>1. i \in DOMAIN columns /\ columns[i] \in Column
    OBVIOUS
  <2> QED BY <1>1, <1>2, <2>1 DEF Readable
<1>4. QED
  BY <1>1, <1>2, <1>3

\* Where encode puts the parts of a declaration.
LEMMA SchemaPlaces ==
    ASSUME NEW name \in Seq(Nat), NEW columns \in Seq(Column)
    PROVE  LET cells == EncodedSchema(name, columns)
           IN  /\ cells \in Seq(Nat) /\ Len(cells) \in Nat
               /\ Len(cells) = 4 + Len(name) + Len(Flat(columns))
               /\ cells[1] = SchemaMagic /\ cells[2] = SchemaVersion /\ cells[3] = Len(columns)
               /\ Shows(cells, 0, EncodedSchema(name, columns))
               /\ Shows(cells, 3, EncodedString(name))
               /\ Shows(cells, 4 + Len(name), Flat(columns))
<1> DEFINE first == <<SchemaMagic, SchemaVersion, Len(columns)>>
           string == EncodedString(name)
           flat == Flat(columns)
           begin == first \o string
           cells == EncodedSchema(name, columns)
<1>1. /\ first \in Seq(Nat) /\ Len(first) = 3 /\ first[1] = SchemaMagic
      /\ first[2] = SchemaVersion /\ first[3] = Len(columns)
  <2>1. Len(columns) \in Nat
    OBVIOUS
  <2> QED BY <2>1 DEF SchemaMagic, SchemaVersion
<1>2. string \in Seq(Nat) /\ Len(string) = 1 + Len(name) /\ flat \in Seq(Nat)
  BY TextSizes, FlatColumns
<1>3. Len(name) \in Nat /\ Len(flat) \in Nat
  BY <1>2
<1>4. cells = begin \o flat
  BY DEF EncodedSchema, Flat, Pieces
<1> HIDE DEF first, string, flat, cells
<1>5. begin \in Seq(Nat) /\ Len(begin) = 3 + Len(string)
      /\ \A p \in 1 .. 3 : begin[p] = first[p]
  <2>1. \A m, r : Len(first) = m /\ r = first \o string =>
          /\ r \in Seq(Nat) /\ Len(r) = m + Len(string)
          /\ \A p \in 1 .. m : r[p] = first[p]
          /\ \A k \in 1 .. Len(string) : r[m + k] = string[k]
    BY <1>1, <1>2, JoinedNumbers
  <2>2. Len(first) = 3 /\ begin = first \o string
    BY <1>1
  <2> HIDE DEF begin
  <2> QED BY ONLY <2>1, <2>2, ZenonT(40)
<1>6. cells \in Seq(Nat) /\ Len(cells) = Len(begin) + Len(flat)
      /\ \A p \in 1 .. Len(begin) : cells[p] = begin[p]
  <2>1. \A m, r : Len(begin) = m /\ r = begin \o flat =>
          /\ r \in Seq(Nat) /\ Len(r) = m + Len(flat)
          /\ \A p \in 1 .. m : r[p] = begin[p]
          /\ \A k \in 1 .. Len(flat) : r[m + k] = flat[k]
    <3> HIDE DEF begin
    <3> QED BY <1>2, <1>5, JoinedNumbers
  <2> HIDE DEF begin
  <2> QED BY <1>4, <2>1, Zenon
<1>7. Len(cells) = 4 + Len(name) + Len(flat) /\ Len(cells) \in Nat
  BY <1>2, <1>3, <1>5, <1>6
<1>8. Shows(cells, 0, cells)
  BY <1>7 DEF Shows
<1>9. Shows(cells, 0, begin) /\ Shows(cells, 0 + Len(begin), flat)
  <2> HIDE DEF begin
  <2> QED BY <1>2, <1>4, <1>5, <1>6, <1>8, ShownTogether
<1>10. Shows(cells, 0 + Len(first), string)
  BY <1>1, <1>2, <1>6, <1>9, ShownTogether
<1>11. 0 + Len(first) = 3 /\ 0 + Len(begin) = 4 + Len(name)
  <2> HIDE DEF begin
  <2> QED BY <1>1, <1>2, <1>3, <1>5
<1>12. \A p \in 1 .. 3 : cells[p] = first[p]
  <2>1. \A p \in 1 .. 3 : p \in 1 .. Len(begin)
    BY <1>2, <1>3, <1>5
  <2> HIDE DEF begin
  <2> QED BY <1>5, <1>6, <2>1
<1>13. 1 \in 1 .. 3 /\ 2 \in 1 .. 3 /\ 3 \in 1 .. 3
  OBVIOUS
<1>14. cells[1] = SchemaMagic /\ cells[2] = SchemaVersion /\ cells[3] = Len(columns)
  BY <1>1, <1>12, <1>13
<1> HIDE DEF begin
<1>15. QED
  BY <1>6, <1>7, <1>8, <1>9, <1>10, <1>11, <1>14 DEF cells, flat, string

\* A string shown is a string read.
LEMMA StringShown ==
    ASSUME NEW cells \in Seq(Nat), NEW at \in Nat, NEW s \in Seq(Nat), IsText(s),
           Shows(cells, at, EncodedString(s))
    PROVE  ReadString(cells, at) = {[taken |-> s, at |-> at + 1 + Len(s)]}
<1> DEFINE string == EncodedString(s)
           n == Len(s)
<1>1. /\ n \in Nat /\ Len(string) = 1 + n /\ string[1] = n
      /\ \A k \in 1 .. n : string[1 + k] = s[k]
  <2>1. n \in Nat
    OBVIOUS
  <2> QED BY <2>1, TextSizes
<1>2. at + Len(string) <= Len(cells) /\ \A p \in 1 .. Len(string) : cells[at + p] = string[p]
  BY DEF Shows
<1> HIDE DEF string, n
<1>3. at + 1 + n <= Len(cells) /\ 1 \in 1 .. 1 + n
      /\ \A k \in 1 .. n : 1 + k \in 1 .. 1 + n /\ at + 1 + k = at + (1 + k)
  BY <1>1, <1>2
<1>4. cells[at + 1] = n /\ \A k \in 1 .. n : cells[at + 1 + k] = s[k]
  BY <1>1, <1>2, <1>3
<1>5. QED
  <2>1. /\ at + 1 + Len(s) <= Len(cells) /\ cells[at + 1] = Len(s)
        /\ \A k \in 1 .. Len(s) : cells[at + 1 + k] = s[k]
    BY <1>3, <1>4 DEF n
  <2>2. SubSeq(cells, (at + 1) + 1, (at + 1) + Len(s)) = s
    <3>1. at + 1 \in Nat /\ (at + 1) + Len(s) <= Len(cells)
          /\ \A k \in 1 .. Len(s) : cells[(at + 1) + k] = s[k]
      BY <2>1
    <3> QED BY <3>1, SubSeqIs
  <2>3. Len(s) \in Nat /\ Len(cells) \in Nat
    OBVIOUS
  <2>4. (at + 1) + 1 = at + 2 /\ (at + 1) + Len(s) = at + 1 + cells[at + 1]
    BY <2>1, <2>3
  <2>5. SubSeq(cells, at + 2, at + 1 + cells[at + 1]) = s
    BY <2>2, <2>4
  <2>6. ~(at >= Len(cells) \/ at + 1 + cells[at + 1] > Len(cells))
    BY <2>1, <2>3
  <2> QED BY <2>5, <2>6 DEF ReadString

LEMMA StringsShown ==
    ASSUME NEW cells \in Seq(Nat), NEW at \in Nat, NEW read \in ReadString(cells, at)
    PROVE  Shows(cells, at, EncodedString(read.taken))
<1> DEFINE s == read.taken
           piece == EncodedString(s)
           n == Len(s)
           end == read.at
<1>1. /\ s \in Seq(Nat) /\ n = cells[at + 1] /\ n \in Nat
      /\ end = at + 1 + n /\ end <= Len(cells)
      /\ s = SubSeq(cells, at + 2, end)
  BY StringsRead
<1>2. Len(piece) = 1 + n /\ piece[1] = n /\ \A k \in 1 .. n : piece[1 + k] = s[k]
  BY <1>1, TextSizes
<1> DEFINE r == [i \in 1 .. end - (at + 2) + 1 |-> cells[i + (at + 2) - 1]]
<1>3. SubSeq(cells, at + 2, end) = r
  <2>1. n \in Nat /\ end = at + 1 + n
    BY <1>1
  <2> HIDE DEF s, n, end, piece
  <2>2. end \in Nat
    BY <2>1
  <2> QED BY <2>2
<1>4. ASSUME NEW k \in 1 .. n PROVE s[k] = cells[at + (1 + k)]
  <2>1. s = r
    BY <1>1, <1>3
  <2> HIDE DEF s, n, end, piece
  <2>2. k \in 1 .. end - (at + 2) + 1 /\ k + (at + 2) - 1 = at + (1 + k)
    BY <1>1, SMTT(40)
  <2> QED BY <2>1, <2>2
<1> HIDE DEF s, n, end, piece
<1>5. ASSUME NEW p \in 1 .. Len(piece) PROVE cells[at + p] = piece[p]
  <2>1. CASE p = 1
    BY <1>1, <1>2, <2>1
  <2>2. CASE p # 1
    <3>1. p - 1 \in 1 .. n /\ 1 + (p - 1) = p
      BY <1>1, <1>2, <2>2, SMTT(40)
    <3> QED BY <1>2, <1>4, <3>1
  <2> QED BY <2>1, <2>2
<1>6. at + Len(piece) <= Len(cells)
  <2>1. n \in Nat /\ end = at + 1 + n /\ end <= Len(cells) /\ Len(piece) = 1 + n
    BY <1>1, <1>2
  <2>2. at + (1 + n) = end
    BY <2>1
  <2> QED BY <2>1, <2>2
<1>7. QED
  BY <1>5, <1>6 DEF Shows, piece, s

\* A declaration that new accepts decodes to itself.
LEMMA SchemaDecodes ==
    ASSUME NEW name \in Seq(Nat), NEW columns \in Seq(Column), ValidSchema(name, columns)
    PROVE  DecodedSchemas(EncodedSchema(name, columns)) = {[name |-> name, columns |-> columns]}
<1> DEFINE cells == EncodedSchema(name, columns)
           n == Len(name)
           count == Len(columns)
           schema == [name |-> name, columns |-> columns]
           walks(found) == {w \in ReadColumns(cells, cells[3], found.at) : w.at = Len(cells)}
           lists(found) == {[name |-> found.taken, columns |-> walk.taken] : walk \in walks(found)}
           all == UNION {lists(found) : found \in ReadString(cells, 3)}
           string == [taken |-> name, at |-> 4 + n]
           walk == [taken |-> columns, at |-> 4 + n + Len(Flat(columns))]
<1>1. /\ cells \in Seq(Nat) /\ Len(cells) \in Nat
      /\ Len(cells) = 4 + n + Len(Flat(columns))
      /\ cells[1] = SchemaMagic /\ cells[2] = SchemaVersion /\ cells[3] = count
      /\ Shows(cells, 3, EncodedString(name))
      /\ Shows(cells, 4 + n, Flat(columns))
  BY SchemaPlaces
<1>2. /\ IsText(name) /\ count \in 1 .. MaxColumns
      /\ \A i \in 1 .. count : Readable(columns[i])
  BY ValidIsReadable
<1>3. n \in Nat /\ count \in Nat /\ Flat(columns) \in Seq(Nat) /\ Len(Flat(columns)) \in Nat
  <2>1. Flat(columns) \in Seq(Nat)
    BY FlatColumns
  <2>2. Len(Flat(columns)) \in Nat
    BY <2>1
  <2>3. n \in Nat /\ count \in Nat
    OBVIOUS
  <2> QED BY <2>1, <2>2, <2>3
<1>4. DecodedSchemas(cells) =
        IF /\ Len(cells) >= 3
           /\ cells[1] = SchemaMagic /\ cells[2] = SchemaVersion
           /\ cells[3] \in 1 .. MaxColumns
        THEN {s \in all : ValidSchema(s.name, s.columns)} ELSE {}
  BY DEF DecodedSchemas
<1> HIDE DEF cells
<1>5. ReadString(cells, 3) = {string}
  <2>1. ReadString(cells, 3) = {[taken |-> name, at |-> 3 + 1 + Len(name)]}
    <3>1. 3 \in Nat
      OBVIOUS
    <3> QED BY <1>1, <1>2, <3>1, StringShown
  <2>2. 3 + 1 + Len(name) = 4 + n
    BY <1>3
  <2> QED BY <2>1, <2>2
<1>6. ReadColumns(cells, count, 4 + n) = {walk}
  <2>1. 4 + n \in Nat /\ 4 + n <= Len(cells)
    <3> HIDE DEF n
    <3> QED BY <1>1, <1>3
  <2> DEFINE a == 4 + n
  <2>2. /\ cells \in Seq(Nat) /\ count \in Nat /\ a \in Nat /\ a <= Len(cells)
        /\ Len(columns) = count /\ Shows(cells, a, Flat(columns))
        /\ \A i \in 1 .. count : Readable(columns[i])
    BY <1>1, <1>2, <1>3, <2>1
  <2> HIDE DEF a, n, count
  <2>3. ReadColumns(cells, count, a) = {[taken |-> columns, at |-> a + Len(Flat(columns))]}
    BY <2>2, ColumnsWalk, SMTT(30)
  <2> QED BY <2>3 DEF a
<1>7. walks(string) = {walk}
  <2>1. walks(string) = {w \in ReadColumns(cells, count, 4 + n) : w.at = Len(cells)}
    BY <1>1
  <2>2. walk.at = Len(cells)
    BY <1>1
  <2> HIDE DEF walk, walks, n
  <2> QED BY <1>6, <2>1, <2>2
<1>8. lists(string) = {schema}
  <2>1. lists(string) = {[name |-> name, columns |-> w.taken] : w \in {walk}}
    <3> HIDE DEF walks, walk
    <3> QED BY <1>7
  <2>2. walk.taken = columns
    OBVIOUS
  <2> HIDE DEF walk, walks, lists
  <2> QED BY <2>1, <2>2
<1>9. all = {schema}
  <2>1. UNION {lists(found) : found \in {string}} = lists(string)
    <3> HIDE DEF lists, string
    <3> QED OBVIOUS
  <2> HIDE DEF lists, string, schema
  <2> QED BY <1>5, <1>8, <2>1
<1>10. {s \in all : ValidSchema(s.name, s.columns)} = {schema}
  <2>1. schema.name = name /\ schema.columns = columns
    OBVIOUS
  <2> HIDE DEF all, schema
  <2> QED BY <1>9, <2>1
<1>11. /\ Len(cells) >= 3
       /\ cells[1] = SchemaMagic /\ cells[2] = SchemaVersion
       /\ cells[3] \in 1 .. MaxColumns
  <2> HIDE DEF n, count
  <2> QED BY <1>1, <1>2, <1>3
<1>12. QED
  <2> HIDE DEF all, schema
  <2>1. DecodedSchemas(cells) = {schema}
    BY <1>4, <1>10, <1>11
  <2> QED BY <2>1 DEF schema, cells

\* What decodes to a declaration is what encode writes for it, and new accepts it.
LEMMA SchemasDecoded ==
    ASSUME NEW cells \in Seq(Nat), NEW schema \in DecodedSchemas(cells)
    PROVE  /\ schema.name \in Seq(Nat) /\ schema.columns \in Seq(Column)
           /\ ValidSchema(schema.name, schema.columns)
           /\ EncodedSchema(schema.name, schema.columns) = cells
<1> DEFINE walks(found) == {w \in ReadColumns(cells, cells[3], found.at) : w.at = Len(cells)}
           lists(found) == {[name |-> found.taken, columns |-> walk.taken] : walk \in walks(found)}
           all == UNION {lists(found) : found \in ReadString(cells, 3)}
<1>1. /\ Len(cells) >= 3
      /\ cells[1] = SchemaMagic /\ cells[2] = SchemaVersion
      /\ cells[3] \in 1 .. MaxColumns
      /\ schema \in all /\ ValidSchema(schema.name, schema.columns)
  <2>1. DecodedSchemas(cells) =
          IF /\ Len(cells) >= 3
             /\ cells[1] = SchemaMagic /\ cells[2] = SchemaVersion
             /\ cells[3] \in 1 .. MaxColumns
          THEN {s \in all : ValidSchema(s.name, s.columns)} ELSE {}
    BY DEF DecodedSchemas
  <2> HIDE DEF all
  <2> QED BY <2>1
<1>2. PICK found \in ReadString(cells, 3) : schema \in lists(found)
  <2> HIDE DEF lists
  <2> QED BY <1>1
<1>3. PICK walk \in ReadColumns(cells, cells[3], found.at) :
        /\ walk.at = Len(cells)
        /\ schema = [name |-> found.taken, columns |-> walk.taken]
  BY <1>2
<1> DEFINE name == found.taken
           columns == walk.taken
           n == Len(name)
           at == found.at
           count == cells[3]
           flat == Flat(columns)
           string == EncodedString(name)
           encoded == EncodedSchema(name, columns)
<1>4. Len(cells) \in Nat /\ count \in Nat /\ 3 \in Nat
  <2>1. Len(cells) \in Nat /\ 3 \in 1 .. Len(cells)
    BY <1>1
  <2> QED BY <2>1
<1>5. /\ name \in Seq(Nat) /\ n \in Nat
      /\ at = 3 + 1 + n /\ at <= Len(cells)
      /\ Shows(cells, 3, string)
  BY <1>4, StringsRead, StringsShown
<1>6. at = 4 + n /\ at \in Nat
  <2> HIDE DEF at, n
  <2> QED BY <1>5
<1>7. Walked(cells, at, walk, count)
  BY <1>3, <1>4, <1>5, <1>6, ColumnsWalk
<1>8. /\ columns \in Seq(Column) /\ Len(columns) = count
      /\ Shows(cells, at, flat) /\ walk.at = at + Len(flat)
  BY <1>7 DEF Walked
<1>9. /\ encoded \in Seq(Nat) /\ Len(encoded) = 4 + n + Len(flat)
      /\ encoded[1] = SchemaMagic /\ encoded[2] = SchemaVersion /\ encoded[3] = count
      /\ Shows(encoded, 3, string) /\ Shows(encoded, 4 + n, flat)
  <2>1. name \in Seq(Nat) /\ columns \in Seq(Column) /\ Len(columns) = count
    BY <1>5, <1>8
  <2> HIDE DEF name, columns, count
  <2> QED BY <2>1, SchemaPlaces
<1>10. Len(flat) \in Nat /\ Len(string) = 1 + n
  <2>1. flat \in Seq(Nat)
    BY <1>8, FlatColumns
  <2>2. Len(flat) \in Nat
    BY <2>1
  <2> QED BY <1>5, <2>2, TextSizes
<1>11. Len(encoded) = Len(cells)
  BY <1>3, <1>6, <1>8, <1>9
<1> HIDE DEF name, columns, n, at, flat, string, encoded
<1>12. ASSUME NEW p \in 1 .. Len(encoded) PROVE encoded[p] = cells[p]
  <2>1. CASE p \in 1 .. 3
    <3>1. p = 1 \/ p = 2 \/ p = 3
      BY <2>1
    <3> QED BY <1>1, <1>9, <3>1
  <2>2. CASE p \in 4 .. 4 + n
    <3> DEFINE k == p - 3
    <3>1. k \in 1 .. Len(string) /\ p = 3 + k
      BY <1>5, <1>10, <2>2
    <3> HIDE DEF k
    <3> QED BY <1>5, <1>9, <3>1 DEF Shows
  <2>3. CASE p \in 5 + n .. 4 + n + Len(flat)
    <3> DEFINE k == p - (4 + n)
    <3>1. k \in 1 .. Len(flat) /\ p = (4 + n) + k
      BY <1>5, <1>10, <2>3
    <3> HIDE DEF k
    <3> QED BY <1>6, <1>8, <1>9, <3>1 DEF Shows
  <2>4. p \in 1 .. 3 \/ p \in 4 .. 4 + n \/ p \in 5 + n .. 4 + n + Len(flat)
    BY <1>5, <1>9, <1>10
  <2> QED BY <2>1, <2>2, <2>3, <2>4
<1>13. encoded = cells
  BY <1>9, <1>11, <1>12, SeqEqual
<1>14. schema.name = name /\ schema.columns = columns
  BY <1>3 DEF name, columns
<1>15. QED
  BY <1>1, <1>5, <1>8, <1>13, <1>14 DEF encoded

-----------------------------------------------------------------------------
(* Records of the catalog.                                                 *)

\* A table as a catalog may hold it.
Held(table) ==
    /\ table \in [id : Nat, heap : Nat, name : Seq(Nat), columns : Seq(Column)]
    /\ ValidSchema(table.name, table.columns)
    /\ table.id >= FirstTableId /\ table.heap # 0

LEMMA SixCells ==
    ASSUME NEW a \in Nat, NEW b \in Nat, NEW c \in Nat, NEW d \in Nat, NEW e \in Nat, NEW f \in Nat
    PROVE  LET s == <<a, b, c, d, e, f>>
           IN  /\ s \in Seq(Nat) /\ Len(s) = 6
               /\ s[1] = a /\ s[2] = b /\ s[3] = c /\ s[4] = d /\ s[5] = e /\ s[6] = f
OBVIOUS

\* Where create_table puts the parts of a record.
LEMMA RecordPlaces ==
    ASSUME NEW table, Held(table)
    PROVE  LET cells == EncodedRecord(table)
               schema == EncodedSchema(table.name, table.columns)
           IN  /\ cells \in Seq(Nat) /\ Len(cells) = 6 + Len(schema) /\ Len(schema) \in Nat
               /\ cells[1] = RecordMagic /\ cells[2] = RecordVersion /\ cells[3] = 0
               /\ cells[4] = table.id /\ cells[5] = table.heap /\ cells[6] = Len(schema)
               /\ \A k \in 1 .. Len(schema) : cells[6 + k] = schema[k]
               /\ SubSeq(cells, RecordHeaderSize + 1, Len(cells)) = schema
<1> DEFINE schema == EncodedSchema(table.name, table.columns)
           size == Len(schema)
           first == <<RecordMagic, RecordVersion, 0, table.id, table.heap, size>>
           cells == EncodedRecord(table)
<1>1. /\ table.id \in Nat /\ table.heap \in Nat
      /\ table.name \in Seq(Nat) /\ table.columns \in Seq(Column)
  BY DEF Held
<1>2. schema \in Seq(Nat) /\ size \in Nat
  BY <1>1, SchemaPlaces
<1>3. cells = first \o schema
  BY DEF EncodedRecord
<1> HIDE DEF schema, size, cells
<1>4. /\ first \in Seq(Nat) /\ Len(first) = 6
      /\ first[1] = RecordMagic /\ first[2] = RecordVersion /\ first[3] = 0
      /\ first[4] = table.id /\ first[5] = table.heap /\ first[6] = size
  <2>1. RecordMagic \in Nat /\ RecordVersion \in Nat /\ 0 \in Nat
    BY DEF RecordMagic, RecordVersion
  <2> QED BY <1>1, <1>2, <2>1, SixCells
<1> HIDE DEF first
<1>5. \A m, r : Len(first) = m /\ r = first \o schema =>
        /\ r \in Seq(Nat) /\ Len(r) = m + Len(schema)
        /\ \A p \in 1 .. m : r[p] = first[p]
        /\ \A k \in 1 .. Len(schema) : r[m + k] = schema[k]
  BY <1>2, <1>4, JoinedNumbers
<1>6. /\ cells \in Seq(Nat) /\ Len(cells) = 6 + Len(schema)
      /\ \A p \in 1 .. 6 : cells[p] = first[p]
      /\ \A k \in 1 .. Len(schema) : cells[6 + k] = schema[k]
  <2>1. /\ cells \in Seq(Nat) /\ Len(cells) = Len(first) + Len(schema)
        /\ \A p \in 1 .. Len(first) : cells[p] = first[p]
        /\ \A k \in 1 .. Len(schema) : cells[Len(first) + k] = schema[k]
    BY <1>3, <1>5, Zenon
  <2> QED BY <1>4, <2>1
<1>7. /\ 1 \in 1 .. 6 /\ 2 \in 1 .. 6 /\ 3 \in 1 .. 6
      /\ 4 \in 1 .. 6 /\ 5 \in 1 .. 6 /\ 6 \in 1 .. 6
  OBVIOUS
<1>8. /\ cells[1] = RecordMagic /\ cells[2] = RecordVersion /\ cells[3] = 0
      /\ cells[4] = table.id /\ cells[5] = table.heap /\ cells[6] = size
  BY <1>4, <1>6, <1>7
<1>9. SubSeq(cells, RecordHeaderSize + 1, Len(cells)) = schema
  <2>1. SubSeq(cells, 6 + 1, 6 + Len(schema)) = schema
    <3>1. 6 \in Nat /\ 6 + Len(schema) <= Len(cells)
      BY <1>2, <1>6 DEF size
    <3> QED BY <1>2, <1>6, <3>1, SubSeqIs
  <2> QED BY <1>6, <2>1 DEF RecordHeaderSize
<1>10. QED
  BY <1>2, <1>6, <1>8, <1>9 DEF cells, schema, size

LEMMA RecordDecodes ==
    ASSUME NEW table, Held(table)
    PROVE  DecodedTables(EncodedRecord(table)) = {table}
<1> DEFINE schema == EncodedSchema(table.name, table.columns)
           size == Len(schema)
           cells == EncodedRecord(table)
           rest == SubSeq(cells, RecordHeaderSize + 1, Len(cells))
           decoded == [name |-> table.name, columns |-> table.columns]
<1>1. /\ table \in [id : Nat, heap : Nat, name : Seq(Nat), columns : Seq(Column)]
      /\ ValidSchema(table.name, table.columns)
      /\ table.id >= FirstTableId /\ table.heap # 0
  BY DEF Held
<1>2. /\ Len(cells) = 6 + size /\ size \in Nat
      /\ cells[1] = RecordMagic /\ cells[2] = RecordVersion /\ cells[3] = 0
      /\ cells[4] = table.id /\ cells[5] = table.heap /\ cells[6] = size
      /\ rest = schema
  BY RecordPlaces
<1>3. DecodedTables(cells) =
        IF /\ Len(cells) >= RecordHeaderSize
           /\ cells[1] = RecordMagic /\ cells[2] = RecordVersion /\ cells[3] = 0
           /\ cells[4] >= FirstTableId /\ cells[5] # 0
           /\ RecordHeaderSize + cells[6] = Len(cells)
        THEN {TableOf(cells, s) : s \in DecodedSchemas(rest)} ELSE {}
  BY DEF DecodedTables
<1>4. DecodedSchemas(rest) = {decoded}
  <2>1. table.name \in Seq(Nat) /\ table.columns \in Seq(Column)
    BY <1>1
  <2> QED BY <1>1, <1>2, <2>1, SchemaDecodes
<1>5. TableOf(cells, decoded) = table
  BY <1>1, <1>2 DEF TableOf
<1> HIDE DEF size, cells, rest, decoded
<1>6. DecodedTables(cells) = {TableOf(cells, s) : s \in {decoded}}
  <2>1. Len(cells) >= RecordHeaderSize /\ RecordHeaderSize + cells[6] = Len(cells)
    BY <1>2 DEF RecordHeaderSize
  <2> QED BY <1>1, <1>2, <1>3, <1>4, <2>1
<1>7. QED
  BY <1>5, <1>6 DEF cells

LEMMA RecordsDecoded ==
    ASSUME NEW cells \in Seq(Nat), NEW table \in DecodedTables(cells)
    PROVE  Held(table) /\ EncodedRecord(table) = cells
<1> DEFINE rest == SubSeq(cells, RecordHeaderSize + 1, Len(cells))
<1>1. /\ Len(cells) >= RecordHeaderSize
      /\ cells[1] = RecordMagic /\ cells[2] = RecordVersion /\ cells[3] = 0
      /\ cells[4] >= FirstTableId /\ cells[5] # 0
      /\ RecordHeaderSize + cells[6] = Len(cells)
      /\ \E schema \in DecodedSchemas(rest) : table = TableOf(cells, schema)
  BY DEF DecodedTables
<1>2. PICK schema \in DecodedSchemas(rest) : table = TableOf(cells, schema)
  BY <1>1
<1>3. Len(cells) \in Nat /\ Len(cells) >= 6
  BY <1>1 DEF RecordHeaderSize
<1>4. rest = [k \in 1 .. Len(cells) - 6 |-> cells[6 + k]]
  <2>1. SubSeq(cells, 7, Len(cells)) = [k \in 1 .. Len(cells) - 7 + 1 |-> cells[k + 7 - 1]]
    OBVIOUS
  <2>2. Len(cells) - 7 + 1 = Len(cells) - 6
        /\ \A k \in 1 .. Len(cells) - 6 : k + 7 - 1 = 6 + k
    BY <1>3
  <2>3. SubSeq(cells, 7, Len(cells)) = [k \in 1 .. Len(cells) - 6 |-> cells[6 + k]]
    BY <2>1, <2>2
  <2> QED BY <2>3 DEF RecordHeaderSize
<1>5. rest \in Seq(Nat) /\ Len(rest) = Len(cells) - 6
      /\ \A k \in 1 .. Len(rest) : rest[k] = cells[6 + k]
  <2>1. \A k \in 1 .. Len(cells) - 6 : cells[6 + k] \in Nat
    BY <1>3
  <2> HIDE DEF rest
  <2> QED BY <1>3, <1>4, <2>1
<1> HIDE DEF rest
<1>6. /\ schema.name \in Seq(Nat) /\ schema.columns \in Seq(Column)
      /\ ValidSchema(schema.name, schema.columns)
      /\ EncodedSchema(schema.name, schema.columns) = rest
  BY <1>5, SchemasDecoded
<1>7. \A p \in 1 .. 6 : cells[p] \in Nat
  BY <1>3
<1>8. table = [id |-> cells[4], heap |-> cells[5], name |-> schema.name, columns |-> schema.columns]
  BY <1>2 DEF TableOf
<1>9. /\ table.id = cells[4] /\ table.heap = cells[5] /\ table.name = schema.name
      /\ table.columns = schema.columns
  BY <1>8
<1>10. Held(table)
  <2>1. cells[4] \in Nat /\ cells[5] \in Nat
    BY <1>7
  <2>2. table \in [id : Nat, heap : Nat, name : Seq(Nat), columns : Seq(Column)]
    BY <1>6, <1>8, <2>1
  <2> QED BY <1>1, <1>6, <1>9, <2>2 DEF Held
<1> DEFINE encoded == EncodedRecord(table)
           size == Len(rest)
<1>11. /\ encoded \in Seq(Nat) /\ Len(encoded) = 6 + size /\ size \in Nat
       /\ encoded[1] = RecordMagic /\ encoded[2] = RecordVersion /\ encoded[3] = 0
       /\ encoded[4] = table.id /\ encoded[5] = table.heap /\ encoded[6] = size
       /\ \A k \in 1 .. size : encoded[6 + k] = rest[k]
  <2>1. EncodedSchema(table.name, table.columns) = rest
    BY <1>6, <1>9
  <2> QED BY <1>10, <2>1, RecordPlaces
<1> HIDE DEF encoded, size
<1>12. cells[6] = size /\ Len(encoded) = Len(cells) /\ size = Len(cells) - 6
  <2>1. cells[6] \in Nat
    BY <1>7
  <2>2. 6 + cells[6] = Len(cells)
    BY <1>1 DEF RecordHeaderSize
  <2>3. size = Len(cells) - 6 /\ Len(encoded) = 6 + size
    BY <1>5, <1>11 DEF size
  <2> QED BY <1>3, <2>1, <2>2, <2>3
<1>13. ASSUME NEW p \in 1 .. Len(encoded) PROVE encoded[p] = cells[p]
  <2>1. CASE p \in 1 .. 6
    <3>1. p = 1 \/ p = 2 \/ p = 3 \/ p = 4 \/ p = 5 \/ p = 6
      BY <2>1
    <3> QED BY <1>1, <1>9, <1>11, <1>12, <3>1
  <2>2. CASE p \notin 1 .. 6
    <3> DEFINE k == p - 6
    <3>1. k \in 1 .. size /\ p = 6 + k
      BY <1>11, <2>2
    <3> HIDE DEF k
    <3> QED BY <1>5, <1>11, <3>1 DEF size
  <2> QED BY <2>1, <2>2
<1>14. encoded = cells
  BY <1>11, <1>12, <1>13, SeqEqual
<1>15. QED
  BY <1>10, <1>14 DEF encoded

-----------------------------------------------------------------------------
(* Rows that decode accepts.                                               *)

\* The cells that are single bytes in the file and not words: the bitmap,
\* and the payloads.
HoldsBytes(columns, cells) ==
    /\ \A b \in 1 .. BitmapSize(columns) : cells[b + 1] \in 0 .. 255
    /\ \A p \in MinimumRowSize(columns) + 1 .. Len(cells) : cells[p] \in 0 .. 255

Decoded(columns, cells) == [i \in 1 .. Len(columns) |-> DecodedColumn(columns, cells, i)]

\* Where a valid row has the slots, and where validate expects payloads.
LEMMA ValidPlaces ==
    ASSUME NEW columns \in Seq(Column), NEW cells \in Seq(Nat), ValidRow(columns, cells)
    PROVE  /\ MinimumRowSize(columns) \in Nat /\ MinimumRowSize(columns) <= Len(cells)
           /\ BitmapSize(columns) \in Nat /\ BitmapSize(columns) + 1 <= MinimumRowSize(columns)
           /\ \A i \in 1 .. Len(columns) : \A c \in 1 .. Width(columns[i].type) :
                /\ ColumnOffset(columns, i) + c \in 1 .. MinimumRowSize(columns)
                /\ SlotCell(columns, cells, i, c) \in Nat
           /\ \A i \in 1 .. Len(columns) : PayloadSize(columns, cells, i) \in Nat
<1> DEFINE n == Len(columns)
           m == MinimumRowSize(columns)
           B == BitmapSize(columns)
           off(i) == ColumnOffset(columns, i)
<1>1. n \in Nat /\ Len(cells) \in Nat
  OBVIOUS
<1>2. /\ B \in Nat /\ off(1) = 1 + B /\ m = off(n + 1)
      /\ \A i \in 1 .. n + 1 : off(i) \in Nat
      /\ \A i \in 1 .. n : off(i + 1) = off(i) + Width(columns[i].type)
      /\ \A i, j \in 1 .. n + 1 : i <= j => off(i) <= off(j)
  BY SlotPlaces
<1>3. m \in Nat /\ B + 1 <= m
  <2>1. n + 1 \in 1 .. n + 1 /\ 1 \in 1 .. n + 1 /\ 1 <= n + 1
    BY <1>1
  <2> HIDE DEF n, m, B, off
  <2> QED BY <1>2, <2>1
<1>4. m <= Len(cells)
  <2>1. Len(cells) \in m .. MaxRowSize
    BY DEF ValidRow
  <2> HIDE DEF m
  <2> QED BY <2>1
<1>5. ASSUME NEW i \in 1 .. n, NEW c \in 1 .. Width(columns[i].type)
      PROVE  off(i) + c \in 1 .. m /\ SlotCell(columns, cells, i, c) \in Nat
  <2>1. Width(columns[i].type) \in 1 .. 2
    BY WidthsAreSizes
  <2>2. i \in 1 .. n + 1 /\ i + 1 \in 1 .. n + 1 /\ n + 1 \in 1 .. n + 1 /\ i + 1 <= n + 1
    BY <1>1
  <2>3. off(i + 1) = off(i) + Width(columns[i].type) /\ off(i) \in Nat /\ off(i + 1) <= m
    <3> HIDE DEF n, m, off
    <3> QED BY <1>2, <2>2
  <2>4. off(i) + c \in 1 .. m
    <3> HIDE DEF off, m
    <3> QED BY <1>3, <2>1, <2>3
  <2>5. off(i) + c \in 1 .. Len(cells)
    <3> HIDE DEF off, m
    <3> QED BY <1>1, <1>3, <1>4, <2>4
  <2>6. cells[off(i) + c] \in Nat
    <3> HIDE DEF off
    <3> QED BY <2>5
  <2> QED BY <2>4, <2>6 DEF SlotCell
<1>6. ASSUME NEW i \in 1 .. n PROVE PayloadSize(columns, cells, i) \in Nat
  <2>1. CASE IsNull(cells, i) \/ columns[i].type \notin Variable
    BY <2>1 DEF PayloadSize
  <2>2. CASE ~(IsNull(cells, i) \/ columns[i].type \notin Variable)
    <3>1. 2 \in 1 .. Width(columns[i].type)
      BY <2>2 DEF Width
    <3> QED BY <1>5, <2>2, <3>1 DEF PayloadSize
  <2> QED BY <2>1, <2>2
<1>7. QED
  BY <1>2, <1>3, <1>4, <1>5, <1>6

\* No payload is expected in front of the slots' end.
LEMMA ExpectedBehind ==
    ASSUME NEW columns \in Seq(Column), NEW cells \in Seq(Nat), ValidRow(columns, cells)
    PROVE  \A i \in 1 .. Len(columns) + 1 :
             /\ ExpectedOffset(columns, cells)[i] \in Nat
             /\ MinimumRowSize(columns) <= ExpectedOffset(columns, cells)[i]
<1> DEFINE n == Len(columns)
           m == MinimumRowSize(columns)
           expected == ExpectedOffset(columns, cells)
           size(i) == PayloadSize(columns, cells, i)
           Bad == {i \in 1 .. n + 1 : ~(m <= expected[i])}
<1>1. n \in Nat /\ m \in Nat /\ \A i \in 1 .. n : size(i) \in Nat
  BY ValidPlaces
<1>2. /\ expected[1] = m /\ \A i \in 1 .. n + 1 : expected[i] \in Nat
      /\ \A i \in 1 .. n : expected[i + 1] = expected[i] + size(i)
  BY <1>1, ExpectedOffsets
<1> HIDE DEF expected, m, n, size
<1>3. ASSUME Bad # {} PROVE FALSE
  <2>1. PICK i \in Bad : \A j \in Bad : i <= j
    <3>1. Bad \subseteq Nat
      BY <1>1
    <3> HIDE DEF Bad
    <3> QED BY <1>3, <3>1, LeastExists
  <2>2. i # 1
    BY <1>1, <1>2, <2>1
  <2>3. i - 1 \in 1 .. n /\ i - 1 \in 1 .. n + 1 /\ (i - 1) + 1 = i /\ ~(i <= i - 1)
    BY <1>1, <2>1, <2>2
  <2>4. m <= expected[i - 1]
    BY <2>1, <2>3
  <2>5. expected[i] = expected[i - 1] + size(i - 1) /\ size(i - 1) \in Nat /\ expected[i - 1] \in Nat
    BY <1>1, <1>2, <2>3
  <2> QED BY <1>1, <2>1, <2>4, <2>5
<1>4. QED
  BY <1>2, <1>3 DEF m, n, expected

\* What a payload is read from.
LEMMA PayloadRead ==
    ASSUME NEW columns \in Seq(Column), NEW cells \in Seq(Nat), ValidRow(columns, cells),
           NEW i \in 1 .. Len(columns), columns[i].type \in Variable, ~IsNull(cells, i)
    PROVE  LET at == ExpectedOffset(columns, cells)[i]
               payload == DecodedPayload(columns, cells, i)
           IN  /\ at = SlotCell(columns, cells, i, 1)
               /\ payload \in Seq(Nat) /\ Len(payload) = SlotCell(columns, cells, i, 2)
               /\ at + Len(payload) <= Len(cells)
               /\ \A k \in 1 .. Len(payload) :
                    at + k \in MinimumRowSize(columns) + 1 .. Len(cells) /\ payload[k] = cells[at + k]
               /\ columns[i].type = "text" => IsText(payload)
<1> DEFINE at == ExpectedOffset(columns, cells)[i]
           m == MinimumRowSize(columns)
           size == SlotCell(columns, cells, i, 2)
           payload == DecodedPayload(columns, cells, i)
<1>1. m \in Nat /\ size \in Nat /\ Len(cells) \in Nat
  <2>1. 2 \in 1 .. Width(columns[i].type)
    BY DEF Width
  <2> QED BY <2>1, ValidPlaces
<1>2. at \in Nat /\ m <= at
  <2>1. i \in 1 .. Len(columns) + 1
    OBVIOUS
  <2> QED BY <2>1, ExpectedBehind
<1>3. ValidVariable(columns, cells, i)
  <2>1. ValidColumn(columns, cells, i)
    BY DEF ValidRow
  <2>2. columns[i].type # "bool"
    BY DEF Variable
  <2> QED BY <2>1, <2>2 DEF ValidColumn
<1>4. /\ SlotCell(columns, cells, i, 1) = at /\ at + size <= Len(cells)
      /\ columns[i].type = "text" => IsText(payload)
  BY <1>3 DEF ValidVariable
<1>5. payload = SubSeq(cells, at + 1, at + size)
  BY <1>4 DEF DecodedPayload
<1> HIDE DEF at, m, size, payload
<1>6. payload = [k \in 1 .. size |-> cells[at + k]]
  <2>1. payload = [k \in 1 .. (at + size) - (at + 1) + 1 |-> cells[k + (at + 1) - 1]]
    BY <1>1, <1>2, <1>5
  <2>2. (at + size) - (at + 1) + 1 = size /\ \A k \in 1 .. size : k + (at + 1) - 1 = at + k
    BY <1>1, <1>2
  <2> QED BY <2>1, <2>2
<1>7. \A k \in 1 .. size : at + k \in m + 1 .. Len(cells) /\ at + k \in 1 .. Len(cells)
  BY <1>1, <1>2, <1>4
<1>8. payload \in Seq(Nat) /\ Len(payload) = size /\ \A k \in 1 .. size : payload[k] = cells[at + k]
  <2>1. \A k \in 1 .. size : cells[at + k] \in Nat
    BY <1>7
  <2> QED BY <1>1, <1>6, <2>1
<1>9. QED
  BY <1>4, <1>7, <1>8 DEF at, m, size, payload

LEMMA SmallSequences ==
    ASSUME NEW s \in Seq(Nat), NEW m \in Nat, \A k \in 1 .. Len(s) : s[k] \in 0 .. m
    PROVE  s \in Seq(0 .. m)
<1>1. s = [k \in 1 .. Len(s) |-> s[k]] /\ Len(s) \in Nat
  OBVIOUS
<1>2. QED
  BY <1>1

\* What decode returns are values of the columns, and the payloads have the
\* lengths validate added up.
LEMMA DecodedTaken ==
    ASSUME NEW columns \in Seq(Column), NEW cells \in Seq(Nat), ValidRow(columns, cells),
           HoldsBytes(columns, cells), NEW i \in 1 .. Len(columns)
    PROVE  LET value == DecodedColumn(columns, cells, i)
           IN  /\ \/ value = Null /\ columns[i].nullable
                  \/ value \in ValueOf(columns[i].type)
               /\ value = Null <=> IsNull(cells, i)
               /\ Len(Payload(value)) = PayloadSize(columns, cells, i)
<1> DEFINE type == columns[i].type
           value == DecodedColumn(columns, cells, i)
           cell(c) == SlotCell(columns, cells, i, c)
           size == PayloadSize(columns, cells, i)
<1>1. type \in DataType /\ ValidColumn(columns, cells, i)
  BY WidthsAreSizes DEF ValidRow
<1>2. CASE IsNull(cells, i)
  <2>1. value = Null /\ columns[i].nullable
    BY <1>1, <1>2 DEF ValidColumn, ValidNull, DecodedColumn
  <2>2. Payload(Null) = <<>> /\ size = 0
    BY <1>2 DEF Payload, Null, Variable, PayloadSize
  <2>3. Len(<<>>) = 0
    OBVIOUS
  <2> HIDE DEF value, size
  <2> QED BY <1>2, <2>1, <2>2, <2>3 DEF value, size
<1>3. CASE ~IsNull(cells, i) /\ type \notin Variable
  <2>1. type # "bool" => cell(1) \in Nat
    <3>1. 1 \in 1 .. Width(type)
      BY DEF Width
    <3> QED BY <3>1, ValidPlaces
  <2>2. value = IF type = "bool" THEN <<type, cell(1) = 1>> ELSE <<type, cell(1)>>
    BY <1>3 DEF DecodedColumn
  <2>3. value \in ValueOf(type)
    <3>1. CASE type = "bool"
      <4>1. ValueOf("bool") = {"bool"} \X BOOLEAN
        BY DEF ValueOf
      <4>2. \A b \in BOOLEAN : <<"bool", b>> \in {"bool"} \X BOOLEAN
        OBVIOUS
      <4>3. (cell(1) = 1) \in BOOLEAN
        OBVIOUS
      <4> HIDE DEF cell
      <4>4. <<"bool", cell(1) = 1>> \in {"bool"} \X BOOLEAN
        BY <4>2, <4>3, Zenon
      <4> QED BY <2>2, <3>1, <4>1, <4>4, Zenon
    <3>2. CASE type # "bool"
      <4>1. type # "text" /\ type # "bytes"
        BY <1>3 DEF Variable
      <4> QED BY <2>1, <2>2, <3>2, <4>1 DEF ValueOf
    <3> QED BY <3>1, <3>2
  <2>4. size = 0
    BY <1>3 DEF PayloadSize
  <2>5. value # Null /\ Payload(value) = <<>>
    <3> HIDE DEF value
    <3> QED BY <1>1, <1>3, <2>3, ValueFacts, PayloadFacts
  <2>6. Len(<<>>) = 0
    OBVIOUS
  <2> HIDE DEF value, size
  <2> QED BY <1>3, <2>3, <2>4, <2>5, <2>6 DEF value, size
<1>4. CASE ~IsNull(cells, i) /\ type \in Variable
  <2> DEFINE payload == DecodedPayload(columns, cells, i)
             at == ExpectedOffset(columns, cells)[i]
             m == MinimumRowSize(columns)
  <2>1. value = <<type, payload>> /\ type # "bool"
    BY <1>4 DEF DecodedColumn, Variable
  <2>2. /\ payload \in Seq(Nat) /\ Len(payload) = cell(2)
        /\ \A k \in 1 .. Len(payload) :
             at + k \in m + 1 .. Len(cells) /\ payload[k] = cells[at + k]
        /\ type = "text" => IsText(payload)
    BY <1>4, PayloadRead
  <2>3. size = cell(2)
    BY <1>4 DEF PayloadSize
  <2>4. \A k \in 1 .. Len(payload) : payload[k] \in 0 .. 255
    <3>1. \A p \in m + 1 .. Len(cells) : cells[p] \in 0 .. 255
      BY DEF HoldsBytes
    <3> HIDE DEF payload, at, m
    <3> QED BY <2>2, <3>1
  <2> HIDE DEF payload
  <2>5. type = "text" => payload \in Seq(0 .. 127)
    <3>1. ASSUME type = "text" PROVE \A k \in 1 .. Len(payload) : payload[k] \in 0 .. 127
      <4>1. DOMAIN payload = 1 .. Len(payload)
        BY <2>2
      <4>2. \A k \in 1 .. Len(payload) : payload[k] < 128 /\ payload[k] \in 0 .. 255
        BY <2>2, <2>4, <3>1, <4>1 DEF IsText
      <4>3. \A x \in 0 .. 255 : x < 128 => x \in 0 .. 127
        OBVIOUS
      <4> QED BY <4>2, <4>3, ZenonT(40)
    <3>2. 127 \in Nat
      OBVIOUS
    <3>3. payload \in Seq(Nat)
      BY <2>2
    <3> QED BY <3>1, <3>2, <3>3, SmallSequences, Zenon
  <2>6. payload \in Seq(0 .. 255)
    <3>1. 255 \in Nat
      OBVIOUS
    <3>2. payload \in Seq(Nat)
      BY <2>2
    <3> QED BY <2>4, <3>1, <3>2, SmallSequences, Zenon
  <2>7. value \in ValueOf(type)
    <3>1. CASE type = "text"
      BY <2>1, <2>5, <3>1 DEF ValueOf
    <3>2. CASE type = "bytes"
      BY <2>1, <2>6, <3>2 DEF ValueOf
    <3> QED BY <1>4, <3>1, <3>2 DEF Variable
  <2>8. value # Null /\ Payload(value) = payload
    <3>1. value # Null
      <4> HIDE DEF value
      <4> QED BY <1>1, <2>7, ValueFacts, Zenon
    <3>2. value[1] = type /\ value[2] = payload
      BY <2>1
    <3> HIDE DEF value
    <3> QED BY <1>4, <3>1, <3>2 DEF Payload
  <2> HIDE DEF value, size
  <2> QED BY <1>4, <2>2, <2>3, <2>7, <2>8 DEF value, size
<1>5. QED
  BY <1>2, <1>3, <1>4

LEMMA RowTaken ==
    ASSUME NEW columns \in Seq(Column), NEW cells \in Seq(Nat), ValidRow(columns, cells),
           HoldsBytes(columns, cells)
    PROVE  /\ Takes(columns, Decoded(columns, cells))
           /\ \A i \in 1 .. Len(columns) :
                /\ Decoded(columns, cells)[i] = DecodedColumn(columns, cells, i)
                /\ Decoded(columns, cells)[i] = Null <=> IsNull(cells, i)
                /\ Len(Payload(Decoded(columns, cells)[i])) = PayloadSize(columns, cells, i)
<1> DEFINE n == Len(columns)
           values == Decoded(columns, cells)
<1>1. n \in Nat /\ \A i \in 1 .. n : values[i] = DecodedColumn(columns, cells, i)
  BY DEF Decoded
<1>2. \A i \in 1 .. n :
        /\ (values[i] = Null /\ columns[i].nullable) \/ values[i] \in ValueOf(columns[i].type)
        /\ values[i] = Null <=> IsNull(cells, i)
        /\ Len(Payload(values[i])) = PayloadSize(columns, cells, i)
  <2> HIDE DEF values
  <2> QED BY <1>1, DecodedTaken
<1>3. \A i \in 1 .. n : values[i] \in Value
  <2>1. \A i \in 1 .. n : columns[i].type \in DataType
    BY WidthsAreSizes
  <2> HIDE DEF values
  <2> QED BY <1>2, <2>1 DEF Value
<1>4. values \in Seq(Value) /\ Len(values) = n
  <2>1. values = [i \in 1 .. n |-> values[i]]
    BY DEF Decoded
  <2> HIDE DEF values, n
  <2> QED BY <1>1, <1>3, <2>1, SMTT(40)
<1>5. QED
  BY <1>1, <1>2, <1>4 DEF Takes

\* encode puts each payload where decode found it.
LEMMA PayloadsStay ==
    ASSUME NEW columns \in Seq(Column), NEW cells \in Seq(Nat), ValidRow(columns, cells),
           HoldsBytes(columns, cells)
    PROVE  \A i \in 1 .. Len(columns) + 1 :
             PayloadOffset(columns, Decoded(columns, cells), i) = ExpectedOffset(columns, cells)[i]
<1> DEFINE n == Len(columns)
           values == Decoded(columns, cells)
           m == MinimumRowSize(columns)
           expected == ExpectedOffset(columns, cells)
           at(i) == PayloadOffset(columns, values, i)
           size(i) == PayloadSize(columns, cells, i)
           Bad == {i \in 1 .. n + 1 : at(i) # expected[i]}
<1>1. n \in Nat /\ \A i \in 1 .. n : size(i) \in Nat
  BY ValidPlaces
<1>2. expected[1] = m /\ \A i \in 1 .. n : expected[i + 1] = expected[i] + size(i)
  BY <1>1, ExpectedOffsets
<1>3. at(1) = m /\ \A i \in 1 .. n : at(i + 1) = at(i) + size(i)
  <2>1. Takes(columns, values) /\ \A i \in 1 .. n : Len(Payload(values[i])) = size(i)
    BY RowTaken
  <2>2. at(1) = m /\ \A i \in 1 .. n : at(i + 1) = at(i) + Len(Payload(values[i]))
    BY <2>1, PayloadPlaces
  <2> HIDE DEF values, at, size, n, m
  <2> QED BY <2>1, <2>2
<1> HIDE DEF expected, at, m, n, size, values
<1>4. ASSUME Bad # {} PROVE FALSE
  <2>1. PICK i \in Bad : \A j \in Bad : i <= j
    <3>1. Bad \subseteq Nat
      BY <1>1
    <3> HIDE DEF Bad
    <3> QED BY <1>4, <3>1, LeastExists
  <2>2. i # 1
    BY <1>2, <1>3, <2>1
  <2>3. i - 1 \in 1 .. n /\ i - 1 \in 1 .. n + 1 /\ (i - 1) + 1 = i /\ ~(i <= i - 1)
    BY <1>1, <2>1, <2>2
  <2>4. at(i - 1) = expected[i - 1]
    BY <2>1, <2>3
  <2>5. expected[i] = expected[i - 1] + size(i - 1) /\ at(i) = at(i - 1) + size(i - 1)
    BY <1>2, <1>3, <2>3
  <2> QED BY <2>1, <2>4, <2>5
<1>5. QED
  BY <1>4 DEF at, expected, n, values

\* encode writes each slot as decode found it.
LEMMA SlotsStay ==
    ASSUME NEW columns \in Seq(Column), NEW cells \in Seq(Nat), ValidRow(columns, cells),
           HoldsBytes(columns, cells),
           NEW i \in 1 .. Len(columns), NEW c \in 1 .. Width(columns[i].type)
    PROVE  EncodedSlot(columns, Decoded(columns, cells), i)[c] = SlotCell(columns, cells, i, c)
<1> DEFINE type == columns[i].type
           values == Decoded(columns, cells)
           slot == EncodedSlot(columns, values, i)
           cell(k) == SlotCell(columns, cells, i, k)
<1>1. /\ type \in DataType /\ ValidColumn(columns, cells, i) /\ Width(type) \in 1 .. 2
  BY WidthsAreSizes DEF ValidRow
<1>2. /\ Takes(columns, values) /\ values[i] = DecodedColumn(columns, cells, i)
      /\ values[i] = Null <=> IsNull(cells, i)
      /\ Len(Payload(values[i])) = PayloadSize(columns, cells, i)
  BY RowTaken
<1> HIDE DEF values
<1>3. CASE IsNull(cells, i)
  <2>1. ValidNull(columns, cells, i)
    BY <1>1, <1>3 DEF ValidColumn
  <2>2. cell(c) = 0
    BY <2>1 DEF ValidNull
  <2>3. slot[c] = 0
    BY <1>2, <1>3, SlotFits
  <2> QED BY <2>2, <2>3 DEF values
<1>4. CASE ~IsNull(cells, i) /\ type = "bool"
  <2>1. cell(1) \in {0, 1} /\ type \notin Variable
    BY <1>1, <1>4 DEF ValidColumn, Variable
  <2>2. values[i] = <<type, cell(1) = 1>>
    BY <1>2, <1>4, <2>1 DEF DecodedColumn
  <2>3. c = 1
    BY <2>1 DEF Width
  <2>4. slot[1] = IF values[i][2] THEN 1 ELSE 0
    BY <1>2, <1>4, SlotFits
  <2>5. values[i][2] = (cell(1) = 1)
    BY <2>2
  <2>6. slot[1] = cell(1)
    BY <2>1, <2>4, <2>5
  <2> QED BY <2>3, <2>6 DEF values
<1>5. CASE ~IsNull(cells, i) /\ type \in Variable
  <2>1. slot[1] = PayloadOffset(columns, values, i) /\ slot[2] = Len(Payload(values[i]))
    BY <1>2, <1>5, SlotFits
  <2>2. PayloadOffset(columns, values, i) = ExpectedOffset(columns, cells)[i]
    <3>1. i \in 1 .. Len(columns) + 1
      OBVIOUS
    <3> QED BY <3>1, PayloadsStay DEF values
  <2>3. ExpectedOffset(columns, cells)[i] = cell(1)
    BY <1>5, PayloadRead
  <2>4. Len(Payload(values[i])) = cell(2)
    BY <1>2, <1>5 DEF PayloadSize
  <2>5. c = 1 \/ c = 2
    BY <1>1
  <2> QED BY <2>1, <2>2, <2>3, <2>4, <2>5 DEF values
<1>6. CASE ~IsNull(cells, i) /\ type \notin Variable \cup {"bool"}
  <2>1. values[i] = <<type, cell(1)>>
    BY <1>2, <1>6 DEF DecodedColumn
  <2>2. c = 1
    BY <1>6 DEF Width
  <2>3. slot[1] = values[i][2]
    BY <1>2, <1>6, SlotFits
  <2>4. values[i][2] = cell(1)
    BY <2>1
  <2> QED BY <2>2, <2>3, <2>4 DEF values
<1>7. QED
  BY <1>3, <1>4, <1>5, <1>6

-----------------------------------------------------------------------------
(* What encode writes for what decode returned.                            *)

\* Every byte has eight digits.
LEMMA ByteHasDigits ==
    ASSUME NEW x \in 0 .. 255
    PROVE  \E d : (\A k \in 1 .. 8 : d[k] \in {0, 1}) /\ x = Binary(d)
<1>1. PICK q1 \in 0 .. 127, d1 \in {0, 1} : x = 2 * q1 + d1
  <2>1. x \div 2 \in 0 .. 127 /\ x % 2 \in {0, 1} /\ x = 2 * (x \div 2) + (x % 2)
    OBVIOUS
  <2> QED BY <2>1, Zenon
<1>2. PICK q2 \in 0 .. 63, d2 \in {0, 1} : q1 = 2 * q2 + d2
  <2>1. q1 \div 2 \in 0 .. 63 /\ q1 % 2 \in {0, 1} /\ q1 = 2 * (q1 \div 2) + (q1 % 2)
    OBVIOUS
  <2> QED BY <2>1, Zenon
<1>3. PICK q3 \in 0 .. 31, d3 \in {0, 1} : q2 = 2 * q3 + d3
  <2>1. q2 \div 2 \in 0 .. 31 /\ q2 % 2 \in {0, 1} /\ q2 = 2 * (q2 \div 2) + (q2 % 2)
    OBVIOUS
  <2> QED BY <2>1, Zenon
<1>4. PICK q4 \in 0 .. 15, d4 \in {0, 1} : q3 = 2 * q4 + d4
  <2>1. q3 \div 2 \in 0 .. 15 /\ q3 % 2 \in {0, 1} /\ q3 = 2 * (q3 \div 2) + (q3 % 2)
    OBVIOUS
  <2> QED BY <2>1, Zenon
<1>5. PICK q5 \in 0 .. 7, d5 \in {0, 1} : q4 = 2 * q5 + d5
  <2>1. q4 \div 2 \in 0 .. 7 /\ q4 % 2 \in {0, 1} /\ q4 = 2 * (q4 \div 2) + (q4 % 2)
    OBVIOUS
  <2> QED BY <2>1, Zenon
<1>6. PICK q6 \in 0 .. 3, d6 \in {0, 1} : q5 = 2 * q6 + d6
  <2>1. q5 \div 2 \in 0 .. 3 /\ q5 % 2 \in {0, 1} /\ q5 = 2 * (q5 \div 2) + (q5 % 2)
    OBVIOUS
  <2> QED BY <2>1, Zenon
<1>7. PICK d8 \in {0, 1}, d7 \in {0, 1} : q6 = 2 * d8 + d7
  <2>1. q6 \div 2 \in {0, 1} /\ q6 % 2 \in {0, 1} /\ q6 = 2 * (q6 \div 2) + (q6 % 2)
    OBVIOUS
  <2> QED BY <2>1, Zenon
<1> DEFINE d == <<d1, d2, d3, d4, d5, d6, d7, d8>>
<1>8. x = d1 + 2 * d2 + 4 * d3 + 8 * d4 + 16 * d5 + 32 * d6 + 64 * d7 + 128 * d8
  BY <1>1, <1>2, <1>3, <1>4, <1>5, <1>6, <1>7
<1>9. /\ d[1] = d1 /\ d[2] = d2 /\ d[3] = d3 /\ d[4] = d4
      /\ d[5] = d5 /\ d[6] = d6 /\ d[7] = d7 /\ d[8] = d8
  OBVIOUS
<1> HIDE DEF d
<1>10. \A k \in 1 .. 8 : d[k] \in {0, 1}
  <2>1. \A k \in 1 .. 8 : k \in {1, 2, 3, 4, 5, 6, 7, 8}
    OBVIOUS
  <2> QED BY <1>9, <2>1
<1>11. x = Binary(d)
  BY <1>8, <1>9 DEF Binary
<1>12. QED
  BY <1>10, <1>11

\* A byte of which only the first j bits count.
LEMMA FirstDigits ==
    ASSUME NEW x \in 0 .. 255, NEW j \in 1 .. 8, NEW d, \A k \in 1 .. 8 : d[k] \in {0, 1},
           \A k \in 1 .. 8 : d[k] = 1 <=> k <= j /\ (x \div 2 ^ (k - 1)) % 2 = 1
    PROVE  Binary(d) = x % (2 * 2 ^ (j - 1))
<1> DEFINE power == 2 ^ (j - 1)
<1>1. PICK e : (\A k \in 1 .. 8 : e[k] \in {0, 1}) /\ x = Binary(e)
  BY ByteHasDigits
<1>2. \A k \in 1 .. 8 : (x \div 2 ^ (k - 1)) % 2 = e[k]
  BY <1>1, DigitShows, Zenon
<1>3. \A k \in 1 .. 8 : d[k] = IF k <= j THEN e[k] ELSE 0
  <2>1. ASSUME NEW k \in 1 .. 8 PROVE d[k] = IF k <= j THEN e[k] ELSE 0
    <3>1. d[k] = 1 <=> k <= j /\ e[k] = 1
      BY <1>2
    <3> QED BY <1>1, <3>1
  <2> QED BY <2>1
<1>4. /\ power \in Nat
      /\ j = 1 => power = 1
      /\ j = 2 => power = 2
      /\ j = 3 => power = 4
      /\ j = 4 => power = 8
      /\ j = 5 => power = 16
      /\ j = 6 => power = 32
      /\ j = 7 => power = 64
      /\ j = 8 => power = 128
      /\ j \in {1, 2, 3, 4, 5, 6, 7, 8}
  BY Weights, Zenon
<1> DEFINE Total(d1, d2, d3, d4, d5, d6, d7, d8) ==
             d1 + 2 * d2 + 4 * d3 + 8 * d4 + 16 * d5 + 32 * d6 + 64 * d7 + 128 * d8
           Parts(y, d1, d2, d3, d4, d5, d6, d7) ==
             /\ y % 2 = d1
             /\ y % 4 = d1 + 2 * d2
             /\ y % 8 = d1 + 2 * d2 + 4 * d3
             /\ y % 16 = d1 + 2 * d2 + 4 * d3 + 8 * d4
             /\ y % 32 = d1 + 2 * d2 + 4 * d3 + 8 * d4 + 16 * d5
             /\ y % 64 = d1 + 2 * d2 + 4 * d3 + 8 * d4 + 16 * d5 + 32 * d6
             /\ y % 128 = d1 + 2 * d2 + 4 * d3 + 8 * d4 + 16 * d5 + 32 * d6 + 64 * d7
             /\ y % 256 = y
<1>5. /\ e[1] \in {0, 1} /\ e[2] \in {0, 1} /\ e[3] \in {0, 1} /\ e[4] \in {0, 1}
      /\ e[5] \in {0, 1} /\ e[6] \in {0, 1} /\ e[7] \in {0, 1} /\ e[8] \in {0, 1}
  BY <1>1
<1>6. x = Total(e[1], e[2], e[3], e[4], e[5], e[6], e[7], e[8])
  BY <1>1 DEF Binary
<1>7. Parts(x, e[1], e[2], e[3], e[4], e[5], e[6], e[7])
  <2>1. \E d1, d2, d3, d4 \in {0, 1} : e[1] = d1 /\ e[2] = d2 /\ e[3] = d3 /\ e[4] = d4
    BY <1>5, Zenon
  <2>2. \E d5, d6, d7, d8 \in {0, 1} : e[5] = d5 /\ e[6] = d6 /\ e[7] = d7 /\ e[8] = d8
    BY <1>5, Zenon
  <2>3. PICK d1, d2, d3, d4 \in {0, 1} : e[1] = d1 /\ e[2] = d2 /\ e[3] = d3 /\ e[4] = d4
    BY <2>1
  <2>4. PICK d5, d6, d7, d8 \in {0, 1} : e[5] = d5 /\ e[6] = d6 /\ e[7] = d7 /\ e[8] = d8
    BY <2>2
  <2>5. x = Total(d1, d2, d3, d4, d5, d6, d7, d8)
    BY <1>6, <2>3, <2>4
  <2>6. Parts(x, d1, d2, d3, d4, d5, d6, d7)
    BY <2>5
  <2> HIDE DEF Parts
  <2> QED BY <2>3, <2>4, <2>6
<1>8. /\ d[1] = IF 1 <= j THEN e[1] ELSE 0
      /\ d[2] = IF 2 <= j THEN e[2] ELSE 0
      /\ d[3] = IF 3 <= j THEN e[3] ELSE 0
      /\ d[4] = IF 4 <= j THEN e[4] ELSE 0
      /\ d[5] = IF 5 <= j THEN e[5] ELSE 0
      /\ d[6] = IF 6 <= j THEN e[6] ELSE 0
      /\ d[7] = IF 7 <= j THEN e[7] ELSE 0
      /\ d[8] = IF 8 <= j THEN e[8] ELSE 0
  BY <1>3
<1> HIDE DEF power
<1>9. Binary(d) = x % (2 * power)
  <2>1. CASE j = 1
    BY <1>4, <1>5, <1>7, <1>8, <2>1 DEF Binary
  <2>2. CASE j = 2
    BY <1>4, <1>5, <1>7, <1>8, <2>2 DEF Binary
  <2>3. CASE j = 3
    BY <1>4, <1>5, <1>7, <1>8, <2>3 DEF Binary
  <2>4. CASE j = 4
    BY <1>4, <1>5, <1>7, <1>8, <2>4 DEF Binary
  <2>5. CASE j = 5
    BY <1>4, <1>5, <1>7, <1>8, <2>5 DEF Binary
  <2>6. CASE j = 6
    BY <1>4, <1>5, <1>7, <1>8, <2>6 DEF Binary
  <2>7. CASE j = 7
    BY <1>4, <1>5, <1>7, <1>8, <2>7 DEF Binary
  <2>8. CASE j = 8
    <3>1. /\ d[1] = e[1] /\ d[2] = e[2] /\ d[3] = e[3] /\ d[4] = e[4]
          /\ d[5] = e[5] /\ d[6] = e[6] /\ d[7] = e[7] /\ d[8] = e[8]
      BY <1>8, <2>8
    <3>2. Binary(d) = x
      BY <1>6, <3>1 DEF Binary
    <3>3. power = 128 /\ x % 256 = x
      BY <1>4, <1>7, <2>8
    <3> QED BY <3>2, <3>3
  <2> QED BY <1>4, <2>1, <2>2, <2>3, <2>4, <2>5, <2>6, <2>7, <2>8
<1>10. QED
  BY <1>9 DEF power

\* The last column's byte is the last of the bitmap.
LEMMA LastByte ==
    ASSUME NEW columns, Len(columns) \in Nat \ {0}
    PROVE  \E j \in 1 .. 8 :
             /\ Len(columns) = InByte(BitmapSize(columns), j)
             /\ BitmapSize(columns) \in Nat \ {0} /\ BitmapBit(Len(columns)) = 2 ^ (j - 1)
<1> DEFINE n == Len(columns)
<1>1. PICK b \in Nat \ {0}, j \in 1 .. 8 : n = InByte(b, j)
  BY BitPlaces
<1>2. n + 7 = 8 * b + (j - 1)
  BY <1>1 DEF InByte
<1>3. BitmapSize(columns) = b
  <2>1. \A q \in Nat, r \in 0 .. 7 : (8 * q + r) \div 8 = q
    OBVIOUS
  <2>2. (n + 7) \div 8 = b
    <3>1. j - 1 \in 0 .. 7 /\ b \in Nat
      OBVIOUS
    <3> HIDE DEF n
    <3> QED BY <1>2, <2>1, <3>1
  <2> QED BY <2>2 DEF BitmapSize
<1>4. BitmapBit(n) = 2 ^ (j - 1)
  BY <1>1, ByteColumns
<1>5. QED
  BY <1>1, <1>3, <1>4

\* encode writes each byte of the bitmap as decode found it, padding bits of
\* the last one apart.
LEMMA BitmapStays ==
    ASSUME NEW columns \in Seq(Column), Len(columns) # 0,
           NEW cells \in Seq(Nat), ValidRow(columns, cells),
           HoldsBytes(columns, cells), NEW b \in 1 .. BitmapSize(columns)
    PROVE  NullBitmap(Decoded(columns, cells))[b] =
             IF b = BitmapSize(columns) THEN cells[b + 1] % (2 * BitmapBit(Len(columns)))
             ELSE cells[b + 1]
<1> DEFINE n == Len(columns)
           values == Decoded(columns, cells)
           B == BitmapSize(columns)
           x == cells[b + 1]
<1>1. n \in Nat \ {0} /\ b \in Nat \ {0} /\ x \in 0 .. 255
  BY DEF HoldsBytes
<1>2. PICK last \in 1 .. 8 : n = InByte(B, last) /\ B \in Nat \ {0} /\ BitmapBit(n) = 2 ^ (last - 1)
  BY <1>1, LastByte
<1>3. /\ Takes(columns, values)
      /\ \A i \in 1 .. n : values[i] = Null <=> IsNull(cells, i)
  BY RowTaken
<1>4. /\ BitmapSize(values) = B /\ Len(values) \in Nat
      /\ DOMAIN values = 1 .. Len(values) /\ Len(values) = n
  BY <1>3, BitmapFits
<1> HIDE DEF values
<1>5. PICK d : /\ \A k \in 1 .. 8 : d[k] \in {0, 1}
               /\ NullBitmap(values)[b] = Binary(d)
               /\ \A k \in 1 .. 8 :
                    d[k] = 1 <=> InByte(b, k) <= Len(values) /\ values[InByte(b, k)] = Null
  <2>1. b \in 1 .. BitmapSize(values)
    BY <1>4
  <2> QED BY <1>4, <2>1, BitmapDigits, ZenonT(40)
<1> DEFINE j == IF b = B THEN last ELSE 8
<1>6. ASSUME NEW k \in 1 .. 8
      PROVE  d[k] = 1 <=> k <= j /\ (x \div 2 ^ (k - 1)) % 2 = 1
  <2> DEFINE i == InByte(b, k)
  <2>1. i \in Nat \ {0} /\ BitmapByte(i) = b /\ BitmapBit(i) = 2 ^ (k - 1)
    BY <1>1, ByteColumns
  <2>2. i <= n <=> k <= j
    <3>1. i = 8 * (b - 1) + k /\ n = 8 * (B - 1) + last
      BY <1>2 DEF InByte
    <3>2. b \in Nat /\ b <= B /\ B \in Nat
      BY <1>2
    <3> HIDE DEF i, n, B
    <3>3. CASE b = B
      BY <3>1, <3>2, <3>3
    <3>4. CASE b # B
      <4>1. b <= B - 1
        BY <3>2, <3>4
      <4> QED BY <3>1, <3>2, <3>4, <4>1
    <3> QED BY <3>3, <3>4
  <2>3. ASSUME i <= n PROVE values[i] = Null <=> (x \div 2 ^ (k - 1)) % 2 = 1
    <3>1. i \in 1 .. n
      <4> HIDE DEF i, n
      <4> QED BY <1>1, <2>1, <2>3
    <3>2. values[i] = Null <=> IsNull(cells, i)
      BY <1>3, <3>1
    <3>3. IsNull(cells, i) <=> (x \div 2 ^ (k - 1)) % 2 = 1
      <4> HIDE DEF i
      <4> QED BY <2>1 DEF IsNull
    <3> QED BY <3>2, <3>3
  <2>4. d[k] = 1 <=> i <= n /\ values[i] = Null
    BY <1>4, <1>5
  <2> HIDE DEF i, n, x, j
  <2> QED BY <2>2, <2>3, <2>4
<1>7. j \in 1 .. 8
  OBVIOUS
<1> HIDE DEF j, x
<1>8. Binary(d) = x % (2 * 2 ^ (j - 1))
  BY <1>1, <1>5, <1>6, <1>7, FirstDigits
<1>9. CASE b = B
  <2>1. j = last
    BY <1>9 DEF j
  <2> QED BY <1>2, <1>5, <1>8, <1>9, <2>1 DEF x, values
<1>10. CASE b # B
  <2>1. j = 8
    BY <1>10 DEF j
  <2>2. 2 * 2 ^ (8 - 1) = 256
    OBVIOUS
  <2>3. x % (2 * 2 ^ (j - 1)) = x
    <3>1. x % 256 = x
      BY <1>1
    <3> QED BY <2>1, <2>2, <3>1
  <2> QED BY <1>5, <1>8, <1>10, <2>3 DEF x, values
<1>11. QED
  BY <1>9, <1>10

LEMMA Shifted ==
    ASSUME NEW x \in Int, NEW y \in Int, NEW d \in Int, NEW z \in Int
    PROVE  x - z = (y - z) + d <=> x = y + d
OBVIOUS

\* A row that decode accepts is what encode writes for the values it
\* decodes to, padding bits apart.
LEMMA RowsDecoded ==
    ASSUME NEW columns \in Seq(Column), Len(columns) # 0, NEW cells \in Seq(Nat),
           HoldsBytes(columns, cells), NEW values \in DecodedRows(columns, cells)
    PROVE  EncodedRow(columns, values) = PaddingCleared(columns, cells)
<1> DEFINE n == Len(columns)
           B == BitmapSize(columns)
           m == MinimumRowSize(columns)
           off(i) == ColumnOffset(columns, i)
           at(i) == PayloadOffset(columns, values, i)
           expected == ExpectedOffset(columns, cells)
           row1 == EncodedRow(columns, values)
           row2 == PaddingCleared(columns, cells)
<1>1. ValidRow(columns, cells) /\ values = Decoded(columns, cells)
  <2>1. /\ ValidRow(columns, cells)
        /\ values = [k \in DOMAIN columns |-> DecodedColumn(columns, cells, k)]
    BY AllProjected
  <2>2. DOMAIN columns = 1 .. n
    OBVIOUS
  <2> QED BY <2>1, <2>2 DEF Decoded
<1>2. /\ n \in Nat /\ m \in Nat /\ B \in Nat \ {0} /\ B + 1 <= m /\ m <= Len(cells)
      /\ Len(cells) \in Nat
  <2>1. B \in Nat \ {0}
    <3>1. n \in Nat \ {0}
      OBVIOUS
    <3> QED BY <3>1, LastByte
  <2> QED BY <1>1, <2>1, ValidPlaces
<1>3. Takes(columns, values) /\ B \in Nat
  BY <1>1, <1>2, RowTaken
<1>4. \A i \in 1 .. n + 1 : at(i) = expected[i]
  BY <1>1, PayloadsStay
<1>5. /\ row1 \in Seq(Nat) /\ Len(row1) = Len(cells) /\ row1[1] = cells[1]
      /\ \A b \in 1 .. B : row1[b + 1] = NullBitmap(values)[b]
      /\ \A i \in 1 .. n : \A c \in 1 .. Width(columns[i].type) :
           SlotCell(columns, row1, i, c) = EncodedSlot(columns, values, i)[c]
      /\ \A i \in 1 .. n : \A k \in 1 .. Len(Payload(values[i])) :
           row1[at(i) + k] = Payload(values[i])[k]
  <2>1. at(n + 1) = Len(cells)
    <3>1. expected[n + 1] = Len(cells)
      BY <1>1 DEF ValidRow
    <3>2. n + 1 \in 1 .. n + 1
      BY <1>2
    <3> QED BY <1>4, <3>1, <3>2
  <2>2. cells[1] = RowVersion
    BY <1>1 DEF ValidRow
  <2> QED BY <1>3, <2>1, <2>2, RowPlaces
<1>6. /\ row2 \in Seq(Nat) /\ Len(row2) = Len(cells)
      /\ \A p \in 1 .. Len(cells) :
           row2[p] = IF p = B + 1 THEN cells[p] % (2 * BitmapBit(n)) ELSE cells[p]
  <2>1. BitmapBit(n) \in {1, 2, 4, 8, 16, 32, 64, 128}
    <3>1. n \in Nat \ {0}
      OBVIOUS
    <3> QED BY <3>1, BitTypes
  <2>2. \A x \in Nat : \A y \in {1, 2, 4, 8, 16, 32, 64, 128} : x % (2 * y) \in Nat
    OBVIOUS
  <2> DEFINE last == cells[B + 1] % (2 * BitmapBit(n))
  <2>3. cells[B + 1] \in Nat /\ last \in Nat
    <3>1. B + 1 \in 1 .. Len(cells)
      BY <1>2
    <3>2. cells[B + 1] \in Nat
      <4> HIDE DEF B
      <4> QED BY <3>1
    <3> QED BY <2>1, <2>2, <3>2, ZenonT(40)
  <2>4. row2 = [cells EXCEPT ![B + 1] = last]
    BY DEF PaddingCleared
  <2> HIDE DEF row2, last, B
  <2>5. /\ row2 \in Seq(Nat) /\ Len(row2) = Len(cells)
        /\ \A p \in 1 .. Len(cells) : row2[p] = IF p = B + 1 THEN last ELSE cells[p]
    <3>1. row2 = [p \in 1 .. Len(cells) |-> IF p = B + 1 THEN last ELSE cells[p]]
      <4>1. DOMAIN cells = 1 .. Len(cells)
        OBVIOUS
      <4>2. DOMAIN row2 = DOMAIN cells /\ row2 = [p \in DOMAIN row2 |-> row2[p]]
        BY <2>4
      <4>3. \A p \in DOMAIN cells : row2[p] = IF p = B + 1 THEN last ELSE cells[p]
        BY <2>4
      <4> QED BY <4>1, <4>2, <4>3
    <3>2. \A p \in 1 .. Len(cells) : (IF p = B + 1 THEN last ELSE cells[p]) \in Nat
      BY <2>3
    <3> QED BY <1>2, <3>1, <3>2
  <2> QED BY <2>5 DEF last
<1>7. ASSUME NEW p \in 1 .. Len(cells) PROVE row1[p] = row2[p]
  <2>1. CASE p = 1
    <3>1. p # B + 1
      BY <1>2, <2>1
    <3> HIDE DEF row1, row2, B
    <3> QED BY <1>5, <1>6, <2>1, <3>1
  <2>2. CASE p \in 2 .. B + 1
    <3> DEFINE b == p - 1
    <3>1. b \in 1 .. B /\ p = b + 1 /\ (b = B <=> p = B + 1)
      BY <1>2, <2>2
    <3>2. NullBitmap(values)[b] =
            IF b = B THEN cells[b + 1] % (2 * BitmapBit(n)) ELSE cells[b + 1]
      <4> HIDE DEF b
      <4> QED BY <1>1, <3>1, BitmapStays
    <3>3. row1[b + 1] = NullBitmap(values)[b]
      BY <1>5, <3>1
    <3>4. row2[p] = IF p = B + 1 THEN cells[p] % (2 * BitmapBit(n)) ELSE cells[p]
      BY <1>6
    <3> HIDE DEF row1, row2, B, b, n
    <3> QED BY <3>1, <3>2, <3>3, <3>4
  <2>3. CASE p \in B + 2 .. m
    <3> DEFINE v == Widths(columns)
               f == [i \in 0 .. n |-> off(i + 1) - (B + 1)]
    <3>1. /\ off(1) = 1 + B /\ m = off(n + 1)
          /\ \A i \in 1 .. n + 1 : off(i) \in Nat
          /\ \A i \in 1 .. n : off(i + 1) = off(i) + Width(columns[i].type)
      BY SlotPlaces
    <3>2. \A i \in 1 .. n : v[i] = Width(columns[i].type) /\ v[i] \in Nat
      <4>1. \A x \in 1 .. 2 : x \in Nat
        OBVIOUS
      <4> QED BY <4>1, WidthsAreSizes
    <3>3. \A i \in 0 .. n : f[i] = off(i + 1) - (B + 1)
      OBVIOUS
    <3> HIDE DEF v, f, off, n, m, B
    <3>4. f[0] = 0 /\ \A i \in 1 .. n : f[i] = f[i - 1] + v[i] /\ f[i - 1] = off(i) - (B + 1)
      <4>1. f[0] = 0
        BY <1>2, <3>1, <3>3
      <4>2. ASSUME NEW i \in 1 .. n PROVE f[i] = f[i - 1] + v[i] /\ f[i - 1] = off(i) - (B + 1)
        <5>1. i \in 0 .. n /\ i - 1 \in 0 .. n /\ (i - 1) + 1 = i /\ i \in 1 .. n + 1
          BY <1>2
        <5>2. f[i] = off(i + 1) - (B + 1) /\ f[i - 1] = off(i) - (B + 1)
          BY <3>3, <5>1
        <5>3. off(i + 1) = off(i) + v[i] /\ off(i) \in Nat /\ v[i] \in Nat
          BY <3>1, <3>2, <5>1
        <5>4. /\ off(i + 1) \in Int /\ off(i) \in Int /\ v[i] \in Int /\ B + 1 \in Int
              /\ off(i + 1) = off(i) + v[i]
          BY <1>3, <5>3
        <5>5. off(i + 1) - (B + 1) = (off(i) - (B + 1)) + v[i]
          BY <5>4, Shifted
        <5> QED BY <5>2, <5>5
      <4> QED BY <4>1, <4>2
    <3>5. Accumulates(f, v, n)
      BY <3>4 DEF Accumulates
    <3>6. p - (B + 1) \in 1 .. f[n]
      <4>1. n \in 0 .. n
        BY <1>2
      <4>2. f[n] = m - (B + 1)
        BY <3>1, <3>3, <4>1
      <4> QED BY <1>2, <2>3, <4>2
    <3>7. InPart(p - (B + 1), f, v, n)
      BY <1>2, <3>2, <3>5, <3>6, PlacesCover
    <3>8. PICK i \in 1 .. n : \E c \in 1 .. v[i] : p - (B + 1) = f[i - 1] + c
      BY <3>7 DEF InPart
    <3>9. PICK c \in 1 .. v[i] : p - (B + 1) = f[i - 1] + c
      BY <3>8
    <3>10. p = off(i) + c /\ c \in 1 .. Width(columns[i].type) /\ p # B + 1
      <4>1. off(i) \in Nat /\ f[i - 1] = off(i) - (B + 1) /\ v[i] = Width(columns[i].type) /\ v[i] \in Nat
        <5>1. i \in 1 .. n + 1
          BY <1>2
        <5> QED BY <3>1, <3>2, <3>4, <5>1
      <4>2. p \in Int /\ p # B + 1
        BY <1>2, <1>3, <2>3
      <4>3. c \in Int /\ p - (B + 1) = (off(i) - (B + 1)) + c
        BY <3>9, <4>1
      <4>4. p = off(i) + c
        <5> DEFINE z == B + 1
        <5>1. off(i) \in Int /\ z \in Int
          BY <1>3, <4>1
        <5>2. p - z = (off(i) - z) + c
          BY <4>3
        <5> HIDE DEF z
        <5> QED BY <4>2, <4>3, <5>1, <5>2, Shifted, SMTT(40)
      <4> QED BY <3>9, <4>1, <4>2, <4>4
    <3>11. SlotCell(columns, row1, i, c) = SlotCell(columns, cells, i, c)
      <4>1. EncodedSlot(columns, values, i)[c] = SlotCell(columns, cells, i, c)
        BY <1>1, <3>10, SlotsStay DEF n
      <4> HIDE DEF row1
      <4> QED BY <1>5, <3>10, <4>1
    <3>12. row1[p] = cells[p]
      <4> HIDE DEF row1
      <4> QED BY <3>10, <3>11 DEF SlotCell, off
    <3>13. row2[p] = cells[p]
      <4> HIDE DEF row2
      <4> QED BY <1>6, <3>10
    <3> QED BY <3>12, <3>13
  <2>4. CASE p \in m + 1 .. Len(cells)
    <3> DEFINE v == PayloadSizes(values)
               f == [i \in 0 .. n |-> at(i + 1) - m]
    <3>1. /\ at(1) = m /\ at(n + 1) = Len(cells)
          /\ \A i \in 1 .. n + 1 : at(i) \in Nat
          /\ \A i \in 1 .. n : at(i + 1) = at(i) + Len(Payload(values[i]))
      <4>1. Len(row1) = at(n + 1)
        BY <1>3, RowPlaces
      <4> HIDE DEF row1
      <4> QED BY <1>3, <1>5, <4>1, PayloadPlaces
    <3>2. \A i \in 1 .. n : v[i] = Len(Payload(values[i])) /\ v[i] \in Nat
      BY <1>3, TakenValues
    <3>3. \A i \in 0 .. n : f[i] = at(i + 1) - m
      OBVIOUS
    <3> HIDE DEF v, f, at, n, m, B
    <3>4. f[0] = 0 /\ \A i \in 1 .. n : f[i] = f[i - 1] + v[i] /\ f[i - 1] = at(i) - m
      <4>1. f[0] = 0
        BY <1>2, <3>1, <3>3
      <4>2. ASSUME NEW i \in 1 .. n PROVE f[i] = f[i - 1] + v[i] /\ f[i - 1] = at(i) - m
        <5>1. i \in 0 .. n /\ i - 1 \in 0 .. n /\ (i - 1) + 1 = i /\ i \in 1 .. n + 1
          BY <1>2
        <5>2. f[i] = at(i + 1) - m /\ f[i - 1] = at(i) - m
          BY <3>3, <5>1
        <5>3. at(i + 1) = at(i) + v[i] /\ at(i) \in Nat /\ v[i] \in Nat
          BY <3>1, <3>2, <5>1
        <5> QED BY <1>2, <5>2, <5>3
      <4> QED BY <4>1, <4>2
    <3>5. Accumulates(f, v, n)
      BY <3>4 DEF Accumulates
    <3>6. p - m \in 1 .. f[n]
      <4>1. n \in 0 .. n
        BY <1>2
      <4>2. f[n] = Len(cells) - m
        BY <3>1, <3>3, <4>1
      <4> QED BY <1>2, <2>4, <4>2
    <3>7. InPart(p - m, f, v, n)
      BY <1>2, <3>2, <3>5, <3>6, PlacesCover
    <3>8. PICK i \in 1 .. n : \E k \in 1 .. v[i] : p - m = f[i - 1] + k
      BY <3>7 DEF InPart
    <3>9. PICK k \in 1 .. v[i] : p - m = f[i - 1] + k
      BY <3>8
    <3>10. /\ p = at(i) + k /\ k \in 1 .. Len(Payload(values[i])) /\ p # B + 1
           /\ at(i) = expected[i]
      <4>1. /\ at(i) \in Nat /\ f[i - 1] = at(i) - m /\ v[i] = Len(Payload(values[i])) /\ v[i] \in Nat
            /\ at(i) = expected[i]
        <5>1. i \in 1 .. n + 1
          BY <1>2
        <5> HIDE DEF expected
        <5> QED BY <1>4, <3>1, <3>2, <3>4, <5>1 DEF at
      <4> HIDE DEF expected
      <4>2. p \in Int /\ p # B + 1
        BY <1>2, <1>3, <2>4
      <4>3. k \in Int /\ p - m = (at(i) - m) + k
        BY <3>9, <4>1
      <4>4. p = at(i) + k
        <5>1. at(i) \in Int /\ m \in Int
          BY <1>2, <4>1
        <5> QED BY <4>2, <4>3, <5>1, Shifted
      <4> QED BY <3>9, <4>1, <4>2, <4>4
    <3>11. Payload(values[i])[k] = cells[p]
      <4>1. /\ columns[i].type \in DataType
            /\ values[i] = Null \/ values[i] \in ValueOf(columns[i].type)
        BY <1>3, TakenValues DEF n
      <4>2. values[i] # Null /\ columns[i].type \in Variable
        <5>1. Payload(values[i]) # <<>>
          BY <3>10
        <5> QED BY <4>1, <5>1, PayloadFacts
      <4>3. values[i] = DecodedColumn(columns, cells, i) /\ ~IsNull(cells, i)
        BY <1>1, <4>2, RowTaken DEF n
      <4>4. columns[i].type # "bool"
        BY <4>2 DEF Variable
      <4>5. Payload(values[i]) = DecodedPayload(columns, cells, i)
        BY <4>2, <4>3, <4>4 DEF DecodedColumn, Payload
      <4>6. DecodedPayload(columns, cells, i)[k] = cells[expected[i] + k]
        <5>1. k \in 1 .. Len(DecodedPayload(columns, cells, i))
          BY <3>10, <4>5
        <5> QED BY <1>1, <4>2, <4>3, <5>1, PayloadRead DEF n
      <4> QED BY <3>10, <4>5, <4>6
    <3>12. row1[p] = cells[p]
      <4> HIDE DEF row1
      <4> QED BY <1>5, <3>10, <3>11 DEF n, at
    <3>13. row2[p] = cells[p]
      <4> HIDE DEF row2
      <4> QED BY <1>6, <3>10 DEF B, n
    <3> QED BY <3>12, <3>13
  <2>5. p = 1 \/ p \in 2 .. B + 1 \/ p \in B + 2 .. m \/ p \in m + 1 .. Len(cells)
    <3> HIDE DEF B, m
    <3> QED BY <1>2
  <2> QED BY <2>1, <2>2, <2>3, <2>4, <2>5
<1>8. QED
  <2> HIDE DEF row1, row2
  <2>1. row1 = row2
    BY <1>5, <1>6, <1>7, SeqEqual
  <2> QED BY <2>1 DEF row1, row2

-----------------------------------------------------------------------------
(* The state.                                                              *)

LEMMA EmptyPageRoom ==
    ASSUME NEW cells, Len(cells) \in Nat
    PROVE  Insert(EmptyPage, cells).res = "Ok" <=> Len(cells) <= MaxRowSize
<1>1. Sound(EmptyPage) /\ EmptyPage.slots = <<>> /\ Len(EmptyPage.slots) = 0
  BY EmptyPageSound DEF EmptyPage
<1>2. DirectoryGrowth(EmptyPage) = SlotSize
  <2>1. SlotsFlagged(EmptyPage, "free") = {}
    BY <1>1 DEF SlotsFlagged
  <2> QED BY <2>1 DEF DirectoryGrowth, ReusableSlot
<1>3. LiveBytes(EmptyPage)[Len(EmptyPage.slots)] = 0
  <2>1. EmptyPage \in Page
    BY <1>1 DEF Sound
  <2>2. LiveBytes(EmptyPage)[0] = 0
    BY <2>1, LiveBytesGrow
  <2> QED BY <1>1, <2>2
<1>4. Insert(EmptyPage, cells).res = "Ok" <=>
        HeaderSize + Len(EmptyPage.slots) * SlotSize + DirectoryGrowth(EmptyPage)
          + LiveBytes(EmptyPage)[Len(EmptyPage.slots)] + Len(cells) <= PageSize
  BY <1>1, RoomFound
<1>5. 0 * SlotSize = 0 /\ HeaderSize \in Nat /\ SlotSize \in Nat /\ PageSize \in Nat
  BY SlottedPageAssumption
<1> QED
  BY <1>1, <1>2, <1>3, <1>4, <1>5 DEF MaxRowSize

\* Damage leaves cells.
LEMMA DamageLeavesCells ==
    ASSUME NEW cells \in Seq(Nat), NEW damaged \in Damaged(cells)
    PROVE  damaged \in Seq(Nat)
<1>1. \A c \in Cell : c \in Nat
  BY StoredTableAssumption
<1>2. ASSUME NEW i \in DOMAIN cells, NEW c \in Nat PROVE [cells EXCEPT ![i] = c] \in Seq(Nat)
  OBVIOUS
<1>3. ASSUME NEW n \in 1 .. Len(cells) - 1 PROVE SubSeq(cells, 1, n) \in Seq(Nat)
  OBVIOUS
<1>4. ASSUME NEW c \in Nat PROVE Append(cells, c) \in Seq(Nat)
  OBVIOUS
<1>5. \/ \E i \in DOMAIN cells : \E c \in Cell : damaged = [cells EXCEPT ![i] = c]
      \/ \E n \in 1 .. Len(cells) - 1 : damaged = SubSeq(cells, 1, n)
      \/ \E c \in Cell : damaged = Append(cells, c)
  <2> DEFINE changed == {[cells EXCEPT ![i] = c] : i \in DOMAIN cells, c \in Cell}
             cut == {SubSeq(cells, 1, n) : n \in 1 .. Len(cells) - 1}
             extended == {Append(cells, c) : c \in Cell}
  <2>1. damaged \in changed \/ damaged \in cut \/ damaged \in extended
    <3>1. Damaged(cells) = changed \cup cut \cup extended
      BY DEF Damaged
    <3> HIDE DEF changed, cut, extended
    <3> QED BY <3>1
  <2>2. damaged \in changed => \E i \in DOMAIN cells : \E c \in Cell : damaged = [cells EXCEPT ![i] = c]
    OBVIOUS
  <2>3. damaged \in cut => \E n \in 1 .. Len(cells) - 1 : damaged = SubSeq(cells, 1, n)
    OBVIOUS
  <2>4. damaged \in extended => \E c \in Cell : damaged = Append(cells, c)
    OBVIOUS
  <2> QED BY <2>1, <2>2, <2>3, <2>4
<1>6. QED
  BY <1>1, <1>2, <1>3, <1>4, <1>5, Zenon

\* A row that encode took, for the values it was given.
Written(list) ==
    /\ list.columns \in Seq(Column) /\ Takes(list.columns, list.values)
    /\ row = EncodedRow(list.columns, list.values) /\ Len(row) <= MaxRowSize

StoredInv ==
    /\ record \in Seq(Nat) /\ row \in Seq(Nat) /\ damages \in 0 .. MaxDamage
    /\ \/ tables = {}
       \/ \E table : Held(table) /\ tables = {table}
    /\ \A table \in declared :
         Held(table) /\ record = EncodedRecord(table) /\ Len(record) <= MaxRowSize
    /\ \A list \in written : Written(list)

LEMMA InitStored == Init => StoredInv
<1> SUFFICES ASSUME Init PROVE StoredInv
  OBVIOUS
<1>1. <<>> \in Seq(Nat) /\ 0 \in 0 .. MaxDamage
  BY StoredTableAssumption
<1>2. QED
  BY <1>1 DEF Init, StoredInv

LEMMA DecodedHeld ==
    ASSUME NEW cells \in Seq(Nat)
    PROVE  \/ DecodedTables(cells) = {}
           \/ \E table : Held(table) /\ DecodedTables(cells) = {table}
<1>1. ASSUME NEW table \in DecodedTables(cells)
      PROVE  Held(table) /\ DecodedTables(cells) = {table}
  <2>1. Held(table) /\ EncodedRecord(table) = cells
    BY RecordsDecoded
  <2> QED BY <2>1, RecordDecodes
<1>2. QED
  BY <1>1

LEMMA NextStored == StoredInv /\ [Next]_vars => StoredInv'
<1> SUFFICES ASSUME StoredInv, [Next]_vars PROVE StoredInv'
  OBVIOUS
<1>1. /\ record \in Seq(Nat) /\ row \in Seq(Nat) /\ damages \in 0 .. MaxDamage
      /\ \/ tables = {}
         \/ \E table : Held(table) /\ tables = {table}
      /\ \A table \in declared :
           Held(table) /\ record = EncodedRecord(table) /\ Len(record) <= MaxRowSize
      /\ \A list \in written : Written(list)
  BY DEF StoredInv
<1>2. CASE \E columns \in Declarations :
             Declare([id |-> FirstTableId, heap |-> 2, name |-> <<84>>, columns |-> columns])
  <2>0. PICK columns \in Declarations :
        Declare([id |-> FirstTableId, heap |-> 2, name |-> <<84>>, columns |-> columns])
    BY <1>2
  <2> DEFINE table == [id |-> FirstTableId, heap |-> 2, name |-> <<84>>, columns |-> columns]
  <2>1. /\ ValidSchema(table.name, table.columns)
        /\ Len(EncodedRecord(table)) <= MaxRowSize
        /\ record' = EncodedRecord(table)
        /\ tables' = {table} /\ declared' = {table}
        /\ UNCHANGED <<row, written, damages>>
    BY <2>0 DEF Declare
  <2>2. Held(table)
    <3>1. columns \in Seq(Column) /\ <<84>> \in Seq(Nat)
      BY StoredTableAssumption
    <3>2. table.id >= FirstTableId /\ table.heap # 0
          /\ table \in [id : Nat, heap : Nat, name : Seq(Nat), columns : Seq(Column)]
      BY <3>1 DEF FirstTableId
    <3> HIDE DEF table
    <3> QED BY <2>1, <3>2 DEF Held
  <2> HIDE DEF table
  <2>3. record' \in Seq(Nat)
    BY <2>1, <2>2, RecordPlaces
  <2>4. \A list \in written' : Written(list)'
    BY <1>1, <2>1 DEF Written
  <2> QED BY <1>1, <2>1, <2>2, <2>3, <2>4 DEF StoredInv
<1>3. ASSUME Reopen PROVE StoredInv'
  <2>1. tables' = DecodedTables(record) /\ UNCHANGED <<record, row, declared, written, damages>>
    BY <1>3 DEF Reopen
  <2>2. \/ tables' = {}
        \/ \E table : Held(table) /\ tables' = {table}
    BY <1>1, <2>1, DecodedHeld
  <2>3. \A list \in written' : Written(list)'
    BY <1>1, <2>1 DEF Written
  <2> QED BY <1>1, <2>1, <2>2, <2>3 DEF StoredInv
<1>4. ASSUME NEW table \in tables, NEW values \in ValueLists(table.columns), WriteRow(table, values)
      PROVE  StoredInv'
  <2>1. /\ EncodesRow(table.columns, values)
        /\ row' = EncodedRow(table.columns, values)
        /\ written' = {[columns |-> table.columns, values |-> values]}
        /\ UNCHANGED <<record, tables, declared, damages>>
    BY <1>4 DEF WriteRow
  <2>2. Held(table)
    BY <1>1
  <2>3. table.columns \in Seq(Column)
    BY <2>2 DEF Held
  <2>4. Takes(table.columns, values) /\ Len(EncodedRow(table.columns, values)) <= MaxRowSize
    BY <2>1, <2>3, ConformingTaken DEF EncodesRow
  <2>5. row' \in Seq(Nat)
    BY <2>1, <2>3, <2>4, RowPlaces
  <2>6. ASSUME NEW list \in written' PROVE Written(list)'
    <3>1. list.columns = table.columns /\ list.values = values
      BY <2>1
    <3> QED BY <2>1, <2>3, <2>4, <3>1 DEF Written
  <2> QED BY <1>1, <2>1, <2>5, <2>6 DEF StoredInv
<1>5. ASSUME DamageRecord PROVE StoredInv'
  <2>1. /\ damages < MaxDamage /\ damages' = damages + 1
        /\ record' \in Damaged(record) /\ declared' = {}
        /\ UNCHANGED <<tables, row, written>>
    BY <1>5 DEF DamageRecord
  <2>2. record' \in Seq(Nat)
    BY <1>1, <2>1, DamageLeavesCells
  <2>3. damages' \in 0 .. MaxDamage
    BY <1>1, <2>1, StoredTableAssumption
  <2>4. \A list \in written' : Written(list)'
    BY <1>1, <2>1 DEF Written
  <2> QED BY <1>1, <2>1, <2>2, <2>3, <2>4 DEF StoredInv
<1>6. ASSUME DamageRow PROVE StoredInv'
  <2>1. /\ damages < MaxDamage /\ damages' = damages + 1
        /\ row' \in Damaged(row) /\ written' = {}
        /\ UNCHANGED <<record, tables, declared>>
    BY <1>6 DEF DamageRow
  <2>2. row' \in Seq(Nat)
    BY <1>1, <2>1, DamageLeavesCells
  <2>3. damages' \in 0 .. MaxDamage
    BY <1>1, <2>1, StoredTableAssumption
  <2> QED BY <1>1, <2>1, <2>2, <2>3 DEF StoredInv
<1>7. CASE UNCHANGED vars
  <2>1. UNCHANGED <<record, tables, row, declared, written, damages>>
    BY <1>7 DEF vars
  <2>2. \A list \in written' : Written(list)'
    BY <1>1, <2>1 DEF Written
  <2> QED BY <1>1, <2>1, <2>2 DEF StoredInv
<1>8. QED
  BY <1>2, <1>3, <1>4, <1>5, <1>6, <1>7 DEF Next

(* What every state holds: the table in the catalog is one that new        *)
(* accepts, a record that was not damaged is that of the table declared,   *)
(* and a row that was not damaged is that of values encode took.           *)
THEOREM StoredInvariant == Spec => []StoredInv
<1>1. QED
  BY InitStored, NextStored, PTL DEF Spec

(* A catalog that is opened again holds each table as it was declared, and *)
(* no table, damaged record or not, that TableSchema::new would refuse.    *)
THEOREM TablesReopen == Spec => []DeclarationsSurvive
<1>1. StoredInv => DeclarationsSurvive
  <2> SUFFICES ASSUME StoredInv PROVE DeclarationsSurvive
    OBVIOUS
  <2>1. \A table \in declared : DecodedTables(record) = {table}
    BY RecordDecodes DEF StoredInv
  <2>2. Cardinality(tables) <= 1
    <3>1. tables = {} \/ \E table : tables = {table}
      BY DEF StoredInv
    <3>2. Cardinality({}) = 0 /\ \A table : Cardinality({table}) = 1
      BY FS_EmptySet, FS_Singleton
    <3> QED BY <3>1, <3>2
  <2>3. \A table \in tables :
          ValidSchema(table.name, table.columns) /\ table.id >= FirstTableId /\ table.heap # 0
    BY DEF StoredInv, Held
  <2>4. record \in Seq(Nat) /\ row \in Seq(Nat) /\ damages \in 0 .. MaxDamage
    BY DEF StoredInv
  <2>5. TypeOK
    BY <2>2, <2>3, <2>4 DEF TypeOK
  <2> QED BY <2>1, <2>5 DEF DeclarationsSurvive
<1>2. QED
  BY <1>1, StoredInvariant, PTL

(* Open accepts a record only if it is what create_table writes for the    *)
(* table it decodes to.                                                    *)
THEOREM RecordsHaveOneEncoding == Spec => []RecordsCanonical
<1>1. StoredInv => RecordsCanonical
  BY RecordsDecoded DEF StoredInv, RecordsCanonical
<1>2. QED
  BY <1>1, StoredInvariant, PTL

(* A row that encode took reads back as the values it was written with,    *)
(* under the catalog's table before and after it is opened again.          *)
THEOREM RowsReadBack == Spec => []RowsSurvive
<1>1. StoredInv => RowsSurvive
  <2> SUFFICES ASSUME StoredInv, NEW list \in written, NEW table \in tables,
                      table.columns = list.columns
               PROVE  DecodedRows(table.columns, row) = {list.values}
    BY DEF RowsSurvive
  <2>1. /\ list.columns \in Seq(Column) /\ Takes(list.columns, list.values)
        /\ row = EncodedRow(list.columns, list.values) /\ Len(row) <= MaxRowSize
    BY DEF StoredInv, Written
  <2>2. DecodedRows(list.columns, row) = {list.values}
    BY <2>1, RowDecodes
  <2> QED BY <2>2
<1>2. QED
  BY <1>1, StoredInvariant, PTL

\* Where the layout of a table in the catalog reads single bytes, the row
\* holds bytes.  In the code every cell is a byte; here a slot or a number is
\* one cell, and a damaged declaration may read it in a byte's place.
BytesWhereRead ==
    row # <<>> => \A table \in tables : HoldsBytes(table.columns, row)

(* Whatever table opens, decode accepts a row of bytes only if it is what  *)
(* encode writes for the values it decodes to, padding bits apart.         *)
THEOREM RowsHaveOneEncoding == Spec => [](BytesWhereRead => RowsCanonical)
<1>1. StoredInv => (BytesWhereRead => RowsCanonical)
  <2> SUFFICES ASSUME StoredInv, BytesWhereRead, row # <<>>, NEW table \in tables,
                      NEW values \in DecodedRows(table.columns, row)
               PROVE  EncodedRow(table.columns, values) = PaddingCleared(table.columns, row)
    BY DEF RowsCanonical
  <2>1. table.columns \in Seq(Column) /\ ValidPrimaryKey(table.columns) /\ row \in Seq(Nat)
    BY DEF StoredInv, Held, ValidSchema
  <2>2. Len(table.columns) # 0
    <3> DEFINE columns == table.columns
    <3>1. PrimaryKeys(columns) # {}
      <4> SUFFICES ASSUME PrimaryKeys(columns) = {} PROVE FALSE
        OBVIOUS
      <4>1. Cardinality(PrimaryKeys(columns)) = 1
        BY <2>1 DEF ValidPrimaryKey
      <4>2. Cardinality(PrimaryKeys(columns)) = 0
        BY FS_EmptySet
      <4> HIDE DEF columns
      <4> QED BY <4>1, <4>2
    <3>2. PICK i : i \in PrimaryKeys(columns)
      BY <3>1
    <3>3. i \in DOMAIN columns
      BY <3>2 DEF PrimaryKeys
    <3> QED BY <2>1, <3>3
  <2>3. HoldsBytes(table.columns, row)
    BY DEF BytesWhereRead
  <2> QED BY <2>1, <2>2, <2>3, RowsDecoded
<1>2. QED
  BY <1>1, StoredInvariant, PTL

(* Whatever table opens and whatever row decodes under it, the primary key *)
(* of the row has a value.                                                 *)
THEOREM KeysHaveValues == Spec => []PrimaryKeyNeverNull
<1>1. StoredInv => PrimaryKeyNeverNull
  <2> SUFFICES ASSUME StoredInv, NEW table \in tables, NEW values \in DecodedRows(table.columns, row)
               PROVE  \E i \in PrimaryKeys(table.columns) : values[i] # Null
    BY DEF PrimaryKeyNeverNull
  <2> DEFINE columns == table.columns
  <2>1. columns \in Seq(Column) /\ ValidPrimaryKey(columns)
    BY DEF StoredInv, Held, ValidSchema
  <2>2. PICK i \in PrimaryKeys(columns) : ~columns[i].nullable
    <3>1. PrimaryKeys(columns) # {}
      <4>1. Cardinality(PrimaryKeys(columns)) = 1
        BY <2>1 DEF ValidPrimaryKey
      <4>2. Cardinality({}) = 0
        BY FS_EmptySet
      <4> HIDE DEF columns
      <4> QED BY <4>1, <4>2
    <3> QED BY <2>1, <3>1 DEF ValidPrimaryKey
  <2>3. i \in DOMAIN columns
    BY DEF PrimaryKeys
  <2>4. /\ \A k \in DOMAIN columns : ValidColumn(columns, row, k)
        /\ values = [k \in DOMAIN columns |-> DecodedColumn(columns, row, k)]
    BY AllProjected DEF ValidRow
  <2>5. ~IsNull(row, i)
    BY <2>2, <2>3, <2>4 DEF ValidColumn, ValidNull
  <2>6. DecodedColumn(columns, row, i)[1] = columns[i].type
    BY <2>5 DEF DecodedColumn
  <2>7. columns[i].type \in DataType
    <3>1. columns[i] \in Column
      BY <2>1, <2>3
    <3> QED BY <3>1 DEF Column
  <2>8. Null[1] \notin DataType
    BY DEF Null, DataType
  <2>9. values[i] = DecodedColumn(columns, row, i)
    BY <2>3, <2>4
  <2> QED BY <2>6, <2>7, <2>8, <2>9
<1>2. QED
  BY <1>1, StoredInvariant, PTL

(* encode_row takes exactly the rows that an empty heap page takes, and    *)
(* create_table only records that one takes.                               *)
THEOREM TakesWhatFitsAPage == Spec => []TakesWhatAPageTakes
<1>1. StoredInv => TakesWhatAPageTakes
  <2> SUFFICES ASSUME StoredInv PROVE TakesWhatAPageTakes
    OBVIOUS
  <2>1. ASSUME declared # {} PROVE Insert(EmptyPage, record).res = "Ok"
    <3>1. record \in Seq(Nat) /\ Len(record) <= MaxRowSize
      BY <2>1 DEF StoredInv
    <3>2. Len(record) \in Nat
      BY <3>1
    <3> QED BY <3>1, <3>2, EmptyPageRoom
  <2>2. ASSUME NEW table \in tables, NEW values \in ValueLists(table.columns),
               Conforms(table.columns, values)
        PROVE  EncodesRow(table.columns, values)
                 <=> Insert(EmptyPage, EncodedRow(table.columns, values)).res = "Ok"
    <3> DEFINE cells == EncodedRow(table.columns, values)
    <3>1. table.columns \in Seq(Column)
      BY DEF StoredInv, Held
    <3>2. Takes(table.columns, values)
      BY <2>2, <3>1, ConformingTaken
    <3>3. cells \in Seq(Nat)
      BY <3>1, <3>2, RowPlaces
    <3> HIDE DEF cells
    <3>4. Len(cells) \in Nat
      BY <3>3
    <3>5. Insert(EmptyPage, cells).res = "Ok" <=> Len(cells) <= MaxRowSize
      BY <3>4, EmptyPageRoom
    <3> QED BY <2>2, <3>5 DEF EncodesRow, cells
  <2> QED BY <2>1, <2>2 DEF TakesWhatAPageTakes
<1>2. QED
  BY <1>1, StoredInvariant, PTL
=============================================================================
