--------------------------- MODULE PageLifeProofs ---------------------------
(***************************************************************************)
(* Proofs about a heap page, for every page size, header, entry size,      *)
(* generation limit and set of records: the page is always valid, and it   *)
(* implements RowStore.                                                    *)
(***************************************************************************)
EXTENDS PageLife, HeapLemmas

LifeInv ==
    /\ Sound(page)
    /\ issued \subseteq Rid
    /\ \A rid \in issued : HandedOut(page, rid)
    /\ LiveRids(page) \subseteq issued

\* An insert adds one row under a rid never issued, or changes no row.
LEMMA InsertStep ==
    ASSUME LifeInv, NEW record \in Records, InsertRecord(record)
    PROVE  /\ LifeInv'
           /\ \/ UNCHANGED issued /\ SameRows(page, page')
              \/ \E rid \in Rid \ issued :
                   /\ issued' = issued \cup {rid}
                   /\ Places(page, page', rid.slot, rid.gen, record)
<1> DEFINE answer == Insert(page, record)
           rid == answer.rid
<1>1. /\ Sound(page) /\ page \in Page /\ record \in Seq(Byte) /\ page' = answer.page
      /\ Sound(page') /\ page' \in Page
  BY InsertSound, PageLifeAssumption DEF LifeInv, InsertRecord, Sound
<1>2. CASE answer.res = "Ok"
  <2>1. /\ issued' = issued \cup {rid} /\ rid \in Rid
        /\ Places(page, page', rid.slot, rid.gen, record)
    BY <1>1, <1>2, InsertSound DEF InsertRecord
  <2> HIDE DEF rid
  <2>2. rid \notin issued /\ \A r \in issued \cup {rid} : HandedOut(page', r)
    <3>1. issued \subseteq Rid /\ \A r \in issued : HandedOut(page, r)
      BY DEF LifeInv
    <3>2. page \in Page /\ rid \in Rid /\ Places(page, page', rid.slot, rid.gen, record)
      BY <1>1, <2>1
    <3> QED
      BY ONLY <3>1, <3>2, PlacesHandsOut
  <2>3. LiveRids(page') = LiveRids(page) \cup {rid}
    BY <1>1, <2>1, PlacesRow
  <2> QED
    BY <1>1, <2>1, <2>2, <2>3 DEF LifeInv
<1>3. CASE answer.res # "Ok"
  <2>1. UNCHANGED issued /\ SameRows(page, page')
    BY <1>1, <1>3, InsertSound DEF InsertRecord
  <2> QED
    BY <1>1, <2>1, SameRowsKept, SameRowsHandedOut DEF LifeInv
<1>4. QED
  BY <1>2, <1>3

LEMMA DeleteStep ==
    ASSUME LifeInv, NEW rid \in Rid, DeleteRecord(rid)
    PROVE  /\ LifeInv' /\ UNCHANGED issued
           /\ \/ ~ValidRid(page, rid) /\ page' = page
              \/ ValidRid(page, rid) /\ Empties(page, page', rid.slot)
<1>1. CASE ~ValidRid(page, rid)
  <2>1. page' = page /\ issued' = issued
    BY <1>1 DEF DeleteRecord, Delete, Answer
  <2> QED
    BY <1>1, <2>1 DEF LifeInv
<1>2. CASE ValidRid(page, rid)
  <2>1. /\ Sound(page) /\ page \in Page /\ Sound(page')
        /\ Empties(page, page', rid.slot) /\ issued' = issued
    BY <1>2, DeleteSound DEF DeleteRecord, LifeInv, Sound
  <2>2. \A r \in issued : HandedOut(page', r)
    BY <2>1, EmptiesHandedOut DEF LifeInv
  <2>3. LiveRids(page') \subseteq issued'
    BY <1>2, <2>1, EmptiesRow DEF LifeInv
  <2> QED
    BY <1>2, <2>1, <2>2, <2>3 DEF LifeInv
<1>3. QED
  BY <1>1, <1>2

LEMMA CompactStep ==
    ASSUME LifeInv, CompactPage
    PROVE  LifeInv' /\ UNCHANGED issued /\ SameRows(page, page')
<1>1. Sound(page) /\ Sound(page') /\ page \in Page /\ SameRows(page, page') /\ issued' = issued
  BY CompactSound DEF LifeInv, CompactPage, Sound
<1>2. QED
  BY <1>1, SameRowsKept, SameRowsHandedOut DEF LifeInv

LEMMA LifeInvInit == Init => LifeInv
BY EmptyPageSound DEF Init, LifeInv

LEMMA LifeInvStep == LifeInv /\ [Next]_vars => LifeInv'
<1> SUFFICES ASSUME LifeInv, [Next]_vars PROVE LifeInv'
  OBVIOUS
<1>1. CASE UNCHANGED vars
  BY <1>1 DEF vars, LifeInv
<1>2. ASSUME NEW record \in Records, InsertRecord(record) PROVE LifeInv'
  BY <1>2, InsertStep
<1>3. ASSUME NEW rid \in Rid, DeleteRecord(rid) PROVE LifeInv'
  BY <1>3, DeleteStep
<1>4. CASE CompactPage
  BY <1>4, CompactStep
<1>5. QED
  BY <1>1, <1>2, <1>3, <1>4 DEF Next

(* The inductive invariant: no sequence of operations leaves the sound     *)
(* pages, and every rid issued is of its slot's past or present.           *)
THEOREM LifeInvariant == Spec => []LifeInv
BY LifeInvInit, LifeInvStep, PTL DEF Spec

(* What validate asks of a page read from disk holds after any operations, *)
(* and compaction never finds the records larger than their room.          *)
THEOREM PageAlwaysValid == Spec => []PageStaysValid
<1>1. LifeInv => PageStaysValid
  <2> SUFFICES ASSUME LifeInv PROVE PageStaysValid
    OBVIOUS
  <2>1. Sound(page) /\ page \in Page /\ issued \subseteq Rid
    BY DEF LifeInv, Sound
  <2>2. TypeOK
    BY <2>1 DEF TypeOK
  <2> QED
    BY <2>1, <2>2, CompactSound DEF PageStaysValid, Sound
<1>2. QED
  BY <1>1, LifeInvariant, PTL

-----------------------------------------------------------------------------
\* The live records of a page, in whatever order they are added up, take
\* what compact needs for them.
LEMMA RowsTakeLiveBytes ==
    ASSUME NEW pg \in Page, NEW n, n = Len(pg.slots),
           NEW v, \A i \in 1 .. n : v[i] = pg.slots[i].length
    PROVE  SumOn(v, LiveSlots(pg), n) = LiveBytes(pg)[n]
<1> DEFINE L == LiveSlots(pg)
           w == Masked(v, L, n)
           x == SlotBytes(pg)
           g == TotalOf(w, n)
           f == LiveBytes(pg)
<1>1. /\ n \in Nat /\ n \in 0 .. n
      /\ \A i \in 1 .. n : v[i] \in Nat
      /\ \A i \in 1 .. n : w[i] = IF i \in L THEN v[i] ELSE 0
  BY SlotTypes DEF Masked
<1>2. /\ Accumulates(f, x, n)
      /\ \A i \in 0 .. n : f[i] \in Nat
      /\ \A i \in 1 .. n : x[i] \in Nat
      /\ \A i \in 1 .. n : x[i] = w[i]
  <2>1. \A i \in 1 .. n : x[i] = IF i \in L THEN pg.slots[i].length ELSE 0
    BY LiveBytesGrow
  <2> HIDE DEF L, w, x, f
  <2>2. \A i \in 1 .. n : x[i] = w[i]
    BY <1>1, <2>1
  <2> QED
    BY <2>2, LiveBytesGrow DEF x, f, Accumulates
<1>3. \A i \in 1 .. n : w[i] \in Nat
  BY <1>1, <1>2
<1>4. Totals(g, w, n)
  <2> HIDE DEF w
  <2> QED
    BY <1>1, <1>3, TotalOfIsTotal
<1> HIDE DEF w, x, g, f
<1>5. Accumulates(g, w, n)
  BY <1>1, <1>3, <1>4, TotalsGrow DEF Accumulates
<1>6. PICK m \in Nat : m = n + 1
  BY <1>1
<1>7. PICK d \in Int : d = 0
  OBVIOUS
<1>8. m # 0 /\ ChangedAt(w, x, n, m, d)
  BY <1>1, <1>2, <1>6, <1>7 DEF ChangedAt
<1>9. \A i \in 0 .. n : g[i] = IF m <= i THEN f[i] + d ELSE f[i]
  BY ONLY <1>1, m \in Nat, d \in Int, <1>2, <1>5, <1>8, TotalsChange
<1>10. g[n] = f[n]
  BY <1>1, <1>6, <1>9
<1>11. QED
  BY <1>10, Zenon DEF SumOn, g, w, f

\* A sound page takes the records that fit beside its live ones.
LEMMA SoundInsertsWhatFits ==
    ASSUME Sound(page), NEW record \in Records
    PROVE  Insert(page, record).res = "Ok" <=>
            LET entry == IF SlotsFlagged(page, "free") = {} THEN SlotSize ELSE 0
                taken(i) == Len(Get(page, [slot |-> i, gen |-> page.slots[i].gen]))
                total[S \in SUBSET LiveSlots(page)] ==
                    IF S = {} THEN 0
                    ELSE LET i == CHOOSE i \in S : TRUE IN taken(i) + total[S \ {i}]
            IN  HeaderSize + Len(page.slots) * SlotSize + entry
                  + total[LiveSlots(page)] + Len(record) <= PageSize
<1> DEFINE n == Len(page.slots)
           L == LiveSlots(page)
           v == [i \in 1 .. n |-> page.slots[i].length]
           entry == IF SlotsFlagged(page, "free") = {} THEN SlotSize ELSE 0
           taken(i) == Len(Get(page, [slot |-> i, gen |-> page.slots[i].gen]))
           Sum(t) == [S \in SUBSET L |->
                        IF S = {} THEN 0
                        ELSE LET i == CHOOSE i \in S : TRUE IN taken(i) + t[S \ {i}]]
           Step(t) == [S \in SUBSET L |->
                        IF S = {} THEN 0
                        ELSE LET i == CHOOSE i \in S : TRUE IN v[i] + t[S \ {i}]]
           Adds(t) == t = Sum(t)
           total == CHOOSE t : Adds(t)
<1>1. /\ page \in Page /\ n \in Nat /\ L \in SUBSET (1 .. n)
      /\ \A i \in 1 .. n : v[i] = page.slots[i].length
      /\ \A i \in 1 .. n : v[i] \in Nat
  BY SlotTypes DEF Sound
<1>2. ASSUME NEW i \in L PROVE taken(i) = v[i]
  <2>1. i \in 1 .. n
    BY <1>1
  <2>2. PICK length \in Nat : length = page.slots[i].length
    BY <1>1, <2>1
  <2>3. Get(page, [slot |-> i, gen |-> page.slots[i].gen])
          = [k \in 1 .. length |-> page.bytes[page.slots[i].offset + k - 1]]
    BY <2>2 DEF Get
  <2>4. taken(i) = length
    BY <2>2, <2>3
  <2> QED
    BY <1>1, <2>1, <2>2, <2>4
<1>3. ASSUME NEW t PROVE Adds(t) <=> AddsUp(t, v, L)
  <2> DEFINE first(S) == CHOOSE i \in S : TRUE
  <2>1. ASSUME NEW S \in SUBSET L PROVE Sum(t)[S] = Step(t)[S]
    <3>1. CASE S = {}
      BY <3>1
    <3>2. CASE S # {}
      <4>1. first(S) \in S
        BY <3>2
      <4>2. taken(first(S)) = v[first(S)]
        BY <1>2, <4>1
      <4> HIDE DEF taken, v
      <4>3. /\ Sum(t)[S] = taken(first(S)) + t[S \ {first(S)}]
            /\ Step(t)[S] = v[first(S)] + t[S \ {first(S)}]
        BY <3>2
      <4> QED
        BY <4>2, <4>3
    <3> QED
      BY <3>1, <3>2
  <2>2. Sum(t) = Step(t)
    BY <2>1
  <2>3. AddsUp(t, v, L) <=> t = Step(t)
    BY Zenon DEF AddsUp
  <2> HIDE DEF Sum, Step
  <2> QED
    BY <2>2, <2>3
<1>4. total[L] = LiveBytes(page)[n]
  <2> HIDE DEF v, Adds, L
  <2>1. \E t : Adds(t)
    <3>1. \E t : AddsUp(t, v, L)
      BY <1>1, AddsUpAnyOrder
    <3> QED
      BY <1>3, <3>1
  <2>2. AddsUp(total, v, L)
    BY <1>3, <2>1
  <2> HIDE DEF total
  <2>3. total[L] = SumOn(v, L, n)
    BY <1>1, <2>2, AddsUpAnyOrder
  <2>4. SumOn(v, L, n) = LiveBytes(page)[n]
    BY <1>1, RowsTakeLiveBytes DEF L
  <2> QED
    BY <2>3, <2>4
<1>5. DirectoryGrowth(page) = entry
  <2>1. CASE SlotsFlagged(page, "free") = {}
    <3>1. ReusableSlot(page) = 0
      BY <2>1 DEF ReusableSlot
    <3> QED
      BY <2>1, <3>1 DEF DirectoryGrowth
  <2>2. CASE SlotsFlagged(page, "free") # {}
    <3>1. ReusableSlot(page) # 0
      BY <1>1, <2>2, ReusableIsFree
    <3> QED
      BY <2>2, <3>1 DEF DirectoryGrowth
  <2> QED
    BY <2>1, <2>2
<1>6. record \in Seq(Byte)
  BY PageLifeAssumption
<1>7. Insert(page, record).res = "Ok" <=>
        HeaderSize + n * SlotSize + entry + total[L] + Len(record) <= PageSize
  <2> HIDE DEF total, entry
  <2>1. Insert(page, record).res = "Ok" <=>
          HeaderSize + n * SlotSize + DirectoryGrowth(page) + LiveBytes(page)[n] + Len(record)
            <= PageSize
    BY <1>6, RoomFound
  <2> QED
    BY <1>4, <1>5, <2>1, Zenon
<1>8. QED
  BY <1>7, Zenon

(* An insert succeeds exactly when the record and the entry it needs fit   *)
(* beside the live records, however the page came to be as it is.          *)
THEOREM InsertsWhatFits == Spec => []InsertSucceedsIffFits
<1>1. LifeInv => InsertSucceedsIffFits
  <2> SUFFICES ASSUME LifeInv PROVE InsertSucceedsIffFits
    OBVIOUS
  <2>1. Sound(page)
    BY DEF LifeInv
  <2> QED
    BY <2>1, SoundInsertsWhatFits, Zenon DEF InsertSucceedsIffFits
<1>2. QED
  BY <1>1, LifeInvariant, PTL

-----------------------------------------------------------------------------
(* No operation lowers a generation or touches a retired slot.             *)
THEOREM GenerationsGrow == Spec => GenerationsOnlyGrow
<1> DEFINE Grows == \A i \in DOMAIN page.slots :
             /\ i \in DOMAIN page'.slots
             /\ page'.slots[i].gen >= page.slots[i].gen
             /\ page.slots[i].flags = "retired" => page'.slots[i] = page.slots[i]
<1>1. LifeInv /\ [Next]_vars => [Grows]_vars
  <2> SUFFICES ASSUME LifeInv, Next PROVE Grows
    OBVIOUS
  <2>1. /\ Sound(page) /\ page \in Page /\ DOMAIN page.slots = 1 .. Len(page.slots)
        /\ \A i \in DOMAIN page.slots : page.slots[i].gen \in Nat
        /\ \A i \in LiveSlots(page) : page.slots[i].flags = "live"
        /\ GenerationLimit \in Nat
    BY SlotTypes, SlottedPageAssumption DEF LifeInv, Sound, LiveSlots, SlotsFlagged
  <2>2. ASSUME SameRows(page, page'), LifeInv' PROVE Grows
    <3>1. page' \in Page
      BY <2>2 DEF LifeInv, Sound
    <3>2. DOMAIN page'.slots = DOMAIN page.slots
      BY <2>1, <2>2, <3>1, SlotTypes DEF SameRows
    <3> QED
      BY <2>1, <2>2, <3>2 DEF SameRows
  <2>3. ASSUME NEW record \in Records, InsertRecord(record) PROVE Grows
    <3>1. ASSUME NEW rid \in Rid, Places(page, page', rid.slot, rid.gen, record) PROVE Grows
      BY <2>1, <3>1 DEF Places
    <3> QED
      BY <2>2, <2>3, <3>1, InsertStep
  <2>4. ASSUME NEW rid \in Rid, DeleteRecord(rid) PROVE Grows
    <3>1. CASE page' = page
      BY <2>1, <3>1
    <3>2. CASE Empties(page, page', rid.slot)
      <4>1. rid.slot \in LiveSlots(page) /\ DOMAIN page'.slots = DOMAIN page.slots
            /\ \A i \in DOMAIN page.slots :
                 page'.slots[i] = IF i = rid.slot THEN Vacated(page.slots[i]) ELSE page.slots[i]
        BY <3>2 DEF Empties
      <4>2. ASSUME NEW i \in DOMAIN page.slots
            PROVE  /\ page'.slots[i].gen >= page.slots[i].gen
                   /\ page.slots[i].flags = "retired" => page'.slots[i] = page.slots[i]
        <5>1. CASE i = rid.slot
          <6>1. page'.slots[i].gen = Vacated(page.slots[i]).gen /\ page.slots[i].flags = "live"
                /\ page.slots[i].gen \in Nat
            BY <2>1, <4>1, <5>1
          <6>2. Vacated(page.slots[i]).gen >= page.slots[i].gen
            BY <6>1 DEF Vacated
          <6> QED
            BY <6>1, <6>2
        <5>2. CASE i # rid.slot
          BY <2>1, <4>1, <5>2
        <5> QED
          BY <5>1, <5>2
      <4> QED
        BY <4>1, <4>2
    <3> QED
      BY <2>4, <3>1, <3>2, DeleteStep
  <2>5. CASE CompactPage
    BY <2>2, <2>5, CompactStep
  <2> QED
    BY <2>3, <2>4, <2>5 DEF Next
<1>2. QED
  BY <1>1, LifeInvariant, PTL DEF Spec, GenerationsOnlyGrow

(* delete removes the row of its rid and no other; a stale rid removes     *)
(* none, even when its slot holds another row.                             *)
THEOREM DeletesExactly == Spec => DeletesOnlyItsRow
<1> DEFINE Only == \A rid \in Rid : DeleteRecord(rid) =>
                     LiveRids(page') = LiveRids(page) \ {rid}
<1>1. LifeInv /\ [Next]_vars => [Only]_vars
  <2> SUFFICES ASSUME LifeInv, NEW rid \in Rid, DeleteRecord(rid)
               PROVE  LiveRids(page') = LiveRids(page) \ {rid}
    OBVIOUS
  <2>1. page \in Page
    BY DEF LifeInv, Sound
  <2>2. CASE ~ValidRid(page, rid) /\ page' = page
    <3>1. rid \notin LiveRids(page)
      BY <2>2, LiveRidsMembers DEF ValidRid
    <3> QED
      BY <2>2, <3>1
  <2>3. CASE ValidRid(page, rid) /\ Empties(page, page', rid.slot)
    BY <2>1, <2>3, EmptiesRow
  <2> QED
    BY <2>2, <2>3, DeleteStep
<1>2. QED
  BY <1>1, LifeInvariant, PTL DEF Spec, DeletesOnlyItsRow

(* A page keeps what heap storage promises: rows keep their bytes until    *)
(* they are deleted, through compaction and reuse of slots, and no rid is  *)
(* issued twice.                                                           *)
THEOREM PageRefinesRowStore == Spec => ImplementsRowStore
<1> DEFINE rows == [rid \in LiveRids(page) |-> Get(page, rid)]
<1>1. Init => Rows!Init
  BY EmptyPageSound DEF Init, Rows!Init
<1>2. LifeInv /\ [Next]_vars => [Rows!Next]_(Rows!vars)
  <2> SUFFICES ASSUME LifeInv, [Next]_vars PROVE [Rows!Next]_(Rows!vars)
    OBVIOUS
  <2>1. page \in Page
    BY DEF LifeInv, Sound
  <2>2. ASSUME SameRows(page, page'), UNCHANGED issued PROVE UNCHANGED Rows!vars
    <3>1. rows' = rows
      BY <2>1, <2>2, SameRowsKept
    <3> QED
      BY <2>2, <3>1 DEF Rows!vars
  <2>3. CASE UNCHANGED vars
    BY <2>3 DEF vars, Rows!vars
  <2>4. ASSUME NEW record \in Records, InsertRecord(record) PROVE [Rows!Next]_(Rows!vars)
    <3>1. ASSUME NEW rid \in Rid \ issued, issued' = issued \cup {rid},
                 Places(page, page', rid.slot, rid.gen, record)
          PROVE  Rows!Insert(record)
      <4>1. /\ LiveRids(page') = LiveRids(page) \cup {rid} /\ rid \notin LiveRids(page)
            /\ Get(page', rid) = record
            /\ \A r \in LiveRids(page) : Get(page', r) = Get(page, r)
        BY <2>1, <3>1, PlacesRow, PageLifeAssumption
      <4>2. rows' = [r \in DOMAIN rows \cup {rid} |-> IF r = rid THEN record ELSE rows[r]]
        BY <4>1
      <4> QED
        BY <3>1, <4>2 DEF Rows!Insert
    <3>2. Rows!Insert(record) => Rows!Next
      BY <2>4 DEF Rows!Next
    <3> QED
      BY <2>2, <2>4, <3>1, <3>2, InsertStep
  <2>5. ASSUME NEW rid \in Rid, DeleteRecord(rid) PROVE [Rows!Next]_(Rows!vars)
    <3>1. CASE page' = page
      BY <2>5, <3>1, DeleteStep DEF Rows!vars
    <3>2. CASE ValidRid(page, rid) /\ Empties(page, page', rid.slot)
      <4>1. /\ rid \in LiveRids(page) /\ LiveRids(page') = LiveRids(page) \ {rid}
            /\ \A r \in LiveRids(page') : Get(page', r) = Get(page, r)
        BY <2>1, <3>2, EmptiesRow
      <4>2. rows' = [r \in DOMAIN rows \ {rid} |-> rows[r]] /\ rid \in DOMAIN rows
        BY <4>1
      <4>3. Rows!Delete(rid)
        BY <2>5, <4>2, DeleteStep DEF Rows!Delete
      <4> QED
        BY <4>2, <4>3 DEF Rows!Next
    <3> QED
      BY <2>5, <3>1, <3>2, DeleteStep
  <2>6. CASE CompactPage
    BY <2>2, <2>6, CompactStep
  <2> QED
    BY <2>3, <2>4, <2>5, <2>6 DEF Next
<1>3. QED
  BY <1>1, <1>2, LifeInvariant, PTL DEF Spec, ImplementsRowStore, Rows!Spec
=============================================================================
