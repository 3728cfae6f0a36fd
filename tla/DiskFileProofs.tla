--------------------------- MODULE DiskFileProofs ---------------------------
(***************************************************************************)
(* What each call of DiskFile can do to a manager and its file, whatever   *)
(* its outcome: the lemmas the proofs about DiskManager and BufferPool     *)
(* rest on.                                                                *)
(***************************************************************************)
EXTENDS DiskFile, TLAPS

\* An open manager's header covers no more than the file holds, and the header
\* on disk no more than the manager's.
Backed(m, f) ==
    /\ f.root >= 1
    /\ f.next <= m.next
    /\ m.next <= f.len

LEMMA ConstantTypes ==
    /\ PageIdLimit \in Nat /\ PageIdLimit > 1
    /\ Zero \in Content /\ Torn \notin Content
    /\ NoRoot \notin Nat /\ NoRoot \notin DataPages
    /\ DataPages = 1 .. (PageIdLimit - 1)
BY DiskFileAssumption DEF DataPages, FirstDataPageId

LEMMA PutPageType ==
    ASSUME NEW f \in File, NEW p \in DataPages, NEW bytes \in Bytes
    PROVE  /\ PutPage(f, p, bytes) \in File
           /\ PutPage(f, p, bytes).len >= f.len
           /\ PutPage(f, p, bytes).len >= p + 1
           /\ PutPage(f, p, bytes).next = f.next
           /\ PutPage(f, p, bytes).root = f.root
           /\ PutPage(f, p, bytes).pages = [f.pages EXCEPT ![p] = bytes]
<1> DEFINE written == [f.pages EXCEPT ![p] = bytes]
<1>1. f.len \in 0 .. PageIdLimit /\ written \in [DataPages -> Bytes]
  BY DEF File
<1>2. p \in Nat /\ p + 1 \in 0 .. PageIdLimit
  BY ConstantTypes
<1>3. CASE p < f.len
  <2>1. PutPage(f, p, bytes)
          = [len |-> f.len, ragged |-> f.ragged, next |-> f.next, root |-> f.root,
             pages |-> written]
    BY <1>3 DEF PutPage, File
  <2>2. QED
    BY <2>1, <1>1, <1>2, <1>3, ConstantTypes DEF File
<1>4. CASE ~(p < f.len)
  <2>1. PutPage(f, p, bytes)
          = [len |-> p + 1, ragged |-> FALSE, next |-> f.next, root |-> f.root, pages |-> written]
    BY <1>4 DEF PutPage, File
  <2>2. QED
    BY <2>1, <1>1, <1>2, <1>4, ConstantTypes DEF File
<1>5. QED
  BY <1>3, <1>4

LEMMA FailedPageWriteType ==
    ASSUME NEW f \in File, NEW p \in DataPages, NEW bytes \in Bytes,
           NEW g \in FailedPageWrites(f, p, bytes)
    PROVE  /\ g \in File
           /\ g.len = f.len
           /\ g.next = f.next
           /\ g.root = f.root
           /\ \A q \in DataPages : q # p => g.pages[q] = f.pages[q]
<1>1. Torn \in Bytes
  BY DEF Bytes
<1>2. CASE g = f
  BY <1>2
<1>3. CASE g = [f EXCEPT !.ragged = TRUE]
  BY <1>3 DEF File
<1>4. ASSUME NEW b \in Bytes, g = [f EXCEPT !.pages[p] = b]
      PROVE  g \in File /\ g.len = f.len /\ g.next = f.next /\ g.root = f.root
             /\ \A q \in DataPages : q # p => g.pages[q] = f.pages[q]
  <2>1. g = [f EXCEPT !.pages = [f.pages EXCEPT ![p] = b]]
    BY <1>4 DEF File
  <2>2. [f.pages EXCEPT ![p] = b] \in [DataPages -> Bytes]
    BY DEF File
  <2>3. QED
    BY <2>1, <2>2 DEF File
<1>5. QED
  BY <1>1, <1>2, <1>3, <1>4 DEF FailedPageWrites

LEMMA HeaderWriteType ==
    ASSUME NEW f \in File, NEW m \in Manager,
           NEW g \in FailedHeaderWrites(f, m) \cup {PutHeader(f, m)}
    PROVE  /\ g \in File
           /\ g.len = f.len
           /\ g.ragged = f.ragged
           /\ g.pages = f.pages
           /\ g.next \in {f.next, m.next}
           /\ f.root >= 1 => g.root >= 1
<1> DEFINE word == EncodeRoot(m.root)
<1>1. word \in 0 .. PageIdLimit /\ word >= 1
  BY ConstantTypes DEF EncodeRoot, Manager
<1>2. m.next \in 0 .. PageIdLimit
  BY ConstantTypes DEF Manager
<1>3. CASE g = f
  BY <1>3
<1>4. CASE g = [f EXCEPT !.next = m.next]
  <2>1. g = [len |-> f.len, ragged |-> f.ragged, next |-> m.next, root |-> f.root,
             pages |-> f.pages]
    BY <1>4 DEF File
  <2>2. QED
    BY <2>1, <1>2 DEF File
<1>5. CASE g = PutHeader(f, m)
  <2>1. g = [len |-> f.len, ragged |-> f.ragged, next |-> m.next, root |-> word,
             pages |-> f.pages]
    BY <1>5 DEF PutHeader, File
  <2> HIDE DEF word
  <2>2. QED
    BY <2>1, <1>1, <1>2 DEF File
<1>6. QED
  BY <1>3, <1>4, <1>5 DEF FailedHeaderWrites

LEMMA AllocateEffect ==
    ASSUME NEW m \in Manager, NEW f \in File, Backed(m, f),
           NEW o \in AllocatePageOutcomes(m, f)
    PROVE  /\ o.mgr \in Manager
           /\ o.file \in File
           /\ Backed(o.mgr, o.file)
           /\ o.mgr.readOnly = m.readOnly
           /\ m.readOnly => o.mgr = m /\ o.file = f
           /\ o.mgr.next >= m.next
           /\ o.file.next >= f.next
           /\ \A q \in DataPages : q # m.next => o.file.pages[q] = f.pages[q]
           /\ o.res = "Ok" =>
                /\ m.next \in DataPages
                /\ o.mgr.next = m.next + 1
                /\ o.file.next = m.next + 1
                /\ o.file.pages[m.next] = Zero
<1> DEFINE p == m.next
           raised == [m EXCEPT !.next = @ + 1]
           extended == PutPage(f, p, Zero)
<1>1. f.next \in Nat /\ f.len \in Nat /\ f.root \in Nat /\ m.next \in Nat
  BY ConstantTypes DEF File, Manager
<1>2. CASE m.readOnly \/ m.next = PageIdLimit
  <2>1. o.mgr = m /\ o.file = f /\ o.res # "Ok"
    BY <1>2 DEF AllocatePageOutcomes, Writable, PageIdsExhausted, Outcome
  <2>2. QED
    BY <2>1, <1>1
<1>3. CASE ~m.readOnly /\ m.next # PageIdLimit
  <2>1. p \in DataPages
    BY <1>3, ConstantTypes DEF Manager
  <2>2. /\ raised \in Manager
        /\ raised.next = p + 1
        /\ raised.readOnly = m.readOnly
    BY <1>3, <2>1, ConstantTypes DEF Manager
  <2>3. Zero \in Bytes
    BY ConstantTypes DEF Bytes
  <2>4. /\ extended \in File
        /\ extended.len >= p + 1
        /\ extended.len >= f.len
        /\ extended.next = f.next
        /\ extended.root = f.root
        /\ extended.pages = [f.pages EXCEPT ![p] = Zero]
    BY <2>1, <2>3, PutPageType
  <2>5. /\ \A q \in DataPages : q # p => extended.pages[q] = f.pages[q]
        /\ extended.pages[p] = Zero
    BY <2>1, <2>4 DEF File
  <2>6. \/ o \in {Outcome("Io", m, g) : g \in FailedPageWrites(f, p, Zero)}
        \/ o \in {Outcome("Io", raised, g) : g \in FailedHeaderWrites(extended, raised)}
        \/ o = Outcome("Ok", raised, PutHeader(extended, raised))
    BY <1>3 DEF AllocatePageOutcomes, Writable, PageIdsExhausted, Extended
  <2> HIDE DEF raised, extended
  <2>7. CASE o \in {Outcome("Io", m, g) : g \in FailedPageWrites(f, p, Zero)}
    <3>1. PICK g \in FailedPageWrites(f, p, Zero) : o = Outcome("Io", m, g)
      BY <2>7
    <3>2. /\ g \in File /\ g.len = f.len /\ g.next = f.next /\ g.root = f.root
          /\ \A q \in DataPages : q # p => g.pages[q] = f.pages[q]
      BY <2>1, <2>3, FailedPageWriteType
    <3>3. QED
      BY <3>1, <3>2, <1>1, <1>3 DEF Outcome, Backed
  <2>8. CASE \/ o \in {Outcome("Io", raised, g) : g \in FailedHeaderWrites(extended, raised)}
             \/ o = Outcome("Ok", raised, PutHeader(extended, raised))
    <3>1. PICK g \in FailedHeaderWrites(extended, raised) \cup {PutHeader(extended, raised)} :
            \/ o = Outcome("Io", raised, g)
            \/ o = Outcome("Ok", raised, g) /\ g = PutHeader(extended, raised)
      BY <2>8
    <3>2. /\ g \in File /\ g.len = extended.len /\ g.pages = extended.pages
          /\ g.next \in {f.next, p + 1}
          /\ extended.root >= 1 => g.root >= 1
      BY <2>2, <2>4, HeaderWriteType
    <3>3. /\ o.mgr = raised /\ o.file = g
          /\ o.res = "Ok" => g = PutHeader(extended, raised)
      BY <3>1 DEF Outcome
    <3>4. g = PutHeader(extended, raised) => g.next = p + 1
      BY <2>2, <2>4 DEF PutHeader, File
    <3>5. extended.len \in Nat
      BY <2>4, ConstantTypes DEF File
    <3>6. Backed(raised, g)
      BY <3>2, <3>5, <2>2, <2>4, <1>1 DEF Backed
    <3>7. QED
      BY <3>2, <3>3, <3>4, <3>6, <2>1, <2>2, <2>5, <1>1, <1>3 DEF Backed
  <2>9. QED
    BY <2>6, <2>7, <2>8
<1>4. QED
  BY <1>2, <1>3

LEMMA WritePageEffect ==
    ASSUME NEW m \in Manager, NEW f \in File, Backed(m, f),
           NEW p \in DataPages, NEW bytes \in Bytes,
           NEW o \in WritePageOutcomes(m, f, p, bytes), o.res # "Ok"
    PROVE  /\ o.file \in File
           /\ o.file.len = f.len /\ o.file.next = f.next /\ o.file.root = f.root
           /\ \A q \in DataPages : q # p => o.file.pages[q] = f.pages[q]
           /\ m.readOnly => o.file = f
<1>1. \/ o = Outcome("ReadOnly", m, f)
      \/ o = Outcome("PageNotAllocated", m, f)
      \/ ~m.readOnly /\ o \in {Outcome("Io", m, g) : g \in FailedPageWrites(f, p, bytes)}
      \/ o = Outcome("Ok", m, PutPage(f, p, bytes))
  BY DEF WritePageOutcomes, Writable
<1>2. CASE ~m.readOnly /\ o \in {Outcome("Io", m, g) : g \in FailedPageWrites(f, p, bytes)}
  <2>1. PICK g \in FailedPageWrites(f, p, bytes) : o = Outcome("Io", m, g)
    BY <1>2
  <2>2. QED
    BY <2>1, <1>2, FailedPageWriteType DEF Outcome
<1>3. QED
  BY <1>1, <1>2 DEF Outcome

LEMMA SetCatalogRootEffect ==
    ASSUME NEW m \in Manager, NEW f \in File, Backed(m, f), NEW p \in DataPages,
           NEW o \in SetCatalogRootOutcomes(m, f, p)
    PROVE  /\ o.mgr \in Manager
           /\ o.file \in File
           /\ Backed(o.mgr, o.file)
           /\ o.mgr.next = m.next
           /\ o.mgr.readOnly = m.readOnly
           /\ m.readOnly => o.file = f
           /\ o.file.pages = f.pages
           /\ o.file.next >= f.next
<1> DEFINE rooted == [m EXCEPT !.root = p]
<1>1. f.next \in Nat /\ f.len \in Nat /\ f.root \in Nat /\ m.next \in Nat
  BY ConstantTypes DEF File, Manager
<1>2. rooted \in Manager /\ rooted.next = m.next /\ rooted.readOnly = m.readOnly
  BY DEF Manager
<1>3. \/ o.mgr = m /\ o.file = f
      \/ ~m.readOnly /\ \E g \in FailedHeaderWrites(f, rooted) \cup {PutHeader(f, rooted)} :
           o.mgr = rooted /\ o.file = g
  BY DEF SetCatalogRootOutcomes, Writable, Outcome
<1> HIDE DEF rooted
<1>4. CASE o.mgr = m /\ o.file = f
  BY <1>4, <1>1
<1>5. ASSUME ~m.readOnly,
             NEW g \in FailedHeaderWrites(f, rooted) \cup {PutHeader(f, rooted)},
             o.mgr = rooted, o.file = g
      PROVE  /\ o.mgr \in Manager
             /\ o.file \in File
             /\ Backed(o.mgr, o.file)
             /\ o.mgr.next = m.next
             /\ o.mgr.readOnly = m.readOnly
             /\ m.readOnly => o.file = f
             /\ o.file.pages = f.pages
             /\ o.file.next >= f.next
  <2>1. /\ g \in File /\ g.len = f.len /\ g.pages = f.pages /\ g.next \in {f.next, m.next}
        /\ f.root >= 1 => g.root >= 1
    BY <1>2, HeaderWriteType
  <2>2. QED
    BY <2>1, <1>1, <1>2, <1>5 DEF Backed
<1>6. QED
  BY <1>3, <1>4, <1>5
=============================================================================
