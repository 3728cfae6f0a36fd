-------------------------- MODULE DiskManagerProofs --------------------------
(***************************************************************************)
(* Proofs about DiskManager, for every page-id limit, every content and    *)
(* any number of power losses.                                             *)
(*                                                                         *)
(* What a call may do to the manager and the two words of page zero is     *)
(* summed up in HeaderStep; the inductive invariant Order says how         *)
(* memory, file and every header a power loss may bring back relate.       *)
(***************************************************************************)
EXTENDS DiskManager, DiskFileProofs

\* Page zero counts a catalog root.
Rooted(h) == h.next >= FirstDataPageId /\ h.root # PageIdLimit

HeaderStep(m, f, m2, f2) ==
    /\ m2 \in Manager /\ f2 \in File
    /\ m2.readOnly = m.readOnly
    /\ m.readOnly => f2 = f
    /\ m2.next >= m.next /\ m2.next <= f2.len
    /\ \/ m2.root = m.root
       \/ m.root = NoRoot /\ m2.root \in DataPages /\ m2.root < m.next
    /\ \/ f2.next = f.next /\ f2.root = f.root
       \/ f2.next = m2.next /\ f2.root \in {f.root, EncodeRoot(m2.root)}

LEMMA DiskConstants ==
    /\ NoFile \notin File
    /\ Closed \notin Manager
    /\ MaxPowerLosses \in Nat
BY DiskManagerAssumption

LEMMA HeaderWrites ==
    ASSUME NEW f \in File, NEW m \in Manager,
           NEW g \in FailedHeaderWrites(f, m) \cup {PutHeader(f, m)}
    PROVE  /\ g \in File /\ g.len = f.len /\ g.pages = f.pages
           /\ \/ g.next = f.next /\ g.root = f.root
              \/ g.next = m.next /\ g.root \in {f.root, EncodeRoot(m.root)}
<1>1. g \in File /\ g.len = f.len /\ g.pages = f.pages
  BY HeaderWriteType
<1>2. CASE g = f
  BY <1>1, <1>2
<1>3. CASE g = [f EXCEPT !.next = m.next]
  BY <1>1, <1>3 DEF File
<1>4. CASE g = PutHeader(f, m)
  BY <1>1, <1>4 DEF PutHeader, File
<1>5. QED
  BY <1>2, <1>3, <1>4 DEF FailedHeaderWrites

LEMMA AllocateStep ==
    ASSUME NEW m \in Manager, NEW f \in File, f.root >= 1, f.next <= m.next, m.next <= f.len,
           NEW o \in AllocatePageOutcomes(m, f)
    PROVE  /\ HeaderStep(m, f, o.mgr, o.file)
           /\ \A q \in DataPages : q # m.next => o.file.pages[q] = f.pages[q]
           /\ o.res = "Ok" => m.next \in DataPages /\ o.file.next = m.next + 1
<1> DEFINE p == m.next
           raised == [m EXCEPT !.next = @ + 1]
           extended == PutPage(f, p, Zero)
<1>1. /\ o.mgr \in Manager /\ o.file \in File /\ o.mgr.readOnly = m.readOnly
      /\ m.readOnly => o.file = f
      /\ o.mgr.next >= m.next /\ o.mgr.next <= o.file.len
      /\ \A q \in DataPages : q # m.next => o.file.pages[q] = f.pages[q]
      /\ o.res = "Ok" => m.next \in DataPages /\ o.file.next = m.next + 1
  BY AllocateEffect DEF Backed
<1>2. /\ o.mgr.root = m.root
      /\ \/ o.file.next = f.next /\ o.file.root = f.root
         \/ o.file.next = o.mgr.next /\ o.file.root \in {f.root, EncodeRoot(o.mgr.root)}
  <2>1. CASE m.readOnly \/ m.next = PageIdLimit
    BY <2>1 DEF AllocatePageOutcomes, Writable, PageIdsExhausted, Outcome
  <2>2. CASE ~m.readOnly /\ m.next # PageIdLimit
    <3>1. p \in DataPages /\ Zero \in Bytes
      BY <2>2, ConstantTypes DEF Manager, Bytes
    <3>2. raised \in Manager /\ raised.root = m.root
      BY <2>2, <3>1, ConstantTypes DEF Manager
    <3>3. extended \in File /\ extended.next = f.next /\ extended.root = f.root
      BY <3>1, PutPageType
    <3>4. \/ o \in {Outcome("Io", m, g) : g \in FailedPageWrites(f, p, Zero)}
          \/ \E g \in FailedHeaderWrites(extended, raised) \cup {PutHeader(extended, raised)} :
               o.mgr = raised /\ o.file = g
      BY <2>2 DEF AllocatePageOutcomes, Writable, PageIdsExhausted, Extended, Outcome
    <3> HIDE DEF raised, extended
    <3>5. CASE o \in {Outcome("Io", m, g) : g \in FailedPageWrites(f, p, Zero)}
      BY <3>1, <3>5, FailedPageWriteType DEF Outcome
    <3>6. ASSUME NEW g \in FailedHeaderWrites(extended, raised) \cup {PutHeader(extended, raised)},
                 o.mgr = raised, o.file = g
          PROVE  /\ o.mgr.root = m.root
                 /\ \/ o.file.next = f.next /\ o.file.root = f.root
                    \/ o.file.next = o.mgr.next
                       /\ o.file.root \in {f.root, EncodeRoot(o.mgr.root)}
      BY <3>2, <3>3, <3>6, HeaderWrites
    <3>7. QED
      BY <3>4, <3>5, <3>6
  <2>3. QED
    BY <2>1, <2>2
<1>3. QED
  BY <1>1, <1>2 DEF HeaderStep

LEMMA WritePageStep ==
    ASSUME NEW m \in Manager, NEW f \in File, f.root >= 1, f.next <= m.next, m.next <= f.len,
           NEW p \in DataPages, NEW bytes \in Bytes,
           NEW o \in WritePageOutcomes(m, f, p, bytes)
    PROVE  /\ o.mgr = m
           /\ HeaderStep(m, f, m, o.file)
           /\ \A q \in DataPages : q # p => o.file.pages[q] = f.pages[q]
<1>1. o.mgr = m
  BY DEF WritePageOutcomes, Outcome
<1>2. m.next \in Nat /\ f.len \in Nat
  BY ConstantTypes DEF Manager, File
<1>3. CASE o.res # "Ok"
  <2>1. /\ o.file \in File /\ o.file.len = f.len
        /\ o.file.next = f.next /\ o.file.root = f.root
        /\ \A q \in DataPages : q # p => o.file.pages[q] = f.pages[q]
        /\ m.readOnly => o.file = f
    BY <1>3, WritePageEffect DEF Backed
  <2>2. QED
    BY <1>1, <1>2, <2>1 DEF HeaderStep
<1>4. CASE o.res = "Ok"
  <2>1. o.file = PutPage(f, p, bytes) /\ ~m.readOnly
    BY <1>4 DEF WritePageOutcomes, Outcome, Writable
  <2>2. /\ o.file \in File /\ o.file.len >= f.len
        /\ o.file.next = f.next /\ o.file.root = f.root
        /\ o.file.pages = [f.pages EXCEPT ![p] = bytes]
    BY <2>1, PutPageType
  <2>3. \A q \in DataPages : q # p => o.file.pages[q] = f.pages[q]
    BY <2>2 DEF File
  <2>4. o.file.len \in Nat
    BY <2>2, ConstantTypes DEF File
  <2>5. QED
    BY <1>1, <1>2, <2>1, <2>2, <2>3, <2>4 DEF HeaderStep
<1>5. QED
  BY <1>3, <1>4

LEMMA SetCatalogRootStep ==
    ASSUME NEW m \in Manager, NEW f \in File, f.root >= 1, f.next <= m.next, m.next <= f.len,
           NEW p \in DataPages, NEW o \in SetCatalogRootOutcomes(m, f, p)
    PROVE  /\ HeaderStep(m, f, o.mgr, o.file)
           /\ o.file.pages = f.pages
<1> DEFINE rooted == [m EXCEPT !.root = p]
<1>1. f.next \in Nat /\ f.len \in Nat /\ m.next \in Nat
  BY ConstantTypes DEF File, Manager
<1>2. /\ rooted \in Manager /\ rooted.next = m.next
      /\ rooted.readOnly = m.readOnly /\ rooted.root = p
  BY DEF Manager
<1>3. \/ o.mgr = m /\ o.file = f
      \/ /\ ~m.readOnly /\ p < m.next /\ m.root = NoRoot
         /\ \E g \in FailedHeaderWrites(f, rooted) \cup {PutHeader(f, rooted)} :
              o.mgr = rooted /\ o.file = g
  BY DEF SetCatalogRootOutcomes, Writable, Allocated, RootAlreadySet, Outcome
<1> HIDE DEF rooted
<1>4. CASE o.mgr = m /\ o.file = f
  BY <1>1, <1>4 DEF HeaderStep
<1>5. ASSUME ~m.readOnly, p < m.next, m.root = NoRoot,
             NEW g \in FailedHeaderWrites(f, rooted) \cup {PutHeader(f, rooted)},
             o.mgr = rooted, o.file = g
      PROVE  HeaderStep(m, f, o.mgr, o.file) /\ o.file.pages = f.pages
  <2>1. /\ g \in File /\ g.len = f.len /\ g.pages = f.pages
        /\ \/ g.next = f.next /\ g.root = f.root
           \/ g.next = rooted.next /\ g.root \in {f.root, EncodeRoot(rooted.root)}
    BY <1>2, HeaderWrites
  <2>2. QED
    BY <1>1, <1>2, <1>5, <2>1 DEF HeaderStep
<1>6. QED
  BY <1>3, <1>4, <1>5

-----------------------------------------------------------------------------
(* The order of memory, file, and the headers page zero may hold. *)

\* A header page zero may hold after a sync of header s.
HeaderAfter(s, h) ==
    /\ s.next <= h.next
    /\ h.next >= FirstDataPageId => h.root >= 1
    /\ Rooted(h) => h.root < h.next
    /\ Rooted(s) => h.root = s.root

Order ==
    /\ TypeOK
    /\ file = NoFile =>
         /\ mgr = Closed /\ granted = {} /\ synced.next = 0
         /\ \A h \in headers : h.next = 0
    /\ \A h \in headers : HeaderAfter(synced, h) /\ (file # NoFile => h.next <= file.next)
    /\ file # NoFile => HeaderOf(file) \in headers
    /\ mgr # Closed =>
         /\ file.root >= 1 /\ file.next >= FirstDataPageId
         /\ file.next <= mgr.next /\ mgr.next <= file.len
         /\ Rooted(file) => mgr.root = file.root
         /\ mgr.root # NoRoot => mgr.root < mgr.next
    /\ file # NoFile => \A p \in granted : p < file.next
    /\ losses = 0 /\ file # NoFile /\ file.len >= 1 =>
         file.next >= FirstDataPageId /\ file.next <= file.len

\* What an action of an open manager starts from.
LEMMA OpenManagerState ==
    ASSUME Order, mgr # Closed
    PROVE  /\ TypeOK /\ mgr \in Manager /\ file \in File /\ file # NoFile
           /\ file.root >= 1 /\ file.next >= 1
           /\ file.next <= mgr.next /\ mgr.next <= file.len
           /\ file.next \in Nat /\ file.len \in Nat /\ file.root \in Nat /\ mgr.next \in Nat
           /\ synced \in File /\ synced.next \in Nat
           /\ HeaderOf(file) \in headers /\ HeaderAfter(synced, file)
<1>1. TypeOK /\ mgr \in Manager /\ file \in File /\ file # NoFile /\ synced \in File
  BY DiskConstants DEF Order, TypeOK
<1>2. HeaderOf(file) \in headers /\ HeaderAfter(synced, HeaderOf(file))
  BY <1>1 DEF Order
<1>3. HeaderAfter(synced, file)
  BY <1>2 DEF HeaderAfter, HeaderOf, Rooted
<1>4. QED
  BY <1>1, <1>2, <1>3, ConstantTypes DEF Order, File, Manager, FirstDataPageId

\* The two files a create may leave.
LEMMA NewFiles ==
    /\ CreatedFile \in File /\ CreatedFile.len = 1
    /\ CreatedFile.next = 1 /\ CreatedFile.root = PageIdLimit
    /\ ShortFile \in File /\ ShortFile.len = 0
    /\ ShortFile.next = 0 /\ ShortFile.root = 0
<1> DEFINE zeros == [p \in DataPages |-> Zero]
<1>1. zeros \in [DataPages -> Bytes]
  BY ConstantTypes DEF Bytes
<1>2. EncodeRoot(NoRoot) = PageIdLimit
  BY DEF EncodeRoot
<1>3. CreatedFile = [len |-> 1, ragged |-> FALSE, next |-> 1, root |-> PageIdLimit, pages |-> zeros]
  BY <1>2 DEF CreatedFile, FirstDataPageId
<1> HIDE DEF zeros
<1>4. CreatedFile \in File
  BY <1>1, <1>3, ConstantTypes DEF File
<1>5. ASSUME NEW f \in File, NEW g, g = [f EXCEPT !.len = 0, !.next = 0, !.root = 0]
      PROVE  g = [len |-> 0, ragged |-> f.ragged, next |-> 0, root |-> 0, pages |-> f.pages]
  BY <1>5 DEF File
<1>6. ShortFile = [len |-> 0, ragged |-> FALSE, next |-> 0, root |-> 0, pages |-> zeros]
  BY <1>3, <1>4, <1>5 DEF ShortFile
<1>7. ShortFile \in File
  BY <1>1, <1>6, ConstantTypes DEF File
<1>8. QED
  BY <1>3, <1>4, <1>6, <1>7

LEMMA OrderInit == Init => Order
<1> SUFFICES ASSUME Init PROVE Order
  OBVIOUS
<1>1. HeaderOf(ShortFile) = [next |-> 0, root |-> 0]
  BY NewFiles DEF HeaderOf
<1>2. TypeOK
  BY <1>1, NewFiles, ConstantTypes, DiskConstants DEF Init, TypeOK
<1>3. \A h \in headers : HeaderAfter(synced, h)
  BY <1>1, NewFiles DEF Init, HeaderAfter, Rooted, FirstDataPageId
<1>4. synced.next = 0 /\ \A h \in headers : h.next = 0
  BY <1>1, NewFiles DEF Init
<1>5. QED
  BY <1>2, <1>3, <1>4 DEF Init, Order

\* The step of a call on an open manager.
LEMMA CallOrder ==
    ASSUME Order, mgr # Closed,
           HeaderStep(mgr, file, mgr', file'), FileBecomes(file'),
           granted' \subseteq DataPages,
           \A p \in granted' : p \in granted \/ p < file'.next
    PROVE  Order'
<1>1. /\ TypeOK /\ mgr \in Manager /\ file \in File /\ file # NoFile
      /\ file.root >= 1 /\ file.next >= 1
      /\ file.next <= mgr.next /\ mgr.next <= file.len
      /\ file.next \in Nat /\ file.len \in Nat /\ file.root \in Nat /\ mgr.next \in Nat
      /\ synced \in File /\ synced.next \in Nat
      /\ HeaderOf(file) \in headers /\ HeaderAfter(synced, file)
  BY OpenManagerState
<1>2. /\ mgr' \in Manager /\ file' \in File /\ file' # NoFile /\ mgr' # Closed
      /\ mgr'.next \in Nat /\ file'.next \in Nat /\ file'.len \in Nat /\ file'.root \in Nat
  BY DiskConstants, ConstantTypes DEF HeaderStep, File, Manager
<1>3. /\ headers' = headers \cup {HeaderOf(file')} /\ synced' = synced /\ losses' = losses
      /\ unsynced' \subseteq DataPages
  BY <1>1 DEF FileBecomes, TypeOK
<1>4. HeaderOf(file') \in [next : 0 .. PageIdLimit, root : 0 .. PageIdLimit]
  BY <1>2 DEF HeaderOf, File
<1>5. TypeOK'
  BY <1>1, <1>2, <1>3, <1>4 DEF TypeOK
<1>6. file'.next >= file.next /\ file'.next <= mgr'.next /\ mgr'.next <= file'.len
  BY <1>1, <1>2 DEF HeaderStep
<1>7. /\ mgr'.root # NoRoot => mgr'.root \in DataPages /\ mgr'.root < mgr'.next
      /\ EncodeRoot(mgr'.root) = PageIdLimit <=> mgr'.root = NoRoot
      /\ mgr'.root # NoRoot => EncodeRoot(mgr'.root) = mgr'.root
      /\ EncodeRoot(mgr'.root) >= 1
  <2>1. mgr'.root \in DataPages \cup {NoRoot}
    BY <1>2 DEF Manager
  <2>2. mgr'.root # NoRoot => mgr'.root < mgr'.next
    <3>1. mgr.root # NoRoot => mgr.root \in Nat /\ mgr.root < mgr.next
      BY <1>1, ConstantTypes DEF Order, Manager
    <3>2. mgr'.root # NoRoot => mgr'.root \in Nat
      BY <2>1, ConstantTypes
    <3>3. mgr'.next >= mgr.next
      BY DEF HeaderStep
    <3>4. mgr'.root # NoRoot => mgr'.root < mgr.next
      BY <3>1 DEF HeaderStep
    <3>5. QED
      BY <1>1, <1>2, <3>2, <3>3, <3>4
  <2>3. QED
    BY <2>1, <2>2, ConstantTypes DEF EncodeRoot
<1>8. mgr.root # NoRoot => mgr'.root = mgr.root
  BY DEF HeaderStep
<1>9. Rooted(file) => mgr.root = file.root /\ file.root # NoRoot
  BY <1>1, ConstantTypes DEF Order
<1>10. file'.root >= 1
  BY <1>1, <1>7 DEF HeaderStep
<1>11. file'.root = file.root \/ file'.root = EncodeRoot(mgr'.root)
  BY DEF HeaderStep
<1>12. Rooted(file) => file'.root = file.root
  BY <1>7, <1>8, <1>9, <1>11
<1>13. Rooted(file') => file'.root < file'.next /\ mgr'.root = file'.root
  <2>1. CASE Rooted(file)
    BY <1>1, <1>2, <1>6, <1>8, <1>9, <1>12, <2>1 DEF HeaderAfter
  <2>2. CASE ~Rooted(file)
    <3>1. file.root = PageIdLimit
      BY <1>1, <2>2 DEF Rooted, FirstDataPageId
    <3>2. ASSUME Rooted(file')
          PROVE  file'.next = mgr'.next /\ file'.root = EncodeRoot(mgr'.root)
      BY <3>1, <3>2 DEF Rooted, HeaderStep
    <3>3. QED
      BY <3>2, <1>7 DEF Rooted
  <2>3. QED
    BY <2>1, <2>2
<1>14. Rooted(synced) => file'.root = synced.root
  <2>1. Rooted(synced) => Rooted(file)
    BY <1>1 DEF HeaderAfter, Rooted, FirstDataPageId
  <2>2. QED
    BY <1>1, <1>12, <2>1 DEF HeaderAfter
<1>15. HeaderAfter(synced', HeaderOf(file')) /\ HeaderOf(file').next <= file'.next
  BY <1>1, <1>2, <1>3, <1>6, <1>10, <1>13, <1>14 DEF HeaderAfter, HeaderOf, Rooted
<1>16. ASSUME NEW h \in headers
       PROVE  HeaderAfter(synced', h) /\ h.next <= file'.next
  <2>1. HeaderAfter(synced, h) /\ h.next <= file.next /\ h.next \in Nat
    BY <1>1, ConstantTypes DEF Order, TypeOK
  <2>2. QED
    BY <1>1, <1>2, <1>3, <1>6, <2>1 DEF HeaderAfter
<1>17. \A p \in granted' : p < file'.next
  BY <1>1, <1>2, <1>6, ConstantTypes DEF Order
<1>18. file'.next >= FirstDataPageId /\ file'.next <= file'.len
  BY <1>1, <1>2, <1>6 DEF FirstDataPageId
<1>19. \A h \in headers' : HeaderAfter(synced', h) /\ (file' # NoFile => h.next <= file'.next)
  BY <1>3, <1>15, <1>16
<1>20. QED
  BY <1>2, <1>3, <1>5, <1>6, <1>7, <1>10, <1>13, <1>17, <1>18, <1>19 DEF Order

LEMMA CreateOrder ==
    ASSUME Order, Create
    PROVE  Order'
<1>1. /\ TypeOK /\ file = NoFile /\ mgr = Closed /\ granted = {} /\ synced.next = 0
      /\ \A h \in headers : h.next = 0 /\ HeaderAfter(synced, h)
  BY DEF Create, Order
<1>2. unsynced' = unsynced /\ granted' = granted /\ losses' = losses
  BY DEF Create
<1>3. /\ HeaderOf(CreatedFile) = [next |-> 1, root |-> PageIdLimit]
      /\ HeaderOf(ShortFile) = [next |-> 0, root |-> 0]
  BY NewFiles DEF HeaderOf
<1>4. CASE /\ file' = CreatedFile /\ mgr' = OpenManager(CreatedFile, FALSE)
           /\ synced' = CreatedFile /\ headers' = {HeaderOf(CreatedFile)}
  <2> DEFINE m == [next |-> 1, root |-> NoRoot, readOnly |-> FALSE]
  <2>1. mgr' = m /\ m \in Manager /\ m.next = 1 /\ m.root = NoRoot
    BY <1>4, NewFiles, ConstantTypes DEF OpenManager, DecodeRoot, Manager
  <2> HIDE DEF m
  <2>2. file' = CreatedFile /\ synced' = CreatedFile /\ headers' = {HeaderOf(CreatedFile)}
    BY <1>4
  <2>3. TypeOK'
    BY <1>1, <1>2, <1>3, <2>1, <2>2, NewFiles, ConstantTypes DEF TypeOK
  <2>4. HeaderAfter(synced', HeaderOf(CreatedFile)) /\ ~Rooted(file')
    BY <1>3, <2>2, NewFiles, ConstantTypes DEF HeaderAfter, Rooted
  <2>5. file' # NoFile /\ HeaderOf(file').next <= file'.next
    BY <1>3, <2>2, NewFiles, DiskConstants
  <2>6. /\ file'.next >= FirstDataPageId /\ file'.next <= file'.len
        /\ file'.root >= 1 /\ file'.next <= mgr'.next /\ mgr'.next <= file'.len
        /\ mgr'.root = NoRoot
    BY <2>1, <2>2, NewFiles, ConstantTypes DEF FirstDataPageId
  <2>7. QED
    BY <1>1, <1>2, <2>2, <2>3, <2>4, <2>5, <2>6 DEF Order
<1>5. CASE /\ file' \in {ShortFile, CreatedFile} /\ mgr' = Closed
           /\ headers' = headers \cup {HeaderOf(file')} /\ synced' = synced
  <2>1. TypeOK'
    BY <1>1, <1>2, <1>3, <1>5, NewFiles, ConstantTypes DEF TypeOK
  <2>2. /\ HeaderAfter(synced', HeaderOf(file')) /\ HeaderOf(file').next = file'.next
        /\ file'.next \in {0, 1}
    BY <1>1, <1>3, <1>5, NewFiles, ConstantTypes DEF HeaderAfter, Rooted, FirstDataPageId
  <2>3. file' # NoFile
    BY <1>5, NewFiles, DiskConstants
  <2>4. file'.len >= 1 => file'.next >= FirstDataPageId /\ file'.next <= file'.len
    BY <1>5, NewFiles DEF FirstDataPageId
  <2>5. \A h \in headers' : HeaderAfter(synced', h) /\ h.next <= file'.next
    BY <1>1, <1>5, <2>2
  <2>6. QED
    BY <1>1, <1>2, <1>5, <2>1, <2>2, <2>3, <2>4, <2>5 DEF Order
<1>6. QED
  BY <1>4, <1>5 DEF Create

LEMMA OpenOrder ==
    ASSUME Order, NEW readOnly \in BOOLEAN, Open(readOnly)
    PROVE  Order'
<1>1. /\ TypeOK /\ file # NoFile /\ file \in File /\ mgr' = OpenManager(file, readOnly)
      /\ file' = file /\ synced' = synced /\ headers' = headers /\ unsynced' = unsynced
      /\ granted' = granted /\ losses' = losses
  BY DEF Order, TypeOK, Open
<1>2. file.next >= 1 /\ file.next <= file.len /\ file.next \in 0 .. PageIdLimit /\ file.root \in 0 .. PageIdLimit
  BY <1>1 DEF Open, Openable, FirstDataPageId, File
<1>3. HeaderAfter(synced, file)
  <2>1. HeaderAfter(synced, HeaderOf(file))
    BY <1>1 DEF Order
  <2>2. QED
    BY <2>1 DEF HeaderAfter, HeaderOf, Rooted
<1>4. file.root >= 1
  BY <1>2, <1>3 DEF HeaderAfter, FirstDataPageId
<1>5. DecodeRoot(file.root) \in DataPages \cup {NoRoot}
  BY <1>2, <1>4, ConstantTypes DEF DecodeRoot
<1>6. mgr' \in Manager /\ mgr'.next = file.next /\ mgr'.root = DecodeRoot(file.root)
  BY <1>1, <1>2, <1>5 DEF OpenManager, Manager
<1>7. /\ Rooted(file) => mgr'.root = file.root
      /\ mgr'.root # NoRoot => mgr'.root < mgr'.next
  BY <1>2, <1>3, <1>6 DEF HeaderAfter, Rooted, DecodeRoot, FirstDataPageId
<1>8. TypeOK'
  BY <1>1, <1>6 DEF TypeOK
<1>9. mgr'.next <= file.len /\ file.next <= mgr'.next
  BY <1>2, <1>6
<1>10. QED
  BY <1>1, <1>2, <1>4, <1>7, <1>8, <1>9 DEF Order, FirstDataPageId

LEMMA AllocatePageOrder ==
    ASSUME Order, AllocatePage
    PROVE  Order'
<1>1. mgr # Closed
  BY DEF AllocatePage
<1>2. /\ TypeOK /\ mgr \in Manager /\ file \in File /\ file.root >= 1
      /\ file.next <= mgr.next /\ mgr.next <= file.len /\ mgr.next \in Nat
  BY <1>1, OpenManagerState
<1>3. PICK o \in AllocatePageOutcomes(mgr, file) :
        /\ mgr' = o.mgr /\ FileBecomes(o.file)
        /\ granted' = IF o.res = "Ok" THEN granted \cup {mgr.next} ELSE granted
  BY DEF AllocatePage
<1>4. file' = o.file
  BY <1>3 DEF FileBecomes
<1>5. /\ HeaderStep(mgr, file, o.mgr, o.file)
      /\ o.res = "Ok" => mgr.next \in DataPages /\ o.file.next = mgr.next + 1
  BY <1>2, AllocateStep
<1>6. /\ granted' \subseteq DataPages
      /\ \A p \in granted' : p \in granted \/ p < file'.next
  BY <1>2, <1>3, <1>4, <1>5 DEF TypeOK
<1>7. QED
  BY <1>1, <1>3, <1>4, <1>5, <1>6, CallOrder

LEMMA WritePageOrder ==
    ASSUME Order, NEW p \in DataPages, WritePage(p)
    PROVE  Order'
<1>1. mgr # Closed
  BY DEF WritePage
<1>2. /\ TypeOK /\ mgr \in Manager /\ file \in File /\ file.root >= 1
      /\ file.next <= mgr.next /\ mgr.next <= file.len
  BY <1>1, OpenManagerState
<1>3. PICK bytes \in Content : \E o \in WritePageOutcomes(mgr, file, p, bytes) :
        mgr' = o.mgr /\ FileBecomes(o.file)
  BY DEF WritePage
<1>4. PICK o \in WritePageOutcomes(mgr, file, p, bytes) : mgr' = o.mgr /\ FileBecomes(o.file)
  BY <1>3
<1>5. bytes \in Bytes
  BY DEF Bytes
<1>6. o.mgr = mgr /\ HeaderStep(mgr, file, mgr, o.file)
  BY <1>2, <1>4, <1>5, WritePageStep
<1>7. file' = o.file /\ granted' = granted
  BY <1>4 DEF FileBecomes, WritePage
<1>8. granted' \subseteq DataPages
  BY <1>2, <1>7 DEF TypeOK
<1>9. QED
  BY <1>1, <1>4, <1>6, <1>7, <1>8, CallOrder

LEMMA SetCatalogRootOrder ==
    ASSUME Order, NEW p \in DataPages, SetCatalogRoot(p)
    PROVE  Order'
<1>1. mgr # Closed
  BY DEF SetCatalogRoot
<1>2. /\ TypeOK /\ mgr \in Manager /\ file \in File /\ file.root >= 1
      /\ file.next <= mgr.next /\ mgr.next <= file.len
  BY <1>1, OpenManagerState
<1>3. PICK o \in SetCatalogRootOutcomes(mgr, file, p) : mgr' = o.mgr /\ FileBecomes(o.file)
  BY DEF SetCatalogRoot
<1>4. HeaderStep(mgr, file, o.mgr, o.file)
  BY <1>2, <1>3, SetCatalogRootStep
<1>5. file' = o.file /\ granted' = granted
  BY <1>3 DEF FileBecomes, SetCatalogRoot
<1>6. granted' \subseteq DataPages
  BY <1>2, <1>5 DEF TypeOK
<1>7. QED
  BY <1>1, <1>3, <1>4, <1>5, <1>6, CallOrder

LEMMA SyncOrder ==
    ASSUME Order, Sync
    PROVE  Order'
<1>1. /\ mgr # Closed /\ synced' = file /\ headers' = {HeaderOf(file)} /\ unsynced' = {}
      /\ file' = file /\ mgr' = mgr /\ granted' = granted /\ losses' = losses
  BY DEF Sync
<1>2. /\ TypeOK /\ file \in File /\ file # NoFile /\ file.next \in Nat
      /\ HeaderOf(file) \in headers /\ HeaderAfter(synced, file)
  BY <1>1, OpenManagerState
<1>3. TypeOK'
  BY <1>1, <1>2 DEF TypeOK
<1>4. HeaderAfter(file, HeaderOf(file)) /\ HeaderOf(file).next = file.next
  BY <1>2 DEF HeaderAfter, HeaderOf, Rooted
<1>5. QED
  BY <1>1, <1>2, <1>3, <1>4 DEF Order

LEMMA PowerLossOrder ==
    ASSUME Order, PowerLoss
    PROVE  Order'
<1>1. TypeOK /\ file # NoFile /\ file \in File /\ synced \in File /\ losses \in Nat
  BY DiskConstants DEF Order, TypeOK, PowerLoss
<1>2. PICK h \in headers, lost \in [unsynced -> Bytes], len \in synced.len .. file.len :
        \E ragged \in {synced.ragged, file.ragged, len # file.len} :
          LET f == [len |-> len, ragged |-> ragged, next |-> h.next, root |-> h.root,
                    pages |-> [p \in DataPages |->
                                 IF p >= len THEN Zero
                                 ELSE IF p \in unsynced THEN lost[p]
                                 ELSE synced.pages[p]]]
          IN  /\ file' = f
              /\ synced' = f
              /\ headers' = {h}
  BY Zenon DEF PowerLoss
<1>3. /\ mgr' = Closed /\ unsynced' = {} /\ losses' = losses + 1
      /\ granted' = {p \in granted : p < synced.next}
      /\ losses < MaxPowerLosses
  BY DEF PowerLoss
<1>4. /\ HeaderAfter(synced, h) /\ h.next <= file.next
      /\ h \in [next : 0 .. PageIdLimit, root : 0 .. PageIdLimit]
  BY <1>1 DEF Order, TypeOK
<1> DEFINE pages == [p \in DataPages |-> IF p >= len THEN Zero
                                         ELSE IF p \in unsynced THEN lost[p]
                                         ELSE synced.pages[p]]
<1>5. pages \in [DataPages -> Bytes]
  <2>1. synced.pages \in [DataPages -> Bytes]
    BY <1>1 DEF File
  <2>2. Zero \in Bytes
    BY ConstantTypes DEF Bytes
  <2>3. QED
    BY <2>1, <2>2
<1>6. PICK ragged \in {synced.ragged, file.ragged, len # file.len} :
        /\ file' = [len |-> len, ragged |-> ragged, next |-> h.next, root |-> h.root,
                    pages |-> pages]
        /\ synced' = file' /\ headers' = {h}
  BY <1>2
<1> HIDE DEF pages
<1>7. len \in 0 .. PageIdLimit /\ ragged \in BOOLEAN
  <2>1. synced.len \in Nat /\ file.len \in 0 .. PageIdLimit
    BY <1>1, ConstantTypes DEF File
  <2>2. synced.ragged \in BOOLEAN /\ file.ragged \in BOOLEAN
    BY <1>1 DEF File
  <2>3. len \in 0 .. PageIdLimit
    BY <2>1, ConstantTypes
  <2>4. (len # file.len) \in BOOLEAN
    OBVIOUS
  <2>5. ragged \in BOOLEAN
    BY <2>2, <2>4, Zenon
  <2>6. QED
    BY <2>3, <2>5
<1>8. file' \in File /\ file'.next = h.next /\ file'.root = h.root /\ file' # NoFile
  BY <1>4, <1>5, <1>6, <1>7, DiskConstants DEF File
<1>9. HeaderOf(file') = h
  BY <1>4, <1>8 DEF HeaderOf
<1>10. TypeOK'
  BY <1>1, <1>3, <1>4, <1>6, <1>8, DiskConstants DEF TypeOK
<1>11. HeaderAfter(synced', h)
  <2>1. h.next \in Nat
    BY <1>4, ConstantTypes
  <2>2. QED
    BY <1>4, <1>6, <1>8, <2>1 DEF HeaderAfter, Rooted
<1>12. \A p \in granted' : p < file'.next
  <2>1. synced.next \in Nat /\ h.next \in Nat /\ synced.next <= h.next /\ granted \subseteq Nat
    BY <1>1, <1>4, ConstantTypes DEF HeaderAfter, File, TypeOK
  <2>2. QED
    BY <1>3, <1>8, <2>1
<1>13. losses' # 0 /\ h.next <= file'.next
  BY <1>1, <1>3, <1>4, <1>8, ConstantTypes
<1>14. QED
  BY <1>3, <1>6, <1>8, <1>9, <1>10, <1>11, <1>12, <1>13 DEF Order

LEMMA OrderStep == Order /\ [Next]_vars => Order'
<1> SUFFICES ASSUME Order, [Next]_vars PROVE Order'
  OBVIOUS
<1>1. CASE UNCHANGED vars
  BY <1>1 DEF vars, Order, TypeOK
<1>2. CASE Create
  BY <1>2, CreateOrder
<1>3. ASSUME NEW readOnly \in BOOLEAN, Open(readOnly)
      PROVE  Order'
  BY <1>3, OpenOrder
<1>4. CASE AllocatePage
  BY <1>4, AllocatePageOrder
<1>5. ASSUME NEW p \in DataPages, WritePage(p) \/ SetCatalogRoot(p)
      PROVE  Order'
  BY <1>5, WritePageOrder, SetCatalogRootOrder
<1>6. CASE Sync
  BY <1>6, SyncOrder
<1>7. CASE Stop
  BY <1>7 DEF Stop, Order, TypeOK
<1>8. CASE PowerLoss
  BY <1>8, PowerLossOrder
<1>9. QED
  BY <1>1, <1>2, <1>3, <1>4, <1>5, <1>6, <1>7, <1>8 DEF Next

\* Memory, file and headers are always in this order.
THEOREM OrderInvariant == Spec => []Order
BY OrderInit, OrderStep, PTL DEF Spec

(* Files, headers and managers keep their types: the mark stays within the *)
(* page ids that fit, also when ids are exhausted.                         *)
THEOREM TypeCorrect == Spec => []TypeOK
<1>1. Order => TypeOK
  BY DEF Order
<1>2. QED
  BY <1>1, OrderInvariant, PTL

(* While a manager is open, header on disk, mark in memory and length of   *)
(* the file are in this order, after every failure and power loss.         *)
THEOREM HeaderIsBacked == Spec => []HeaderBacked
<1>1. Order => HeaderBacked
  BY DEF Order, HeaderBacked
<1>2. QED
  BY <1>1, OrderInvariant, PTL

(* No failed call and no stop between calls makes a created file           *)
(* unopenable but by leaving a fraction of a page at its end.              *)
THEOREM RefusesOnlyRagged == Spec => []OnlyRaggedFilesAreRefused
<1>1. Order => OnlyRaggedFilesAreRefused
  BY DEF Order, OnlyRaggedFilesAreRefused, Openable
<1>2. QED
  BY <1>1, OrderInvariant, PTL

(* The header on disk counts every page handed out, but for those a power  *)
(* loss took back.                                                         *)
THEOREM GrantsPersisted == Spec => []GrantsArePersisted
<1>1. Order => GrantsArePersisted
  BY DEF Order, GrantsArePersisted
<1>2. QED
  BY <1>1, OrderInvariant, PTL

(* The catalog root on disk is allocated and the manager's, and once synced *)
(* it never changes again.                                                 *)
THEOREM RootSetOnce == Spec => []RootIsFinal
<1>1. ASSUME Order
      PROVE  RootIsFinal
  <2> SUFFICES ASSUME file # NoFile, file.next >= FirstDataPageId, DecodeRoot(file.root) # NoRoot
               PROVE  /\ DecodeRoot(file.root) < file.next
                      /\ mgr # Closed => mgr.root = DecodeRoot(file.root)
                      /\ synced.next >= FirstDataPageId /\ DecodeRoot(synced.root) # NoRoot
                           => DecodeRoot(file.root) = DecodeRoot(synced.root)
    BY DEF RootIsFinal
  <2>1. HeaderAfter(synced, HeaderOf(file))
    BY <1>1 DEF Order
  <2>2. HeaderAfter(synced, file)
    BY <2>1 DEF HeaderAfter, HeaderOf, Rooted
  <2>3. Rooted(file) /\ DecodeRoot(file.root) = file.root
    BY DEF DecodeRoot, Rooted
  <2>4. synced.next >= FirstDataPageId /\ DecodeRoot(synced.root) # NoRoot => Rooted(synced)
    BY DEF DecodeRoot, Rooted
  <2>5. mgr # Closed => mgr.root = file.root
    BY <1>1, <2>3 DEF Order
  <2>6. QED
    BY <2>2, <2>3, <2>4, <2>5 DEF HeaderAfter
<1>2. QED
  BY <1>1, OrderInvariant, PTL

\* A call on an open manager changes no page in use but the one it writes.
LEMMA CallsKeepPages ==
    ASSUME Order, [Next]_vars, ~PowerLoss, NEW p \in granted, file'.pages[p] # file.pages[p]
    PROVE  WritePage(p)
<1>1. file # NoFile /\ p \in DataPages /\ p < file.next
  BY DEF Order, TypeOK
<1>2. CASE Create
  BY <1>1, <1>2 DEF Create
<1>3. CASE AllocatePage
  <2>1. mgr # Closed
    BY <1>3 DEF AllocatePage
  <2>2. /\ mgr \in Manager /\ file \in File /\ file.root >= 1
        /\ file.next <= mgr.next /\ mgr.next <= file.len
        /\ mgr.next \in Nat /\ file.next \in Nat
    BY <2>1, OpenManagerState
  <2>3. PICK o \in AllocatePageOutcomes(mgr, file) : file' = o.file
    BY <1>3 DEF AllocatePage, FileBecomes
  <2>4. \A q \in DataPages : q # mgr.next => o.file.pages[q] = file.pages[q]
    BY <2>2, AllocateStep
  <2>5. p # mgr.next
    BY <1>1, <2>2, ConstantTypes
  <2>6. QED
    BY <1>1, <2>3, <2>4, <2>5
<1>4. ASSUME NEW q \in DataPages, WritePage(q)
      PROVE  WritePage(p)
  <2>1. mgr # Closed
    BY <1>4 DEF WritePage
  <2>2. /\ mgr \in Manager /\ file \in File /\ file.root >= 1
        /\ file.next <= mgr.next /\ mgr.next <= file.len
    BY <2>1, OpenManagerState
  <2>3. PICK bytes \in Content : \E o \in WritePageOutcomes(mgr, file, q, bytes) : file' = o.file
    BY <1>4 DEF WritePage, FileBecomes
  <2>4. PICK o \in WritePageOutcomes(mgr, file, q, bytes) : file' = o.file
    BY <2>3
  <2>5. bytes \in Bytes
    BY DEF Bytes
  <2>6. \A r \in DataPages : r # q => o.file.pages[r] = file.pages[r]
    BY <2>2, <2>5, WritePageStep
  <2>7. p = q
    BY <1>1, <2>4, <2>6
  <2>8. QED
    BY <1>4, <2>7
<1>5. ASSUME NEW q \in DataPages, SetCatalogRoot(q)
      PROVE  WritePage(p)
  <2>1. mgr # Closed
    BY <1>5 DEF SetCatalogRoot
  <2>2. /\ mgr \in Manager /\ file \in File /\ file.root >= 1
        /\ file.next <= mgr.next /\ mgr.next <= file.len
    BY <2>1, OpenManagerState
  <2>3. PICK o \in SetCatalogRootOutcomes(mgr, file, q) : file' = o.file
    BY <1>5 DEF SetCatalogRoot, FileBecomes
  <2>4. QED
    BY <2>2, <2>3, SetCatalogRootStep
<1>6. CASE Sync \/ Stop \/ UNCHANGED vars \/ \E readOnly \in BOOLEAN : Open(readOnly)
  BY <1>6 DEF Sync, Stop, vars, Open
<1>7. QED
  BY <1>2, <1>3, <1>4, <1>5, <1>6 DEF Next

(* What a page in use holds changes only by write_page of that page, or by *)
(* a power loss: no growth of the file zeroes it.                          *)
THEOREM PagesInUseKept == Spec => GrantedPagesKept
<1>1. ASSUME Order, [Next]_vars, NEW p \in granted, file'.pages[p] # file.pages[p]
      PROVE  WritePage(p) \/ PowerLoss
  BY <1>1, CallsKeepPages
<1>2. Order /\ [Next]_vars =>
        [\A p \in granted : file'.pages[p] # file.pages[p] => WritePage(p) \/ PowerLoss]_vars
  BY <1>1
<1>3. QED
  BY <1>2, OrderInvariant, PTL DEF Spec, GrantedPagesKept

(* A manager opened read-only writes nothing.                              *)
THEOREM ReadOnlyManagerHarmless == Spec => ReadOnlyNeverWrites
<1>1. ASSUME Order, [Next]_vars, mgr # Closed, mgr.readOnly, ~PowerLoss
      PROVE  file' = file
  <2>1. /\ file # NoFile /\ mgr \in Manager /\ file \in File /\ file.root >= 1
        /\ file.next <= mgr.next /\ mgr.next <= file.len
    BY <1>1, OpenManagerState
  <2>2. CASE AllocatePage
    <3>1. PICK o \in AllocatePageOutcomes(mgr, file) : file' = o.file
      BY <2>2 DEF AllocatePage, FileBecomes
    <3>2. QED
      BY <1>1, <2>1, <3>1, AllocateStep DEF HeaderStep
  <2>3. ASSUME NEW p \in DataPages, WritePage(p)
        PROVE  file' = file
    BY <1>1, <2>3 DEF WritePage, WritePageOutcomes, Writable, Outcome, FileBecomes
  <2>4. ASSUME NEW p \in DataPages, SetCatalogRoot(p)
        PROVE  file' = file
    BY <1>1, <2>4 DEF SetCatalogRoot, SetCatalogRootOutcomes, Writable, Outcome, FileBecomes
  <2>5. CASE \/ Create \/ Sync \/ Stop \/ UNCHANGED vars
             \/ \E readOnly \in BOOLEAN : Open(readOnly)
    BY <2>1, <2>5 DEF Create, Sync, Stop, vars, Open
  <2>6. QED
    BY <1>1, <2>2, <2>3, <2>4, <2>5 DEF Next
<1>2. Order /\ [Next]_vars => [mgr # Closed /\ mgr.readOnly /\ ~PowerLoss => file' = file]_vars
  BY <1>1
<1>3. QED
  BY <1>2, OrderInvariant, PTL DEF Spec, ReadOnlyNeverWrites
=============================================================================
