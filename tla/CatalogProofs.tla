--------------------------- MODULE CatalogProofs ---------------------------
(***************************************************************************)
(* Proofs about the table catalog while one Catalog value is in use, for   *)
(* every set of names, id limit, number of pages and losses: what is open  *)
(* is what opens again, declarations stay unique, and a loss keeps those   *)
(* that were synced.                                                       *)
(***************************************************************************)
EXTENDS Catalog, HeapLemmas

\* One Catalog value: two of them do give a name and an id twice.
OneCatalog == \A c, k \in Catalogs : c = k

-----------------------------------------------------------------------------
(* Pages.                                                                  *)

Image == {Zero, Torn} \cup CatalogPage

Recs(pg) == {pg.records[i] : i \in DOMAIN pg.records}

FilledPage(record) == [HeapPage EXCEPT !.records = <<record>>]

LEMMA NotPages ==
    /\ Zero \notin CatalogPage /\ Torn \notin CatalogPage /\ Zero \in Image /\ Torn \in Image
    /\ \A pg \in CatalogPage : pg \in Image /\ pg # Zero /\ pg # Torn
BY CatalogAssumption DEF Image

LEMMA PageFields ==
    ASSUME NEW pg \in CatalogPage
    PROVE  /\ pg.records \in Seq(Declaration) /\ pg.next \in {NoPage} \cup 1 .. MaxPages
           /\ Recs(pg) \subseteq Declaration
           /\ pg = [records |-> pg.records, next |-> pg.next]
BY DEF CatalogPage, Recs

LEMMA EmptyCatalogPage == HeapPage \in CatalogPage /\ Recs(HeapPage) = {} /\ HeapPage.next = NoPage
BY DEF HeapPage, CatalogPage, Recs

LEMMA FilledCatalogPage ==
    ASSUME NEW record \in Declaration
    PROVE  /\ FilledPage(record) \in CatalogPage /\ Recs(FilledPage(record)) = {record}
           /\ FilledPage(record).next = NoPage
<1> DEFINE one == <<record>>
<1>1. FilledPage(record) = [records |-> one, next |-> NoPage]
  BY DEF FilledPage, HeapPage
<1>2. one \in Seq(Declaration) /\ DOMAIN one = {1} /\ one[1] = record
  OBVIOUS
<1> HIDE DEF one
<1>3. QED
  BY <1>1, <1>2 DEF CatalogPage, Recs

LEMMA RecordAppended ==
    ASSUME NEW pg \in CatalogPage, NEW record \in Declaration
    PROVE  LET new == [pg EXCEPT !.records = Append(@, record)]
           IN  new \in CatalogPage /\ Recs(new) = Recs(pg) \cup {record} /\ new.next = pg.next
<1> DEFINE more == Append(pg.records, record)
           new == [pg EXCEPT !.records = Append(@, record)]
<1>1. /\ pg.records \in Seq(Declaration) /\ pg.next \in {NoPage} \cup 1 .. MaxPages
      /\ pg = [records |-> pg.records, next |-> pg.next]
  BY PageFields
<1>2. new = [records |-> more, next |-> pg.next]
  BY <1>1
<1>3. /\ more \in Seq(Declaration) /\ DOMAIN more = 1 .. Len(pg.records) + 1 /\ Len(pg.records) \in Nat
      /\ \A i \in 1 .. Len(pg.records) : more[i] = pg.records[i]
      /\ more[Len(pg.records) + 1] = record
  BY <1>1, AppendToSeq
<1> HIDE DEF more
<1>4. new \in CatalogPage /\ new.next = pg.next /\ new.records = more
  BY <1>1, <1>2, <1>3 DEF CatalogPage
<1> HIDE DEF new
<1>5. Recs(new) = Recs(pg) \cup {record}
  <2>1. PICK m : m = Len(pg.records)
    OBVIOUS
  <2>2. /\ DOMAIN more = 1 .. m + 1 /\ DOMAIN pg.records = 1 .. m /\ m \in Nat
        /\ \A i \in 1 .. m : more[i] = pg.records[i]
        /\ more[m + 1] = record
    BY <1>1, <1>3, <2>1
  <2>3. /\ m + 1 \in 1 .. m + 1
        /\ \A i \in 1 .. m + 1 : i \in 1 .. m \/ i = m + 1
        /\ \A i \in 1 .. m : i \in 1 .. m + 1
    BY <2>2
  <2>4. Recs(new) = {more[i] : i \in 1 .. m + 1} /\ Recs(pg) = {pg.records[i] : i \in 1 .. m}
    BY <1>4, <2>2 DEF Recs
  <2> QED
    BY <2>2, <2>3, <2>4
<1>6. QED
  BY <1>4, <1>5 DEF new

LEMMA PageRelinked ==
    ASSUME NEW pg \in CatalogPage, NEW n \in 1 .. MaxPages
    PROVE  LET new == [pg EXCEPT !.next = n]
           IN  new \in CatalogPage /\ Recs(new) = Recs(pg) /\ new.next = n
BY DEF CatalogPage, Recs

-----------------------------------------------------------------------------
(* The database.                                                           *)

LEMMA ReadablePages ==
    ASSUME NEW store \in Seq(Image)
    PROVE  /\ DOMAIN store = 1 .. Len(store) /\ Len(store) \in Nat
           /\ \A p : Readable(store, p) <=> p \in DOMAIN store /\ store[p] \in CatalogPage
           /\ DOMAIN Links(store) = {p \in DOMAIN store : store[p] \in CatalogPage}
           /\ \A p \in DOMAIN Links(store) : Links(store)[p] = store[p].next
<1>1. DOMAIN store = 1 .. Len(store) /\ Len(store) \in Nat
  OBVIOUS
<1>2. ASSUME NEW p PROVE Readable(store, p) <=> p \in DOMAIN store /\ store[p] \in CatalogPage
  <2>1. p \in DOMAIN store => store[p] \in Image
    OBVIOUS
  <2> QED
    BY <2>1, NotPages DEF Readable, Image
<1>3. QED
  BY <1>1, <1>2 DEF Links

LEMMA SameLinks ==
    ASSUME NEW s \in Seq(Image), NEW t \in Seq(Image),
           \A p : /\ p \in DOMAIN s /\ s[p] \in CatalogPage <=> p \in DOMAIN t /\ t[p] \in CatalogPage
                  /\ p \in DOMAIN s /\ s[p] \in CatalogPage => t[p].next = s[p].next
    PROVE  Links(t) = Links(s)
<1>1. /\ Links(s) = [p \in {q \in DOMAIN s : Readable(s, q)} |-> s[p].next]
      /\ Links(t) = [p \in {q \in DOMAIN t : Readable(t, q)} |-> t[p].next]
  BY DEF Links
<1>2. {q \in DOMAIN s : Readable(s, q)} = {q \in DOMAIN t : Readable(t, q)}
  BY ReadablePages
<1>3. \A p \in {q \in DOMAIN s : Readable(s, q)} : t[p].next = s[p].next
  BY ReadablePages
<1>4. QED
  BY <1>1, <1>2, <1>3

\* The chain of the catalog or of a table, if it has one.
ChainsFrom(store, root) == IF root = NoPage THEN {} ELSE Chains(Links(store), root)

LEMMA ChainsThere ==
    ASSUME NEW store \in Seq(Image), Len(store) <= MaxPages, NEW root
    PROVE  /\ NoPage \notin DOMAIN Links(store)
           /\ \A c : c \in ChainsFrom(store, root) <=> root # NoPage /\ IsChain(Links(store), root, c)
           /\ \A c \in ChainsFrom(store, root), d \in ChainsFrom(store, root) : c = d
           /\ \A c : IsChain(Links(store), root, c) /\ root # NoPage => ChainsFrom(store, root) = {c}
<1>1. DOMAIN Links(store) \subseteq 1 .. Len(store) /\ Len(store) \in Nat
  BY ReadablePages
<1>2. IsFiniteSet(DOMAIN Links(store))
  <2>1. IsFiniteSet(1 .. Len(store)) /\ DOMAIN Links(store) \in SUBSET (1 .. Len(store))
    BY <1>1, FS_Interval
  <2> QED
    BY <2>1, FS_Subset
<1>3. NoPage \notin DOMAIN Links(store)
  BY <1>1, CatalogAssumption
<1>4. \A c : IsChain(Links(store), root, c) => Chains(Links(store), root) = {c}
  BY <1>2, <1>3, ChainFound
<1>5. \A c : c \in Chains(Links(store), root) <=> IsChain(Links(store), root, c)
  BY <1>4, ChainsAreChains
<1>6. QED
  BY <1>3, <1>4, <1>5 DEF ChainsFrom

LEMMA ChainIs ==
    ASSUME NEW store \in Seq(Image), Len(store) <= MaxPages, NEW root, NEW c \in ChainsFrom(store, root)
    PROVE  /\ root # NoPage /\ IsChain(Links(store), root, c)
           /\ c \in Seq(DOMAIN store) /\ Len(c) \in Nat /\ Len(c) # 0 /\ DOMAIN c = 1 .. Len(c) /\ c[1] = root
           /\ \A p \in ListedPages(c) : p \in DOMAIN store /\ store[p] \in CatalogPage
           /\ \A i \in 1 .. Len(c) :
                /\ c[i] \in ListedPages(c) /\ c[i] \in DOMAIN store /\ store[c[i]] \in CatalogPage
                /\ i = Len(c) => store[c[i]].next = NoPage
                /\ i < Len(c) => store[c[i]].next = c[i + 1] /\ store[c[i]].next # NoPage
<1>1. root # NoPage /\ IsChain(Links(store), root, c) /\ NoPage \notin DOMAIN Links(store)
  BY ChainsThere
<1>2. /\ c \in Seq(DOMAIN Links(store)) /\ Len(c) \in Nat \ {0}
      /\ DOMAIN c = 1 .. Len(c) /\ c[1] = root
      /\ \A i \in 1 .. Len(c) :
           /\ c[i] \in DOMAIN Links(store)
           /\ i = Len(c) => Links(store)[c[i]] = NoPage
           /\ i < Len(c) => Links(store)[c[i]] = c[i + 1] /\ Links(store)[c[i]] # NoPage
  BY <1>1, ChainLinks
<1>3. \A p \in DOMAIN Links(store) :
        p \in DOMAIN store /\ store[p] \in CatalogPage /\ Links(store)[p] = store[p].next
  BY ReadablePages
<1>4. c \in Seq(DOMAIN store)
  <2> DEFINE D == DOMAIN Links(store)
             E == DOMAIN store
  <2>1. D \subseteq E
    BY <1>3
  <2>2. c \in Seq(D)
    BY <1>2
  <2> HIDE DEF D, E
  <2>3. c \in Seq(E)
    BY <2>1, <2>2
  <2> QED
    BY <2>3 DEF E
<1>5. \A i \in 1 .. Len(c) :
        /\ c[i] \in DOMAIN store /\ store[c[i]] \in CatalogPage
        /\ i = Len(c) => store[c[i]].next = NoPage
        /\ i < Len(c) => store[c[i]].next = c[i + 1] /\ store[c[i]].next # NoPage
  BY <1>2, <1>3
<1>6. QED
  BY <1>1, <1>2, <1>4, <1>5 DEF ListedPages

\* The declarations on a chain.
LEMMA RecordsAre ==
    ASSUME NEW store, NEW pages, NEW t
    PROVE  t \in RecordsOn(store, pages) <=> \E p \in ListedPages(pages) : t \in Recs(store[p])
BY DEF RecordsOn, Recs

LEMMA RecordsDeclared ==
    ASSUME NEW store \in Seq(Image), Len(store) <= MaxPages, NEW root, NEW c \in ChainsFrom(store, root)
    PROVE  RecordsOn(store, c) \subseteq Declaration
<1>1. \A p \in ListedPages(c) : Recs(store[p]) \subseteq Declaration
  BY ChainIs, PageFields
<1>2. QED
  BY <1>1, RecordsAre

\* A chain stays where its pages keep their links.
LEMMA ChainStays ==
    ASSUME NEW s \in Seq(Image), Len(s) <= MaxPages, NEW t \in Seq(Image), Len(t) <= MaxPages,
           NEW root, NEW c \in ChainsFrom(s, root),
           \A p \in ListedPages(c) : p \in DOMAIN t /\ t[p] \in CatalogPage /\ t[p].next = s[p].next
    PROVE  ChainsFrom(t, root) = {c} /\ ChainsFrom(s, root) = {c}
<1>1. /\ root # NoPage /\ IsChain(Links(s), root, c)
      /\ \A p \in ListedPages(c) : p \in DOMAIN s /\ s[p] \in CatalogPage
  BY ChainIs
<1>2. \A p \in ListedPages(c) : p \in DOMAIN Links(t) /\ Links(t)[p] = Links(s)[p]
  BY <1>1, ReadablePages
<1>3. IsChain(Links(t), root, c)
  BY <1>1, <1>2, ChainKept
<1>4. QED
  BY <1>1, <1>3, ChainsThere

LEMMA OpenableIs ==
    ASSUME NEW store \in Seq(Image), Len(store) <= MaxPages, NEW root, NEW c
    PROVE  c \in Openable(store, root) <=>
             /\ c \in ChainsFrom(store, root)
             /\ UniqueIn(RecordsOn(store, c))
             /\ \A t \in RecordsOn(store, c) : ChainsFrom(store, t.heap) # {}
<1>1. ASSUME NEW t \in RecordsOn(store, c), c \in ChainsFrom(store, root)
      PROVE  ChainsFrom(store, t.heap) = Chains(Links(store), t.heap)
  <2>1. t \in Declaration
    BY <1>1, RecordsDeclared
  <2>2. t.heap # NoPage
    BY <2>1, CatalogAssumption DEF Declaration
  <2> QED
    BY <2>2 DEF ChainsFrom
<1>2. c \in Openable(store, root) <=>
        /\ c \in ChainsFrom(store, root)
        /\ UniqueIn(RecordsOn(store, c))
        /\ \A t \in RecordsOn(store, c) : Chains(Links(store), t.heap) # {}
  BY DEF Openable, ChainsFrom
<1>3. QED
  BY <1>1, <1>2

\* The id after the highest.
LEMMA NextIdIs ==
    ASSUME NEW tables, tables \subseteq Declaration
    PROVE  /\ NextId(tables) \in 1 .. IdLimit
           /\ \A t \in tables : t.id < NextId(tables)
           /\ tables = {} => NextId(tables) = 1
           /\ tables # {} => \E t \in tables : NextId(tables) = t.id + 1
<1> DEFINE ids == {t.id : t \in tables}
           Highest(n) == \A t \in tables : t.id <= n
<1>1. IdLimit \in Nat /\ IdLimit # 0 /\ \A t \in tables : t.id \in 1 .. IdLimit - 1
  BY CatalogAssumption DEF Declaration
<1>2. \E n \in {0} \cup ids : Highest(n)
  <2>1. CASE tables = {}
    BY <2>1
  <2>2. CASE tables # {}
    <3>1. ids \subseteq 1 .. IdLimit /\ ids # {}
      BY <1>1, <2>2
    <3>2. PICK n \in ids : \A j \in ids : j <= n
      BY <1>1, <3>1, GreatestExists
    <3>3. Highest(n)
      BY <3>2
    <3> QED
      BY <3>3
  <2> QED
    BY <2>1, <2>2
<1> DEFINE highest == CHOOSE n \in {0} \cup ids : Highest(n)
<1>3. highest \in {0} \cup ids /\ Highest(highest)
  <2> HIDE DEF ids, Highest
  <2> QED
    BY <1>2
<1>4. NextId(tables) = IF highest = IdLimit THEN IdLimit ELSE highest + 1
  BY DEF NextId
<1> HIDE DEF highest
<1>5. highest \in 0 .. IdLimit - 1 /\ \A t \in tables : t.id <= highest
  BY <1>1, <1>3
<1>6. NextId(tables) = highest + 1
  BY <1>1, <1>4, <1>5
<1>7. tables = {} => highest = 0
  BY <1>3
<1>8. tables # {} => \E t \in tables : t.id = highest
  <2> SUFFICES ASSUME tables # {} PROVE \E t \in tables : t.id = highest
    OBVIOUS
  <2>1. PICK t \in tables : TRUE
    OBVIOUS
  <2>2. highest # 0
    BY <1>1, <1>5, <2>1
  <2> QED
    BY <1>3, <2>2
<1>9. QED
  BY <1>1, <1>5, <1>6, <1>7, <1>8

LEMMA NextIdAdded ==
    ASSUME NEW tables, tables \subseteq Declaration, NEW t \in Declaration, t.id = NextId(tables)
    PROVE  /\ NextId(tables \cup {t}) = NextId(tables) + 1
           /\ NextId(tables) + 1 \in 1 .. IdLimit
           /\ \A s \in tables : s.id # t.id
<1> DEFINE more == tables \cup {t}
<1>1. IdLimit \in Nat /\ t.id \in 1 .. IdLimit - 1 /\ \A s \in tables : s.id \in 1 .. IdLimit - 1
  BY CatalogAssumption DEF Declaration
<1>2. \A s \in tables : s.id < t.id
  BY NextIdIs
<1>3. /\ more \subseteq Declaration /\ more # {} /\ t \in more
  OBVIOUS
<1> HIDE DEF more
<1>4. PICK s \in more : NextId(more) = s.id + 1
  BY <1>3, NextIdIs
<1>5. t.id < NextId(more) /\ NextId(more) \in 1 .. IdLimit
  BY <1>3, NextIdIs
<1>6. s = t
  <2>1. s \in tables => s.id < t.id /\ s.id \in 1 .. IdLimit - 1
    BY <1>1, <1>2
  <2>2. s \notin tables
    BY <1>1, <1>4, <1>5, <2>1
  <2> QED
    BY <2>2 DEF more
<1>7. QED
  BY <1>1, <1>2, <1>4, <1>5, <1>6 DEF more

-----------------------------------------------------------------------------
(* The inductive invariant.                                                *)

TypeInv ==
    /\ view \in Seq(Image) /\ disk \in Seq(Image)
    /\ Len(view) = Len(disk) /\ Len(view) <= MaxPages
    /\ pending \subseteq DOMAIN view
    /\ kept \in 0 .. Len(view)
    /\ rootInMemory \in {NoPage} \cup 1 .. kept
    /\ rootOnDisk \in {NoPage, rootInMemory}
    /\ catalog \in [Catalogs -> {Closed} \cup CatalogValue]
    /\ safe \subseteq Declaration /\ grown \in BOOLEAN /\ losses \in 0 .. MaxLosses

\* Pages, and those that they link to and declare, are counted by the header.
Counted(store) ==
    \A p \in DOMAIN store : store[p] \in CatalogPage =>
        /\ p <= kept /\ store[p].next \in {NoPage} \cup 1 .. kept
        /\ \A r \in Recs(store[p]) : r.heap \in 1 .. kept

LinkInv == Counted(view) /\ Counted(disk)

\* Page q links to page p, as it is read or as the file has it.
LinksTo(q, p) == \E pg \in {view[q], disk[q]} : pg \in CatalogPage /\ pg.next = p

Unlinked(p) == \A q \in DOMAIN view : ~LinksTo(q, p)

\* No two pages link to one, and none to the first page of the catalog or of a
\* table: so no two chains share a page.
ApartInv ==
    /\ \A q, r \in DOMAIN view : \A p \in 1 .. MaxPages : LinksTo(q, p) /\ LinksTo(r, p) => q = r
    /\ \A c \in ChainsFrom(view, rootInMemory) :
         Unlinked(rootInMemory) /\ \A t \in RecordsOn(view, c) : Unlinked(t.heap)

OwnPages(tables, pages) ==
    /\ UniqueIn(tables)
    /\ \A s, t \in tables : s # t => s.heap # t.heap
    /\ \A t \in tables : t.heap \notin ListedPages(pages)

\* A catalog with tables has its root on file.
TablesInv ==
    \A c \in ChainsFrom(view, rootInMemory) :
        /\ OwnPages(RecordsOn(view, c), c)
        /\ rootOnDisk # rootInMemory => RecordsOn(view, c) = {}

\* A Catalog value holds what opening the catalog gives.
CatInv ==
    \A k \in Catalogs : catalog[k] # Closed =>
        \E c \in Openable(view, rootInMemory) : catalog[k] = Opened(c)

\* A catalog that cannot be opened stays as the loss left it.
OpenInv ==
    Openable(view, rootInMemory) = {} =>
        /\ safe = {}
        /\ rootInMemory # NoPage => pending = {} /\ disk = view

\* A page of the file behind page i of the chain: its records are on the page
\* read, those synced are on it, and its link is not missing if synced records
\* come after it.
Behind(pg, c, i) ==
    pg \in CatalogPage =>
        /\ pg.next \in {NoPage, view[c[i]].next}
        /\ Recs(pg) \subseteq Recs(view[c[i]])
        /\ safe \cap Recs(view[c[i]]) \subseteq Recs(pg)
        /\ \A j \in i + 1 .. Len(c) : safe \cap Recs(view[c[j]]) # {} => pg.next = view[c[i]].next

\* With nothing grown since the last sync, the file has the chain of the
\* catalog and those of the tables.
OnFile(store, c) ==
    /\ \A p \in ListedPages(c) : store[p] \in {Torn, view[p]}
    /\ \A t \in RecordsOn(view, c) : \A h \in ChainsFrom(view, t.heap) :
         \A p \in ListedPages(h) : store[p] \in {Torn, view[p]}

DiskInv ==
    \A c \in Openable(view, rootInMemory) :
        /\ safe \subseteq RecordsOn(view, c)
        /\ \A i \in DOMAIN c : Behind(disk[c[i]], c, i)
        /\ ~grown => OnFile(disk, c)

StoreInv == TypeInv /\ LinkInv /\ ApartInv /\ TablesInv /\ CatInv /\ OpenInv /\ DiskInv

Calls ==
    [step : {"idle"}]
    \cup [step : {"init", "flush", "root"}, then : {"flush"}, catalog : Catalogs, page : 1 .. MaxPages]
    \cup [step : {"init", "insert"}, then : {"insert"}, catalog : Catalogs, page : 1 .. MaxPages,
          record : Declaration]
    \cup [step : {"init", "extend"}, then : {"extend"}, catalog : Catalogs, page : 1 .. MaxPages,
          record : Declaration]
    \cup [step : {"fill", "link"}, catalog : Catalogs, page : 1 .. MaxPages, record : Declaration]

\* Neither the catalog nor a table of it has page p.
Unnamed(p) ==
    /\ p \in 1 .. kept /\ Unlinked(p)
    /\ \A c \in ChainsFrom(view, rootInMemory) :
         p \notin ListedPages(c) /\ \A t \in RecordsOn(view, c) : t.heap # p

\* The declaration under way has an id, a name and a page of its own.
Declares(c, record) ==
    /\ catalog[c] # Closed /\ rootOnDisk = rootInMemory
    /\ record.id = catalog[c].nextId
    /\ \A t \in catalog[c].tables : t.name # record.name
    /\ Unnamed(record.heap)

\* A table of a catalog in use.
Declared(c, record) == catalog[c] # Closed /\ record \in catalog[c].tables

Fits(c) ==
    /\ c \in Calls
    /\ c.step \in {"init", "flush", "root", "fill", "link", "extend"} => Unnamed(c.page)
    /\ c.step \in {"init", "fill"} => view[c.page] = Zero /\ disk[c.page] = Zero
    /\ c.step \in {"init", "flush", "root"} /\ c.then = "flush" => rootInMemory = NoPage
    /\ c.step \in {"flush", "root", "extend"} => view[c.page] = HeapPage
    /\ c.step = "root" => disk[c.page] = HeapPage
    /\ c.step = "init" /\ c.then = "insert" => Declares(c.catalog, c.record) /\ c.record.heap = c.page
    /\ c.step \in {"insert", "fill", "link"} =>
         Declares(c.catalog, c.record) /\ view[c.record.heap] = HeapPage
    /\ (c.step = "init" /\ c.then = "extend") \/ c.step = "extend" => Declared(c.catalog, c.record)
    /\ c.step \in {"fill", "link"} => c.page # c.record.heap
    /\ c.step = "link" => view[c.page] = FilledPage(c.record) /\ disk[c.page] \in {Zero, Torn, view[c.page]}

CallInv == Fits(call)

CatalogInv == StoreInv /\ CallInv

-----------------------------------------------------------------------------
(* Consequences.                                                           *)

LEMMA StoreFacts ==
    ASSUME TypeInv
    PROVE  /\ DOMAIN view = 1 .. Len(view) /\ DOMAIN disk = DOMAIN view /\ Len(view) \in Nat
           /\ kept \in Nat /\ kept <= Len(view) /\ 1 .. kept \subseteq DOMAIN view
           /\ 1 .. kept \subseteq 1 .. MaxPages
           /\ DOMAIN view \subseteq 1 .. MaxPages
           /\ \A p \in DOMAIN view : view[p] \in Image /\ disk[p] \in Image
           /\ NoPage \notin 1 .. kept
<1>1. MaxPages \in Nat /\ NoPage \notin 1 .. MaxPages
  BY CatalogAssumption
<1>2. QED
  BY <1>1 DEF TypeInv

LEMMA CallFacts ==
    ASSUME NEW c \in Calls
    PROVE  /\ c.step \in {"idle", "init", "flush", "root", "insert", "fill", "link", "extend"}
           /\ c.step = "idle" => c = Idle
           /\ c.step # "idle" => c.catalog \in Catalogs
           /\ c.step # "idle" => c.page \in 1 .. MaxPages
           /\ c.step = "init" => c.then \in {"flush", "insert", "extend"}
           /\ c.step \in {"flush", "root"} => c.then = "flush"
           /\ c.step = "init" /\ c.then \in {"insert", "extend"} => c.record \in Declaration
           /\ c.step \in {"insert", "fill", "link", "extend"} => c.record \in Declaration
BY DEF Calls, Idle

LEMMA NextCall ==
    ASSUME NEW c, call' = c, Fits(c)'
    PROVE  CallInv'
BY DEF CallInv, Fits, Declares, Declared, Unnamed, Unlinked, LinksTo

LEMMA IdleFits == Idle \in Calls /\ Idle.step = "idle" /\ Fits(Idle)
<1>1. Idle \in Calls /\ Idle.step = "idle"
  BY DEF Idle, Calls
<1>2. QED
  BY <1>1 DEF Fits

LEMMA IdleCall == call' = Idle => CallInv'
<1> SUFFICES ASSUME call' = Idle PROVE CallInv'
  OBVIOUS
<1>1. call' \in Calls /\ call'.step = "idle"
  BY IdleFits
<1>2. QED
  BY <1>1 DEF CallInv, Fits

\* A page is itself behind no page of the chain.
LEMMA NotBehind ==
    ASSUME NEW c, NEW i
    PROVE  Behind(view[c[i]], c, i)
BY DEF Behind

LEMMA CatalogInvInit == Init => CatalogInv
<1> SUFFICES ASSUME Init PROVE CatalogInv
  OBVIOUS
<1>1. /\ view = <<>> /\ disk = <<>> /\ pending = {} /\ kept = 0
      /\ rootInMemory = NoPage /\ rootOnDisk = NoPage
      /\ catalog = [c \in Catalogs |-> Closed] /\ call = Idle
      /\ safe = {} /\ grown = FALSE /\ losses = 0
  BY DEF Init, Pool!Init
<1>2. ChainsFrom(view, rootInMemory) = {} /\ Openable(view, rootInMemory) = {}
  BY <1>1 DEF ChainsFrom, Openable
<1>3. TypeInv
  <2>1. view \in Seq(Image) /\ disk \in Seq(Image) /\ Len(view) = 0 /\ Len(disk) = 0
    BY <1>1
  <2>2. MaxPages \in Nat /\ losses \in 0 .. MaxLosses /\ kept \in 0 .. Len(view)
    BY <1>1, <2>1, CatalogAssumption
  <2>3. catalog \in [Catalogs -> {Closed} \cup CatalogValue]
    BY <1>1
  <2>4. /\ pending \subseteq DOMAIN view /\ safe \subseteq Declaration
        /\ rootInMemory \in {NoPage} \cup 1 .. kept /\ rootOnDisk \in {NoPage, rootInMemory}
        /\ grown \in BOOLEAN
    BY <1>1
  <2>5. Len(view) <= MaxPages /\ Len(view) = Len(disk)
    BY <2>1, <2>2
  <2> QED
    BY <2>1, <2>2, <2>3, <2>4, <2>5 DEF TypeInv
<1>4. LinkInv /\ ApartInv /\ TablesInv /\ CatInv /\ OpenInv /\ DiskInv
  BY <1>1, <1>2 DEF LinkInv, Counted, ApartInv, TablesInv, CatInv, OpenInv, DiskInv
<1>6. CallInv
  BY <1>1, IdleFits DEF CallInv
<1>7. QED
  BY <1>3, <1>4, <1>6 DEF CatalogInv, StoreInv

-----------------------------------------------------------------------------
(* Steps beside the catalog: no page of it is written, and the file        *)
(* changes by write-backs at most.                                         *)

\* New pages that can be read change nothing for a catalog that opens, nor
\* where no root is set.
LEMMA SameCatalog ==
    ASSUME NEW s \in Seq(Image), Len(s) <= MaxPages, NEW t \in Seq(Image), Len(t) <= MaxPages, NEW root,
           \A p \in DOMAIN s : s[p] \in CatalogPage => p \in DOMAIN t /\ t[p] = s[p],
           \/ root = NoPage \/ Openable(s, root) # {}
           \/ \A p \in DOMAIN t : t[p] \in CatalogPage => p \in DOMAIN s /\ t[p] = s[p]
    PROVE  /\ ChainsFrom(t, root) = ChainsFrom(s, root)
           /\ \A c \in ChainsFrom(s, root) :
                /\ RecordsOn(t, c) = RecordsOn(s, c)
                /\ \A r \in RecordsOn(s, c) : ChainsFrom(t, r.heap) = ChainsFrom(s, r.heap)
           /\ Openable(t, root) = Openable(s, root)
<1>1. ASSUME NEW c \in ChainsFrom(s, root) PROVE RecordsOn(t, c) = RecordsOn(s, c)
  <2>1. \A p \in ListedPages(c) : t[p] = s[p]
    BY ChainIs
  <2>2. \A r : r \in RecordsOn(t, c) <=> r \in RecordsOn(s, c)
    BY <2>1, RecordsAre
  <2> QED
    BY <2>2
<1>2. CASE root = NoPage
  BY <1>2 DEF ChainsFrom, Openable
<1>3. ASSUME NEW first, NEW c \in ChainsFrom(s, first)
      PROVE  ChainsFrom(t, first) = {c} /\ ChainsFrom(s, first) = {c}
  <2>1. \A p \in ListedPages(c) : p \in DOMAIN s /\ s[p] \in CatalogPage
    BY ChainIs
  <2>2. \A p \in ListedPages(c) : p \in DOMAIN t /\ t[p] \in CatalogPage /\ t[p].next = s[p].next
    BY <2>1
  <2> QED
    BY <2>2, ChainStays
<1>4. ASSUME \A c \in ChainsFrom(s, root) : \A r \in RecordsOn(s, c) :
               ChainsFrom(t, r.heap) = ChainsFrom(s, r.heap),
             ChainsFrom(t, root) = ChainsFrom(s, root)
      PROVE  Openable(t, root) = Openable(s, root)
  <2>1. ASSUME NEW e PROVE e \in Openable(t, root) <=> e \in Openable(s, root)
    <3>1. CASE e \in ChainsFrom(s, root)
      <4>1. RecordsOn(t, e) = RecordsOn(s, e)
        BY <1>1, <3>1
      <4>2. (\A r \in RecordsOn(s, e) : ChainsFrom(t, r.heap) # {})
              <=> \A r \in RecordsOn(s, e) : ChainsFrom(s, r.heap) # {}
        BY <1>4, <3>1
      <4>3. e \in ChainsFrom(t, root)
        BY <1>4, <3>1
      <4>4. e \in Openable(s, root) <=>
              UniqueIn(RecordsOn(s, e)) /\ \A r \in RecordsOn(s, e) : ChainsFrom(s, r.heap) # {}
        BY <3>1, OpenableIs
      <4>5. e \in Openable(t, root) <=>
              UniqueIn(RecordsOn(t, e)) /\ \A r \in RecordsOn(t, e) : ChainsFrom(t, r.heap) # {}
        BY <4>3, OpenableIs
      <4> QED
        BY <4>1, <4>2, <4>4, <4>5
    <3>2. CASE e \notin ChainsFrom(s, root)
      BY <1>4, <3>2, OpenableIs
    <3> QED
      BY <3>1, <3>2
  <2> QED
    BY <2>1
<1>5. CASE root # NoPage /\ Openable(s, root) # {}
  <2>1. PICK c : c \in Openable(s, root)
    BY <1>5
  <2>2. c \in ChainsFrom(s, root) /\ \A r \in RecordsOn(s, c) : ChainsFrom(s, r.heap) # {}
    BY <2>1, OpenableIs
  <2>3. ChainsFrom(s, root) = {c} /\ ChainsFrom(t, root) = {c}
    BY <1>3, <2>2
  <2>4. ASSUME NEW r \in RecordsOn(s, c) PROVE ChainsFrom(t, r.heap) = ChainsFrom(s, r.heap)
    <3>1. PICK h : h \in ChainsFrom(s, r.heap)
      BY <2>2
    <3>2. ChainsFrom(t, r.heap) = {h} /\ ChainsFrom(s, r.heap) = {h}
      BY <1>3, <3>1
    <3> QED
      BY <3>2
  <2>5. \A e \in ChainsFrom(s, root) : \A r \in RecordsOn(s, e) :
          ChainsFrom(t, r.heap) = ChainsFrom(s, r.heap)
    BY <2>3, <2>4
  <2> QED
    BY <1>1, <1>4, <2>3, <2>5
<1>6. CASE \A p \in DOMAIN t : t[p] \in CatalogPage => p \in DOMAIN s /\ t[p] = s[p]
  <2>1. Links(t) = Links(s)
    BY <1>6, SameLinks
  <2>2. \A first : ChainsFrom(t, first) = ChainsFrom(s, first)
    BY <2>1 DEF ChainsFrom
  <2> QED
    BY <1>1, <1>4, <2>2
<1>7. QED
  BY <1>2, <1>5, <1>6

Stuck == rootInMemory # NoPage /\ Openable(view, rootInMemory) = {}

\* A page that becomes readable beside the catalog.
Fresh(p, pg) ==
    /\ ~Stuck /\ p \in 1 .. kept /\ pg.next = NoPage
    /\ \A r \in Recs(pg) : r.heap \in 1 .. kept

Aside ==
    /\ view' \in Seq(Image) /\ disk' \in Seq(Image)
    /\ Len(view') = Len(disk') /\ Len(view') <= MaxPages /\ Len(view) <= Len(view')
    /\ pending' \subseteq DOMAIN view' /\ kept' \in {kept, Len(view')}
    /\ rootInMemory' = rootInMemory /\ rootOnDisk' \in {rootOnDisk, rootInMemory}
    /\ catalog' = catalog /\ safe' = safe /\ grown' = grown /\ losses' = losses
    /\ \A p \in DOMAIN view : view[p] \in CatalogPage => view'[p] = view[p]
    /\ \A p \in DOMAIN view' : view'[p] \in CatalogPage =>
         \/ p \in DOMAIN view /\ view'[p] = view[p]
         \/ Fresh(p, view'[p])
    /\ \A p \in DOMAIN view : disk'[p] \in {disk[p], view[p], Torn}
    /\ \A p \in DOMAIN view' : p \in DOMAIN view \/ disk'[p] = Zero
    /\ Stuck /\ pending = {} /\ disk = view => pending' = {} /\ disk' = view'

SameTables ==
    /\ ChainsFrom(view', rootInMemory') = ChainsFrom(view, rootInMemory)
    /\ Openable(view', rootInMemory') = Openable(view, rootInMemory)
    /\ \A c \in ChainsFrom(view, rootInMemory) :
         /\ RecordsOn(view', c) = RecordsOn(view, c)
         /\ \A t \in RecordsOn(view, c) : ChainsFrom(view', t.heap) = ChainsFrom(view, t.heap)

LEMMA AsideSame == StoreInv /\ Aside => SameTables
<1> SUFFICES ASSUME StoreInv, Aside PROVE SameTables
  OBVIOUS
<1>1. /\ view \in Seq(Image) /\ Len(view) <= MaxPages /\ view' \in Seq(Image) /\ Len(view') <= MaxPages
      /\ Len(view) <= Len(view') /\ rootInMemory' = rootInMemory
  BY DEF StoreInv, TypeInv, Aside
<1>2. DOMAIN view \subseteq DOMAIN view'
  BY <1>1
<1>3. \A p \in DOMAIN view : view[p] \in CatalogPage => p \in DOMAIN view' /\ view'[p] = view[p]
  BY <1>2 DEF Aside
<1>4. \/ rootInMemory = NoPage \/ Openable(view, rootInMemory) # {}
      \/ \A p \in DOMAIN view' : view'[p] \in CatalogPage => p \in DOMAIN view /\ view'[p] = view[p]
  BY DEF Aside, Fresh, Stuck
<1>5. /\ ChainsFrom(view', rootInMemory) = ChainsFrom(view, rootInMemory)
      /\ \A c \in ChainsFrom(view, rootInMemory) :
           /\ RecordsOn(view', c) = RecordsOn(view, c)
           /\ \A t \in RecordsOn(view, c) : ChainsFrom(view', t.heap) = ChainsFrom(view, t.heap)
      /\ Openable(view', rootInMemory) = Openable(view, rootInMemory)
  BY <1>1, <1>3, <1>4, SameCatalog
<1>6. QED
  BY <1>1, <1>5 DEF SameTables

\* At most one link joins those there were, to a page that had none.
NewLink(last, n) ==
    \A q \in DOMAIN view' : \A p \in 1 .. MaxPages :
      LinksTo(q, p)' => q \in DOMAIN view /\ (LinksTo(q, p) \/ (q = last /\ p = n /\ Unlinked(n)))

NewHeads(n) ==
    \A c \in ChainsFrom(view', rootInMemory') :
      /\ rootInMemory' \in 1 .. MaxPages /\ rootInMemory' # n /\ Unlinked(rootInMemory')
      /\ \A t \in RecordsOn(view', c) : t.heap \in 1 .. MaxPages /\ t.heap # n /\ Unlinked(t.heap)

LEMMA ApartStep ==
    ASSUME TypeInv, ApartInv, NEW last, NEW n, NewLink(last, n), NewHeads(n)
    PROVE  ApartInv'
<1>1. ASSUME NEW q \in DOMAIN view', NEW r \in DOMAIN view', NEW p \in 1 .. MaxPages,
             LinksTo(q, p)', LinksTo(r, p)'
      PROVE  q = r
  <2>1. q \in DOMAIN view /\ (LinksTo(q, p) \/ (q = last /\ p = n /\ Unlinked(n)))
    BY <1>1 DEF NewLink
  <2>2. r \in DOMAIN view /\ (LinksTo(r, p) \/ (r = last /\ p = n /\ Unlinked(n)))
    BY <1>1 DEF NewLink
  <2> QED
    BY <2>1, <2>2 DEF ApartInv, Unlinked
<1>2. ASSUME NEW p \in 1 .. MaxPages, p # n, Unlinked(p) PROVE Unlinked(p)'
  <2>1. ASSUME NEW q \in DOMAIN view', LinksTo(q, p)' PROVE FALSE
    <3>1. q \in DOMAIN view /\ LinksTo(q, p)
      BY <1>2, <2>1 DEF NewLink
    <3> QED
      BY <1>2, <3>1 DEF Unlinked
  <2> QED
    BY <2>1 DEF Unlinked
<1>3. ASSUME NEW c \in ChainsFrom(view', rootInMemory')
      PROVE  Unlinked(rootInMemory)' /\ \A t \in RecordsOn(view', c) : Unlinked(t.heap)'
  <2>1. PICK root : root = rootInMemory'
    OBVIOUS
  <2>2. Unlinked(root)'
    BY <1>2, <1>3, <2>1 DEF NewHeads
  <2>3. Unlinked(rootInMemory)'
    BY <2>1, <2>2 DEF Unlinked, LinksTo
  <2>4. ASSUME NEW t \in RecordsOn(view', c) PROVE Unlinked(t.heap)'
    <3>1. PICK p : p = t.heap
      OBVIOUS
    <3>2. Unlinked(p)'
      BY <1>2, <1>3, <3>1 DEF NewHeads
    <3> QED
      BY <3>1, <3>2
  <2> QED
    BY <2>3, <2>4
<1>4. QED
  BY <1>1, <1>3 DEF ApartInv

\* No link joins them.
LEMMA AsideLinks ==
    ASSUME TypeInv, Aside, NEW q \in DOMAIN view', NEW p, p # NoPage, LinksTo(q, p)'
    PROVE  q \in DOMAIN view /\ LinksTo(q, p)
<1>1. PICK pg \in {view'[q], disk'[q]} : pg \in CatalogPage /\ pg.next = p
  BY DEF LinksTo
<1>2. CASE pg = view'[q]
  <2>1. (q \in DOMAIN view /\ view'[q] = view[q]) \/ Fresh(q, view'[q])
    BY <1>1, <1>2 DEF Aside
  <2>2. ~Fresh(q, view'[q])
    BY <1>1, <1>2 DEF Fresh
  <2> QED
    BY <1>1, <1>2, <2>1, <2>2 DEF LinksTo
<1>3. CASE pg = disk'[q]
  <2>1. pg # Zero /\ pg # Torn
    BY <1>1, NotPages
  <2>2. q \in DOMAIN view /\ disk'[q] \in {disk[q], view[q], Torn}
    BY <1>3, <2>1 DEF Aside
  <2> QED
    BY <1>1, <1>3, <2>1, <2>2 DEF LinksTo
<1>4. QED
  BY <1>1, <1>2, <1>3

LEMMA AsideStep == StoreInv /\ Aside => StoreInv'
<1> SUFFICES ASSUME StoreInv, Aside PROVE StoreInv'
  OBVIOUS
<1>1. SameTables
  BY AsideSame
<1>2. TypeInv /\ LinkInv /\ ApartInv /\ TablesInv /\ CatInv /\ OpenInv /\ DiskInv
  BY DEF StoreInv
<1>3. /\ DOMAIN view = 1 .. Len(view) /\ DOMAIN view' = 1 .. Len(view') /\ DOMAIN disk' = DOMAIN view'
      /\ DOMAIN view \subseteq DOMAIN view' /\ DOMAIN disk = DOMAIN view
      /\ kept \in Nat /\ kept' \in Nat /\ kept <= kept' /\ kept' <= Len(view') /\ kept <= Len(view)
  BY <1>2, StoreFacts DEF TypeInv, Aside
<1>4. 1 .. kept \subseteq 1 .. kept'
  BY <1>3
<1>5. /\ rootInMemory' = rootInMemory /\ rootOnDisk' \in {rootOnDisk, rootInMemory}
      /\ catalog' = catalog /\ safe' = safe /\ grown' = grown /\ losses' = losses
  BY DEF Aside
<1>6. TypeInv'
  <2>1. /\ view' \in Seq(Image) /\ disk' \in Seq(Image)
        /\ Len(view') = Len(disk') /\ Len(view') <= MaxPages
        /\ pending' \subseteq DOMAIN view' /\ kept' \in 0 .. Len(view')
    BY <1>3 DEF Aside
  <2>2. rootInMemory' \in {NoPage} \cup 1 .. kept' /\ rootOnDisk' \in {NoPage, rootInMemory'}
    BY <1>2, <1>4, <1>5 DEF TypeInv
  <2> QED
    BY <1>2, <1>5, <2>1, <2>2 DEF TypeInv
<1>7. ASSUME NEW p \in DOMAIN view, NEW pg \in CatalogPage, pg = view[p] \/ pg = disk[p]
      PROVE  /\ p <= kept' /\ pg.next \in {NoPage} \cup 1 .. kept'
             /\ \A r \in Recs(pg) : r.heap \in 1 .. kept'
  <2>1. /\ p <= kept /\ pg.next \in {NoPage} \cup 1 .. kept
        /\ \A r \in Recs(pg) : r.heap \in 1 .. kept
    BY <1>2, <1>3, <1>7 DEF LinkInv, Counted
  <2> QED
    BY <1>3, <1>4, <2>1
<1>8. Counted(view)'
  <2> SUFFICES ASSUME NEW p \in DOMAIN view', view'[p] \in CatalogPage
               PROVE  /\ p <= kept' /\ view'[p].next \in {NoPage} \cup 1 .. kept'
                      /\ \A r \in Recs(view'[p]) : r.heap \in 1 .. kept'
    BY DEF Counted
  <2>1. CASE p \in DOMAIN view /\ view'[p] = view[p]
    BY <1>7, <2>1
  <2>2. CASE Fresh(p, view'[p])
    <3>1. p \in 1 .. kept' /\ view'[p].next = NoPage /\ \A r \in Recs(view'[p]) : r.heap \in 1 .. kept'
      BY <1>4, <2>2 DEF Fresh
    <3> QED
      BY <1>3, <3>1
  <2> QED
    BY <2>1, <2>2 DEF Aside
<1>9. Counted(disk)'
  <2> SUFFICES ASSUME NEW p \in DOMAIN disk', disk'[p] \in CatalogPage
               PROVE  /\ p <= kept' /\ disk'[p].next \in {NoPage} \cup 1 .. kept'
                      /\ \A r \in Recs(disk'[p]) : r.heap \in 1 .. kept'
    BY DEF Counted
  <2>1. p \in DOMAIN view /\ (disk'[p] = view[p] \/ disk'[p] = disk[p])
    BY <1>3, NotPages DEF Aside
  <2> QED
    BY <1>7, <2>1
<1>10. LinkInv'
  BY <1>8, <1>9 DEF LinkInv
<1>11. TablesInv'
  <2>1. rootOnDisk' # rootInMemory' => rootOnDisk # rootInMemory
    BY <1>5
  <2> QED
    BY <1>1, <1>2, <2>1 DEF TablesInv, SameTables
<1>12. ASSUME NEW c \in Openable(view, rootInMemory)
       PROVE  /\ c \in ChainsFrom(view, rootInMemory) /\ RecordsOn(view', c) = RecordsOn(view, c)
              /\ Opened(c)' = Opened(c)
              /\ \A p \in ListedPages(c) : p \in DOMAIN view /\ view[p] \in CatalogPage /\ view'[p] = view[p]
              /\ \A i \in DOMAIN c : c[i] \in ListedPages(c)
              /\ \A t \in RecordsOn(view, c) : ChainsFrom(view', t.heap) = ChainsFrom(view, t.heap)
              /\ \A root : \A h \in ChainsFrom(view, root) : \A p \in ListedPages(h) :
                   p \in DOMAIN view /\ view'[p] = view[p]
  <2>1. view \in Seq(Image) /\ Len(view) <= MaxPages
    BY <1>2 DEF TypeInv
  <2>2. c \in ChainsFrom(view, rootInMemory)
    BY <2>1, OpenableIs
  <2>3. /\ RecordsOn(view', c) = RecordsOn(view, c)
        /\ \A t \in RecordsOn(view, c) : ChainsFrom(view', t.heap) = ChainsFrom(view, t.heap)
    BY <1>1, <2>2 DEF SameTables
  <2>4. Opened(c)' = Opened(c)
    BY <2>3 DEF Opened
  <2>5. \A root : \A h \in ChainsFrom(view, root) : \A p \in ListedPages(h) :
          p \in DOMAIN view /\ view[p] \in CatalogPage
    BY <2>1, ChainIs
  <2>6. \A i \in DOMAIN c : c[i] \in ListedPages(c)
    BY DEF ListedPages
  <2> QED
    BY <2>2, <2>3, <2>4, <2>5, <2>6 DEF Aside
<1>a. ApartInv'
  <2>1. \A p \in 1 .. MaxPages : p # NoPage
    BY CatalogAssumption
  <2>2. NewLink(NoPage, NoPage)
    BY <1>2, <2>1, AsideLinks DEF NewLink
  <2>3. ASSUME NEW c \in ChainsFrom(view', rootInMemory')
        PROVE  /\ rootInMemory' \in 1 .. MaxPages /\ rootInMemory' # NoPage /\ Unlinked(rootInMemory')
               /\ \A t \in RecordsOn(view', c) :
                    t.heap \in 1 .. MaxPages /\ t.heap # NoPage /\ Unlinked(t.heap)
    <3>1. c \in ChainsFrom(view, rootInMemory) /\ RecordsOn(view', c) = RecordsOn(view, c)
      BY <1>1 DEF SameTables
    <3>2. rootInMemory' \in 1 .. MaxPages
      <4>1. rootInMemory # NoPage
        BY <3>1 DEF ChainsFrom
      <4> QED
        BY <1>2, <1>5, <4>1, StoreFacts DEF TypeInv
    <3>3. \A t \in RecordsOn(view', c) : t.heap \in 1 .. MaxPages
      <4>1. RecordsOn(view, c) \subseteq Declaration
        BY <1>2, <3>1, RecordsDeclared DEF TypeInv
      <4> QED
        BY <3>1, <4>1 DEF Declaration
    <3> QED
      BY <1>2, <1>5, <2>1, <3>1, <3>2, <3>3 DEF ApartInv
  <2>4. NewHeads(NoPage)
    BY <2>3 DEF NewHeads
  <2> QED
    BY <1>2, <2>2, <2>4, ApartStep
<1>13. CatInv'
  BY <1>1, <1>2, <1>5, <1>12 DEF CatInv, SameTables
<1>14. OpenInv'
  BY <1>1, <1>2, <1>5 DEF OpenInv, SameTables, Aside, Stuck
<1>15. DiskInv'
  <2> SUFFICES ASSUME NEW c \in Openable(view, rootInMemory)
               PROVE  /\ safe' \subseteq RecordsOn(view', c)
                      /\ \A i \in DOMAIN c : Behind(disk[c[i]], c, i)'
                      /\ ~grown' => OnFile(disk, c)'
    BY <1>1 DEF DiskInv, SameTables
  <2>1. safe' \subseteq RecordsOn(view', c)
    BY <1>2, <1>5, <1>12 DEF DiskInv
  <2>2. ASSUME NEW i \in DOMAIN c PROVE Behind(disk[c[i]], c, i)'
    <3>1. /\ c[i] \in DOMAIN view /\ view'[c[i]] = view[c[i]]
          /\ disk'[c[i]] \in {disk[c[i]], view[c[i]], Torn}
      BY <1>12 DEF Aside
    <3>2. Behind(disk[c[i]], c, i) /\ Behind(view[c[i]], c, i) /\ Behind(Torn, c, i)
      BY <1>2, NotBehind, NotPages DEF DiskInv, Behind
    <3>3. Behind(disk'[c[i]], c, i)
      BY <3>1, <3>2
    <3>4. \A j \in i + 1 .. Len(c) : view'[c[j]] = view[c[j]]
      <4>1. c \in Seq(DOMAIN view) /\ DOMAIN c = 1 .. Len(c)
        BY <1>2, <1>12, ChainIs DEF TypeInv
      <4>2. i + 1 .. Len(c) \subseteq DOMAIN c
        BY <4>1
      <4> QED
        BY <1>12, <4>2
    <3> QED
      BY <1>5, <3>1, <3>3, <3>4 DEF Behind
  <2>3. ASSUME ~grown PROVE OnFile(disk, c)'
    <3>1. OnFile(disk, c)
      BY <1>2, <2>3 DEF DiskInv
    <3>2. \A p \in DOMAIN view : disk'[p] \in {disk[p], view[p], Torn}
      BY DEF Aside
    <3>3. \A p \in ListedPages(c) : disk'[p] \in {Torn, view'[p]}
      BY <1>12, <3>1, <3>2 DEF OnFile
    <3>4. ASSUME NEW t \in RecordsOn(view, c), NEW h \in ChainsFrom(view, t.heap), NEW p \in ListedPages(h)
          PROVE  disk'[p] \in {Torn, view'[p]}
      BY <1>12, <3>1, <3>2 DEF OnFile
    <3> QED
      BY <1>12, <3>3, <3>4 DEF OnFile
  <2> QED
    BY <1>5, <2>1, <2>2, <2>3
<1>16. QED
  BY <1>6, <1>10, <1>a, <1>11, <1>13, <1>14, <1>15 DEF StoreInv

\* What was unnamed stays so.
LEMMA AsideUnnamed ==
    ASSUME StoreInv, Aside, NEW p, Unnamed(p)
    PROVE  Unnamed(p)' /\ p \in DOMAIN view /\ p \in 1 .. kept
<1>1. SameTables /\ p \in 1 .. kept /\ Unlinked(p)
  BY AsideSame DEF Unnamed
<1>2. p \in DOMAIN view /\ p \in 1 .. kept' /\ p # NoPage
  BY <1>1, StoreFacts DEF StoreInv, TypeInv, Aside
<1>3. Unlinked(p)'
  <2>1. \A q \in DOMAIN view' : LinksTo(q, p)' => q \in DOMAIN view /\ LinksTo(q, p)
    BY <1>2, AsideLinks DEF StoreInv
  <2> QED
    BY <1>1, <2>1 DEF Unlinked
<1>4. QED
  BY <1>1, <1>2, <1>3 DEF Unnamed, SameTables

-----------------------------------------------------------------------------
(* Write-backs.                                                            *)

\* What write-backs may make of the file.
Later(d) ==
    /\ d \in Seq(Image) /\ Len(d) = Len(disk)
    /\ \A p \in DOMAIN view : d[p] \in {disk[p], view[p], Torn}
    /\ pending = {} => d = disk

LEMMA WrittenBackLater ==
    ASSUME TypeInv, NEW W \in SUBSET pending, NEW d \in Pool!WrittenBack(W)
    PROVE  Later(d)
<1> DEFINE done == [p \in DOMAIN disk |-> IF p \in W THEN view[p] ELSE disk[p]]
<1>1. /\ DOMAIN view = 1 .. Len(view) /\ DOMAIN disk = DOMAIN view /\ Len(view) \in Nat
      /\ Len(disk) = Len(view) /\ pending \subseteq DOMAIN view /\ W \subseteq pending
      /\ \A p \in DOMAIN view : view[p] \in Image /\ disk[p] \in Image
      /\ disk \in Seq(Image) /\ Torn \in Image
  BY StoreFacts, NotPages DEF TypeInv
<1>2. DOMAIN done = 1 .. Len(view) /\ \A p \in DOMAIN view : done[p] \in {disk[p], view[p]} /\ done[p] \in Image
  BY <1>1
<1>3. pending = {} => done = disk
  <2>1. disk = [p \in DOMAIN disk |-> disk[p]]
    BY <1>1
  <2> QED
    BY <1>1, <2>1
<1> HIDE DEF done
<1>4. /\ DOMAIN d = 1 .. Len(view)
      /\ \A p \in DOMAIN view : d[p] \in {disk[p], view[p], Torn} /\ d[p] \in Image
      /\ pending = {} => d = disk
  <2>1. \/ d = done
        \/ \E p \in pending \ W : d = [done EXCEPT ![p] = view[p]]
        \/ \E p \in pending \ W : d = [done EXCEPT ![p] = Torn]
    BY DEF Pool!WrittenBack, done
  <2>2. CASE d = done
    BY <1>1, <1>2, <1>3, <2>2
  <2>3. ASSUME NEW p \in pending \ W, NEW v \in {view[p], Torn}, d = [done EXCEPT ![p] = v]
        PROVE  /\ DOMAIN d = 1 .. Len(view) /\ pending # {}
               /\ \A q \in DOMAIN view : d[q] \in {disk[q], view[q], Torn} /\ d[q] \in Image
    <3>1. DOMAIN d = DOMAIN done /\ p \in DOMAIN done
      BY <1>1, <1>2, <2>3
    <3>2. \A q \in DOMAIN view : d[q] = IF q = p THEN v ELSE done[q]
      BY <1>1, <1>2, <2>3
    <3> QED
      BY <1>1, <1>2, <2>3, <3>1, <3>2
  <2> QED
    BY <2>1, <2>2, <2>3
<1>5. d \in Seq(Image) /\ Len(d) = Len(view)
  <2>1. d = [p \in 1 .. Len(view) |-> d[p]]
    <3>1. \/ d = done
          \/ \E p \in pending \ W : d = [done EXCEPT ![p] = view[p]]
          \/ \E p \in pending \ W : d = [done EXCEPT ![p] = Torn]
      BY DEF Pool!WrittenBack, done
    <3>2. done = [p \in 1 .. Len(view) |-> done[p]]
      BY <1>1 DEF done
    <3> QED
      BY <1>1, <1>2, <1>4, <3>1, <3>2
  <2>2. d \in [1 .. Len(view) -> Image]
    BY <1>1, <1>4, <2>1
  <2> QED
    BY <1>1, <2>2
<1>6. QED
  BY <1>1, <1>4, <1>5 DEF Later


LEMMA WriteBackAside ==
    ASSUME TypeInv, NEW W \in SUBSET pending, disk' \in Pool!WrittenBack(W), pending' = pending \ W,
           UNCHANGED <<view, kept, header, catalog, history>>
    PROVE  Aside /\ Later(disk')
<1>1. Later(disk')
  BY WrittenBackLater
<1>2. /\ view \in Seq(Image) /\ Len(view) = Len(disk) /\ Len(view) <= MaxPages
      /\ pending \subseteq DOMAIN view /\ Len(view) \in Nat
  BY DEF TypeInv
<1>3. /\ disk' \in Seq(Image) /\ Len(disk') = Len(disk)
      /\ \A p \in DOMAIN view : disk'[p] \in {disk[p], view[p], Torn}
      /\ pending = {} => disk' = disk
  BY <1>1 DEF Later
<1>4. /\ view' = view /\ kept' = kept /\ rootInMemory' = rootInMemory /\ rootOnDisk' = rootOnDisk
      /\ catalog' = catalog /\ safe' = safe /\ grown' = grown /\ losses' = losses
      /\ pending' = pending \ W
  BY DEF header, history
<1>5. Aside
  BY <1>2, <1>3, <1>4 DEF Aside
<1>6. QED
  BY <1>1, <1>5

LEMMA GrowAside ==
    ASSUME TypeInv, Len(view) < MaxPages, Pool!Grow,
           rootInMemory' = rootInMemory, rootOnDisk' \in {rootOnDisk, rootInMemory},
           UNCHANGED <<catalog, history>>
    PROVE  /\ Aside
           /\ Len(view') = Len(view) + 1 /\ kept <= Len(view) /\ kept \in Nat
           /\ Len(view') \in 1 .. MaxPages /\ Len(view') \in DOMAIN view'
           /\ view'[Len(view')] = Zero /\ disk'[Len(view')] = Zero
           /\ \A p \in DOMAIN view : p # Len(view') /\ view'[p] = view[p]
<1> DEFINE n == Len(view) + 1
<1>1. PICK W \in SUBSET pending :
         /\ \E d \in Pool!WrittenBack(W) : disk' = Append(d, Zero)
         /\ pending' = pending \ W
  BY DEF Pool!Grow
<1>2. PICK d \in Pool!WrittenBack(W) : disk' = Append(d, Zero)
  BY <1>1
<1>3. /\ view' = Append(view, Zero) /\ kept' \in {kept, Len(view')} /\ pending' = pending \ W
      /\ catalog' = catalog /\ safe' = safe /\ grown' = grown /\ losses' = losses
  BY <1>1 DEF Pool!Grow, history
<1>4. Later(d)
  BY WrittenBackLater
<1>5. /\ d \in Seq(Image) /\ Len(d) = Len(disk)
      /\ \A p \in DOMAIN view : d[p] \in {disk[p], view[p], Torn}
      /\ pending = {} => d = disk
  BY <1>4 DEF Later
<1>6. /\ view \in Seq(Image) /\ Len(view) = Len(disk) /\ DOMAIN view = 1 .. Len(view) /\ Len(view) \in Nat
      /\ MaxPages \in Nat /\ kept <= Len(view) /\ kept \in Nat /\ Zero \in Image
      /\ pending \subseteq DOMAIN view
  BY StoreFacts, NotPages, CatalogAssumption DEF TypeInv
<1>7. /\ view' \in Seq(Image) /\ Len(view') = n /\ DOMAIN view' = 1 .. n
      /\ \A p \in 1 .. Len(view) : view'[p] = view[p]
      /\ view'[n] = Zero
  BY <1>3, <1>6, AppendToSeq
<1>8. /\ disk' \in Seq(Image) /\ Len(disk') = n /\ DOMAIN disk' = 1 .. n
      /\ \A p \in 1 .. Len(view) : disk'[p] = d[p]
      /\ disk'[n] = Zero
  BY <1>2, <1>5, <1>6, AppendToSeq
<1>9. /\ n \in 1 .. MaxPages /\ n \in DOMAIN view' /\ Len(view) <= n
      /\ DOMAIN view' = DOMAIN view \cup {n} /\ n \notin DOMAIN view
      /\ DOMAIN view \subseteq DOMAIN view'
  BY <1>6, <1>7
<1>10. disk = view /\ pending = {} => disk' = view' /\ pending' = {}
  BY <1>2, <1>3, <1>5
<1> HIDE DEF n
<1>11. \A p \in DOMAIN view' : view'[p] \in CatalogPage => p \in DOMAIN view /\ view'[p] = view[p]
  BY <1>6, <1>7, <1>9, NotPages
<1>12. \A p \in DOMAIN view : disk'[p] \in {disk[p], view[p], Torn}
  BY <1>5, <1>6, <1>8
<1>13. /\ \A p \in DOMAIN view' : p \in DOMAIN view \/ disk'[p] = Zero
       /\ \A p \in DOMAIN view : view'[p] = view[p] /\ p # n
       /\ pending' \subseteq DOMAIN view' /\ Len(view') <= MaxPages
  BY <1>3, <1>6, <1>7, <1>8, <1>9
<1>14. Aside
  BY <1>3, <1>7, <1>8, <1>9, <1>10, <1>11, <1>12, <1>13 DEF Aside
<1>15. QED
  BY <1>6, <1>7, <1>8, <1>9, <1>13, <1>14 DEF n

\* The page an allocation gives.
LEMMA AllocateStep ==
    ASSUME StoreInv, AllocatePage, UNCHANGED <<catalog, history>>, NEW n, n = Len(view')
    PROVE  /\ StoreInv' /\ Aside
           /\ n \in 1 .. MaxPages /\ n \notin 1 .. kept
           /\ view'[n] = Zero /\ disk'[n] = Zero /\ Unnamed(n)'
           /\ rootOnDisk' = rootInMemory'
           /\ \A p \in DOMAIN view : view'[p] = view[p]
<1>1. /\ TypeInv /\ LinkInv /\ Len(view) < MaxPages /\ Pool!Grow /\ kept' = Len(view')
      /\ rootInMemory' = rootInMemory /\ rootOnDisk' = rootInMemory
  BY DEF StoreInv, AllocatePage
<1>2. /\ Aside
      /\ Len(view') = Len(view) + 1 /\ kept <= Len(view) /\ kept \in Nat
      /\ Len(view') \in 1 .. MaxPages /\ Len(view') \in DOMAIN view'
      /\ view'[Len(view')] = Zero /\ disk'[Len(view')] = Zero
      /\ \A p \in DOMAIN view : p # Len(view') /\ view'[p] = view[p]
  BY <1>1, GrowAside
<1>3. StoreInv' /\ SameTables
  BY <1>2, AsideStep, AsideSame
<1>4. n = Len(view')
  OBVIOUS
<1>5. Len(view) \in Nat /\ view \in Seq(Image) /\ Len(view) <= MaxPages
  BY <1>1 DEF TypeInv
<1>6. n \in 1 .. kept' /\ n \notin 1 .. kept
  BY <1>1, <1>2, <1>4, <1>5
<1>7. ASSUME NEW c \in ChainsFrom(view, rootInMemory)
      PROVE  n \notin ListedPages(c) /\ \A t \in RecordsOn(view, c) : t.heap # n
  <2>1. \A p \in ListedPages(c) : p \in DOMAIN view /\ view[p] \in CatalogPage
    BY <1>5, ChainIs
  <2>2. \A p \in ListedPages(c) : \A t \in Recs(view[p]) : t.heap \in 1 .. kept
    BY <1>1, <2>1 DEF LinkInv, Counted
  <2> QED
    BY <1>2, <1>4, <1>6, <2>1, <2>2, RecordsAre
<1>8. Unlinked(n)'
  <2> SUFFICES ASSUME NEW q \in DOMAIN view', LinksTo(q, n)' PROVE FALSE
    BY DEF Unlinked
  <2>1. n # NoPage
    BY <1>2, <1>4, CatalogAssumption
  <2>2. q \in DOMAIN view /\ LinksTo(q, n)
    BY <1>1, <1>2, <2>1, AsideLinks
  <2>3. DOMAIN disk = DOMAIN view
    BY <1>1, StoreFacts
  <2> QED
    BY <1>1, <1>6, <2>1, <2>2, <2>3 DEF LinksTo, LinkInv, Counted
<1>9. Unnamed(n)'
  BY <1>3, <1>6, <1>7, <1>8 DEF Unnamed, SameTables
<1>10. QED
  BY <1>1, <1>2, <1>3, <1>4, <1>6, <1>9

-----------------------------------------------------------------------------
(* The steps of calls beside the catalog.                                  *)

LEMMA DeclaresKept ==
    ASSUME StoreInv, Aside, NEW c, NEW r, Declares(c, r)
    PROVE  Declares(c, r)' /\ r.heap \in DOMAIN view
<1>1. Unnamed(r.heap)' /\ r.heap \in DOMAIN view
  BY AsideUnnamed DEF Declares
<1>2. QED
  BY <1>1 DEF Declares, Aside

LEMMA WriteBackStep == CatalogInv /\ WriteBack => CatalogInv'
<1> SUFFICES ASSUME CatalogInv, WriteBack PROVE CatalogInv'
  OBVIOUS
<1>1. PICK W \in SUBSET pending : disk' \in Pool!WrittenBack(W) /\ pending' = pending \ W
  BY DEF WriteBack, Pool!WritesBack
<1>2. UNCHANGED <<view, kept, header, catalog, history>> /\ call' = call
      /\ call.step \in {"idle", "insert", "link", "extend"}
  BY DEF WriteBack, Pool!WritesBack
<1>3. StoreInv /\ TypeInv /\ CallInv
  BY DEF CatalogInv, StoreInv
<1>4. Aside /\ Later(disk')
  BY <1>1, <1>2, <1>3, WriteBackAside
<1>5. StoreInv'
  BY <1>3, <1>4, AsideStep
<1>6. PICK c : c = call
  OBVIOUS
<1>7. Fits(c) /\ c \in Calls /\ c.step \in {"idle", "insert", "link", "extend"} /\ view' = view
  BY <1>2, <1>3, <1>6 DEF CallInv, Fits
<1>8. CASE c.step = "idle"
  BY <1>2, <1>5, <1>6, <1>7, <1>8, CallFacts, IdleCall DEF CatalogInv
<1>9. CASE c.step \in {"insert", "link"}
  <2>1. Declares(c.catalog, c.record) /\ view[c.record.heap] = HeapPage
    BY <1>7, <1>9 DEF Fits
  <2>2. Declares(c.catalog, c.record)'
    BY <1>3, <1>4, <2>1, DeclaresKept
  <2>3. c.step = "link" => Unnamed(c.page)' /\ disk'[c.page] \in {disk[c.page], view[c.page], Torn}
    <3>1. c.step = "link" => Unnamed(c.page)' /\ c.page \in DOMAIN view
      BY <1>3, <1>4, <1>7, AsideUnnamed DEF Fits
    <3> QED
      BY <1>4, <3>1 DEF Later
  <2>4. Fits(c)'
    BY <1>7, <1>9, <2>1, <2>2, <2>3 DEF Fits
  <2> QED
    BY <1>2, <1>5, <1>6, <2>4, NextCall DEF CatalogInv
<1>10. CASE c.step = "extend"
  <2>1. Unnamed(c.page)'
    BY <1>3, <1>4, <1>7, <1>10, AsideUnnamed DEF Fits
  <2>2. Declared(c.catalog, c.record)'
    BY <1>2, <1>7, <1>10 DEF Fits, Declared
  <2>3. Fits(c)'
    BY <1>7, <1>10, <2>1, <2>2 DEF Fits
  <2> QED
    BY <1>2, <1>5, <1>6, <2>3, NextCall DEF CatalogInv
<1>11. QED
  BY <1>7, <1>8, <1>9, <1>10

LEMMA AllocateFailsStep == CatalogInv /\ AllocatePageFails => CatalogInv'
<1> SUFFICES ASSUME CatalogInv, AllocatePageFails PROVE CatalogInv'
  OBVIOUS
<1>1. StoreInv /\ TypeInv
  BY DEF CatalogInv, StoreInv
<1>2. /\ Len(view) < MaxPages /\ Pool!Grow /\ rootInMemory' = rootInMemory
      /\ rootOnDisk' \in {rootOnDisk, rootInMemory} /\ UNCHANGED <<catalog, history>> /\ call' = Idle
  BY DEF AllocatePageFails
<1>3. Aside
  BY <1>1, <1>2, GrowAside
<1>4. QED
  BY <1>1, <1>2, <1>3, AsideStep, IdleCall DEF CatalogInv

LEMMA StayAside ==
    ASSUME TypeInv, UNCHANGED <<pool, header, catalog, history>>
    PROVE  Aside
<1>1. /\ view' = view /\ disk' = disk /\ pending' = pending /\ kept' = kept
      /\ rootInMemory' = rootInMemory /\ rootOnDisk' = rootOnDisk
      /\ catalog' = catalog /\ safe' = safe /\ grown' = grown /\ losses' = losses
  BY DEF pool, header, history
<1>2. /\ view \in Seq(Image) /\ disk \in Seq(Image)
      /\ Len(view) = Len(disk) /\ Len(view) <= MaxPages /\ Len(view) \in Nat
      /\ pending \subseteq DOMAIN view
  BY DEF TypeInv
<1>3. QED
  BY <1>1, <1>2 DEF Aside

LEMMA FailStep == CatalogInv /\ Fail => CatalogInv'
<1> SUFFICES ASSUME CatalogInv, Fail PROVE CatalogInv'
  OBVIOUS
<1>1. StoreInv /\ TypeInv
  BY DEF CatalogInv, StoreInv
<1>2. Aside /\ call' = Idle
  BY <1>1, StayAside DEF Fail
<1>3. QED
  BY <1>1, <1>2, AsideStep, IdleCall DEF CatalogInv

\* Writing a page for the first time.
LEMMA FreshWrite ==
    ASSUME TypeInv, NEW p, view[p] = Zero, NEW pg \in CatalogPage, Fresh(p, pg), Pool!Write(p, pg),
           UNCHANGED <<header, catalog, history>>
    PROVE  /\ Aside /\ view'[p] = pg /\ disk' = disk
           /\ \A q \in DOMAIN view : q # p => view'[q] = view[q]
<1>1. /\ view' = [view EXCEPT ![p] = pg] /\ p \in DOMAIN view /\ pg \in Image /\ view \in Seq(Image)
  BY StoreFacts, NotPages DEF TypeInv, Fresh, Pool!Write
<1>2. /\ view' \in Seq(Image) /\ Len(view') = Len(view) /\ DOMAIN view' = DOMAIN view
      /\ view'[p] = pg /\ \A q \in DOMAIN view : q # p => view'[q] = view[q]
  BY <1>1, PageReplaced
<1>3. /\ disk' = disk /\ kept' = kept /\ pending' = pending \cup {p}
      /\ rootInMemory' = rootInMemory /\ rootOnDisk' = rootOnDisk
      /\ catalog' = catalog /\ safe' = safe /\ grown' = grown /\ losses' = losses
  BY DEF Pool!Write, header, history
<1>4. /\ disk \in Seq(Image) /\ Len(view) = Len(disk) /\ Len(view) <= MaxPages /\ Len(view) \in Nat
      /\ pending' \subseteq DOMAIN view' /\ Zero \notin CatalogPage /\ ~Stuck
  BY <1>1, <1>2, <1>3, NotPages DEF TypeInv, Fresh
<1>5. \A q \in DOMAIN view : view[q] \in CatalogPage => view'[q] = view[q]
  BY <1>2, <1>4
<1>6. \A q \in DOMAIN view' : view'[q] \in CatalogPage =>
        (q \in DOMAIN view /\ view'[q] = view[q]) \/ Fresh(q, view'[q])
  BY <1>2
<1>7. Aside
  BY <1>2, <1>3, <1>4, <1>5, <1>6 DEF Aside
<1>8. QED
  BY <1>2, <1>3, <1>7

LEMMA InUseNotStuck ==
    ASSUME StoreInv, NEW k \in Catalogs, catalog[k] # Closed
    PROVE  ~Stuck
BY DEF StoreInv, CatInv, Stuck

LEMMA InitializeStep == CatalogInv /\ Initialize => CatalogInv'
<1> SUFFICES ASSUME CatalogInv, Initialize PROVE CatalogInv'
  OBVIOUS
<1>1. PICK c : c = call
  OBVIOUS
<1>2. PICK n : n = [c EXCEPT !.step = c.then]
  OBVIOUS
<1>3. /\ c.step = "init" /\ Pool!Write(c.page, HeapPage) /\ call' = n
      /\ UNCHANGED <<header, catalog, history>>
  BY <1>1, <1>2 DEF Initialize
<1>4. StoreInv /\ TypeInv /\ Fits(c) /\ c \in Calls
  BY <1>1 DEF CatalogInv, StoreInv, CallInv, Fits
<1>5. c.page \in 1 .. kept /\ view[c.page] = Zero /\ disk[c.page] = Zero /\ Unnamed(c.page)
  BY <1>3, <1>4 DEF Fits, Unnamed
<1>6. c.then \in {"flush", "insert", "extend"} /\ c.catalog \in Catalogs
  BY <1>3, <1>4, CallFacts
<1>7. ~Stuck
  <2>1. CASE c.then = "flush"
    BY <1>3, <1>4, <2>1 DEF Fits, Stuck
  <2>2. CASE c.then = "insert"
    BY <1>3, <1>4, <1>6, <2>2, InUseNotStuck DEF Fits, Declares
  <2>3. CASE c.then = "extend"
    BY <1>3, <1>4, <1>6, <2>3, InUseNotStuck DEF Fits, Declared
  <2> QED
    BY <1>6, <2>1, <2>2, <2>3
<1>8. HeapPage \in CatalogPage /\ Fresh(c.page, HeapPage)
  BY <1>5, <1>7, EmptyCatalogPage DEF Fresh
<1>9. /\ Aside /\ view'[c.page] = HeapPage /\ disk' = disk
  BY <1>3, <1>4, <1>5, <1>8, FreshWrite
<1>10. StoreInv' /\ Unnamed(c.page)'
  BY <1>4, <1>5, <1>9, AsideStep, AsideUnnamed
<1>11. Fits(n)'
  <2>1. CASE c.then = "flush"
    <3>1. n \in Calls /\ n.step = "flush" /\ n.then = "flush" /\ n.page = c.page
      BY <1>2, <1>3, <1>4, <2>1 DEF Calls
    <3>2. rootInMemory' = NoPage
      BY <1>3, <1>4, <2>1 DEF Fits, header
    <3> QED
      BY <1>9, <1>10, <3>1, <3>2 DEF Fits
  <2>2. CASE c.then = "insert"
    <3>1. n \in Calls /\ n.step = "insert" /\ n.catalog = c.catalog /\ n.record = c.record
      BY <1>2, <1>3, <1>4, <2>2 DEF Calls
    <3>2. Declares(c.catalog, c.record) /\ c.record.heap = c.page
      BY <1>3, <1>4, <2>2 DEF Fits
    <3>3. Declares(c.catalog, c.record)'
      BY <1>4, <1>9, <3>2, DeclaresKept
    <3> QED
      BY <1>9, <3>1, <3>2, <3>3 DEF Fits
  <2>3. CASE c.then = "extend"
    <3>1. n \in Calls /\ n.step = "extend" /\ n.page = c.page /\ n.catalog = c.catalog /\ n.record = c.record
      BY <1>2, <1>3, <1>4, <2>3 DEF Calls
    <3>2. Declared(c.catalog, c.record)'
      BY <1>3, <1>4, <2>3 DEF Fits, Declared
    <3> QED
      BY <1>9, <1>10, <3>1, <3>2 DEF Fits
  <2> QED
    BY <1>6, <2>1, <2>2, <2>3
<1>12. QED
  BY <1>3, <1>10, <1>11, NextCall DEF CatalogInv

LEMMA CreateStep ==
    ASSUME CatalogInv, NEW k \in Catalogs, Create(k)
    PROVE  CatalogInv'
<1>1. PICK p : p = Len(view')
  OBVIOUS
<1>2. PICK n : n = [step |-> "init", then |-> "flush", catalog |-> k, page |-> p]
  OBVIOUS
<1>3. /\ AllocatePage /\ UNCHANGED <<catalog, history>> /\ call' = n
      /\ rootInMemory = NoPage /\ rootInMemory' = rootInMemory
  BY <1>1, <1>2 DEF Create, AllocatePage
<1>4. /\ StoreInv' /\ p \in 1 .. MaxPages /\ view'[p] = Zero /\ disk'[p] = Zero /\ Unnamed(p)'
  BY <1>1, <1>3, AllocateStep DEF CatalogInv
<1>5. n \in Calls /\ n.step = "init" /\ n.then = "flush" /\ n.page = p
  BY <1>2, <1>4 DEF Calls
<1>6. Fits(n)'
  BY <1>3, <1>4, <1>5 DEF Fits
<1>7. QED
  BY <1>3, <1>4, <1>6, NextCall DEF CatalogInv

LEMMA CreateTableStep ==
    ASSUME CatalogInv, NEW k \in Catalogs, NEW name \in Names, CreateTable(k, name)
    PROVE  CatalogInv'
<1>1. PICK p : p = Len(view')
  OBVIOUS
<1>r. PICK r : r = [id |-> catalog[k].nextId, name |-> name, heap |-> p]
  OBVIOUS
<1>2. PICK n : n = [step |-> "init", then |-> "insert", catalog |-> k, page |-> p, record |-> r]
  OBVIOUS
<1>3. /\ AllocatePage /\ catalog' = catalog /\ UNCHANGED <<catalog, history>> /\ call' = n
      /\ catalog[k] # Closed /\ catalog[k].nextId # IdLimit
      /\ \A t \in catalog[k].tables : t.name # name
  BY <1>1, <1>2, <1>r DEF CreateTable, IdsExhausted
<1>4. /\ StoreInv' /\ p \in 1 .. MaxPages /\ view'[p] = Zero /\ disk'[p] = Zero /\ Unnamed(p)'
      /\ rootOnDisk' = rootInMemory'
  BY <1>1, <1>3, AllocateStep DEF CatalogInv
<1>5. r \in Declaration /\ r.id = catalog[k].nextId /\ r.name = name /\ r.heap = p
  <2>1. catalog[k] \in CatalogValue
    BY <1>3 DEF CatalogInv, StoreInv, TypeInv
  <2>2. catalog[k].nextId \in 1 .. IdLimit /\ IdLimit \in Nat
    BY <2>1, CatalogAssumption DEF CatalogValue
  <2>3. catalog[k].nextId \in 1 .. IdLimit - 1
    BY <1>3, <2>2
  <2> QED
    BY <1>4, <1>r, <2>3 DEF Declaration
<1>6. /\ n \in Calls /\ n.step = "init" /\ n.then = "insert" /\ n.page = p /\ n.catalog = k /\ n.record = r
  BY <1>2, <1>4, <1>5 DEF Calls
<1>7. Declares(k, r)'
  BY <1>3, <1>4, <1>5 DEF Declares
<1>8. Fits(n)'
  BY <1>4, <1>5, <1>6, <1>7 DEF Fits
<1>9. QED
  BY <1>3, <1>4, <1>8, NextCall DEF CatalogInv

LEMMA AppendTableStep ==
    ASSUME CatalogInv, NEW k \in Catalogs, NEW t \in HeapsOf(k), AppendTable(k, t)
    PROVE  CatalogInv'
<1>1. PICK p : p = Len(view')
  OBVIOUS
<1>2. PICK n : n = [step |-> "init", then |-> "extend", catalog |-> k, page |-> p, record |-> t]
  OBVIOUS
<1>3. AllocatePage /\ UNCHANGED <<catalog, history>> /\ catalog' = catalog /\ call' = n
  BY <1>1, <1>2 DEF AppendTable
<1>4. /\ StoreInv' /\ p \in 1 .. MaxPages /\ view'[p] = Zero /\ disk'[p] = Zero /\ Unnamed(p)'
  BY <1>1, <1>3, AllocateStep DEF CatalogInv
<1>5. Declared(k, t)
  BY DEF HeapsOf, Declared
<1>6. t \in Declaration
  <2>1. catalog[k] \in CatalogValue
    BY <1>5 DEF CatalogInv, StoreInv, TypeInv, Declared
  <2> QED
    BY <1>5, <2>1 DEF CatalogValue, Declared
<1>7. n \in Calls /\ n.step = "init" /\ n.then = "extend" /\ n.page = p /\ n.catalog = k /\ n.record = t
  BY <1>2, <1>4, <1>6 DEF Calls
<1>8. Declared(k, t)'
  BY <1>3, <1>5 DEF Declared
<1>9. Fits(n)'
  BY <1>4, <1>7, <1>8 DEF Fits
<1>10. QED
  BY <1>3, <1>4, <1>9, NextCall DEF CatalogInv

LEMMA ChangeRowStep ==
    ASSUME CatalogInv, NEW k \in Catalogs, NEW t \in HeapsOf(k), ChangeRow(t)
    PROVE  CatalogInv'
<1>1. PICK h \in Chains(Links(view), t.heap) : \E p \in ListedPages(h) : Pool!Write(p, view[p])
  BY DEF ChangeRow
<1>2. PICK p \in ListedPages(h) : Pool!Write(p, view[p])
  BY <1>1
<1>3. StoreInv /\ TypeInv /\ view \in Seq(Image)
  BY DEF CatalogInv, StoreInv, TypeInv
<1>4. p \in DOMAIN view
  <2>1. h \in Seq(DOMAIN Links(view))
    BY <1>1, ChainsAreChains DEF IsChain
  <2>2. p \in DOMAIN Links(view)
    BY <2>1 DEF ListedPages
  <2> QED
    BY <1>3, <2>2, ReadablePages
<1>5. view' = view
  <2>1. view' = [view EXCEPT ![p] = view[p]]
    BY <1>2 DEF Pool!Write
  <2> QED
    BY <1>3, <1>4, <2>1
<1>6. /\ disk' = disk /\ kept' = kept /\ pending' = pending \cup {p} /\ call' = call /\ call = Idle
      /\ rootInMemory' = rootInMemory /\ rootOnDisk' = rootOnDisk
      /\ catalog' = catalog /\ safe' = safe /\ grown' = grown /\ losses' = losses
  BY <1>2 DEF ChangeRow, Pool!Write, header, history
<1>7. ~Stuck
  BY <1>3, InUseNotStuck DEF HeapsOf
<1>8. /\ view \in Seq(Image) /\ disk \in Seq(Image)
      /\ Len(view) = Len(disk) /\ Len(view) <= MaxPages /\ Len(view) \in Nat
      /\ pending' \subseteq DOMAIN view
  BY <1>3, <1>4, <1>6 DEF TypeInv
<1>9. Aside
  BY <1>5, <1>6, <1>7, <1>8 DEF Aside
<1>10. QED
  BY <1>3, <1>6, <1>9, AsideStep, IdleCall DEF CatalogInv

LEMMA FlushRootStep == CatalogInv /\ FlushRoot => CatalogInv'
<1> SUFFICES ASSUME CatalogInv, FlushRoot PROVE CatalogInv'
  OBVIOUS
<1>1. PICK c : c = call
  OBVIOUS
<1>2. PICK n : n = [c EXCEPT !.step = "root"]
  OBVIOUS
<1>3. /\ c.step = "flush" /\ disk' = [disk EXCEPT ![c.page] = view[c.page]] /\ pending' = pending \ {c.page}
      /\ call' = n /\ view' = view /\ kept' = kept /\ rootInMemory' = rootInMemory
      /\ rootOnDisk' = rootOnDisk
      /\ catalog' = catalog /\ safe' = safe /\ grown' = grown /\ losses' = losses
  BY <1>1, <1>2 DEF FlushRoot, header, history
<1>4. StoreInv /\ TypeInv /\ Fits(c) /\ c \in Calls
  BY <1>1 DEF CatalogInv, StoreInv, CallInv, Fits
<1>5. Unnamed(c.page) /\ view[c.page] = HeapPage /\ rootInMemory = NoPage /\ c.then = "flush"
  BY <1>3, <1>4, CallFacts DEF Fits
<1>6. c.page \in DOMAIN view /\ DOMAIN disk = DOMAIN view
  BY <1>4, <1>5, StoreFacts DEF Unnamed
<1>7. HeapPage \in Image /\ view \in Seq(Image) /\ disk \in Seq(Image)
  BY <1>4, EmptyCatalogPage, NotPages DEF TypeInv
<1>8. /\ disk' \in Seq(Image) /\ Len(disk') = Len(disk) /\ disk'[c.page] = HeapPage
      /\ \A q \in DOMAIN disk : q # c.page => disk'[q] = disk[q]
  BY <1>3, <1>5, <1>6, <1>7, PageReplaced
<1>9. Aside
  <2>1. /\ Len(view) = Len(disk) /\ Len(view) <= MaxPages /\ Len(view) \in Nat /\ pending' \subseteq DOMAIN view
    BY <1>3, <1>4 DEF TypeInv
  <2>2. \A p \in DOMAIN view : disk'[p] \in {disk[p], view[p], Torn}
    BY <1>5, <1>6, <1>8
  <2>3. ~Stuck
    BY <1>5 DEF Stuck
  <2> QED
    BY <1>3, <1>7, <1>8, <2>1, <2>2, <2>3 DEF Aside
<1>10. StoreInv' /\ Unnamed(c.page)'
  BY <1>4, <1>5, <1>9, AsideStep, AsideUnnamed
<1>11. n \in Calls /\ n.step = "root" /\ n.page = c.page /\ n.then = "flush"
  BY <1>2, <1>3, <1>4 DEF Calls
<1>12. Fits(n)'
  BY <1>3, <1>5, <1>8, <1>10, <1>11 DEF Fits
<1>13. QED
  BY <1>3, <1>10, <1>12, NextCall DEF CatalogInv

LEMMA AppendAllocateStep == CatalogInv /\ AppendAllocate => CatalogInv'
<1> SUFFICES ASSUME CatalogInv, AppendAllocate PROVE CatalogInv'
  OBVIOUS
<1>1. PICK c, p : c = call /\ p = Len(view')
  OBVIOUS
<1>2. PICK n : n = [step |-> "fill", catalog |-> c.catalog, page |-> p, record |-> c.record]
  OBVIOUS
<1>3. c.step = "insert" /\ AllocatePage /\ UNCHANGED <<catalog, history>> /\ call' = n
  BY <1>1, <1>2 DEF AppendAllocate
<1>4. StoreInv /\ TypeInv /\ Fits(c) /\ c \in Calls
  BY <1>1 DEF CatalogInv, StoreInv, CallInv, Fits
<1>5. /\ StoreInv' /\ Aside /\ p \in 1 .. MaxPages /\ p \notin 1 .. kept
      /\ view'[p] = Zero /\ disk'[p] = Zero /\ Unnamed(p)'
      /\ \A q \in DOMAIN view : view'[q] = view[q]
  BY <1>1, <1>3, <1>4, AllocateStep
<1>6. /\ Declares(c.catalog, c.record) /\ view[c.record.heap] = HeapPage
      /\ c.catalog \in Catalogs /\ c.record \in Declaration
  BY <1>3, <1>4, CallFacts DEF Fits
<1>7. /\ Declares(c.catalog, c.record)' /\ view'[c.record.heap] = HeapPage /\ p # c.record.heap
  BY <1>4, <1>5, <1>6, DeclaresKept DEF Declares, Unnamed
<1>8. /\ n \in Calls /\ n.step = "fill" /\ n.page = p /\ n.catalog = c.catalog /\ n.record = c.record
  BY <1>2, <1>5, <1>6 DEF Calls
<1>9. Fits(n)'
  BY <1>5, <1>7, <1>8 DEF Fits
<1>10. QED
  BY <1>3, <1>5, <1>9, NextCall DEF CatalogInv

LEMMA AppendFillStep == CatalogInv /\ AppendFill => CatalogInv'
<1> SUFFICES ASSUME CatalogInv, AppendFill PROVE CatalogInv'
  OBVIOUS
<1>1. PICK c : c = call
  OBVIOUS
<1>2. PICK n : n = [c EXCEPT !.step = "link"]
  OBVIOUS
<1>3. /\ c.step = "fill" /\ Pool!Write(c.page, FilledPage(c.record)) /\ call' = n
      /\ UNCHANGED <<header, catalog, history>>
  BY <1>1, <1>2 DEF AppendFill, FilledPage
<1>4. StoreInv /\ TypeInv /\ Fits(c) /\ c \in Calls
  BY <1>1 DEF CatalogInv, StoreInv, CallInv, Fits
<1>5. /\ c.page \in 1 .. kept /\ view[c.page] = Zero /\ disk[c.page] = Zero /\ Unnamed(c.page)
      /\ Declares(c.catalog, c.record) /\ view[c.record.heap] = HeapPage
      /\ c.page # c.record.heap /\ c.record.heap \in 1 .. kept
      /\ c.catalog \in Catalogs /\ c.record \in Declaration
  BY <1>3, <1>4, CallFacts DEF Fits, Unnamed, Declares
<1>6. ~Stuck
  BY <1>4, <1>5, InUseNotStuck DEF Declares
<1>7. FilledPage(c.record) \in CatalogPage /\ Fresh(c.page, FilledPage(c.record))
  BY <1>5, <1>6, FilledCatalogPage DEF Fresh
<1>8. /\ Aside /\ view'[c.page] = FilledPage(c.record) /\ disk' = disk
      /\ \A q \in DOMAIN view : q # c.page => view'[q] = view[q]
  BY <1>3, <1>4, <1>5, <1>7, FreshWrite
<1>9. StoreInv' /\ Unnamed(c.page)' /\ Declares(c.catalog, c.record)'
  BY <1>4, <1>5, <1>8, AsideStep, AsideUnnamed, DeclaresKept
<1>10. view'[c.record.heap] = HeapPage
  <2>1. c.record.heap \in DOMAIN view
    BY <1>4, <1>5, <1>8, DeclaresKept
  <2> QED
    BY <1>5, <1>8, <2>1
<1>11. /\ n \in Calls /\ n.step = "link" /\ n.page = c.page /\ n.catalog = c.catalog /\ n.record = c.record
  BY <1>2, <1>3, <1>4 DEF Calls
<1>12. Fits(n)'
  BY <1>5, <1>8, <1>9, <1>10, <1>11 DEF Fits
<1>13. QED
  BY <1>3, <1>9, <1>12, NextCall DEF CatalogInv

-----------------------------------------------------------------------------
(* Syncs, the catalog's root, and open.                                    *)

\* The catalog that opens.
LEMMA OpenableFacts ==
    ASSUME TypeInv, NEW c \in Openable(view, rootInMemory)
    PROVE  /\ c \in ChainsFrom(view, rootInMemory) /\ rootInMemory # NoPage
           /\ Openable(view, rootInMemory) = {c} /\ ChainsFrom(view, rootInMemory) = {c}
           /\ RecordsOn(view, c) \subseteq Declaration /\ UniqueIn(RecordsOn(view, c))
           /\ \A t \in RecordsOn(view, c) : ChainsFrom(view, t.heap) # {}
           /\ \A p \in ListedPages(c) : p \in DOMAIN view /\ view[p] \in CatalogPage
           /\ \A i \in DOMAIN c : c[i] \in ListedPages(c)
           /\ Opened(c) \in CatalogValue
           /\ Opened(c).pages = c /\ Opened(c).tables = RecordsOn(view, c)
           /\ Opened(c).nextId = NextId(RecordsOn(view, c))
<1>1. view \in Seq(Image) /\ Len(view) <= MaxPages
  BY DEF TypeInv
<1>2. /\ c \in ChainsFrom(view, rootInMemory) /\ UniqueIn(RecordsOn(view, c))
      /\ \A t \in RecordsOn(view, c) : ChainsFrom(view, t.heap) # {}
  BY <1>1, OpenableIs
<1>3. /\ RecordsOn(view, c) \subseteq Declaration
      /\ c \in Seq(DOMAIN view) /\ rootInMemory # NoPage /\ IsChain(Links(view), rootInMemory, c)
      /\ \A p \in ListedPages(c) : p \in DOMAIN view /\ view[p] \in CatalogPage
  BY <1>1, <1>2, RecordsDeclared, ChainIs
<1>4. ChainsFrom(view, rootInMemory) = {c}
  BY <1>1, <1>3, ChainsThere
<1>5. Openable(view, rootInMemory) = {c}
  <2>1. \A d \in Openable(view, rootInMemory) : d \in ChainsFrom(view, rootInMemory)
    BY <1>1, OpenableIs
  <2> QED
    BY <1>4, <2>1
<1>6. c \in Seq(1 .. MaxPages)
  <2> DEFINE D == DOMAIN view
             E == 1 .. MaxPages
  <2>1. D \subseteq E /\ c \in Seq(D)
    BY <1>3, StoreFacts
  <2> HIDE DEF D, E
  <2>2. c \in Seq(E)
    BY <2>1
  <2> QED
    BY <2>2 DEF E
<1>7. /\ Opened(c) = [pages |-> c, tables |-> RecordsOn(view, c), nextId |-> NextId(RecordsOn(view, c))]
      /\ NextId(RecordsOn(view, c)) \in 1 .. IdLimit
  BY <1>3, NextIdIs DEF Opened
<1>8. \A i \in DOMAIN c : c[i] \in ListedPages(c)
  BY DEF ListedPages
<1>9. QED
  BY <1>2, <1>3, <1>4, <1>5, <1>6, <1>7, <1>8 DEF CatalogValue

\* The history where the file has every page.
LEMMA SettledStep ==
    ASSUME view' \in Seq(Image), Len(view') <= MaxPages, disk' = view', pending' = {},
           safe' = UNION {RecordsOn(view', pages) : pages \in Openable(view', rootInMemory')}
    PROVE  safe' \subseteq Declaration /\ OpenInv' /\ DiskInv'
<1>1. PICK s, root : s = view' /\ root = rootInMemory'
  OBVIOUS
<1>2. s \in Seq(Image) /\ Len(s) <= MaxPages
  BY <1>1
<1>3. ASSUME NEW c \in Openable(s, root)
      PROVE  safe' = RecordsOn(s, c) /\ RecordsOn(s, c) \subseteq Declaration
  <2>1. /\ c \in ChainsFrom(s, root)
        /\ \A e \in Openable(s, root) : e \in ChainsFrom(s, root)
    BY <1>2, OpenableIs
  <2>2. \A e \in Openable(s, root) : e = c
    BY <1>2, <2>1, ChainsThere
  <2>3. Openable(s, root) = {c}
    BY <2>2
  <2> QED
    BY <1>1, <1>2, <2>1, <2>3, RecordsDeclared
<1>4. Openable(s, root) = {} => safe' = {}
  BY <1>1
<1>5. safe' \subseteq Declaration /\ OpenInv'
  BY <1>1, <1>3, <1>4 DEF OpenInv
<1>6. ASSUME NEW c \in Openable(s, root)
      PROVE  /\ safe' \subseteq RecordsOn(view', c)
             /\ \A i \in DOMAIN c : Behind(disk[c[i]], c, i)'
             /\ OnFile(disk, c)'
  <2>1. safe' \subseteq RecordsOn(view', c)
    BY <1>1, <1>3
  <2>2. \A i \in DOMAIN c : Behind(disk[c[i]], c, i)'
    BY DEF Behind
  <2>3. OnFile(disk, c)'
    BY <1>1, <1>3 DEF OnFile
  <2> QED
    BY <2>1, <2>2, <2>3
<1>7. DiskInv'
  BY <1>1, <1>6 DEF DiskInv
<1>8. QED
  BY <1>5, <1>7

LEMMA SyncStep == CatalogInv /\ Sync => CatalogInv'
<1> SUFFICES ASSUME CatalogInv, Sync PROVE CatalogInv'
  OBVIOUS
<1>1. /\ view' = view /\ disk' = view /\ pending' = {} /\ kept' = kept
      /\ rootInMemory' = rootInMemory /\ rootOnDisk' = rootOnDisk /\ catalog' = catalog
      /\ safe' = UNION {RecordsOn(view, pages) : pages \in Openable(view, rootInMemory)}
      /\ grown' = FALSE /\ losses' = losses /\ call' = Idle
  BY DEF Sync, header
<1>2. TypeInv /\ LinkInv /\ ApartInv /\ TablesInv /\ CatInv
  BY DEF CatalogInv, StoreInv
<1>3. safe' \subseteq Declaration /\ OpenInv' /\ DiskInv'
  <2>1. view' \in Seq(Image) /\ Len(view') <= MaxPages
    BY <1>1, <1>2 DEF TypeInv
  <2> QED
    BY <1>1, <2>1, SettledStep
<1>4. TypeInv'
  BY <1>1, <1>2, <1>3 DEF TypeInv
<1>5. LinkInv' /\ TablesInv'
  BY <1>1, <1>2 DEF LinkInv, Counted, TablesInv
<1>6. CatInv'
  BY <1>1, <1>2 DEF CatInv, Opened
<1>7. ApartInv'
  <2>1. \A q, p : LinksTo(q, p)' => LinksTo(q, p)
    BY <1>1 DEF LinksTo
  <2> QED
    BY <1>1, <1>2, <2>1 DEF ApartInv, Unlinked
<1>8. QED
  BY <1>1, <1>3, <1>4, <1>5, <1>6, <1>7, IdleCall DEF CatalogInv, StoreInv

LEMMA OpenStep ==
    ASSUME CatalogInv, NEW k \in Catalogs, Open(k)
    PROVE  CatalogInv'
<1>1. PICK c \in Openable(view, rootInMemory) : catalog' = [catalog EXCEPT ![k] = Opened(c)]
  BY DEF Open
<1>2. /\ view' = view /\ disk' = disk /\ pending' = pending /\ kept' = kept
      /\ rootInMemory' = rootInMemory /\ rootOnDisk' = rootOnDisk
      /\ safe' = safe /\ grown' = grown /\ losses' = losses /\ call' = Idle
  BY DEF Open, pool, header, history
<1>3. TypeInv /\ LinkInv /\ ApartInv /\ TablesInv /\ CatInv /\ OpenInv /\ DiskInv
  BY DEF CatalogInv, StoreInv
<1>4. Opened(c) \in CatalogValue
  BY <1>3, OpenableFacts
<1>5. TypeInv'
  <2>1. catalog' \in [Catalogs -> {Closed} \cup CatalogValue]
    BY <1>1, <1>3, <1>4 DEF TypeInv
  <2> QED
    BY <1>2, <1>3, <2>1 DEF TypeInv
<1>6. LinkInv' /\ ApartInv' /\ TablesInv' /\ OpenInv' /\ DiskInv'
  <2>1. LinkInv' /\ TablesInv' /\ OpenInv'
    BY <1>2, <1>3 DEF LinkInv, Counted, TablesInv, OpenInv
  <2>2. ApartInv'
    BY <1>2, <1>3 DEF ApartInv, Unlinked, LinksTo
  <2>3. DiskInv'
    BY <1>2, <1>3 DEF DiskInv, Behind, OnFile
  <2> QED
    BY <2>1, <2>2, <2>3
<1>7. CatInv'
  <2>1. \A e : Opened(e)' = Opened(e)
    BY <1>2 DEF Opened
  <2>2. \A j \in Catalogs : catalog'[j] = IF j = k THEN Opened(c) ELSE catalog[j]
    BY <1>1, <1>3 DEF TypeInv
  <2> QED
    BY <1>2, <1>3, <2>1, <2>2 DEF CatInv
<1>8. QED
  BY <1>2, <1>5, <1>6, <1>7, IdleCall DEF CatalogInv, StoreInv

\* An empty heap of one page.
LEMMA EmptyCatalog ==
    ASSUME NEW store \in Seq(Image), Len(store) <= MaxPages, NEW p \in DOMAIN store, store[p] = HeapPage
    PROVE  /\ ChainsFrom(store, p) = {<<p>>} /\ Openable(store, p) = {<<p>>}
           /\ RecordsOn(store, <<p>>) = {}
<1> DEFINE one == <<p>>
<1>1. HeapPage \in CatalogPage /\ Recs(HeapPage) = {} /\ HeapPage.next = NoPage
  BY EmptyCatalogPage
<1>2. p \in DOMAIN Links(store) /\ Links(store)[p] = NoPage
  BY <1>1, ReadablePages
<1>3. one \in Seq(DOMAIN Links(store)) /\ Len(one) = 1 /\ DOMAIN one = {1} /\ one[1] = p /\ one # <<>>
  BY <1>2
<1>4. p # NoPage
  BY <1>2, ChainsThere
<1> HIDE DEF one
<1>5. IsChain(Links(store), p, one)
  BY <1>2, <1>3 DEF IsChain
<1>6. ChainsFrom(store, p) = {one}
  BY <1>4, <1>5, ChainsThere
<1>7. RecordsOn(store, one) = {}
  <2>1. ListedPages(one) = {p}
    BY <1>3 DEF ListedPages
  <2>2. \A r : r \notin RecordsOn(store, one)
    BY <1>1, <2>1, RecordsAre
  <2> QED
    BY <2>2
<1>8. UniqueIn(RecordsOn(store, one))
  BY <1>7 DEF UniqueIn
<1>9. \A c : c \in Openable(store, p) <=> c = one
  BY <1>6, <1>7, <1>8, OpenableIs
<1>10. Openable(store, p) = {one}
  BY <1>9
<1>11. QED
  BY <1>6, <1>7, <1>10 DEF one

\* The header names a root.
LEMMA RootStep ==
    ASSUME CatalogInv, NEW p, call.step = "root", p = call.page,
           view' = view, disk' = disk, pending' = pending, kept' \in {kept, Len(view)},
           rootInMemory' = p, rootOnDisk' \in {NoPage, p}, UNCHANGED history, call' = Idle,
           \A k \in Catalogs : catalog[k] = Closed =>
             catalog'[k] \in {Closed, [pages |-> <<p>>, tables |-> {}, nextId |-> 1]},
           DOMAIN catalog' = Catalogs, catalog' = [k \in Catalogs |-> catalog'[k]]
    PROVE  CatalogInv'
<1>1. StoreInv /\ TypeInv /\ LinkInv /\ ApartInv /\ CatInv /\ OpenInv /\ Fits(call) /\ call \in Calls
  BY DEF CatalogInv, StoreInv, CallInv, Fits
<1>2. Unnamed(p) /\ view[p] = HeapPage /\ disk[p] = HeapPage /\ rootInMemory = NoPage
  BY <1>1, CallFacts DEF Fits
<1>3. /\ p \in 1 .. kept /\ p \in DOMAIN view /\ p \in 1 .. MaxPages
      /\ kept \in Nat /\ kept <= Len(view) /\ Len(view) \in Nat
  BY <1>1, <1>2, StoreFacts DEF Unnamed
<1>4. /\ ChainsFrom(view, p) = {<<p>>} /\ Openable(view, p) = {<<p>>} /\ RecordsOn(view, <<p>>) = {}
  BY <1>1, <1>2, <1>3, EmptyCatalog DEF TypeInv
<1>5. /\ Openable(view, rootInMemory) = {} /\ safe = {} /\ safe' = {} /\ grown' = grown /\ losses' = losses
      /\ \A k \in Catalogs : catalog[k] = Closed
  BY <1>1, <1>2 DEF Openable, OpenInv, CatInv, history
<1>6. p \in 1 .. kept' /\ kept' \in 0 .. Len(view) /\ 1 .. kept \subseteq 1 .. kept' /\ kept <= kept' /\ kept' \in Nat
  BY <1>3
<1>7. Opened(<<p>>)' = [pages |-> <<p>>, tables |-> {}, nextId |-> 1]
  <2>1. NextId({}) = 1
    BY NextIdIs
  <2> QED
    BY <1>4, <2>1 DEF Opened
<1>8. TypeInv'
  <2>1. [pages |-> <<p>>, tables |-> {}, nextId |-> 1] \in CatalogValue
    <3>1. <<p>> \in Seq(1 .. MaxPages) /\ 1 \in 1 .. IdLimit
      BY <1>3, CatalogAssumption
    <3> QED
      BY <3>1 DEF CatalogValue
  <2>2. \A k \in Catalogs : catalog'[k] \in {Closed} \cup CatalogValue
    BY <1>5, <2>1
  <2>3. catalog' \in [Catalogs -> {Closed} \cup CatalogValue]
    BY <2>2
  <2>4. /\ view' \in Seq(Image) /\ disk' \in Seq(Image)
        /\ Len(view') = Len(disk') /\ Len(view') <= MaxPages
        /\ pending' \subseteq DOMAIN view' /\ kept' \in 0 .. Len(view')
        /\ safe' \subseteq Declaration /\ grown' \in BOOLEAN /\ losses' \in 0 .. MaxLosses
    BY <1>1, <1>5, <1>6 DEF TypeInv
  <2>5. rootInMemory' \in {NoPage} \cup 1 .. kept' /\ rootOnDisk' \in {NoPage, rootInMemory'}
    BY <1>6
  <2> QED
    BY <2>3, <2>4, <2>5 DEF TypeInv
<1>9. LinkInv'
  <2>1. \A q \in DOMAIN view : q <= kept => q <= kept'
    BY <1>1, <1>3, <1>6, StoreFacts
  <2>2. DOMAIN disk = DOMAIN view
    BY <1>1, StoreFacts
  <2> QED
    BY <1>1, <1>6, <2>1, <2>2 DEF LinkInv, Counted
<1>10. TablesInv'
  <2>1. OwnPages({}, <<p>>)
    BY DEF OwnPages, UniqueIn
  <2> QED
    BY <1>4, <2>1 DEF TablesInv
<1>11. CatInv'
  BY <1>4, <1>5, <1>7 DEF CatInv
<1>12. OpenInv'
  BY <1>4, <1>5 DEF OpenInv
<1>13. DiskInv'
  <2>1. DOMAIN <<p>> = {1} /\ <<p>>[1] = p /\ ListedPages(<<p>>) = {p} /\ Len(<<p>>) = 1
    BY DEF ListedPages
  <2>2. HeapPage.next = NoPage
    BY EmptyCatalogPage
  <2>3. Behind(disk[p], <<p>>, 1)'
    BY <1>2, <1>5, <2>1, <2>2 DEF Behind
  <2>4. OnFile(disk, <<p>>)'
    BY <1>2, <1>4, <2>1 DEF OnFile
  <2> QED
    BY <1>4, <1>5, <2>1, <2>3, <2>4 DEF DiskInv
<1>14. ApartInv'
  <2>1. Unlinked(p)
    BY <1>2 DEF Unnamed
  <2>2. \A q, x : LinksTo(q, x)' <=> LinksTo(q, x)
    BY DEF LinksTo
  <2> QED
    BY <1>1, <1>4, <2>1, <2>2 DEF ApartInv, Unlinked
<1>15. QED
  BY <1>8, <1>9, <1>10, <1>11, <1>12, <1>13, <1>14, IdleCall DEF CatalogInv, StoreInv

LEMMA SetRootStep == CatalogInv /\ SetRoot => CatalogInv'
<1> SUFFICES ASSUME CatalogInv, SetRoot PROVE CatalogInv'
  OBVIOUS
<1>1. PICK p : p = call.page
  OBVIOUS
<1>2. /\ call.step = "root" /\ view' = view /\ disk' = disk /\ pending' = pending /\ kept' = Len(view)
      /\ rootInMemory' = p /\ rootOnDisk' = p /\ UNCHANGED history /\ call' = Idle
      /\ catalog' = [catalog EXCEPT ![call.catalog] = [pages |-> <<p>>, tables |-> {}, nextId |-> 1]]
  BY <1>1 DEF SetRoot, Pool!Persist
<1>3. DOMAIN catalog = Catalogs
  BY DEF CatalogInv, StoreInv, TypeInv
<1>4. /\ DOMAIN catalog' = Catalogs /\ catalog' = [k \in Catalogs |-> catalog'[k]]
      /\ \A k \in Catalogs : catalog[k] = Closed =>
           catalog'[k] \in {Closed, [pages |-> <<p>>, tables |-> {}, nextId |-> 1]}
  BY <1>2, <1>3
<1>5. QED
  BY <1>1, <1>2, <1>4, RootStep

LEMMA SetRootFailsStep == CatalogInv /\ SetRootFails => CatalogInv'
<1> SUFFICES ASSUME CatalogInv, SetRootFails PROVE CatalogInv'
  OBVIOUS
<1>1. PICK p : p = call.page
  OBVIOUS
<1>2. /\ call.step = "root" /\ view' = view /\ disk' = disk /\ pending' = pending /\ kept' \in {kept, Len(view)}
      /\ rootInMemory' = p /\ rootOnDisk' \in {rootOnDisk, p} /\ UNCHANGED history /\ call' = Idle
      /\ catalog' = catalog
  BY <1>1 DEF SetRootFails, Pool!Persist, pool
<1>3. TypeInv /\ Fits(call) /\ call \in Calls
  BY DEF CatalogInv, StoreInv, CallInv, Fits
<1>4. rootInMemory = NoPage
  BY <1>2, <1>3, CallFacts DEF Fits
<1>5. rootOnDisk' \in {NoPage, p} /\ catalog \in [Catalogs -> {Closed} \cup CatalogValue]
  BY <1>2, <1>3, <1>4 DEF TypeInv
<1>6. DOMAIN catalog' = Catalogs /\ catalog' = [k \in Catalogs |-> catalog'[k]]
  BY <1>2, <1>5
<1>7. QED
  BY <1>1, <1>2, <1>5, <1>6, RootStep

-----------------------------------------------------------------------------
(* Losses.                                                                 *)

\* A loss leaves s of the file d.
Left(s, d) == Later(d) /\ s = SubSeq(d, 1, kept)

LEMMA LaterKeeps ==
    ASSUME StoreInv, NEW d, Later(d)
    PROVE  /\ Counted(d)
           /\ \A c \in Openable(view, rootInMemory) :
                /\ \A i \in DOMAIN c : Behind(d[c[i]], c, i)
                /\ ~grown => OnFile(d, c)
<1>1. TypeInv /\ LinkInv /\ DiskInv
  BY DEF StoreInv
<1>2. /\ DOMAIN d = DOMAIN view /\ DOMAIN disk = DOMAIN view
      /\ \A p \in DOMAIN view : d[p] \in {disk[p], view[p], Torn}
  <2>1. d \in Seq(Image) /\ Len(d) = Len(disk) /\ disk \in Seq(Image)
    BY <1>1 DEF Later, TypeInv
  <2> QED
    BY <1>1, <2>1, StoreFacts DEF Later
<1>3. Counted(d)
  BY <1>1, <1>2, NotPages DEF LinkInv, Counted
<1>4. ASSUME NEW c \in Openable(view, rootInMemory)
      PROVE  /\ \A i \in DOMAIN c : Behind(d[c[i]], c, i)
             /\ ~grown => OnFile(d, c)
  <2>1. /\ \A i \in DOMAIN c : c[i] \in ListedPages(c)
        /\ \A p \in ListedPages(c) : p \in DOMAIN view
    BY <1>1, OpenableFacts
  <2>2. ASSUME NEW i \in DOMAIN c PROVE Behind(d[c[i]], c, i)
    <3>1. d[c[i]] \in {disk[c[i]], view[c[i]], Torn}
      BY <1>2, <2>1
    <3>2. Behind(disk[c[i]], c, i) /\ Behind(view[c[i]], c, i) /\ Behind(Torn, c, i)
      BY <1>1, NotBehind, NotPages DEF DiskInv, Behind
    <3> QED
      BY <3>1, <3>2
  <2>3. ASSUME ~grown PROVE OnFile(d, c)
    <3>1. OnFile(disk, c)
      BY <1>1, <2>3 DEF DiskInv
    <3>2. \A root : \A h \in ChainsFrom(view, root) : \A p \in ListedPages(h) : p \in DOMAIN view
      BY <1>1, ChainIs DEF TypeInv
    <3> QED
      BY <1>2, <2>1, <3>1, <3>2 DEF OnFile
  <2> QED
    BY <2>2, <2>3
<1>5. QED
  BY <1>3, <1>4

LEMMA LostPages ==
    ASSUME StoreInv, NEW d, NEW s, Left(s, d)
    PROVE  /\ s \in Seq(Image) /\ Len(s) = kept /\ DOMAIN s = 1 .. kept /\ Len(s) <= MaxPages
           /\ \A p \in 1 .. kept : p \in DOMAIN view /\ s[p] = d[p]
<1>1. /\ kept \in 0 .. Len(view) /\ Len(view) \in Nat /\ Len(d) = Len(view) /\ d \in Seq(Image) /\ s = SubSeq(d, 1, kept)
      /\ Len(view) <= MaxPages /\ MaxPages \in Nat /\ DOMAIN view = 1 .. Len(view)
  BY StoreFacts, CatalogAssumption DEF StoreInv, TypeInv, Later, Left
<1>2. CASE kept = 0
  <2>1. s = <<>>
    BY <1>1, <1>2
  <2> QED
    BY <1>1, <1>2, <2>1
<1>3. CASE kept # 0
  <2>1. kept \in 1 .. Len(d)
    BY <1>1, <1>3
  <2>2. /\ s \in Seq(Image) /\ Len(s) = kept /\ DOMAIN s = 1 .. kept
        /\ \A i \in 1 .. kept : s[i] = d[i]
    BY <1>1, <2>1, StartOfSeq
  <2> QED
    BY <1>1, <2>2
<1>4. QED
  BY <1>2, <1>3

\* The chain a loss leaves is where the chain began.
LEMMA LostChainBegins ==
    ASSUME StoreInv, NEW d, NEW s, Left(s, d),
           NEW c \in Openable(view, rootInMemory), NEW e \in ChainsFrom(s, rootInMemory)
    PROVE  \A i \in 1 .. Len(e) : i \in 1 .. Len(c) /\ e[i] = c[i] /\ s[e[i]] = d[c[i]]
<1>1. /\ TypeInv /\ view \in Seq(Image) /\ Len(view) <= MaxPages
      /\ s \in Seq(Image) /\ Len(s) <= MaxPages /\ DOMAIN s = 1 .. kept
  BY LostPages DEF StoreInv, TypeInv
<1>2. c \in ChainsFrom(view, rootInMemory)
  BY <1>1, OpenableFacts
<1>m. PICK m, n : m = Len(c) /\ n = Len(e)
  OBVIOUS
<1>3. /\ DOMAIN c = 1 .. m /\ c[1] = rootInMemory
      /\ \A i \in 1 .. m : i < m => view[c[i]].next = c[i + 1]
      /\ \A i \in 1 .. m : i = m => view[c[i]].next = NoPage
  <2>1. /\ DOMAIN c = 1 .. Len(c) /\ c[1] = rootInMemory
        /\ \A i \in 1 .. Len(c) : /\ i = Len(c) => view[c[i]].next = NoPage
                                  /\ i < Len(c) => view[c[i]].next = c[i + 1]
    BY <1>1, <1>2, ChainIs
  <2> QED
    BY <1>m, <2>1
<1>4. /\ e[1] = rootInMemory
      /\ \A i \in 1 .. n : /\ e[i] \in 1 .. kept /\ s[e[i]] \in CatalogPage
                           /\ i < n => s[e[i]].next = e[i + 1] /\ s[e[i]].next # NoPage
  BY <1>1, <1>m, ChainIs
<1>5. m \in Nat /\ m # 0 /\ n \in Nat
  BY <1>1, <1>2, <1>m, ChainIs
<1>6. \A i \in 1 .. n : s[e[i]] = d[e[i]]
  BY <1>4, LostPages
<1> DEFINE Off == {i \in 1 .. n : ~(i \in 1 .. m /\ e[i] = c[i])}
<1>7. Off = {}
  <2> SUFFICES ASSUME Off # {} PROVE FALSE
    OBVIOUS
  <2>1. Off \subseteq Nat
    BY <1>5
  <2>2. PICK k \in Off : \A j \in Off : k <= j
    BY <2>1, LeastExists
  <2>3. k \in 1 .. n /\ k # 1
    BY <1>3, <1>4, <1>5, <2>2
  <2>4. /\ k - 1 \in 1 .. n /\ k - 1 < n /\ (k - 1) + 1 = k /\ k - 1 \notin Off
    BY <1>5, <2>2, <2>3
  <2>5. PICK b : b = k - 1
    OBVIOUS
  <2>6. b \in 1 .. m /\ e[b] = c[b] /\ b + 1 = k /\ b \in 1 .. n /\ b < n
    BY <2>4, <2>5
  <2>7. s[e[b]].next = e[k] /\ e[k] # NoPage /\ d[c[b]] \in CatalogPage /\ d[c[b]].next = e[k]
    BY <1>4, <1>6, <2>6
  <2>8. Behind(d[c[b]], c, b)
    BY <1>3, <2>6, LaterKeeps DEF Left
  <2>9. view[c[b]].next = e[k]
    BY <2>7, <2>8 DEF Behind
  <2>10. b < m
    BY <1>3, <1>5, <2>6, <2>7, <2>9
  <2>11. c[k] = e[k] /\ k \in 1 .. m
    <3>1. c[b + 1] = e[k]
      BY <1>3, <2>6, <2>9, <2>10
    <3>2. b + 1 \in 1 .. m
      BY <1>5, <2>6, <2>10
    <3> QED
      BY <2>6, <3>1, <3>2
  <2> QED
    BY <2>2, <2>11
<1>8. \A i \in 1 .. n : i \in 1 .. m /\ e[i] = c[i]
  BY <1>7
<1>9. QED
  BY <1>6, <1>8, <1>m

\* No table is declared there that was not before.
LEMMA LostRecords ==
    ASSUME StoreInv, NEW d, NEW s, Left(s, d),
           NEW c \in Openable(view, rootInMemory), NEW e \in ChainsFrom(s, rootInMemory)
    PROVE  /\ RecordsOn(s, e) \subseteq RecordsOn(view, c)
           /\ ListedPages(e) \subseteq ListedPages(c)
           /\ safe \subseteq RecordsOn(s, e)
<1>1. /\ TypeInv /\ DiskInv /\ view \in Seq(Image) /\ Len(view) <= MaxPages
      /\ s \in Seq(Image) /\ Len(s) <= MaxPages
  BY LostPages DEF StoreInv, TypeInv
<1>2. c \in ChainsFrom(view, rootInMemory)
  BY <1>1, OpenableFacts
<1>m. PICK m, n : m = Len(c) /\ n = Len(e)
  OBVIOUS
<1>3. /\ DOMAIN c = 1 .. m /\ DOMAIN e = 1 .. n
      /\ \A i \in 1 .. m : c[i] \in ListedPages(c) /\ (i < m => view[c[i]].next # NoPage)
      /\ \A i \in 1 .. n : /\ e[i] \in ListedPages(e) /\ s[e[i]] \in CatalogPage
                           /\ i = n => s[e[i]].next = NoPage
  BY <1>1, <1>2, <1>m, ChainIs
<1>4. m \in Nat /\ n \in Nat /\ n # 0
  BY <1>1, <1>2, <1>m, ChainIs
<1>5. \A i \in 1 .. n : i \in 1 .. m /\ e[i] = c[i] /\ s[e[i]] = d[c[i]]
  BY <1>m, LostChainBegins
<1>6. \A i \in 1 .. n : Behind(d[c[i]], c, i)
  BY <1>3, <1>5, LaterKeeps DEF Left
<1>7. \A i \in 1 .. n :
        /\ Recs(s[e[i]]) \subseteq Recs(view[c[i]])
        /\ safe \cap Recs(view[c[i]]) \subseteq Recs(s[e[i]])
        /\ \A j \in i + 1 .. m : safe \cap Recs(view[c[j]]) # {} => s[e[i]].next = view[c[i]].next
  BY <1>3, <1>5, <1>6, <1>m DEF Behind
<1>8. ListedPages(e) \subseteq ListedPages(c)
  BY <1>3, <1>5 DEF ListedPages
<1>9. ASSUME NEW r \in RecordsOn(s, e) PROVE r \in RecordsOn(view, c)
  <2>1. PICK p \in ListedPages(e) : r \in Recs(s[p])
    BY RecordsAre
  <2>2. PICK i \in 1 .. n : p = e[i]
    BY <1>3, <2>1 DEF ListedPages
  <2>3. r \in Recs(view[c[i]]) /\ c[i] \in ListedPages(c)
    BY <1>3, <1>5, <1>7, <2>1, <2>2
  <2> QED
    BY <2>3, RecordsAre
<1>10. ASSUME NEW r \in safe PROVE r \in RecordsOn(s, e)
  <2>1. r \in RecordsOn(view, c)
    BY <1>1 DEF DiskInv
  <2>2. PICK p \in ListedPages(c) : r \in Recs(view[p])
    BY <2>1, RecordsAre
  <2>3. PICK j \in 1 .. m : p = c[j]
    BY <1>3, <2>2 DEF ListedPages
  <2>4. j <= n
    <3> SUFFICES ASSUME ~(j <= n) PROVE FALSE
      OBVIOUS
    <3>1. n \in 1 .. n /\ n < m /\ j \in n + 1 .. m /\ n \in 1 .. m
      BY <1>4, <2>3
    <3>2. s[e[n]].next = view[c[n]].next
      BY <1>7, <2>2, <2>3, <3>1
    <3> QED
      BY <1>3, <3>1, <3>2
  <2>5. j \in 1 .. n
    BY <1>4, <2>3, <2>4
  <2>6. r \in Recs(s[e[j]]) /\ e[j] \in ListedPages(e)
    BY <1>3, <1>7, <2>2, <2>3, <2>5
  <2> QED
    BY <2>6, RecordsAre
<1>11. QED
  BY <1>8, <1>9, <1>10

\* A catalog that cannot be opened stays as it is.
LEMMA LostStuck ==
    ASSUME StoreInv, Stuck, NEW d, NEW s, Left(s, d)
    PROVE  /\ ChainsFrom(s, rootInMemory) = ChainsFrom(view, rootInMemory)
           /\ \A c \in ChainsFrom(view, rootInMemory) : RecordsOn(s, c) = RecordsOn(view, c)
<1>1. TypeInv /\ LinkInv /\ OpenInv
  BY DEF StoreInv
<1>2. d = view
  BY <1>1 DEF Stuck, OpenInv, Left, Later
<1>3. /\ s \in Seq(Image) /\ DOMAIN s = 1 .. kept /\ Len(s) <= MaxPages
      /\ \A p \in 1 .. kept : p \in DOMAIN view /\ s[p] = view[p]
  BY <1>2, LostPages
<1>4. \A p \in DOMAIN view : view[p] \in CatalogPage => p \in DOMAIN s /\ s[p] = view[p]
  <2>1. \A p \in DOMAIN view : view[p] \in CatalogPage => p \in 1 .. kept
    BY <1>1, StoreFacts DEF LinkInv, Counted
  <2> QED
    BY <1>3, <2>1
<1>5. \A p \in DOMAIN s : s[p] \in CatalogPage => p \in DOMAIN view /\ s[p] = view[p]
  BY <1>3
<1>6. QED
  BY <1>1, <1>3, <1>4, <1>5, SameCatalog DEF TypeInv

\* Declarations stay unique, and synced ones stay.
LEMMA LostTables ==
    ASSUME StoreInv, NEW d, NEW s, Left(s, d), NEW e \in ChainsFrom(s, rootOnDisk)
    PROVE  /\ OwnPages(RecordsOn(s, e), e)
           /\ safe \subseteq RecordsOn(s, e)
           /\ rootOnDisk = rootInMemory
           /\ \E c \in ChainsFrom(view, rootInMemory) : RecordsOn(s, e) \subseteq RecordsOn(view, c)
<1>1. TypeInv /\ TablesInv /\ OpenInv
  BY DEF StoreInv
<1>2. rootOnDisk = rootInMemory /\ rootInMemory # NoPage /\ e \in ChainsFrom(s, rootInMemory)
  BY <1>1 DEF TypeInv, ChainsFrom
<1>3. CASE Openable(view, rootInMemory) = {}
  <2>1. Stuck
    BY <1>2, <1>3 DEF Stuck
  <2>2. e \in ChainsFrom(view, rootInMemory) /\ RecordsOn(s, e) = RecordsOn(view, e)
    BY <1>2, <2>1, LostStuck
  <2> QED
    BY <1>1, <1>2, <1>3, <2>2 DEF TablesInv, OpenInv
<1>4. CASE Openable(view, rootInMemory) # {}
  <2>1. PICK c : c \in Openable(view, rootInMemory)
    BY <1>4
  <2>2. /\ RecordsOn(s, e) \subseteq RecordsOn(view, c)
        /\ ListedPages(e) \subseteq ListedPages(c)
        /\ safe \subseteq RecordsOn(s, e)
    BY <1>2, <2>1, LostRecords
  <2>3. c \in ChainsFrom(view, rootInMemory)
    BY <1>1, <2>1, OpenableFacts
  <2>4. OwnPages(RecordsOn(view, c), c)
    BY <1>1, <2>3 DEF TablesInv
  <2>5. OwnPages(RecordsOn(s, e), e)
    BY <2>2, <2>4 DEF OwnPages, UniqueIn
  <2> QED
    BY <1>2, <2>2, <2>3, <2>5
<1>5. QED
  BY <1>3, <1>4

\* A catalog in use that was not grown opens, unless a page is torn.
LEMMA LostOpens ==
    ASSUME StoreInv, ~grown, InUse, NEW d, NEW s, Left(s, d), \A p \in DOMAIN s : s[p] # Torn
    PROVE  Openable(s, rootOnDisk) # {}
<1>1. TypeInv /\ LinkInv /\ TablesInv /\ CatInv
  BY DEF StoreInv
<1>2. PICK k \in Catalogs : catalog[k] # Closed /\ (catalog[k].tables # {} \/ rootOnDisk # NoPage)
  BY DEF InUse
<1>3. PICK c \in Openable(view, rootInMemory) : catalog[k] = Opened(c)
  BY <1>1, <1>2 DEF CatInv
<1>4. /\ c \in ChainsFrom(view, rootInMemory) /\ rootInMemory # NoPage
      /\ catalog[k].tables = RecordsOn(view, c) /\ UniqueIn(RecordsOn(view, c))
      /\ \A t \in RecordsOn(view, c) : ChainsFrom(view, t.heap) # {}
  BY <1>1, <1>3, OpenableFacts
<1>5. rootOnDisk = rootInMemory
  BY <1>1, <1>2, <1>4 DEF TablesInv, TypeInv
<1>6. /\ s \in Seq(Image) /\ DOMAIN s = 1 .. kept /\ Len(s) <= MaxPages
      /\ \A p \in 1 .. kept : s[p] = d[p]
  BY LostPages
<1>7. OnFile(d, c)
  BY LaterKeeps DEF Left
<1>8. \A p \in DOMAIN view : view[p] \in CatalogPage => p \in DOMAIN s
  BY <1>1, <1>6, StoreFacts DEF LinkInv, Counted
<1>9. ASSUME NEW root, NEW h \in ChainsFrom(view, root),
             \A p \in ListedPages(h) : d[p] \in {Torn, view[p]}
      PROVE  /\ \A p \in ListedPages(h) : s[p] = view[p]
             /\ ChainsFrom(s, root) = {h}
  <2>1. view \in Seq(Image) /\ Len(view) <= MaxPages
    BY <1>1 DEF TypeInv
  <2>2. \A p \in ListedPages(h) : p \in DOMAIN view /\ view[p] \in CatalogPage
    BY <2>1, ChainIs
  <2>3. \A p \in ListedPages(h) : p \in DOMAIN s /\ s[p] = view[p]
    BY <1>6, <1>8, <1>9, <2>2
  <2>4. \A p \in ListedPages(h) : p \in DOMAIN s /\ s[p] \in CatalogPage /\ s[p].next = view[p].next
    BY <2>2, <2>3
  <2>5. s \in Seq(Image) /\ Len(s) <= MaxPages
    BY <1>6
  <2>6. ChainsFrom(s, root) = {h}
    BY ONLY <1>9, <2>1, <2>4, <2>5, ChainStays
  <2> QED
    BY <2>3, <2>6
<1>10. /\ \A p \in ListedPages(c) : s[p] = view[p]
       /\ ChainsFrom(s, rootInMemory) = {c}
  <2>1. \A p \in ListedPages(c) : d[p] \in {Torn, view[p]}
    BY <1>7 DEF OnFile
  <2> QED
    BY <1>4, <1>9, <2>1
<1>11. ASSUME NEW t \in RecordsOn(view, c) PROVE ChainsFrom(s, t.heap) # {}
  <2>1. PICK h \in ChainsFrom(view, t.heap) : TRUE
    BY <1>4
  <2>2. \A p \in ListedPages(h) : d[p] \in {Torn, view[p]}
    BY <1>7, <2>1 DEF OnFile
  <2>3. ChainsFrom(s, t.heap) = {h}
    BY <1>9, <2>1, <2>2
  <2> QED
    BY <2>3
<1>12. RecordsOn(s, c) = RecordsOn(view, c)
  <2>1. \A t : t \in RecordsOn(s, c) <=> t \in RecordsOn(view, c)
    BY <1>10, RecordsAre
  <2> QED
    BY <2>1
<1>13. c \in Openable(s, rootInMemory)
  BY <1>4, <1>6, <1>10, <1>11, <1>12, OpenableIs
<1>14. QED
  BY <1>5, <1>13

LEMMA LoseStep ==
    ASSUME CatalogInv, Lose
    PROVE  /\ CatalogInv'
           /\ \A pages \in Openable(view', rootInMemory') : safe \subseteq RecordsOn(view', pages)
           /\ ~grown /\ InUse /\ ~SomeTorn' => Openable(view', rootInMemory') # {}
<1>1. PICK d \in Pool!WrittenBack({}) : disk' = SubSeq(d, 1, kept)
  BY DEF Lose, Pool!LosesAfter
<1>2. PICK s : s = disk'
  OBVIOUS
<1>3. /\ view' = s /\ disk' = s /\ pending' = {} /\ kept' = kept
      /\ rootInMemory' = rootOnDisk /\ rootOnDisk' = rootOnDisk
      /\ catalog' = [k \in Catalogs |-> Closed] /\ call' = Idle /\ grown' = FALSE
      /\ losses < MaxLosses /\ losses' = losses + 1
      /\ safe' = UNION {RecordsOn(s, pages) : pages \in Openable(s, rootOnDisk)}
  BY <1>2 DEF Lose, Pool!LosesAfter
<1>4. StoreInv /\ TypeInv /\ ApartInv
  BY DEF CatalogInv, StoreInv
<1>5. Left(s, d)
  <2>1. {} \in SUBSET pending
    OBVIOUS
  <2>2. Later(d)
    BY <1>4, <2>1, WrittenBackLater
  <2> QED
    BY <1>1, <1>2, <2>2 DEF Left
<1>6. s \in Seq(Image) /\ Len(s) = kept /\ DOMAIN s = 1 .. kept /\ Len(s) <= MaxPages
  BY <1>4, <1>5, LostPages
<1>7. safe' \subseteq Declaration /\ OpenInv' /\ DiskInv'
  BY <1>3, <1>6, SettledStep
<1>8. TypeInv'
  <2>1. kept \in Nat /\ MaxLosses \in Nat /\ losses + 1 \in 0 .. MaxLosses
    BY <1>3, <1>4, StoreFacts, CatalogAssumption DEF TypeInv
  <2>2. catalog' \in [Catalogs -> {Closed} \cup CatalogValue]
    BY <1>3
  <2>3. /\ view' \in Seq(Image) /\ disk' \in Seq(Image) /\ Len(view') = Len(disk') /\ Len(view') <= MaxPages
        /\ pending' \subseteq DOMAIN view' /\ kept' \in 0 .. Len(view')
    BY <1>3, <1>6, <2>1
  <2>4. /\ rootInMemory' \in {NoPage} \cup 1 .. kept' /\ rootOnDisk' \in {NoPage, rootInMemory'}
        /\ grown' \in BOOLEAN /\ losses' \in 0 .. MaxLosses
    BY <1>3, <1>4, <2>1 DEF TypeInv
  <2> QED
    BY <1>7, <2>2, <2>3, <2>4 DEF TypeInv
<1>9. LinkInv'
  <2>1. Counted(d) /\ DOMAIN d = DOMAIN view
    <3>1. Later(d)
      BY <1>5 DEF Left
    <3> QED
      BY <1>4, <3>1, LaterKeeps, StoreFacts DEF Later, TypeInv
  <2>2. \A p \in DOMAIN s : p \in DOMAIN d /\ s[p] = d[p]
    BY <1>4, <1>5, <1>6, <2>1, LostPages
  <2> QED
    BY <1>3, <2>1, <2>2 DEF LinkInv, Counted
<1>10. TablesInv'
  BY <1>3, <1>4, <1>5, LostTables DEF TablesInv
<1>11. CatInv'
  BY <1>3 DEF CatInv
<1>a. ApartInv'
  <2>1. \A p \in 1 .. MaxPages : p # NoPage
    BY CatalogAssumption
  <2>2. ASSUME NEW q \in DOMAIN view', NEW p \in 1 .. MaxPages, LinksTo(q, p)'
        PROVE  q \in DOMAIN view /\ LinksTo(q, p)
    <3>1. s[q] \in CatalogPage /\ s[q].next = p /\ q \in 1 .. kept
      BY <1>3, <1>6, <2>2 DEF LinksTo
    <3>2. q \in DOMAIN view /\ s[q] = d[q] /\ s[q] # Torn
      BY <1>4, <1>5, <3>1, LostPages, NotPages
    <3>3. d[q] \in {disk[q], view[q], Torn}
      BY <1>5, <3>2 DEF Left, Later
    <3> QED
      BY <3>1, <3>2, <3>3 DEF LinksTo
  <2>3. ASSUME NEW e \in ChainsFrom(view', rootInMemory')
        PROVE  /\ rootInMemory' \in 1 .. MaxPages /\ rootInMemory' # NoPage /\ Unlinked(rootInMemory')
               /\ \A t \in RecordsOn(view', e) :
                    t.heap \in 1 .. MaxPages /\ t.heap # NoPage /\ Unlinked(t.heap)
    <3>1. rootOnDisk = rootInMemory /\ rootInMemory' = rootInMemory
      BY <1>3, <1>4, <1>5, <2>3, LostTables
    <3>2. PICK c \in ChainsFrom(view, rootInMemory) : RecordsOn(s, e) \subseteq RecordsOn(view, c)
      BY <1>3, <1>4, <1>5, <2>3, LostTables
    <3>3. rootInMemory \in 1 .. MaxPages
      <4>1. rootInMemory # NoPage
        BY <3>2 DEF ChainsFrom
      <4> QED
        BY <1>4, <4>1, StoreFacts DEF TypeInv
    <3>4. RecordsOn(view, c) \subseteq Declaration
      BY <1>4, <3>2, RecordsDeclared DEF TypeInv
    <3> QED
      BY <1>3, <1>4, <2>1, <3>1, <3>2, <3>3, <3>4 DEF ApartInv, Declaration
  <2>4. NewLink(NoPage, NoPage) /\ NewHeads(NoPage)
    BY <2>2, <2>3 DEF NewLink, NewHeads
  <2> QED
    BY <1>4, <2>4, ApartStep
<1>12. CatalogInv'
  BY <1>3, <1>7, <1>8, <1>9, <1>a, <1>10, <1>11, IdleCall DEF CatalogInv, StoreInv
<1>13. \A pages \in Openable(view', rootInMemory') : safe \subseteq RecordsOn(view', pages)
  <2>1. \A pages \in Openable(s, rootOnDisk) : pages \in ChainsFrom(s, rootOnDisk)
    BY <1>6, OpenableIs
  <2> QED
    BY <1>3, <1>4, <1>5, <2>1, LostTables
<1>14. ~grown /\ InUse /\ ~SomeTorn' => Openable(view', rootInMemory') # {}
  BY <1>3, <1>4, <1>5, LostOpens DEF SomeTorn
<1>15. QED
  BY <1>12, <1>13, <1>14

-----------------------------------------------------------------------------
(* Chains apart.                                                           *)

\* No page is linked to twice.
Once(links) ==
    /\ NoPage \notin DOMAIN links
    /\ \A p, q \in DOMAIN links : links[p] = links[q] /\ links[p] # NoPage => p = q

LEMMA ViewLinks ==
    ASSUME TypeInv, ApartInv
    PROVE  /\ Once(Links(view))
           /\ \A n : n # NoPage /\ Unlinked(n) => \A p \in DOMAIN Links(view) : Links(view)[p] # n
<1>1. /\ view \in Seq(Image) /\ Len(view) <= MaxPages
      /\ NoPage \notin DOMAIN Links(view)
  BY ChainsThere DEF TypeInv
<1>2. ASSUME NEW p \in DOMAIN Links(view)
      PROVE  /\ p \in DOMAIN view /\ LinksTo(p, Links(view)[p])
             /\ Links(view)[p] \in {NoPage} \cup 1 .. MaxPages
  <2>1. p \in DOMAIN view /\ view[p] \in CatalogPage /\ Links(view)[p] = view[p].next
    BY <1>1, ReadablePages
  <2> QED
    BY <2>1, PageFields DEF LinksTo
<1>3. ASSUME NEW p \in DOMAIN Links(view), NEW q \in DOMAIN Links(view),
             Links(view)[p] = Links(view)[q], Links(view)[p] # NoPage
      PROVE  p = q
  <2>1. /\ p \in DOMAIN view /\ LinksTo(p, Links(view)[p]) /\ Links(view)[p] \in 1 .. MaxPages
        /\ q \in DOMAIN view /\ LinksTo(q, Links(view)[p])
    BY <1>2, <1>3
  <2> QED
    BY <2>1 DEF ApartInv
<1>4. ASSUME NEW n, Unlinked(n), NEW p \in DOMAIN Links(view) PROVE Links(view)[p] # n
  BY <1>2, <1>4 DEF Unlinked
<1>5. QED
  BY <1>1, <1>3, <1>4 DEF Once

\* The chains of tables and of the catalog share no page.
LEMMA TablesApart ==
    ASSUME TypeInv, ApartInv, TablesInv, NEW c \in ChainsFrom(view, rootInMemory)
    PROVE  /\ \A t \in RecordsOn(view, c) : \A h \in ChainsFrom(view, t.heap) :
                ListedPages(h) \cap ListedPages(c) = {}
           /\ \A s, t \in RecordsOn(view, c) : s # t =>
                \A g \in ChainsFrom(view, s.heap), h \in ChainsFrom(view, t.heap) :
                  ListedPages(g) \cap ListedPages(h) = {}
           /\ \A t \in RecordsOn(view, c) : \A h \in ChainsFrom(view, t.heap) : \A n :
                n # NoPage /\ n # t.heap /\ Unlinked(n) => n \notin ListedPages(h)
<1>1. view \in Seq(Image) /\ Len(view) <= MaxPages
  BY DEF TypeInv
<1>2. /\ rootInMemory # NoPage /\ IsChain(Links(view), rootInMemory, c)
      /\ rootInMemory \in ListedPages(c)
  <2>1. /\ rootInMemory # NoPage /\ IsChain(Links(view), rootInMemory, c)
        /\ Len(c) \in Nat /\ Len(c) # 0 /\ DOMAIN c = 1 .. Len(c) /\ c[1] = rootInMemory
    BY <1>1, ChainIs
  <2>2. 1 \in DOMAIN c
    BY <2>1
  <2> QED
    BY <2>1, <2>2 DEF ListedPages
<1>3. /\ OwnPages(RecordsOn(view, c), c)
      /\ Unlinked(rootInMemory) /\ \A t \in RecordsOn(view, c) : Unlinked(t.heap)
  BY DEF TablesInv, ApartInv
<1>4. /\ Once(Links(view))
      /\ \A n : n # NoPage /\ Unlinked(n) => \A p \in DOMAIN Links(view) : Links(view)[p] # n
  BY ViewLinks
<1>5. \A first : \A h \in ChainsFrom(view, first) : first # NoPage /\ IsChain(Links(view), first, h)
  BY <1>1, ChainIs
<1> DEFINE links == Links(view)
<1>6. ASSUME NEW first, NEW g, first # NoPage, IsChain(links, first, g), Unlinked(first),
             NEW other, NEW h, other # NoPage, IsChain(links, other, h), Unlinked(other), first # other
      PROVE  ListedPages(g) \cap ListedPages(h) = {}
  <2>1. /\ NoPage \notin DOMAIN links
        /\ \A p \in DOMAIN links : links[p] # first /\ links[p] # other
        /\ \A p, q \in DOMAIN links : links[p] = links[q] /\ links[p] # NoPage => p = q
    BY <1>4, <1>6 DEF Once
  <2> HIDE DEF links
  <2> QED
    BY <1>6, <2>1, ChainsApart
<1>7. ASSUME NEW t \in RecordsOn(view, c), NEW h \in ChainsFrom(view, t.heap)
      PROVE  ListedPages(h) \cap ListedPages(c) = {}
  <2>1. t.heap # rootInMemory
    BY <1>2, <1>3 DEF OwnPages
  <2> QED
    BY <1>2, <1>3, <1>5, <1>6, <2>1
<1>8. ASSUME NEW s \in RecordsOn(view, c), NEW t \in RecordsOn(view, c), s # t,
             NEW g \in ChainsFrom(view, s.heap), NEW h \in ChainsFrom(view, t.heap)
      PROVE  ListedPages(g) \cap ListedPages(h) = {}
  <2>1. s.heap # t.heap
    BY <1>3, <1>8 DEF OwnPages
  <2> QED
    BY <1>3, <1>5, <1>6, <2>1
<1>9. ASSUME NEW t \in RecordsOn(view, c), NEW h \in ChainsFrom(view, t.heap),
             NEW n, n # NoPage, n # t.heap, Unlinked(n)
      PROVE  n \notin ListedPages(h)
  <2>1. /\ NoPage \notin DOMAIN links /\ IsChain(links, t.heap, h)
        /\ \A p \in DOMAIN links : links[p] # n
    BY <1>4, <1>5, <1>9 DEF Once
  <2> HIDE DEF links
  <2> QED
    BY <1>9, <2>1, NotOnChain
<1>10. QED
  BY <1>7, <1>8, <1>9

-----------------------------------------------------------------------------
(* A declaration joins the catalog.                                        *)

\* What create_table knows when it does.
LEMMA DeclarationNew ==
    ASSUME StoreInv, NEW k \in Catalogs, NEW r \in Declaration, Declares(k, r)
    PROVE  \E c \in Openable(view, rootInMemory) :
             LET tables == RecordsOn(view, c)
                 more == tables \cup {r}
             IN  /\ catalog[k].pages = c /\ catalog[k].tables = tables /\ catalog[k].nextId = NextId(tables)
                 /\ rootOnDisk = rootInMemory
                 /\ more \subseteq Declaration
                 /\ NextId(more) = catalog[k].nextId + 1 /\ NextId(more) \in 1 .. IdLimit
                 /\ UniqueIn(more)
                 /\ \A s, t \in more : s # t => s.heap # t.heap
                 /\ \A t \in more : t.heap \notin ListedPages(c)
                 /\ r \notin safe
<1>1. TypeInv /\ TablesInv /\ CatInv /\ DiskInv
  BY DEF StoreInv
<1>2. /\ catalog[k] # Closed /\ rootOnDisk = rootInMemory
      /\ r.id = catalog[k].nextId /\ Unnamed(r.heap)
      /\ \A t \in catalog[k].tables : t.name # r.name
  BY DEF Declares
<1>3. PICK c \in Openable(view, rootInMemory) : catalog[k] = Opened(c)
  BY <1>1, <1>2 DEF CatInv
<1>4. PICK tables : tables = RecordsOn(view, c)
  OBVIOUS
<1>5. /\ c \in ChainsFrom(view, rootInMemory) /\ tables \subseteq Declaration
      /\ catalog[k].pages = c /\ catalog[k].tables = tables /\ catalog[k].nextId = NextId(tables)
  BY <1>1, <1>3, <1>4, OpenableFacts
<1>6. /\ UniqueIn(tables) /\ (\A s, t \in tables : s # t => s.heap # t.heap)
      /\ (\A t \in tables : t.heap \notin ListedPages(c))
      /\ safe \subseteq tables
  BY <1>1, <1>3, <1>4, <1>5 DEF TablesInv, OwnPages, DiskInv
<1>7. r.heap \notin ListedPages(c) /\ \A t \in tables : t.heap # r.heap
  BY <1>2, <1>4, <1>5 DEF Unnamed
<1>8. /\ NextId(tables \cup {r}) = NextId(tables) + 1 /\ NextId(tables) + 1 \in 1 .. IdLimit
      /\ \A s \in tables : s.id # r.id
  BY <1>2, <1>5, NextIdAdded
<1>9. UniqueIn(tables \cup {r})
  BY <1>2, <1>5, <1>6, <1>8 DEF UniqueIn
<1>10. r \notin safe
  BY <1>6, <1>7
<1>11. QED
  BY <1>2, <1>3, <1>4, <1>5, <1>6, <1>7, <1>8, <1>9, <1>10

HeapsOpen(store, tables) == \A t \in tables : ChainsFrom(store, t.heap) # {}

LEMMA JoinStep ==
    ASSUME OneCatalog, StoreInv, NEW k \in Catalogs, NEW r \in Declaration, Declares(k, r),
           NEW c \in Openable(view, rootInMemory), NEW new,
           view' \in Seq(Image), Len(view') = Len(view), Counted(view)', ApartInv',
           HeapsOpen(view', RecordsOn(view, c) \cup {r}),
           pending' \subseteq DOMAIN view, disk' = disk, kept' = kept,
           UNCHANGED <<header, safe, losses>>, grown' = TRUE, call' = Idle,
           ChainsFrom(view', rootInMemory) = {new},
           RecordsOn(view', new) = RecordsOn(view, c) \cup {r},
           \A t \in RecordsOn(view, c) \cup {r} : t.heap \notin ListedPages(c) => t.heap \notin ListedPages(new),
           catalog' = [catalog EXCEPT ![k] = [pages |-> new, tables |-> @.tables \cup {r},
                                              nextId |-> @.nextId + 1]],
           \A i \in DOMAIN new : Behind(disk[new[i]], new, i)'
    PROVE  CatalogInv'
<1>1. TypeInv /\ LinkInv /\ DiskInv
  BY DEF StoreInv
<1>2. /\ rootInMemory' = rootInMemory /\ rootOnDisk' = rootOnDisk /\ safe' = safe /\ losses' = losses
  BY DEF header
<1>3. PICK tables, more : tables = RecordsOn(view, c) /\ more = tables \cup {r}
  OBVIOUS
<1>4. /\ catalog[k].tables = tables /\ NextId(more) = catalog[k].nextId + 1
      /\ rootOnDisk = rootInMemory /\ more \subseteq Declaration /\ NextId(more) \in 1 .. IdLimit
      /\ UniqueIn(more) /\ (\A s, t \in more : s # t => s.heap # t.heap)
      /\ (\A t \in more : t.heap \notin ListedPages(c))
  <2>1. PICK e \in Openable(view, rootInMemory) :
          /\ catalog[k].tables = RecordsOn(view, e)
          /\ rootOnDisk = rootInMemory
          /\ RecordsOn(view, e) \cup {r} \subseteq Declaration
          /\ NextId(RecordsOn(view, e) \cup {r}) = catalog[k].nextId + 1
          /\ NextId(RecordsOn(view, e) \cup {r}) \in 1 .. IdLimit
          /\ UniqueIn(RecordsOn(view, e) \cup {r})
          /\ \A s, t \in RecordsOn(view, e) \cup {r} : s # t => s.heap # t.heap
          /\ \A t \in RecordsOn(view, e) \cup {r} : t.heap \notin ListedPages(e)
    BY DeclarationNew
  <2>2. e = c
    BY <1>1, OpenableFacts
  <2> QED
    BY <1>3, <2>1, <2>2
<1>5. DOMAIN view' = DOMAIN view /\ view' \in Seq(Image) /\ Len(view') <= MaxPages
  BY <1>1 DEF TypeInv
<1>6. RecordsOn(view', new) = more /\ \A t \in more : t.heap \notin ListedPages(new)
  BY <1>3, <1>4
<1>7. \A t \in more : ChainsFrom(view', t.heap) # {}
  BY <1>3 DEF HeapsOpen
<1>8. Openable(view', rootInMemory) = {new}
  <2>1. \A e : e \in Openable(view', rootInMemory) <=> e = new
    BY <1>4, <1>5, <1>6, <1>7, OpenableIs
  <2> QED
    BY <2>1
<1>9. /\ \A j \in Catalogs : j = k
      /\ catalog'[k] = [pages |-> new, tables |-> more, nextId |-> NextId(more)]
      /\ catalog' \in [Catalogs -> {catalog'[k]}]
  <2>1. catalog \in [Catalogs -> {Closed} \cup CatalogValue] /\ \A j \in Catalogs : j = k
    BY <1>1 DEF TypeInv, OneCatalog
  <2> QED
    BY <1>3, <1>4, <2>1
<1>10. Opened(new)' = catalog'[k]
  BY <1>6, <1>9 DEF Opened
<1>11. catalog'[k] \in CatalogValue
  <2>1. new \in ChainsFrom(view', rootInMemory)
    OBVIOUS
  <2>2. new \in Seq(DOMAIN view')
    BY <1>5, <2>1, ChainIs
  <2>3. new \in Seq(1 .. MaxPages)
    <3> DEFINE D == DOMAIN view'
               E == 1 .. MaxPages
    <3>1. D \subseteq E
      BY <1>1, <1>5, StoreFacts
    <3>2. new \in Seq(D)
      BY <2>2
    <3> HIDE DEF D, E
    <3>3. new \in Seq(E)
      BY <3>1, <3>2
    <3> QED
      BY <3>3 DEF E
  <2> QED
    BY <1>4, <1>9, <2>3 DEF CatalogValue
<1>12. TypeInv'
  BY <1>1, <1>2, <1>5, <1>9, <1>11 DEF TypeInv
<1>13. LinkInv'
  BY <1>1 DEF LinkInv, Counted
<1>14. TablesInv'
  BY <1>2, <1>4, <1>6 DEF TablesInv, OwnPages
<1>15. CatInv' /\ OpenInv'
  BY <1>2, <1>8, <1>9, <1>10 DEF CatInv, OpenInv
<1>16. DiskInv'
  <2>1. safe' \subseteq RecordsOn(view', new)
    BY <1>1, <1>2, <1>3, <1>6 DEF DiskInv
  <2> QED
    BY <1>2, <1>8, <2>1 DEF DiskInv
<1>17. QED
  BY <1>12, <1>13, <1>14, <1>15, <1>16, IdleCall DEF CatalogInv, StoreInv

\* The pages no page may link to once the declaration r is there.
LEMMA JoinHeads ==
    ASSUME StoreInv, NEW k \in Catalogs, NEW r \in Declaration, Declares(k, r),
           NEW c \in Openable(view, rootInMemory), NEW n, n = NoPage \/ (Unnamed(n) /\ n # r.heap)
    PROVE  /\ rootInMemory \in 1 .. MaxPages /\ rootInMemory # n /\ Unlinked(rootInMemory)
           /\ \A t \in RecordsOn(view, c) \cup {r} :
                t.heap \in 1 .. MaxPages /\ t.heap # n /\ Unlinked(t.heap)
<1>1. TypeInv /\ ApartInv
  BY DEF StoreInv
<1>2. /\ c \in ChainsFrom(view, rootInMemory) /\ rootInMemory # NoPage
      /\ RecordsOn(view, c) \subseteq Declaration
  BY <1>1, OpenableFacts
<1>3. n # NoPage => n \notin ListedPages(c) /\ \A t \in RecordsOn(view, c) \cup {r} : t.heap # n
  BY <1>2 DEF Unnamed
<1>4. rootInMemory \in ListedPages(c) /\ rootInMemory \in 1 .. MaxPages
  <2>1. 1 \in 1 .. Len(c) /\ c[1] = rootInMemory /\ \A i \in 1 .. Len(c) : c[i] \in ListedPages(c)
    BY <1>1, <1>2, ChainIs DEF TypeInv
  <2> QED
    BY <1>1, <1>2, <2>1, StoreFacts DEF TypeInv
<1>5. Unlinked(rootInMemory) /\ \A t \in RecordsOn(view, c) : Unlinked(t.heap)
  BY <1>1, <1>2 DEF ApartInv
<1>6. Unlinked(r.heap)
  BY DEF Declares, Unnamed
<1>7. \A t \in RecordsOn(view, c) \cup {r} : t.heap \in 1 .. MaxPages
  BY <1>2 DEF Declaration
<1>8. NoPage \notin 1 .. MaxPages
  BY CatalogAssumption
<1>9. QED
  BY <1>3, <1>4, <1>5, <1>6, <1>7, <1>8

LEMMA InsertRecordStep == OneCatalog /\ CatalogInv /\ InsertRecord => CatalogInv'
<1> SUFFICES ASSUME OneCatalog, CatalogInv, InsertRecord PROVE CatalogInv'
  OBVIOUS
<1>1. PICK k, r : k = call.catalog /\ r = call.record
  OBVIOUS
<1>2. StoreInv /\ TypeInv /\ LinkInv /\ DiskInv /\ Fits(call) /\ call \in Calls /\ call.step = "insert"
  BY DEF CatalogInv, StoreInv, CallInv, Fits, InsertRecord
<1>3. k \in Catalogs /\ r \in Declaration /\ Declares(k, r) /\ view[r.heap] = HeapPage
  BY <1>1, <1>2, CallFacts DEF Fits
<1>4. PICK c \in Openable(view, rootInMemory) : catalog[k].pages = c /\ r \notin safe
  BY <1>2, <1>3, DeclarationNew
<1>5. PICK b \in DOMAIN c :
        /\ Pool!Write(c[b], [view[c[b]] EXCEPT !.records = Append(@, r)])
        /\ catalog' = Registered(k, c)
  BY <1>1, <1>4 DEF InsertRecord
<1>6. PICK p, pg : p = c[b] /\ pg = [view[p] EXCEPT !.records = Append(@, r)]
  OBVIOUS
<1>7. /\ c \in ChainsFrom(view, rootInMemory) /\ ChainsFrom(view, rootInMemory) = {c}
      /\ p \in ListedPages(c) /\ p \in DOMAIN view /\ view[p] \in CatalogPage
  BY <1>2, <1>6, OpenableFacts
<1>8. pg \in CatalogPage /\ Recs(pg) = Recs(view[p]) \cup {r} /\ pg.next = view[p].next
  BY <1>3, <1>6, <1>7, RecordAppended
<1>9. /\ view' = [view EXCEPT ![p] = pg] /\ pending' = pending \cup {p} /\ disk' = disk /\ kept' = kept
      /\ UNCHANGED <<header, safe, losses>> /\ grown' = TRUE /\ call' = Idle
      /\ catalog' = [catalog EXCEPT ![k] = [pages |-> c, tables |-> @.tables \cup {r},
                                            nextId |-> @.nextId + 1]]
  BY <1>1, <1>5, <1>6 DEF InsertRecord, Pool!Write, Registered
<1>10. /\ view' \in Seq(Image) /\ Len(view') = Len(view) /\ DOMAIN view' = DOMAIN view
       /\ view'[p] = pg /\ \A q \in DOMAIN view : q # p => view'[q] = view[q]
  <2>1. pg \in Image /\ view \in Seq(Image)
    BY <1>2, <1>8, NotPages DEF TypeInv
  <2> QED
    BY <1>7, <1>9, <2>1, PageReplaced
<1>11. \A q \in DOMAIN view : /\ view'[q] \in CatalogPage <=> view[q] \in CatalogPage
                              /\ view'[q].next = view[q].next
                              /\ Recs(view[q]) \subseteq Recs(view'[q])
                              /\ Recs(view'[q]) \subseteq Recs(view[q]) \cup {r}
  BY <1>7, <1>8, <1>10
<1>12. /\ ChainsFrom(view', rootInMemory) = {c}
       /\ \A first : ChainsFrom(view', first) = ChainsFrom(view, first)
  <2>1. Links(view') = Links(view)
    BY <1>2, <1>10, <1>11, SameLinks DEF TypeInv
  <2> QED
    BY <1>7, <2>1 DEF ChainsFrom
<1>13. \A q \in ListedPages(c) : q \in DOMAIN view
  BY <1>2, OpenableFacts
<1>14. RecordsOn(view', c) = RecordsOn(view, c) \cup {r}
  <2>1. \A t : t \in RecordsOn(view', c) <=> t \in RecordsOn(view, c) \/ t = r
    <3>1. r \in Recs(view'[p])
      BY <1>8, <1>10
    <3> QED
      BY <1>7, <1>11, <1>13, <3>1, RecordsAre
  <2> QED
    BY <2>1
<1>15. Counted(view)'
  <2>1. r.heap \in 1 .. kept
    BY <1>3 DEF Declares, Unnamed
  <2> QED
    BY <1>2, <1>9, <1>10, <1>11, <2>1 DEF LinkInv, Counted
<1>16. ASSUME NEW i \in DOMAIN c PROVE Behind(disk[c[i]], c, i)'
  <2>1. Behind(disk[c[i]], c, i)
    BY <1>2 DEF DiskInv
  <2>2. c[i] \in DOMAIN view /\ \A j \in i + 1 .. Len(c) : c[j] \in DOMAIN view
    <3>1. c \in Seq(DOMAIN view) /\ DOMAIN c = 1 .. Len(c)
      BY <1>2, <1>7, ChainIs DEF TypeInv
    <3>2. i + 1 .. Len(c) \subseteq DOMAIN c
      BY <3>1
    <3> QED
      BY <3>1, <3>2
  <2>3. \A q \in DOMAIN view : safe \cap Recs(view'[q]) = safe \cap Recs(view[q])
    BY <1>4, <1>11
  <2> QED
    BY <1>9, <1>11, <2>1, <2>2, <2>3 DEF Behind
<1>17. pending' \subseteq DOMAIN view
  BY <1>2, <1>7, <1>9 DEF TypeInv
<1>18. /\ c \in Openable(view, rootInMemory)
       /\ \A t \in RecordsOn(view, c) \cup {r} : t.heap \notin ListedPages(c) => t.heap \notin ListedPages(c)
  OBVIOUS
<1>19. HeapsOpen(view', RecordsOn(view, c) \cup {r})
  <2>1. \A t \in RecordsOn(view, c) : ChainsFrom(view, t.heap) # {}
    BY <1>2, OpenableFacts
  <2>2. ChainsFrom(view, r.heap) # {}
    <3>1. r.heap \in DOMAIN view /\ view \in Seq(Image) /\ Len(view) <= MaxPages
      BY <1>2, <1>3, StoreFacts DEF Declares, Unnamed, TypeInv
    <3> QED
      BY <1>3, <3>1, EmptyCatalog
  <2> QED
    BY <1>12, <2>1, <2>2 DEF HeapsOpen
<1>20. ApartInv'
  <2>1. NewLink(NoPage, NoPage)
    BY <1>9, <1>10, <1>11 DEF LinksTo, NewLink
  <2>2. /\ rootInMemory \in 1 .. MaxPages /\ rootInMemory # NoPage /\ Unlinked(rootInMemory)
        /\ \A t \in RecordsOn(view, c) \cup {r} :
             t.heap \in 1 .. MaxPages /\ t.heap # NoPage /\ Unlinked(t.heap)
    BY <1>2, <1>3, JoinHeads
  <2>3. rootInMemory' = rootInMemory
    BY <1>9 DEF header
  <2>4. NewHeads(NoPage)
    BY <1>12, <1>14, <2>2, <2>3 DEF NewHeads
  <2>5. TypeInv /\ ApartInv
    BY <1>2 DEF StoreInv
  <2> QED
    BY <2>1, <2>4, <2>5, ApartStep
<1>21. ChainsFrom(view', rootInMemory) = {c}
  BY <1>12
<1>22. StoreInv /\ k \in Catalogs /\ r \in Declaration /\ Declares(k, r)
  BY <1>2, <1>3
<1>23. view' \in Seq(Image) /\ Len(view') = Len(view)
  BY <1>10
<1>24. QED
  BY ONLY OneCatalog, <1>9, <1>14, <1>15, <1>16, <1>17, <1>18, <1>19, <1>20, <1>21, <1>22, <1>23, JoinStep

\* Page n joins the chain c behind its last page.
Extends(new, c, n, last) == new = Append(c, n) /\ last = c[Len(c)]

LEMMA LinkedChain ==
    ASSUME TypeInv, NEW c \in Openable(view, rootInMemory),
           NEW n \in DOMAIN view, view[n] \in CatalogPage, view[n].next = NoPage, n \notin ListedPages(c),
           NEW new, NEW last, Extends(new, c, n, last),
           view' \in Seq(Image), Len(view') = Len(view), DOMAIN view' = DOMAIN view,
           view'[last] \in CatalogPage, view'[last].next = n,
           \A q \in DOMAIN view : q # last => view'[q] = view[q]
    PROVE  /\ ChainsFrom(view', rootInMemory) = {new}
           /\ \A p : p \in ListedPages(new) <=> p \in ListedPages(c) \/ p = n
           /\ Len(c) \in Nat /\ Len(c) # 0 /\ Len(new) = Len(c) + 1 /\ DOMAIN new = 1 .. Len(c) + 1
           /\ new[Len(c) + 1] = n /\ \A i \in 1 .. Len(c) : new[i] = c[i] /\ (i < Len(c) => c[i] # last)
<1>1. view \in Seq(Image) /\ Len(view) <= MaxPages /\ Len(view') <= MaxPages
  BY DEF TypeInv
<1>2. c \in ChainsFrom(view, rootInMemory)
  BY OpenableFacts
<1>3. /\ rootInMemory # NoPage /\ IsChain(Links(view), rootInMemory, c)
      /\ c \in Seq(DOMAIN view) /\ Len(c) \in Nat /\ Len(c) # 0 /\ DOMAIN c = 1 .. Len(c)
      /\ \A p \in ListedPages(c) : p \in DOMAIN view /\ view[p] \in CatalogPage
  BY <1>1, <1>2, ChainIs
<1>4. PICK m : m = Len(c)
  OBVIOUS
<1>5. m \in Nat /\ m # 0 /\ m \in 1 .. Len(c) /\ DOMAIN c = 1 .. m /\ last = c[m] /\ last \in ListedPages(c)
  BY <1>3, <1>4 DEF ListedPages, Extends
<1> DEFINE old == Links(view)
           links == Links(view')
<1>6. /\ DOMAIN old = {p \in DOMAIN view : view[p] \in CatalogPage}
      /\ \A p \in DOMAIN old : old[p] = view[p].next
      /\ DOMAIN links = {p \in DOMAIN view' : view'[p] \in CatalogPage}
      /\ \A p \in DOMAIN links : links[p] = view'[p].next
      /\ NoPage \notin DOMAIN old
  BY <1>1, ReadablePages, ChainsThere
<1> HIDE DEF old, links
<1>7. n \in DOMAIN links /\ links[n] = NoPage /\ last \in DOMAIN links /\ links[last] = n
  BY <1>3, <1>5, <1>6
<1>8. \A p \in ListedPages(c) \ {last} : p \in DOMAIN links /\ links[p] = old[p]
  BY <1>3, <1>6
<1>9. SubSeq(c, 1, m) = c
  BY <1>3, <1>4, <1>5, WholeSeq
<1>10. IsChain(links, rootInMemory, new)
  <2>1. IsChain(links, rootInMemory, Append(SubSeq(c, 1, m), n))
    <3>1. IsChain(old, rootInMemory, c)
      BY <1>3 DEF old
    <3>2. /\ c[m] \in DOMAIN links /\ links[c[m]] = n
          /\ \A p \in ListedPages(c) \ {c[m]} : p \in DOMAIN links /\ links[p] = old[p]
      BY <1>5, <1>7, <1>8
    <3> QED
      BY ONLY <1>5, <1>6, <1>7, <3>1, <3>2, ChainRelinked
  <2> QED
    BY <1>9, <2>1 DEF Extends
<1>11. ChainsFrom(view', rootInMemory) = {new}
  BY <1>1, <1>3, <1>10, ChainsThere DEF links
<1>12. /\ Len(new) = m + 1 /\ DOMAIN new = 1 .. m + 1 /\ new[m + 1] = n
       /\ \A i \in 1 .. m : new[i] = c[i]
  <2>1. n \in DOMAIN view /\ c \in Seq(DOMAIN view)
    BY <1>3
  <2> QED
    BY <1>4, <2>1, AppendToSeq DEF Extends
<1>13. ASSUME NEW p PROVE p \in ListedPages(new) <=> p \in ListedPages(c) \/ p = n
  <2>1. \A i \in 1 .. m + 1 : i \in 1 .. m \/ i = m + 1
    BY <1>5
  <2>2. m + 1 \in 1 .. m + 1 /\ \A i \in 1 .. m : i \in 1 .. m + 1
    BY <1>5
  <2>3. /\ p \in ListedPages(new) <=> \E i \in 1 .. m + 1 : p = new[i]
        /\ p \in ListedPages(c) <=> \E i \in 1 .. m : p = c[i]
    BY <1>5, <1>12 DEF ListedPages
  <2> QED
    BY <1>12, <2>1, <2>2, <2>3
<1>14. \A i \in 1 .. m : i < m => c[i] # last
  <2>1. IsChain(old, rootInMemory, c) /\ NoPage \notin DOMAIN old
    BY <1>3, <1>6 DEF old
  <2>2. ASSUME NEW i \in 1 .. m, i < m PROVE c[i] # c[m]
    <3>1. i \in 1 .. Len(c) /\ m \in 1 .. Len(c)
      BY <1>4, <1>5
    <3> QED
      BY ONLY <2>1, <2>2, <3>1, ChainsDoNotRepeat
  <2> QED
    BY <1>5, <2>2
<1>15. QED
  BY <1>4, <1>5, <1>11, <1>12, <1>13, <1>14

LEMMA AppendLinkStep == OneCatalog /\ CatalogInv /\ AppendLink => CatalogInv'
<1> SUFFICES ASSUME OneCatalog, CatalogInv, AppendLink PROVE CatalogInv'
  OBVIOUS
<1>1. PICK k, r, n : k = call.catalog /\ r = call.record /\ n = call.page
  OBVIOUS
<1>2. StoreInv /\ TypeInv /\ LinkInv /\ DiskInv /\ Fits(call) /\ call \in Calls /\ call.step = "link"
  BY DEF CatalogInv, StoreInv, CallInv, Fits, AppendLink
<1>3. /\ k \in Catalogs /\ r \in Declaration /\ Declares(k, r) /\ view[r.heap] = HeapPage
      /\ Unnamed(n) /\ n # r.heap /\ view[n] = FilledPage(r) /\ disk[n] \in {Zero, Torn, view[n]}
  BY <1>1, <1>2, CallFacts DEF Fits
<1>4. PICK c \in Openable(view, rootInMemory) : catalog[k].pages = c /\ r \notin safe
  BY <1>2, <1>3, DeclarationNew
<1>5. PICK new, last : new = Append(c, n) /\ last = c[Len(c)]
  OBVIOUS
<1>6. PICK pg : pg = [view[last] EXCEPT !.next = n]
  OBVIOUS
<1>7. /\ view' = [view EXCEPT ![last] = pg] /\ pending' = pending \cup {last} /\ disk' = disk /\ kept' = kept
      /\ UNCHANGED <<header, safe, losses>> /\ grown' = TRUE /\ call' = Idle
      /\ catalog' = [catalog EXCEPT ![k] = [pages |-> new, tables |-> @.tables \cup {r},
                                            nextId |-> @.nextId + 1]]
  BY <1>1, <1>4, <1>5, <1>6 DEF AppendLink, Pool!Write, LinkTo, Registered
<1>8. /\ c \in ChainsFrom(view, rootInMemory)
      /\ \A q \in ListedPages(c) : q \in DOMAIN view /\ view[q] \in CatalogPage
      /\ c \in Seq(DOMAIN view) /\ DOMAIN c = 1 .. Len(c) /\ Len(c) \in 1 .. Len(c)
  <2>1. c \in ChainsFrom(view, rootInMemory) /\ view \in Seq(Image) /\ Len(view) <= MaxPages
    BY <1>2, OpenableFacts DEF TypeInv
  <2>2. /\ c \in Seq(DOMAIN view) /\ DOMAIN c = 1 .. Len(c) /\ Len(c) \in Nat /\ Len(c) # 0
        /\ \A q \in ListedPages(c) : q \in DOMAIN view /\ view[q] \in CatalogPage
    BY <2>1, ChainIs
  <2> QED
    BY <2>1, <2>2
<1>9. last \in ListedPages(c) /\ last \in DOMAIN view /\ view[last] \in CatalogPage
  <2>1. last \in ListedPages(c)
    BY <1>5, <1>8 DEF ListedPages
  <2> QED
    BY <1>8, <2>1
<1>10. /\ n \in 1 .. kept /\ n \in DOMAIN view /\ n \in 1 .. MaxPages /\ n \notin ListedPages(c)
       /\ (\A t \in RecordsOn(view, c) : t.heap # n) /\ r.heap \in 1 .. kept
  BY <1>2, <1>3, <1>8, StoreFacts DEF Unnamed, Declares
<1>11. view[n] \in CatalogPage /\ view[n].next = NoPage /\ Recs(view[n]) = {r}
  BY <1>3, FilledCatalogPage
<1>12. pg \in CatalogPage /\ Recs(pg) = Recs(view[last]) /\ pg.next = n
  BY <1>6, <1>9, <1>10, PageRelinked
<1>13. /\ view' \in Seq(Image) /\ Len(view') = Len(view) /\ DOMAIN view' = DOMAIN view
       /\ view'[last] = pg /\ \A q \in DOMAIN view : q # last => view'[q] = view[q]
  <2>1. pg \in Image /\ view \in Seq(Image)
    BY <1>2, <1>12, NotPages DEF TypeInv
  <2> QED
    BY <1>7, <1>9, <2>1, PageReplaced
<1>14. \A q \in DOMAIN view : /\ view'[q] \in CatalogPage <=> view[q] \in CatalogPage
                              /\ Recs(view'[q]) = Recs(view[q])
  BY <1>9, <1>12, <1>13
<1>15. /\ ChainsFrom(view', rootInMemory) = {new}
       /\ \A p : p \in ListedPages(new) <=> p \in ListedPages(c) \/ p = n
       /\ Len(c) \in Nat /\ Len(c) # 0 /\ Len(new) = Len(c) + 1 /\ DOMAIN new = 1 .. Len(c) + 1
       /\ new[Len(c) + 1] = n /\ \A i \in 1 .. Len(c) : new[i] = c[i] /\ (i < Len(c) => c[i] # last)
  <2>1. TypeInv
    BY <1>2
  <2>2. /\ c \in Openable(view, rootInMemory)
        /\ n \in DOMAIN view /\ view[n] \in CatalogPage /\ view[n].next = NoPage /\ n \notin ListedPages(c)
    BY <1>10, <1>11
  <2>3. /\ view' \in Seq(Image) /\ Len(view') = Len(view) /\ DOMAIN view' = DOMAIN view
        /\ view'[last] \in CatalogPage /\ view'[last].next = n
        /\ \A q \in DOMAIN view : q # last => view'[q] = view[q]
    BY <1>12, <1>13
  <2>4. Extends(new, c, n, last)
    BY <1>5 DEF Extends
  <2> QED
    BY ONLY <2>1, <2>2, <2>3, <2>4, LinkedChain
<1>16. RecordsOn(view', new) = RecordsOn(view, c) \cup {r}
  <2>1. \A p \in ListedPages(new) : Recs(view'[p]) = Recs(view[p])
    BY <1>8, <1>10, <1>14, <1>15
  <2>2. \A t : t \in RecordsOn(view', new) <=> t \in RecordsOn(view, c) \/ t = r
    BY <1>11, <1>15, <2>1, RecordsAre
  <2> QED
    BY <2>2
<1>17. Counted(view)'
  BY <1>2, <1>7, <1>10, <1>12, <1>13, <1>14 DEF LinkInv, Counted
<1>18. ASSUME NEW i \in DOMAIN new PROVE Behind(disk[new[i]], new, i)'
  <2>1. PICK m : m = Len(c)
    OBVIOUS
  <2>2. /\ m \in Nat /\ Len(new) = m + 1 /\ DOMAIN new = 1 .. m + 1 /\ DOMAIN c = 1 .. m
        /\ new[m + 1] = n /\ last = c[m]
        /\ \A j \in 1 .. m : new[j] = c[j] /\ (j < m => c[j] # last)
    BY <1>5, <1>8, <1>15, <2>1
  <2>3. \A j \in 1 .. m : c[j] \in DOMAIN view /\ view[c[j]] \in CatalogPage
    BY <1>8, <2>2 DEF ListedPages
  <2>4. safe \cap Recs(view'[n]) = {}
    BY <1>4, <1>10, <1>11, <1>14
  <2>5. CASE i = m + 1
    <3>1. ~(\E j \in i + 1 .. Len(new) : TRUE)
      BY <2>2, <2>5
    <3>2. view'[n] = view[n] /\ new[i] = n
      BY <1>9, <1>10, <1>13, <2>2, <2>5
    <3> QED
      BY <1>3, <1>7, <1>11, <2>4, <3>1, <3>2, NotPages DEF Behind
  <2>6. CASE i \in 1 .. m
    <3>1. /\ new[i] = c[i] /\ c[i] \in DOMAIN view
          /\ Recs(view'[c[i]]) = Recs(view[c[i]])
          /\ view[c[i]].next = NoPage \/ view'[c[i]].next = view[c[i]].next
      <4>1. i = m => view[c[i]].next = NoPage
        <5>1. c \in ChainsFrom(view, rootInMemory) /\ view \in Seq(Image) /\ Len(view) <= MaxPages
          BY <1>2, <1>8 DEF TypeInv
        <5>2. \A j \in 1 .. Len(c) : j = Len(c) => view[c[j]].next = NoPage
          BY <5>1, ChainIs
        <5> QED
          BY <2>1, <2>6, <5>2
      <4>2. i < m => view'[c[i]] = view[c[i]]
        BY <1>13, <2>2, <2>3, <2>6
      <4>3. i = m \/ i < m
        BY <2>2, <2>6
      <4> QED
        BY <1>14, <2>2, <2>3, <2>6, <4>1, <4>2, <4>3
    <3>2. Behind(disk[c[i]], c, i)
      BY <1>2, <2>2, <2>6 DEF DiskInv
    <3>3. ASSUME NEW j \in i + 1 .. Len(new), safe \cap Recs(view'[new[j]]) # {}
          PROVE  j \in i + 1 .. Len(c) /\ safe \cap Recs(view[c[j]]) # {} /\ view'[c[i]] = view[c[i]]
      <4>1. j \in 1 .. m + 1 /\ j # m + 1
        BY <2>2, <2>4, <2>6, <3>3
      <4>2. j \in 1 .. m /\ i < m /\ j \in i + 1 .. Len(c)
        BY <2>1, <2>2, <2>6, <4>1
      <4> QED
        BY <1>13, <1>14, <2>2, <2>3, <2>6, <3>3, <4>2
    <3> QED
      BY <1>7, <3>1, <3>2, <3>3 DEF Behind
  <2>7. i = m + 1 \/ i \in 1 .. m
    BY <2>2
  <2> QED
    BY <2>5, <2>6, <2>7
<1>19. pending' \subseteq DOMAIN view
  BY <1>2, <1>7, <1>9 DEF TypeInv
<1>20. /\ c \in Openable(view, rootInMemory)
       /\ \A t \in RecordsOn(view, c) \cup {r} : t.heap \notin ListedPages(c) => t.heap \notin ListedPages(new)
  BY <1>3, <1>10, <1>14, <1>15
<1>21. ChainsFrom(view', rootInMemory) = {new}
  BY <1>15
<1>22. TypeInv /\ ApartInv /\ TablesInv /\ view \in Seq(Image) /\ Len(view) <= MaxPages
  BY <1>2 DEF StoreInv, TypeInv
<1>23. HeapsOpen(view', RecordsOn(view, c) \cup {r})
  <2>1. ASSUME NEW t \in RecordsOn(view, c) PROVE ChainsFrom(view', t.heap) # {}
    <3>1. PICK h \in ChainsFrom(view, t.heap) : TRUE
      BY <1>22, OpenableFacts
    <3>2. last \notin ListedPages(h)
      BY <1>8, <1>9, <1>22, <3>1, TablesApart
    <3>3. \A p \in ListedPages(h) : p \in DOMAIN view /\ view[p] \in CatalogPage
      BY <1>22, ChainIs
    <3>4. \A p \in ListedPages(h) : p \in DOMAIN view' /\ view'[p] \in CatalogPage /\ view'[p].next = view[p].next
      BY <1>13, <3>2, <3>3
    <3>5. view' \in Seq(Image) /\ Len(view') <= MaxPages
      BY <1>13, <1>22
    <3>6. ChainsFrom(view', t.heap) = {h}
      BY <1>22, <3>1, <3>4, <3>5, ChainStays
    <3> QED
      BY <3>6
  <2>2. ChainsFrom(view', r.heap) # {}
    <3>1. r.heap \in DOMAIN view' /\ view'[r.heap] = HeapPage
      <4>1. r.heap \in DOMAIN view /\ r.heap # last
        BY <1>2, <1>3, <1>8, <1>9, <1>10, StoreFacts DEF Declares, Unnamed
      <4> QED
        BY <1>3, <1>13, <4>1
    <3>2. view' \in Seq(Image) /\ Len(view') <= MaxPages
      BY <1>13, <1>22
    <3> QED
      BY <3>1, <3>2, EmptyCatalog
  <2> QED
    BY <2>1, <2>2 DEF HeapsOpen
<1>24. ApartInv'
  <2>1. NewLink(last, n)
    <3>1. Unlinked(n)
      BY <1>3 DEF Unnamed
    <3> QED
      BY <1>7, <1>12, <1>13, <3>1 DEF LinksTo, NewLink
  <2>2. /\ rootInMemory \in 1 .. MaxPages /\ rootInMemory # n /\ Unlinked(rootInMemory)
        /\ \A t \in RecordsOn(view, c) \cup {r} :
             t.heap \in 1 .. MaxPages /\ t.heap # n /\ Unlinked(t.heap)
    BY <1>2, <1>3, JoinHeads
  <2>3. rootInMemory' = rootInMemory
    BY <1>7 DEF header
  <2>4. NewHeads(n)
    BY <1>16, <1>21, <2>2, <2>3 DEF NewHeads
  <2> QED
    BY <1>22, <2>1, <2>4, ApartStep
<1>25. QED
  BY ONLY OneCatalog, <1>2, <1>3, <1>7, <1>13, <1>16, <1>17, <1>18, <1>19, <1>20, <1>21, <1>23, <1>24, JoinStep

-----------------------------------------------------------------------------
(* A page joins a table's heap, which may cut others off.                  *)

\* The chain of the table goes as far as the page p, then to page n.
LEMMA TableRelinked ==
    ASSUME NEW s \in Seq(Image), Len(s) <= MaxPages, NEW t \in Seq(Image), Len(t) <= MaxPages,
           NEW first, NEW h \in ChainsFrom(s, first), NEW p \in ListedPages(h),
           NEW n, n \in DOMAIN t, t[n] \in CatalogPage, t[n].next = NoPage,
           p \in DOMAIN t, t[p] \in CatalogPage, t[p].next = n,
           \A q \in ListedPages(h) \ {p} : q \in DOMAIN t /\ t[q] = s[q]
    PROVE  ChainsFrom(t, first) # {}
<1>1. /\ first # NoPage /\ IsChain(Links(s), first, h) /\ DOMAIN h = 1 .. Len(h)
      /\ \A q \in ListedPages(h) : q \in DOMAIN s /\ s[q] \in CatalogPage
      /\ NoPage \notin DOMAIN Links(s)
  BY ChainIs, ChainsThere
<1>2. PICK i \in 1 .. Len(h) : p = h[i]
  BY <1>1 DEF ListedPages
<1>3. /\ \A q : q \in DOMAIN Links(t) <=> q \in DOMAIN t /\ t[q] \in CatalogPage
      /\ \A q \in DOMAIN Links(t) : Links(t)[q] = t[q].next
  BY ReadablePages
<1>4. /\ \A q : q \in DOMAIN Links(s) <=> q \in DOMAIN s /\ s[q] \in CatalogPage
      /\ \A q \in DOMAIN Links(s) : Links(s)[q] = s[q].next
  BY ReadablePages
<1>5. \A q \in ListedPages(h) \ {h[i]} : q \in DOMAIN Links(t) /\ Links(t)[q] = Links(s)[q]
  BY <1>1, <1>2, <1>3, <1>4
<1>6. /\ n \in DOMAIN Links(t) /\ Links(t)[n] = NoPage
      /\ h[i] \in DOMAIN Links(t) /\ Links(t)[h[i]] = n
  BY <1>2, <1>3
<1> DEFINE old == Links(s)
           links == Links(t)
           more == Append(SubSeq(h, 1, i), n)
<1>7. IsChain(links, first, more)
  <2>1. /\ NoPage \notin DOMAIN old /\ IsChain(old, first, h) /\ i \in 1 .. Len(h)
        /\ n \in DOMAIN links /\ links[n] = NoPage /\ h[i] \in DOMAIN links /\ links[h[i]] = n
        /\ \A q \in ListedPages(h) \ {h[i]} : q \in DOMAIN links /\ links[q] = old[q]
    BY <1>1, <1>5, <1>6
  <2> HIDE DEF old, links
  <2> QED
    BY ONLY <2>1, ChainRelinked
<1> HIDE DEF more
<1>8. ChainsFrom(t, first) = {more}
  BY <1>1, <1>7, ChainsThere
<1>9. QED
  BY <1>8

LEMMA ExtendTableStep == CatalogInv /\ ExtendTable => CatalogInv'
<1> SUFFICES ASSUME CatalogInv, ExtendTable PROVE CatalogInv'
  OBVIOUS
<1>1. PICK k, r, n : k = call.catalog /\ r = call.record /\ n = call.page
  OBVIOUS
<1>2. /\ TypeInv /\ LinkInv /\ ApartInv /\ TablesInv /\ CatInv /\ DiskInv
      /\ Fits(call) /\ call \in Calls /\ call.step = "extend"
  BY DEF CatalogInv, StoreInv, CallInv, Fits, ExtendTable
<1>3. k \in Catalogs /\ r \in Declaration /\ Declared(k, r) /\ Unnamed(n) /\ view[n] = HeapPage
  BY <1>1, <1>2, CallFacts DEF Fits
<1>4. PICK c \in Openable(view, rootInMemory) : catalog[k] = Opened(c)
  BY <1>2, <1>3 DEF CatInv, Declared
<1>5. /\ c \in ChainsFrom(view, rootInMemory) /\ rootInMemory # NoPage
      /\ Openable(view, rootInMemory) = {c} /\ ChainsFrom(view, rootInMemory) = {c}
      /\ RecordsOn(view, c) \subseteq Declaration /\ UniqueIn(RecordsOn(view, c))
      /\ \A t \in RecordsOn(view, c) : ChainsFrom(view, t.heap) # {}
      /\ \A p \in ListedPages(c) : p \in DOMAIN view /\ view[p] \in CatalogPage
      /\ \A i \in DOMAIN c : c[i] \in ListedPages(c)
      /\ Opened(c).tables = RecordsOn(view, c)
  BY <1>2, OpenableFacts
<1>6. r \in RecordsOn(view, c)
  BY <1>3, <1>4, <1>5 DEF Declared
<1>7. /\ view \in Seq(Image) /\ Len(view) <= MaxPages
      /\ DOMAIN disk = DOMAIN view /\ 1 .. kept \subseteq DOMAIN view /\ 1 .. kept \subseteq 1 .. MaxPages
      /\ NoPage \notin 1 .. kept /\ NoPage \notin 1 .. MaxPages
  BY <1>2, StoreFacts, CatalogAssumption DEF TypeInv
<1>8. /\ n \in 1 .. kept /\ n \in DOMAIN view /\ n \in 1 .. MaxPages /\ n # NoPage /\ Unlinked(n)
      /\ n \notin ListedPages(c) /\ \A t \in RecordsOn(view, c) : t.heap # n
      /\ view[n] \in CatalogPage /\ view[n].next = NoPage
  BY <1>3, <1>5, <1>7, EmptyCatalogPage DEF Unnamed
<1>9. PICK h \in ChainsFrom(view, r.heap) : \E p \in ListedPages(h) : Pool!Write(p, LinkTo(p, n))
  <2>1. r.heap # NoPage
    BY <1>3, <1>7 DEF Declaration
  <2> QED
    BY <1>1, <2>1 DEF ExtendTable, ChainsFrom
<1>10. PICK p \in ListedPages(h) : Pool!Write(p, LinkTo(p, n))
  BY <1>9
<1>11. p \in DOMAIN view /\ view[p] \in CatalogPage
  BY <1>7, ChainIs
<1>12. PICK pg : pg = [view[p] EXCEPT !.next = n]
  OBVIOUS
<1>13. pg \in CatalogPage /\ Recs(pg) = Recs(view[p]) /\ pg.next = n
  BY <1>8, <1>11, <1>12, PageRelinked
<1>14. /\ view' = [view EXCEPT ![p] = pg] /\ pending' = pending \cup {p} /\ disk' = disk /\ kept' = kept
       /\ rootInMemory' = rootInMemory /\ rootOnDisk' = rootOnDisk
       /\ catalog' = catalog /\ safe' = safe /\ losses' = losses /\ grown' = TRUE /\ call' = Idle
  BY <1>10, <1>12 DEF ExtendTable, Pool!Write, LinkTo, header
<1>15. /\ view' \in Seq(Image) /\ Len(view') = Len(view) /\ DOMAIN view' = DOMAIN view
       /\ view'[p] = pg /\ \A q \in DOMAIN view : q # p => view'[q] = view[q]
  <2>1. pg \in Image
    BY <1>13, NotPages
  <2> QED
    BY <1>7, <1>11, <1>14, <2>1, PageReplaced
<1>16. p \notin ListedPages(c) /\ n \notin ListedPages(h) /\ n # p
  <2>1. p \notin ListedPages(c)
    BY <1>2, <1>5, <1>6, TablesApart
  <2>2. n \notin ListedPages(h)
    BY <1>2, <1>5, <1>6, <1>8, TablesApart
  <2> QED
    BY <2>1, <2>2
<1>17. ChainsFrom(view', rootInMemory) = {c} /\ \A q \in ListedPages(c) : view'[q] = view[q]
  <2>1. \A q \in ListedPages(c) : q \in DOMAIN view' /\ view'[q] = view[q]
    BY <1>5, <1>15, <1>16
  <2>2. \A q \in ListedPages(c) : q \in DOMAIN view' /\ view'[q] \in CatalogPage /\ view'[q].next = view[q].next
    BY <1>5, <2>1
  <2>3. view' \in Seq(Image) /\ Len(view') <= MaxPages
    BY <1>7, <1>15
  <2>4. c \in ChainsFrom(view, rootInMemory) /\ view \in Seq(Image) /\ Len(view) <= MaxPages
    BY <1>5, <1>7
  <2>5. ChainsFrom(view', rootInMemory) = {c}
    BY ONLY <2>2, <2>3, <2>4, ChainStays
  <2> QED
    BY <2>1, <2>5
<1>18. RecordsOn(view', c) = RecordsOn(view, c)
  <2>1. \A t : t \in RecordsOn(view', c) <=> t \in RecordsOn(view, c)
    BY <1>17, RecordsAre
  <2> QED
    BY <2>1
<1>19. ASSUME NEW t \in RecordsOn(view, c) PROVE ChainsFrom(view', t.heap) # {}
  <2>1. view' \in Seq(Image) /\ Len(view') <= MaxPages
    BY <1>7, <1>15
  <2>2. CASE t = r
    <3>1. /\ n \in DOMAIN view' /\ view'[n] \in CatalogPage /\ view'[n].next = NoPage
          /\ p \in DOMAIN view' /\ view'[p] \in CatalogPage /\ view'[p].next = n
      BY <1>8, <1>11, <1>13, <1>15, <1>16
    <3>2. \A q \in ListedPages(h) : q \in DOMAIN view
      BY <1>7, ChainIs
    <3>3. \A q \in ListedPages(h) \ {p} : q \in DOMAIN view' /\ view'[q] = view[q]
      BY <1>15, <3>2
    <3>4. ChainsFrom(view', r.heap) # {}
      BY <1>7, <2>1, <3>1, <3>3, TableRelinked
    <3> QED
      BY <2>2, <3>4
  <2>3. CASE t # r
    <3>1. PICK g \in ChainsFrom(view, t.heap) : TRUE
      BY <1>5
    <3>2. p \notin ListedPages(g)
      BY <1>2, <1>5, <1>6, <2>3, TablesApart
    <3>3. \A q \in ListedPages(g) : q \in DOMAIN view /\ view[q] \in CatalogPage
      BY <1>7, ChainIs
    <3>4. \A q \in ListedPages(g) : q \in DOMAIN view' /\ view'[q] \in CatalogPage /\ view'[q].next = view[q].next
      BY <1>15, <3>2, <3>3
    <3>5. ChainsFrom(view', t.heap) = {g}
      BY <1>7, <2>1, <3>1, <3>4, ChainStays
    <3> QED
      BY <3>5
  <2> QED
    BY <2>2, <2>3
<1>20. Openable(view', rootInMemory) = {c}
  <2>1. view' \in Seq(Image) /\ Len(view') <= MaxPages
    BY <1>7, <1>15
  <2>2. \A e : e \in Openable(view', rootInMemory) <=> e = c
    BY <1>5, <1>17, <1>18, <1>19, <2>1, OpenableIs
  <2> QED
    BY <2>2
<1>21. TypeInv'
  <2>1. pending' \subseteq DOMAIN view'
    BY <1>2, <1>11, <1>14, <1>15 DEF TypeInv
  <2> QED
    BY <1>2, <1>14, <1>15, <2>1 DEF TypeInv
<1>22. LinkInv'
  BY <1>2, <1>8, <1>11, <1>13, <1>14, <1>15 DEF LinkInv, Counted
<1>23. ApartInv'
  <2>1. NewLink(p, n)
    BY <1>8, <1>13, <1>14, <1>15 DEF LinksTo, NewLink
  <2>2. rootInMemory \in ListedPages(c) /\ rootInMemory \in 1 .. MaxPages
    <3>1. c \in ChainsFrom(view, rootInMemory) /\ view \in Seq(Image) /\ Len(view) <= MaxPages
      BY <1>5, <1>7
    <3>2. /\ Len(c) \in Nat /\ Len(c) # 0 /\ c[1] = rootInMemory
          /\ \A i \in 1 .. Len(c) : c[i] \in ListedPages(c)
      BY ONLY <3>1, ChainIs
    <3>3. 1 \in 1 .. Len(c)
      BY <3>2
    <3> QED
      BY <1>2, <1>5, <1>7, <3>2, <3>3 DEF TypeInv
  <2>3. Unlinked(rootInMemory) /\ \A t \in RecordsOn(view, c) : Unlinked(t.heap)
    BY <1>2, <1>5 DEF ApartInv
  <2>4. NewHeads(n)
    <3>1. \A t \in RecordsOn(view, c) : t.heap \in 1 .. MaxPages
      BY <1>5 DEF Declaration
    <3>2. rootInMemory # n
      BY <1>8, <2>2
    <3> QED
      BY <1>8, <1>14, <1>17, <1>18, <2>2, <2>3, <3>1, <3>2 DEF NewHeads
  <2> QED
    BY <1>2, <2>1, <2>4, ApartStep
<1>24. TablesInv'
  BY <1>2, <1>5, <1>14, <1>17, <1>18 DEF TablesInv
<1>25. CatInv'
  <2>1. Opened(c)' = Opened(c)
    BY <1>18 DEF Opened
  <2> QED
    BY <1>2, <1>5, <1>14, <1>20, <2>1 DEF CatInv
<1>26. OpenInv'
  BY <1>14, <1>20 DEF OpenInv
<1>27. DiskInv'
  <2>1. safe' \subseteq RecordsOn(view', c)
    BY <1>2, <1>14, <1>18 DEF DiskInv
  <2>2. ASSUME NEW i \in DOMAIN c PROVE Behind(disk[c[i]], c, i)'
    <3>1. Behind(disk[c[i]], c, i) /\ view'[c[i]] = view[c[i]]
      BY <1>2, <1>5, <1>17 DEF DiskInv
    <3>2. \A j \in i + 1 .. Len(c) : view'[c[j]] = view[c[j]]
      <4>1. c \in Seq(DOMAIN view) /\ DOMAIN c = 1 .. Len(c)
        BY <1>5, <1>7, ChainIs
      <4>2. i + 1 .. Len(c) \subseteq DOMAIN c
        BY <4>1
      <4> QED
        BY <1>5, <1>17, <4>2
    <3> QED
      BY <1>14, <3>1, <3>2 DEF Behind
  <2> QED
    BY <1>14, <1>20, <2>1, <2>2 DEF DiskInv
<1>28. QED
  BY <1>14, <1>21, <1>22, <1>23, <1>24, <1>25, <1>26, <1>27, IdleCall DEF CatalogInv, StoreInv

LEMMA StutterStep == CatalogInv /\ UNCHANGED vars => CatalogInv'
<1> SUFFICES ASSUME CatalogInv, UNCHANGED vars PROVE CatalogInv'
  OBVIOUS
<1>1. /\ view' = view /\ disk' = disk /\ pending' = pending /\ kept' = kept
      /\ rootInMemory' = rootInMemory /\ rootOnDisk' = rootOnDisk /\ catalog' = catalog /\ call' = call
      /\ safe' = safe /\ grown' = grown /\ losses' = losses
  BY DEF vars, pool, header, history
<1>2. TypeInv' /\ LinkInv' /\ TablesInv' /\ CatInv'
  BY <1>1 DEF CatalogInv, StoreInv, TypeInv, LinkInv, Counted, TablesInv, OwnPages, CatInv, Opened
<1>3. OpenInv' /\ DiskInv'
  <2>1. OpenInv'
    BY <1>1 DEF CatalogInv, StoreInv, OpenInv
  <2>2. ASSUME NEW c PROVE OnFile(disk, c) => OnFile(disk, c)'
    BY <1>1 DEF OnFile
  <2>3. ASSUME NEW c, NEW i PROVE Behind(disk[c[i]], c, i) => Behind(disk[c[i]], c, i)'
    BY <1>1 DEF Behind
  <2>4. DiskInv'
    BY <1>1, <2>2, <2>3 DEF CatalogInv, StoreInv, DiskInv
  <2> QED
    BY <2>1, <2>4
<1>4. ApartInv'
  BY <1>1 DEF CatalogInv, StoreInv, ApartInv, Unlinked, LinksTo
<1>5. CallInv'
  BY <1>1 DEF CatalogInv, CallInv, Fits, Declares, Declared, Unnamed, Unlinked, LinksTo
<1>6. QED
  BY <1>2, <1>3, <1>4, <1>5 DEF CatalogInv, StoreInv

-----------------------------------------------------------------------------
(* The theorems.                                                           *)

LEMMA CatalogInvStep == OneCatalog /\ CatalogInv /\ [Next]_vars => CatalogInv'
<1> SUFFICES ASSUME OneCatalog, CatalogInv, [Next]_vars PROVE CatalogInv'
  OBVIOUS
<1>1. CASE AllocatePageFails
  BY <1>1, AllocateFailsStep
<1>2. CASE Fail
  BY <1>2, FailStep
<1>3. CASE WriteBack
  BY <1>3, WriteBackStep
<1>4. CASE Sync
  BY <1>4, SyncStep
<1>5. CASE Lose
  BY <1>5, LoseStep
<1>6. CASE Initialize
  BY <1>6, InitializeStep
<1>7. CASE \E c \in Catalogs :
             \/ Create(c) \/ Open(c) \/ \E name \in Names : CreateTable(c, name)
             \/ \E t \in HeapsOf(c) : ChangeRow(t) \/ AppendTable(c, t)
  <2>1. PICK c \in Catalogs :
          \/ Create(c) \/ Open(c) \/ \E name \in Names : CreateTable(c, name)
          \/ \E t \in HeapsOf(c) : ChangeRow(t) \/ AppendTable(c, t)
    BY <1>7
  <2>2. CASE Create(c)
    BY <2>2, CreateStep
  <2>3. CASE Open(c)
    BY <2>3, OpenStep
  <2>4. CASE \E name \in Names : CreateTable(c, name)
    <3>1. PICK name \in Names : CreateTable(c, name)
      BY <2>4
    <3> QED
      BY <3>1, CreateTableStep
  <2>5. CASE \E t \in HeapsOf(c) : ChangeRow(t) \/ AppendTable(c, t)
    <3>1. PICK t \in HeapsOf(c) : ChangeRow(t) \/ AppendTable(c, t)
      BY <2>5
    <3> QED
      BY <3>1, ChangeRowStep, AppendTableStep
  <2> QED
    BY <2>1, <2>2, <2>3, <2>4, <2>5
<1>8. CASE FlushRoot
  BY <1>8, FlushRootStep
<1>9. CASE SetRoot
  BY <1>9, SetRootStep
<1>10. CASE SetRootFails
  BY <1>10, SetRootFailsStep
<1>11. CASE InsertRecord
  BY <1>11, InsertRecordStep
<1>12. CASE AppendAllocate
  BY <1>12, AppendAllocateStep
<1>13. CASE AppendFill
  BY <1>13, AppendFillStep
<1>14. CASE AppendLink
  BY <1>14, AppendLinkStep
<1>15. CASE ExtendTable
  BY <1>15, ExtendTableStep
<1>16. CASE UNCHANGED vars
  BY <1>16, StutterStep
<1>17. QED
  BY <1>1, <1>2, <1>3, <1>4, <1>5, <1>6, <1>7, <1>8, <1>9, <1>10, <1>11, <1>12, <1>13, <1>14, <1>15,
     <1>16 DEF Next

\* With one Catalog value, the catalog's pages, the declarations on them, the
\* root in the header, the chains of the tables, the file behind the pool and
\* the operation under way stay in step through failures and losses of create,
\* open, create_table and inserts into the tables (catalog/mod.rs).
THEOREM CatalogInvariant == OneCatalog => (Spec => []CatalogInv)
<1> SUFFICES ASSUME OneCatalog PROVE Spec => []CatalogInv
  OBVIOUS
<1>1. Init => CatalogInv
  BY CatalogInvInit
<1>2. CatalogInv /\ [Next]_vars => CatalogInv'
  BY CatalogInvStep
<1>3. QED
  BY <1>1, <1>2, PTL DEF Spec

\* Pages, roots, open catalogs and declarations under way keep their types.
THEOREM CatalogTypes == OneCatalog => (Spec => []TypeOK)
<1> SUFFICES ASSUME OneCatalog PROVE Spec => []TypeOK
  OBVIOUS
<1>1. CatalogInv => TypeOK
  <2> SUFFICES ASSUME CatalogInv PROVE TypeOK
    OBVIOUS
  <2>1. TypeInv /\ CatInv /\ call \in Calls
    BY DEF CatalogInv, StoreInv, CallInv, Fits
  <2>2. /\ rootInMemory \in {NoPage} \cup DOMAIN view /\ rootOnDisk \in {NoPage} \cup DOMAIN view
        /\ Len(view) = Len(disk) /\ Len(view) <= MaxPages /\ kept \in 0 .. Len(view)
    BY <2>1, StoreFacts DEF TypeInv
  <2>3. ASSUME NEW k \in Catalogs, catalog[k] # Closed
        PROVE  /\ catalog[k].pages \in Seq(DOMAIN view)
               /\ catalog[k].tables \subseteq Declaration
               /\ catalog[k].nextId \in 1 .. IdLimit
    <3>1. PICK c \in Openable(view, rootInMemory) : catalog[k] = Opened(c)
      BY <2>1, <2>3 DEF CatInv
    <3>2. /\ catalog[k].pages = c /\ catalog[k].tables = RecordsOn(view, c) /\ catalog[k] \in CatalogValue
          /\ RecordsOn(view, c) \subseteq Declaration /\ c \in ChainsFrom(view, rootInMemory)
      BY <2>1, <3>1, OpenableFacts
    <3>3. c \in Seq(DOMAIN view)
      BY <2>1, <3>2, ChainIs DEF TypeInv
    <3> QED
      BY <3>2, <3>3 DEF CatalogValue
  <2>4. call.step \in {"insert", "fill", "link", "extend"} => call.record \in Declaration
    BY <2>1, CallFacts
  <2> QED
    BY <2>2, <2>3, <2>4 DEF TypeOK
<1>2. QED
  BY <1>1, CatalogInvariant, PTL

\* Between calls, open gives the Catalog value in use (Catalog::open against
\* what create and create_table left).
THEOREM CatalogReopens == OneCatalog => (Spec => []ReopensTheSame)
<1> SUFFICES ASSUME OneCatalog PROVE Spec => []ReopensTheSame
  OBVIOUS
<1>1. CatalogInv => ReopensTheSame
  <2> SUFFICES ASSUME CatalogInv, NEW k \in Catalogs, catalog[k] # Closed
               PROVE  {Opened(pages) : pages \in Openable(view, rootInMemory)} = {catalog[k]}
    BY DEF ReopensTheSame
  <2>1. TypeInv /\ CatInv
    BY DEF CatalogInv, StoreInv
  <2>2. PICK c \in Openable(view, rootInMemory) : catalog[k] = Opened(c)
    BY <2>1 DEF CatInv
  <2>3. Openable(view, rootInMemory) = {c}
    BY <2>1, OpenableFacts
  <2> QED
    BY <2>2, <2>3
<1>2. QED
  BY <1>1, CatalogInvariant, PTL

\* Ids and names of the declared tables are unique, and no page is in the heaps
\* of two of them or in that of a table and the catalog's.
THEOREM CatalogDeclaresOnce == OneCatalog => (Spec => []UniqueDeclarations)
<1> SUFFICES ASSUME OneCatalog PROVE Spec => []UniqueDeclarations
  OBVIOUS
<1>1. CatalogInv => UniqueDeclarations
  <2> SUFFICES ASSUME CatalogInv, rootInMemory # NoPage, NEW c \in Chains(Links(view), rootInMemory)
               PROVE  /\ UniqueIn(RecordsOn(view, c))
                      /\ \A s, t \in RecordsOn(view, c) : s # t => PagesOf(s) \cap PagesOf(t) = {}
                      /\ \A t \in RecordsOn(view, c) : PagesOf(t) \cap ListedPages(c) = {}
    BY DEF UniqueDeclarations
  <2>1. TypeInv /\ ApartInv /\ TablesInv /\ c \in ChainsFrom(view, rootInMemory)
    BY DEF CatalogInv, StoreInv, ChainsFrom
  <2>2. OwnPages(RecordsOn(view, c), c) /\ \A t \in RecordsOn(view, c) : Unlinked(t.heap)
    BY <2>1 DEF TablesInv, ApartInv
  <2>3. \A t \in RecordsOn(view, c) : t.heap # NoPage
    <3>1. RecordsOn(view, c) \subseteq Declaration
      BY <2>1, RecordsDeclared DEF TypeInv
    <3> QED
      BY <3>1, CatalogAssumption DEF Declaration
  <2>4. ASSUME NEW t \in RecordsOn(view, c), NEW p \in PagesOf(t)
        PROVE  p = t.heap \/ \E h \in ChainsFrom(view, t.heap) : p \in ListedPages(h)
    BY <2>3, <2>4 DEF PagesOf, ChainsFrom
  <2>5. ASSUME NEW s \in RecordsOn(view, c), NEW t \in RecordsOn(view, c), s # t,
               NEW p \in PagesOf(s), p \in PagesOf(t)
        PROVE  FALSE
    <3>1. s.heap # t.heap
      BY <2>2, <2>5 DEF OwnPages
    <3>2. \A h \in ChainsFrom(view, t.heap) : s.heap \notin ListedPages(h)
      BY <2>1, <2>2, <2>3, <3>1, TablesApart
    <3>3. \A g \in ChainsFrom(view, s.heap) : t.heap \notin ListedPages(g)
      BY <2>1, <2>2, <2>3, <3>1, TablesApart
    <3>4. \A g \in ChainsFrom(view, s.heap), h \in ChainsFrom(view, t.heap) :
            ListedPages(g) \cap ListedPages(h) = {}
      BY <2>1, <2>5, TablesApart
    <3>5. p = s.heap \/ \E g \in ChainsFrom(view, s.heap) : p \in ListedPages(g)
      BY <2>4
    <3>6. p = t.heap \/ \E h \in ChainsFrom(view, t.heap) : p \in ListedPages(h)
      BY <2>4, <2>5
    <3> QED
      BY <3>1, <3>2, <3>3, <3>4, <3>5, <3>6
  <2>6. ASSUME NEW t \in RecordsOn(view, c), NEW p \in PagesOf(t), p \in ListedPages(c)
        PROVE  FALSE
    <3>1. t.heap \notin ListedPages(c)
      BY <2>2 DEF OwnPages
    <3>2. \A h \in ChainsFrom(view, t.heap) : ListedPages(h) \cap ListedPages(c) = {}
      BY <2>1, TablesApart
    <3>3. p = t.heap \/ \E h \in ChainsFrom(view, t.heap) : p \in ListedPages(h)
      BY <2>4
    <3> QED
      BY <2>6, <3>1, <3>2, <3>3
  <2> QED
    BY <2>2, <2>5, <2>6 DEF OwnPages
<1>2. QED
  BY <1>1, CatalogInvariant, PTL

\* A loss of the pool takes no table that was synced from a catalog that opens.
THEOREM CatalogKeepsSynced == OneCatalog => (Spec => LossKeepsDeclarations)
<1> SUFFICES ASSUME OneCatalog PROVE Spec => LossKeepsDeclarations
  OBVIOUS
<1>1. CatalogInv /\ [Next]_vars =>
        [Lose => \A pages \in Openable(view', rootInMemory') :
                    safe \subseteq RecordsOn(view', pages)]_vars
  BY LoseStep
<1>2. QED
  BY <1>1, CatalogInvariant, PTL DEF Spec, LossKeepsDeclarations

\* A loss leaves a catalog in use that does not open only if the catalog or the
\* heap of a table was grown since the last sync or a write-back tore a page:
\* opening reads the catalog and the whole heap of every table.
THEOREM CatalogOpensAfterLoss == OneCatalog => (Spec => LossKeepsCatalogOpen)
<1> SUFFICES ASSUME OneCatalog PROVE Spec => LossKeepsCatalogOpen
  OBVIOUS
<1>1. CatalogInv /\ [Next]_vars =>
        [(Lose /\ ~grown /\ InUse /\ ~SomeTorn') => Openable(view', rootInMemory') # {}]_vars
  BY LoseStep
<1>2. QED
  BY <1>1, CatalogInvariant, PTL DEF Spec, LossKeepsCatalogOpen
=============================================================================
