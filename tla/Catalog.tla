------------------------------ MODULE Catalog ------------------------------
(***************************************************************************)
(* The table catalog (catalog/mod.rs) on a buffer pool: create, open,      *)
(* create_table, and inserts through the handles open_table_heap gives, as *)
(* the sequences of pool calls they make through HeapFile, with            *)
(* write-backs, failures and losses of the pool in between.                *)
(*                                                                         *)
(* A heap page is [records, next], a record the declaration of a table; it *)
(* takes PageRecords of them, as nothing deletes declarations.  Of a       *)
(* table's own heap there is the chain of its pages, but not their rows.   *)
(* The pool is PageStore; the two words of the database header are `kept`  *)
(* and the catalog root.                                                   *)
(***************************************************************************)
EXTENDS HeapChain

CONSTANTS
    Names,          \* table names
    Catalogs,       \* Catalog values callers may hold
    PageRecords,    \* declarations a page takes
    IdLimit,        \* u32::MAX, the table id never given
    MaxPages,       \* bound on the pages of the database
    MaxLosses,      \* bound on losses of the pool
    Zero, Torn,     \* a page never written, and one half written
    Closed          \* no catalog

Declaration == [id : 1 .. IdLimit - 1, name : Names, heap : 1 .. MaxPages]

\* A page of the catalog's heap, and what a Catalog value holds.
CatalogPage == [records : Seq(Declaration), next : {NoPage} \cup 1 .. MaxPages]
CatalogValue == [pages : Seq(1 .. MaxPages), tables : SUBSET Declaration, nextId : 1 .. IdLimit]

ASSUME CatalogAssumption ==
    /\ PageRecords \in Nat \ {0} /\ IdLimit \in Nat \ {0} /\ MaxPages \in Nat /\ MaxLosses \in Nat
    /\ NoPage \notin 1 .. MaxPages
    /\ Zero \notin CatalogPage /\ Torn \notin CatalogPage /\ Zero # Torn
    /\ Closed \notin CatalogValue

VARIABLES
    view, disk, pending, kept,   \* the pool, see PageStore
    rootInMemory, rootOnDisk,    \* the header's catalog root, NoPage for none
    catalog,   \* of each Catalog value [pages, tables, nextId], or Closed
    call,      \* the operation under way
    safe,      \* history: the tables declared as of the last sync
    grown,     \* history: declarations or pages joined the catalog, or pages a
               \* table's heap, since
    losses     \* losses of the pool so far

pool == <<view, disk, pending, kept>>
header == <<rootInMemory, rootOnDisk>>
history == <<safe, grown, losses>>
vars == <<pool, header, catalog, call, history>>

Pool == INSTANCE PageStore WITH Content <- {}

HeapPage == [records |-> <<>>, next |-> NoPage]

Readable(store, p) == p \in DOMAIN store /\ store[p] \notin {Zero, Torn}

Links(store) == [p \in {q \in DOMAIN store : Readable(store, q)} |-> store[p].next]

RecordsOn(store, pages) ==
    UNION {{store[p].records[i] : i \in DOMAIN store[p].records} : p \in ListedPages(pages)}

UniqueIn(tables) ==
    \A s, t \in tables : s # t => s.id # t.id /\ s.name # t.name

\* Pages of the catalog heap at `root` that open accepts, as a set of at most
\* one: it also walks the heap of every table.
Openable(store, root) ==
    IF root = NoPage THEN {}
    ELSE {pages \in Chains(Links(store), root) :
            /\ UniqueIn(RecordsOn(store, pages))
            /\ \A t \in RecordsOn(store, pages) : Chains(Links(store), t.heap) # {}}

\* The pages of a table's heap.
PagesOf(t) == {t.heap} \cup UNION {ListedPages(pages) : pages \in Chains(Links(view), t.heap)}

Idle == [step |-> "idle"]

TypeOK ==
    /\ Len(view) = Len(disk) /\ Len(view) <= MaxPages
    /\ kept \in 0 .. Len(view)
    /\ rootInMemory \in {NoPage} \cup DOMAIN view
    /\ rootOnDisk \in {NoPage} \cup DOMAIN view
    /\ \A c \in Catalogs : catalog[c] # Closed =>
         /\ catalog[c].pages \in Seq(DOMAIN view)
         /\ catalog[c].tables \subseteq Declaration
         /\ catalog[c].nextId \in 1 .. IdLimit
    /\ call.step \in {"insert", "fill", "link", "extend"} => call.record \in Declaration

Init ==
    /\ Pool!Init
    /\ rootInMemory = NoPage /\ rootOnDisk = NoPage
    /\ catalog = [c \in Catalogs |-> Closed]
    /\ call = Idle
    /\ safe = {} /\ grown = FALSE /\ losses = 0

-----------------------------------------------------------------------------
(* The pool's calls.  The header is written whole: a successful allocation *)
(* also writes the root that memory holds.                                 *)

AllocatePage ==
    /\ Len(view) < MaxPages
    /\ Pool!Grow /\ kept' = Len(view')
    /\ rootOnDisk' = rootInMemory
    /\ UNCHANGED rootInMemory

\* The header write fails after neither, the first or both of its words.
AllocatePageFails ==
    /\ call.step \in {"idle", "insert"}
    /\ Len(view) < MaxPages
    /\ Pool!Grow
    /\ rootOnDisk' \in {rootOnDisk, IF kept' = Len(view') THEN rootInMemory ELSE rootOnDisk}
    /\ call' = Idle
    /\ UNCHANGED <<rootInMemory, catalog, history>>

\* An operation gives up: a page cannot be pinned or flushed.
Fail ==
    /\ call.step \in {"flush", "root", "insert", "link", "extend"}
    /\ call' = Idle
    /\ UNCHANGED <<pool, header, catalog, history>>

WriteBack ==
    /\ call.step \in {"idle", "insert", "link", "extend"}
    /\ \E W \in SUBSET pending : Cardinality(W) <= 1 /\ Pool!WritesBack(W)
    /\ UNCHANGED <<header, catalog, call, history>>

Sync ==
    /\ call = Idle
    /\ disk' = view
    /\ pending' = {}
    /\ safe' = UNION {RecordsOn(view, pages) : pages \in Openable(view, rootInMemory)}
    /\ grown' = FALSE
    /\ UNCHANGED <<view, kept, header, catalog, call, losses>>

Lose ==
    /\ losses < MaxLosses
    /\ losses' = losses + 1
    /\ Pool!LosesAfter({})
    /\ rootInMemory' = rootOnDisk
    /\ catalog' = [c \in Catalogs |-> Closed]
    /\ call' = Idle
    /\ safe' = UNION {RecordsOn(view', pages) : pages \in Openable(view', rootOnDisk)}
    /\ grown' = FALSE
    /\ UNCHANGED rootOnDisk

\* HeapFile::create, for the catalog or for a table, and the new page of an
\* append to a table's heap.
Initialize ==
    /\ call.step = "init"
    /\ Pool!Write(call.page, HeapPage)
    /\ call' = [call EXCEPT !.step = call.then]
    /\ UNCHANGED <<header, catalog, history>>

-----------------------------------------------------------------------------
(* create: the root page reaches the file before the header names it.      *)
Create(c) ==
    /\ call = Idle
    /\ rootInMemory = NoPage
    /\ AllocatePage
    /\ call' = [step |-> "init", then |-> "flush", catalog |-> c, page |-> Len(view')]
    /\ UNCHANGED <<catalog, history>>

NotFlushed ==                                  \* mutant: flush_page left out
    /\ call.step = "flush"
    /\ call' = [call EXCEPT !.step = "root"]
    /\ UNCHANGED <<pool, header, catalog, history>>
FlushRoot ==
    /\ call.step = "flush"
    /\ disk' = [disk EXCEPT ![call.page] = view[call.page]]
    /\ pending' = pending \ {call.page}
    /\ call' = [call EXCEPT !.step = "root"]
    /\ UNCHANGED <<view, kept, header, catalog, history>>

SetRoot ==
    /\ call.step = "root"
    /\ Pool!Persist
    /\ rootInMemory' = call.page /\ rootOnDisk' = call.page
    /\ catalog' = [catalog EXCEPT ![call.catalog] =
                     [pages |-> <<call.page>>, tables |-> {}, nextId |-> 1]]
    /\ call' = Idle
    /\ UNCHANGED history

\* The root is set in memory before the header write that fails.
SetRootFails ==
    /\ call.step = "root"
    /\ rootInMemory' = call.page
    /\ \/ Pool!Persist /\ rootOnDisk' \in {rootOnDisk, call.page}
       \/ UNCHANGED <<pool, rootOnDisk>>
    /\ call' = Idle
    /\ UNCHANGED <<catalog, history>>

-----------------------------------------------------------------------------
(* open                                                                    *)

FromFirstId(tables) == 1                       \* mutant: ids start over on open
NextId(tables) ==
    LET highest == CHOOSE n \in {0} \cup {t.id : t \in tables} : \A t \in tables : t.id <= n
    IN  IF highest = IdLimit THEN IdLimit ELSE highest + 1

Opened(pages) ==
    LET tables == RecordsOn(view, pages)
    IN  [pages |-> pages, tables |-> tables, nextId |-> NextId(tables)]

Open(c) ==
    /\ call = Idle
    /\ \E pages \in Openable(view, rootInMemory) :
         catalog' = [catalog EXCEPT ![c] = Opened(pages)]
    /\ UNCHANGED <<pool, header, call, history>>

-----------------------------------------------------------------------------
(* create_table: a heap for the table, then its declaration in the         *)
(* catalog's heap, then the map.                                           *)
IdUnchecked(c) == FALSE                        \* mutant
IdsExhausted(c) == catalog[c].nextId = IdLimit

CreateTable(c, name) ==
    /\ call = Idle /\ catalog[c] # Closed
    /\ \A t \in catalog[c].tables : t.name # name
    /\ ~IdsExhausted(c)
    /\ AllocatePage
    /\ call' = [step |-> "init", then |-> "insert", catalog |-> c, page |-> Len(view'),
                record |-> [id |-> catalog[c].nextId, name |-> name, heap |-> Len(view')]]
    /\ UNCHANGED <<catalog, history>>

Room(p) == Len(view[p].records) < PageRecords

MapForgotten(c, pages) ==                      \* mutant: next_table_id not raised
    [catalog EXCEPT ![c].pages = pages, ![c].tables = @ \cup {call.record}]
Registered(c, pages) ==
    [catalog EXCEPT ![c] = [pages |-> pages, tables |-> @.tables \cup {call.record},
                            nextId |-> @.nextId + 1]]

\* The first page with room takes the declaration.
InsertRecord ==
    /\ call.step = "insert"
    /\ LET pages == catalog[call.catalog].pages IN
       \E i \in DOMAIN pages :
         /\ \A j \in 1 .. i - 1 : ~Room(pages[j])
         /\ Room(pages[i])
         /\ Pool!Write(pages[i], [view[pages[i]] EXCEPT !.records = Append(@, call.record)])
         /\ catalog' = Registered(call.catalog, pages)
    /\ grown' = TRUE
    /\ call' = Idle
    /\ UNCHANGED <<header, safe, losses>>

AppendAllocate ==
    /\ call.step = "insert"
    /\ \A p \in ListedPages(catalog[call.catalog].pages) : ~Room(p)
    /\ AllocatePage
    /\ call' = [step |-> "fill", catalog |-> call.catalog, page |-> Len(view'), record |-> call.record]
    /\ UNCHANGED <<catalog, history>>

AppendFill ==
    /\ call.step = "fill"
    /\ Pool!Write(call.page, [HeapPage EXCEPT !.records = <<call.record>>])
    /\ call' = [call EXCEPT !.step = "link"]
    /\ UNCHANGED <<header, catalog, history>>

LinkOnFreshPage(p, to) == [HeapPage EXCEPT !.next = to]    \* mutant: initialize, not from_page_mut
LinkTo(p, to) == [view[p] EXCEPT !.next = to]

AppendLink ==
    /\ call.step = "link"
    /\ LET pages == catalog[call.catalog].pages
           last == pages[Len(pages)]
       IN  /\ Pool!Write(last, LinkTo(last, call.page))
           /\ catalog' = Registered(call.catalog, Append(pages, call.page))
    /\ grown' = TRUE
    /\ call' = Idle
    /\ UNCHANGED <<header, safe, losses>>

-----------------------------------------------------------------------------
(* Rows of a table, through a handle of open_table_heap.  Handles are not  *)
(* kept: one lists pages of the table's chain from the first on, all of    *)
(* them or, when another handle appended since, not.  What a handle does   *)
(* to listed pages that were cut out of the chain is no step.              *)

\* Tables whose heap open_table_heap opens.
HeapsOf(c) == IF catalog[c] = Closed THEN {} ELSE catalog[c].tables

\* A row goes into a page of the heap, or out of it.
ChangeRow(t) ==
    /\ call = Idle
    /\ \E pages \in Chains(Links(view), t.heap) : \E p \in ListedPages(pages) : Pool!Write(p, view[p])
    /\ UNCHANGED <<header, catalog, call, history>>

AppendTable(c, t) ==
    /\ call = Idle
    /\ AllocatePage
    /\ call' = [step |-> "init", then |-> "extend", catalog |-> c, page |-> Len(view'), record |-> t]
    /\ UNCHANGED <<catalog, history>>

\* The last page the handle lists gets the link, though it may have one.
ExtendTable ==
    /\ call.step = "extend"
    /\ \E pages \in Chains(Links(view), call.record.heap) : \E p \in ListedPages(pages) :
         Pool!Write(p, LinkTo(p, call.page))
    /\ grown' = TRUE
    /\ call' = Idle
    /\ UNCHANGED <<header, catalog, safe, losses>>

Next ==
    \/ AllocatePageFails
    \/ Fail
    \/ WriteBack
    \/ Sync
    \/ Lose
    \/ Initialize
    \/ \E c \in Catalogs :
         \/ Create(c)
         \/ Open(c)
         \/ \E name \in Names : CreateTable(c, name)
         \/ \E t \in HeapsOf(c) : ChangeRow(t) \/ AppendTable(c, t)
    \/ FlushRoot
    \/ SetRoot
    \/ SetRootFails
    \/ InsertRecord
    \/ AppendAllocate
    \/ AppendFill
    \/ AppendLink
    \/ ExtendTable

Spec == Init /\ [][Next]_vars

-----------------------------------------------------------------------------
(* Between calls, opening the catalog gives the catalog that is in use:    *)
(* the pages of its heap, the tables of its map, the next id; whatever     *)
(* create_table failed half-way before, or the pool lost.                  *)
ReopensTheSame ==
    call = Idle => \A c \in Catalogs :
        catalog[c] # Closed =>
            {Opened(pages) : pages \in Openable(view, rootInMemory)} = {catalog[c]}

(* "Table names and IDs must be unique" (ARCHITECTURE.md, Persistent       *)
(* catalog) of the declarations in the heap, and the heaps of no two       *)
(* tables, nor of a table and the catalog, share a page, though ids and    *)
(* pages of declarations and appends that were lost are given again.       *)
UniqueDeclarations ==
    rootInMemory # NoPage => \A pages \in Chains(Links(view), rootInMemory) :
        LET tables == RecordsOn(view, pages) IN
        /\ UniqueIn(tables)
        /\ \A s, t \in tables : s # t => PagesOf(s) \cap PagesOf(t) = {}
        /\ \A t \in tables : PagesOf(t) \cap ListedPages(pages) = {}

(* A catalog that opens after a loss has every table declared when the     *)
(* pool was last synced.                                                   *)
LossKeepsDeclarations ==
    [][Lose => \A pages \in Openable(view', rootInMemory') :
                   safe \subseteq RecordsOn(view', pages)]_vars

\* An empty catalog may have its root in memory only, after SetRootFails.
InUse ==
    \E c \in Catalogs : catalog[c] # Closed /\ (catalog[c].tables # {} \/ rootOnDisk # NoPage)
SomeTorn == \E p \in DOMAIN disk : disk[p] = Torn

(* A loss makes a catalog in use unopenable only when it or the heap of a  *)
(* table was grown since the last sync, as a declaration or a link may     *)
(* reach the file before the page it names does, or when a write-back tore *)
(* a page.                                                                 *)
LossKeepsCatalogOpen ==
    [][(Lose /\ ~grown /\ InUse /\ ~SomeTorn') => Openable(view', rootInMemory') # {}]_vars
=============================================================================
