----------------------------- MODULE HeapFile ------------------------------
(***************************************************************************)
(* One table's heap (heap/heap_file.rs) on a buffer pool: create, open,    *)
(* insert, append, delete, and the handles callers hold on it.  The pool   *)
(* is PageStore, which BufferPool implements: it may write pages back, or  *)
(* be lost, between any two of the calls a heap operation makes.           *)
(*                                                                         *)
(* Calls that fail before they change anything are no step.  A torn page   *)
(* is assumed not to pass SlottedPage's validation.                        *)
(***************************************************************************)
EXTENDS SlottedPage, HeapChain

CONSTANTS
    Records,     \* the records inserted
    Handles,     \* HeapFile values callers may hold
    MaxPages,    \* bound on the pages of the database
    MaxRids,     \* bound on rids issued
    MaxLosses,   \* bound on losses of the pool
    Zero, Torn   \* a page never written, and one half written

\* A heap page and its link.
HeapPage == [body : Page, next : {NoPage} \cup 1 .. MaxPages]

\* insert answers RecordTooLarge before it looks at a page.
ASSUME HeapFileAssumption ==
    /\ MaxPages \in Nat /\ MaxRids \in Nat /\ MaxLosses \in Nat
    /\ NoPage \notin 1 .. MaxPages
    /\ Zero \notin HeapPage /\ Torn \notin HeapPage /\ Zero # Torn
    /\ \A record \in Records :
         record \in Seq(Byte) /\ HeaderSize + SlotSize + Len(record) <= PageSize

VARIABLES
    view, disk, pending, kept,   \* the pool, see PageStore
    root,      \* first page of the heap, NoPage before create
    handle,    \* the page list of each handle, <<>> for none
    call,      \* the operation under way
    rows,      \* history: rows inserted and not deleted, as pairs of rid and record
    issued,    \* history: rids insert returned
    since,     \* history: rows there were since the last sync
    safe,      \* history: rows and rids as of the last sync
    grown,     \* history: pages joined the heap since the last sync
    cut,       \* history: a handle appended whose list was not the whole chain
    losses     \* losses of the pool so far

pool == <<view, disk, pending, kept>>
history == <<rows, issued, since, safe, grown, cut>>
vars == <<pool, root, handle, call, history, losses>>

Pool == INSTANCE PageStore WITH Content <- {}

HeapRid(p, rid) == [page |-> p, slot |-> rid.slot, gen |-> rid.gen]
HeapRids == {HeapRid(p, rid) : p \in 1 .. MaxPages, rid \in Rid}

NewPage == [body |-> EmptyPage, next |-> NoPage]

\* from_page_ref and from_page_mut accept the page.
Readable(store, p) ==
    p \in DOMAIN store /\ store[p] \notin {Zero, Torn} /\ Validate(store[p].body)

Links(store) == [p \in {q \in DOMAIN store : Readable(store, q)} |-> store[p].next]

HeapChains(store) == IF root = NoPage THEN {} ELSE Chains(Links(store), root)

RowsOn(store, ps) ==
    UNION {{<<HeapRid(p, rid), Get(store[p].body, rid)>> : rid \in LiveRids(store[p].body)} : p \in ps}

\* What a new handle's scan returns; nothing when open fails.
Scan(store) == RowsOn(store, UNION {ListedPages(pages) : pages \in HeapChains(store)})

Idle == [step |-> "idle"]

TypeOK ==
    /\ Len(view) = Len(disk) /\ Len(view) <= MaxPages
    /\ pending \subseteq DOMAIN view
    /\ kept \in 0 .. Len(view)
    /\ root \in {NoPage} \cup DOMAIN view
    /\ handle \in [Handles -> Seq(DOMAIN view)]
    /\ call.step \in {"idle", "create", "fill", "link"}
    /\ issued \subseteq HeapRids
    /\ grown \in BOOLEAN /\ cut \in BOOLEAN
    /\ losses \in 0 .. MaxLosses

Init ==
    /\ Pool!Init
    /\ root = NoPage
    /\ handle = [h \in Handles |-> <<>>]
    /\ call = Idle
    /\ rows = {} /\ issued = {} /\ since = {}
    /\ safe = [rows |-> {}, used |-> {}]
    /\ grown = FALSE /\ cut = FALSE
    /\ losses = 0

-----------------------------------------------------------------------------
(* allocate_page of the pool, which has written the header when it         *)
(* succeeds and may leave a page nobody owns when it fails.                *)
AllocatePage == Len(view) < MaxPages /\ Pool!Grow /\ kept' = Len(view')

AllocatePageFails ==
    /\ call = Idle
    /\ Len(view) < MaxPages
    /\ Pool!Grow
    /\ UNCHANGED <<root, handle, call, history, losses>>

Create(h) ==
    /\ call = Idle /\ root = NoPage
    /\ AllocatePage
    /\ call' = [step |-> "create", handle |-> h, page |-> Len(view')]
    /\ UNCHANGED <<root, handle, history, losses>>

CreateInitialize ==
    /\ call.step = "create"
    /\ Pool!Write(call.page, NewPage)
    /\ root' = call.page
    /\ handle' = [handle EXCEPT ![call.handle] = <<call.page>>]
    /\ call' = Idle
    /\ grown' = TRUE
    /\ UNCHANGED <<rows, issued, since, safe, cut, losses>>

\* What HeapOpen's walk finds, over a handle that was dropped.
Open(h) ==
    /\ call = Idle
    /\ \E pages \in HeapChains(view) : handle' = [handle EXCEPT ![h] = pages]
    /\ UNCHANGED <<pool, root, call, history, losses>>

-----------------------------------------------------------------------------
(* insert goes through the handle's pages and stops at the first that does *)
(* not answer NoSpace.                                                     *)
TryInsert(p, record) == Insert(view[p].body, record)
TryRes(p, record) == IF Readable(view, p) THEN TryInsert(p, record).res ELSE "Corrupt"

Full(p, record) == TryRes(p, record) = "NoSpace"

Answers(rid, record) ==
    /\ issued' = issued \cup {rid}
    /\ rows' = rows \cup {<<rid, record>>}
    /\ since' = since \cup {<<rid, record>>}
    /\ UNCHANGED safe

InsertInPage(h, record) ==
    /\ call = Idle /\ Cardinality(issued) < MaxRids
    /\ \E i \in DOMAIN handle[h] :
         LET p == handle[h][i] IN
         /\ \A j \in 1 .. i - 1 : Full(handle[h][j], record)
         /\ TryRes(p, record) = "Ok"
         /\ Pool!Write(p, [view[p] EXCEPT !.body = TryInsert(p, record).page])
         /\ Answers(HeapRid(p, TryInsert(p, record).rid), record)
    /\ UNCHANGED <<root, handle, call, grown, cut, losses>>

\* append_page_with_record: a new page, then the record in it, then the link.
AppendAllocate(h, record) ==
    /\ call = Idle /\ Cardinality(issued) < MaxRids
    /\ handle[h] # <<>>
    /\ \A i \in DOMAIN handle[h] : Full(handle[h][i], record)
    /\ AllocatePage
    /\ call' = [step |-> "fill", handle |-> h, page |-> Len(view'), record |-> record]
    /\ UNCHANGED <<root, handle, history, losses>>

\* mutant: the new page is linked before it holds anything
LinkedBeforeFilled ==
    /\ call.step = "fill"
    /\ LET last == handle[call.handle][Len(handle[call.handle])] IN
         Pool!Write(last, [view[last] EXCEPT !.next = call.page])
    /\ call' = [call EXCEPT !.step = "link"]
    /\ UNCHANGED <<root, handle, history, losses>>
AppendFill ==
    /\ call.step = "fill"
    /\ Pool!Write(call.page, [NewPage EXCEPT !.body = Insert(EmptyPage, call.record).page])
    /\ call' = [call EXCEPT !.step = "link"]
    /\ UNCHANGED <<root, handle, history, losses>>

FirstPage(h) == handle[h][1]                 \* mutant: every page linked to the first
LastPage(h) == handle[h][Len(handle[h])]

LinkOnFreshPage(p, to) == [NewPage EXCEPT !.next = to]    \* mutant: initialize, not from_page_mut
LinkTo(p, to) == [view[p] EXCEPT !.next = to]

Listed(h, p) == [handle EXCEPT ![h] = Append(@, p)]

AppendLink ==
    /\ call.step = "link"
    /\ Readable(view, LastPage(call.handle))
    /\ Pool!Write(LastPage(call.handle), LinkTo(LastPage(call.handle), call.page))
    /\ handle' = Listed(call.handle, call.page)
    /\ Answers(HeapRid(call.page, Insert(EmptyPage, call.record).rid), call.record)
    /\ grown' = TRUE
    /\ cut' = (cut \/ handle[call.handle] \notin HeapChains(view))
    /\ call' = Idle
    /\ UNCHANGED <<root, losses>>

\* The last page cannot be pinned: the record stays in a page of no chain.
AppendLinkFails ==
    /\ call.step = "link"
    /\ call' = Idle
    /\ UNCHANGED <<pool, root, handle, history, losses>>

-----------------------------------------------------------------------------
(* delete of any rid that was handed out, stale ones included.             *)
DeleteRow(h, rid) ==
    /\ call = Idle
    /\ rid.page \in ListedPages(handle[h])
    /\ Readable(view, rid.page)
    /\ LET answer == Delete(view[rid.page].body, [slot |-> rid.slot, gen |-> rid.gen]) IN
         /\ answer.res = "Ok"
         /\ Pool!Write(rid.page, [view[rid.page] EXCEPT !.body = answer.page])
    /\ rows' = {row \in rows : row[1] # rid}
    /\ UNCHANGED <<root, handle, call, issued, since, safe, grown, cut, losses>>

-----------------------------------------------------------------------------
(* The pool.                                                               *)

\* Evictions and flushes.  A page just allocated stays pinned until it is
\* filled, and no other is pinned meanwhile.
WriteBack ==
    /\ call.step \in {"idle", "link"}
    /\ \E W \in SUBSET pending : Cardinality(W) <= 1 /\ Pool!WritesBack(W)
    /\ UNCHANGED <<root, handle, call, history, losses>>

\* mutant: a page on file is not written again
NewPagesSynced ==
    /\ call = Idle
    /\ disk' = [p \in DOMAIN disk |-> IF disk[p] \in {Zero, Torn} THEN view[p] ELSE disk[p]]
    /\ pending' = {}
    /\ safe' = [rows |-> rows, used |-> issued]
    /\ since' = rows
    /\ grown' = FALSE
    /\ UNCHANGED <<view, kept, root, handle, call, rows, issued, cut, losses>>

\* sync or close of the pool succeeds.
Sync ==
    /\ call = Idle
    /\ disk' = view
    /\ pending' = {}
    /\ safe' = [rows |-> rows, used |-> issued]
    /\ since' = rows
    /\ grown' = FALSE
    /\ UNCHANGED <<view, kept, root, handle, call, rows, issued, cut, losses>>

\* The pool is dropped, fails to close, or dies with its process.  Handles
\* are not used with the next pool, though a HeapFile is not bound to one.
Lose ==
    /\ losses < MaxLosses
    /\ losses' = losses + 1
    /\ Pool!LosesAfter({})
    /\ handle' = [h \in Handles |-> <<>>]
    /\ call' = Idle
    /\ rows' = Scan(view')
    /\ since' = rows'
    /\ issued' = safe.used \cup {row[1] : row \in rows'}
    /\ safe' = [rows |-> rows', used |-> issued']
    /\ grown' = FALSE /\ cut' = FALSE
    /\ UNCHANGED root

Next ==
    \/ AllocatePageFails
    \/ \E h \in Handles :
         \/ Create(h)
         \/ Open(h)
         \/ \E record \in Records : InsertInPage(h, record) \/ AppendAllocate(h, record)
         \/ \E rid \in issued : DeleteRow(h, rid)
    \/ CreateInitialize
    \/ AppendFill
    \/ AppendLink
    \/ AppendLinkFails
    \/ WriteBack
    \/ Sync
    \/ Lose

Spec == Init /\ [][Next]_vars

-----------------------------------------------------------------------------
(* Between calls a scan of the heap returns each row that insert reported  *)
(* and no delete removed, and no other, whichever handles inserted and     *)
(* deleted them and whatever appends failed; as long as no handle cut the  *)
(* chain by appending behind a page that was no longer the last.           *)
ScansSeeEveryRow == call = Idle /\ ~cut => Scan(view) = rows

(* As long as the chain was not cut, each handle lists its pages from the  *)
(* first one on, in order; only pages other handles appended may be        *)
(* missing.                                                                *)
HandleKnowsChain ==
    /\ TypeOK
    /\ ~cut => \A h \in Handles : handle[h] # <<>> =>
        \E pages \in HeapChains(view) :
            Len(handle[h]) <= Len(pages) /\ handle[h] = SubSeq(pages, 1, Len(handle[h]))

(* Also after a cut, each handle still reads exactly the rows of the pages *)
(* it lists, whichever handle inserted or deleted them.                    *)
HandlesReadTheirPages ==
    call = Idle => \A h \in Handles :
        RowsOn(view, ListedPages(handle[h]))
            = {row \in rows : row[1].page \in ListedPages(handle[h])}

(* While the pool lives the heap opens again, whatever handles appended:   *)
(* no link ever leads back, or to a page that is not a heap page yet.      *)
HeapAlwaysOpens == losses = 0 /\ root # NoPage => HeapChains(view) # {}

\* Whether the heap opens; \E has TLC work out the links once.
Status ==
    IF root = NoPage THEN "absent"
    ELSE IF \E next \in {Links(view)} : Chains(next, root) # {} THEN "open" ELSE "lost"

(* The heap implements TableStore, which says what a loss may do to rows   *)
(* and rids and to whether the heap opens, in every step that neither cuts *)
(* the chain nor follows a cut: synced rows go only with the whole heap.   *)
Table == INSTANCE TableStore WITH Rids <- HeapRids, used <- issued, status <- Status

\* Steps that touch nothing Table!vars is read from, told at little cost.
Unseen == UNCHANGED <<view, root, rows, issued, since, safe>>

ImplementsTableStore ==
    Table!Init /\ [][cut \/ cut' \/ Unseen \/ Table!Next]_(Table!vars)

InUse == \E h \in Handles : handle[h] # <<>>
SomeTorn == \E p \in DOMAIN disk : disk[p] = Torn

(* A loss makes a heap in use unopenable only when pages joined it since   *)
(* the last sync, whose link may reach the file before they do, or when a  *)
(* write-back tore a page.                                                 *)
LossKeepsHeapOpen ==
    [][(Lose /\ ~grown /\ InUse /\ ~SomeTorn') => HeapChains(view') # {}]_vars

(* "North initializes a new slotted page and links it at the tail"         *)
(* (ARCHITECTURE.md, Multi-page heap files).                               *)
LinksAtTail ==
    [][AppendLink => view[LastPage(call.handle)].next = NoPage]_vars
=============================================================================
