----------------------------- MODULE BufferPool -----------------------------
(***************************************************************************)
(* A BufferPool (storage/buffer_pool.rs) over its DiskManager: pages are   *)
(* pinned, borrowed, written and unpinned through guards; the least        *)
(* recently used unpinned page makes room for the next one; dirty pages    *)
(* are written back by eviction, flush_page, flush_all, sync and close.    *)
(* Every read or write of the file may fail, and the process may stop      *)
(* between any two steps (or, see DiskFile, in the middle of one).         *)
(*                                                                         *)
(* One variable per field of BufferPoolInner, the guards that exist, and   *)
(* three histories: unsynced, committed and older.  The hit, miss,         *)
(* eviction and write counters decide nothing and are left out.            *)
(***************************************************************************)
EXTENDS DiskFile, FiniteSets

CONSTANTS
    Capacity,     \* frames the pool may hold
    Guards,       \* page guards that may exist at once
    ClockLimit,   \* u64::MAX, where the clock wraps
    PinLimit,     \* u32::MAX, where a pin count is exhausted
    NoPage,       \* the page of a guard that does not exist
    NoBytes,      \* no committed contents
    Closed        \* no pool is open

ASSUME BufferPoolAssumption ==
    /\ Capacity \in Nat \ {0}
    /\ ClockLimit \in Nat \ {0}
    /\ PinLimit \in Nat \ {0}
    /\ IsFiniteSet(Guards)
    /\ NoPage \notin Nat
    /\ NoBytes \notin Bytes
    /\ Closed \notin Manager

VARIABLES
    mgr,         \* disk: the manager with its header, or Closed
    file,        \* the database file
    frames,      \* frames: the cached pages
    clock,       \* clock
    held,        \* the page each guard pins
    loan,        \* the borrow of the page taken through each guard
    unsynced,    \* history: data pages changed since the last fsync
    committed,   \* history: what the last sync promised of pages not written since
    older        \* history: <<p, q>> of cached pages, p last used before q

vars == <<mgr, file, frames, clock, held, loan, unsynced, committed, older>>

Frame == [data : Bytes, dirty : BOOLEAN, pin : 0 .. PinLimit, used : 0 .. ClockLimit]

Cached == DOMAIN frames
NoFrames == [p \in {} |-> Zero]

TypeOK ==
    /\ mgr \in Manager \cup {Closed}
    /\ file \in File
    /\ Cached \subseteq DataPages
    /\ frames \in [Cached -> Frame]
    /\ clock \in 0 .. ClockLimit
    /\ held \in [Guards -> DataPages \cup {NoPage}]
    /\ loan \in [Guards -> {"none", "read", "write"}]
    /\ unsynced \subseteq DataPages
    /\ committed \in [DataPages -> Bytes \cup {NoBytes}]
    /\ older \subseteq DataPages \X DataPages

\* A pool just built over a file just created.
Init ==
    /\ file = CreatedFile
    /\ mgr = OpenManager(CreatedFile, FALSE)
    /\ frames = NoFrames
    /\ clock = 0
    /\ held = [g \in Guards |-> NoPage]
    /\ loan = [g \in Guards |-> "none"]
    /\ unsynced = {}
    /\ committed = [p \in DataPages |-> NoBytes]
    /\ older = {}

-----------------------------------------------------------------------------
(* Helpers of BufferPoolInner, on frames fr and file f.                    *)

\* next_tick: a clock that wraps resets every stamp.
NextClock == IF clock = ClockLimit THEN 1 ELSE clock + 1

WrappedWithoutReset(fr) == fr                        \* mutant: old stamps survive
Stamped(fr) ==
    IF clock = ClockLimit
    THEN [p \in DOMAIN fr |-> [fr[p] EXCEPT !.used = 0]]
    ELSE fr

With(fr, p, frame) == [q \in DOMAIN fr \cup {p} |-> IF q = p THEN frame ELSE fr[q]]
Without(fr, p) == [q \in DOMAIN fr \ {p} |-> fr[q]]

NewFrameUnpinned(bytes) ==                            \* mutant: not pinned for the guard
    [data |-> bytes, dirty |-> FALSE, pin |-> 0, used |-> NextClock]
NewFrame(bytes) == [data |-> bytes, dirty |-> FALSE, pin |-> 1, used |-> NextClock]

\* The history of a use of p that leaves the pages C in the cache.
Touched(p, C) ==
    {e \in older : e[1] \in C \ {p} /\ e[2] \in C \ {p}} \cup ((C \ {p}) \X {p})
Remaining(C) == older \cap (C \X C)

\* flush_frame borrows the page mutably, even when it is clean.
Borrowed(p) == \E g \in Guards : held[g] = p /\ loan[g] # "none"

RewrittenAlways(fr, p) == TRUE                        \* mutant: clean pages written too
NeedsWrite(fr, p) == fr[p].dirty

Cleaned(fr, S) ==
    [p \in DOMAIN fr |-> IF p \in S THEN [fr[p] EXCEPT !.dirty = FALSE] ELSE fr[p]]

WrittenTo(f, fr, S) ==
    [f EXCEPT !.pages = [p \in DataPages |->
        IF p \in S /\ NeedsWrite(fr, p) THEN fr[p].data ELSE f.pages[p]]]

CanFlush(fr, p) ==
    /\ ~Borrowed(p)
    /\ NeedsWrite(fr, p) => Writable(mgr) /\ Allocated(mgr, p)

Flushed(res, fr, f) == [res |-> res, frames |-> fr, file |-> f]

\* A write_page that fails leaves the frame dirty.
MarkedCleanFirst(fr, p) == Cleaned(fr, {p})           \* mutant: clean before written
AfterFailedWrite(fr, p) == fr

\* The failure of flush_frame on p.
FlushFailures(fr, f, p) ==
    IF Borrowed(p) THEN {Flushed("PageBorrowed", fr, f)}
    ELSE IF NeedsWrite(fr, p)
         THEN {Flushed(o.res, AfterFailedWrite(fr, p), o.file) :
                 o \in {w \in WritePageOutcomes(mgr, f, p, fr[p].data) : w.res # "Ok"}}
         ELSE {}

\* Flushing the pages S in any order (flush_all iterates over a HashMap), up
\* to the first failure, which comes after the pages W.
FlushOutcomes(fr, f, S) ==
    {o \in {Flushed("Ok", Cleaned(fr, S), WrittenTo(f, fr, S))} : \A p \in S : CanFlush(fr, p)}
    \cup UNION {UNION {FlushFailures(Cleaned(fr, W), WrittenTo(f, fr, W), p) : p \in S \ W} :
                  W \in {V \in SUBSET S : \A p \in V : CanFlush(fr, p)}}

\* The unpinned pages used longest ago; HashMap order picks among equals.
PinsIgnored(fr) == DOMAIN fr                          \* mutant: pins not looked at
Unpinned(fr) == {p \in DOMAIN fr : fr[p].pin = 0}

MostRecentFirst(fr) ==                                \* mutant: max_by_key
    {p \in Unpinned(fr) : \A q \in Unpinned(fr) : fr[p].used >= fr[q].used}
Victims(fr) ==
    {p \in Unpinned(fr) : \A q \in Unpinned(fr) : fr[p].used <= fr[q].used}

FullTooLate(fr) == Cardinality(DOMAIN fr) > Capacity  \* mutant: off by one
Full(fr) == Cardinality(DOMAIN fr) >= Capacity

\* The victim is flushed first and stays when that fails.
DroppedUnflushed(fr, f, v) == {Flushed("Ok", Without(fr, v), f)}      \* mutant
EvictionOutcomes(fr, f, v) ==
    {IF o.res = "Ok" THEN Flushed("Ok", Without(o.frames, v), o.file) ELSE o :
       o \in FlushOutcomes(fr, f, {v})}

EnsureSpaceOutcomes(fr, f) ==
    IF ~Full(fr) THEN {Flushed("Ok", fr, f)}
    ELSE IF Victims(fr) = {} THEN {Flushed("AllFramesPinned", fr, f)}
    ELSE UNION {EvictionOutcomes(fr, f, v) : v \in Victims(fr)}

-----------------------------------------------------------------------------
(* Shared parts of the actions.                                            *)

FileBecomes(f) ==
    /\ file' = f
    /\ unsynced' = unsynced \cup {p \in DataPages : f.pages[p] # file.pages[p]}

PinUnchecked(p) == FALSE                              \* mutant: checked_add dropped
PinExhausted(p) == frames[p].pin = PinLimit

EveryFrameWritable == TRUE                            \* mutant: flag ignored
FrameWritable == Writable(mgr)

Acquire(g, p) == held' = [held EXCEPT ![g] = p]

-----------------------------------------------------------------------------
(* Operations.                                                             *)

\* pin of a cached page, whose pin count may be exhausted.
PinHit(g, p) ==
    /\ mgr # Closed
    /\ held[g] = NoPage
    /\ p \in Cached
    /\ clock' = NextClock
    /\ IF PinExhausted(p)
       THEN /\ frames' = Stamped(frames)
            /\ UNCHANGED <<held, older>>
       ELSE /\ frames' = [Stamped(frames) EXCEPT ![p].pin = @ + 1, ![p].used = NextClock]
            /\ Acquire(g, p)
            /\ older' = Touched(p, Cached)
    /\ UNCHANGED <<mgr, file, loan, unsynced, committed>>

\* pin of a page not cached: room is made before the page is read.
PinMiss(g, p) ==
    /\ mgr # Closed
    /\ held[g] = NoPage
    /\ p \notin Cached
    /\ Allocated(mgr, p)
    /\ clock' = NextClock
    /\ \E o \in EnsureSpaceOutcomes(Stamped(frames), file) :
         /\ o.res = "Ok"
         /\ frames' = With(o.frames, p, NewFrame(o.file.pages[p]))
         /\ FileBecomes(o.file)
    /\ Acquire(g, p)
    /\ older' = Touched(p, DOMAIN frames')
    /\ UNCHANGED <<mgr, loan, committed>>

\* There is no room for a page that is not cached (page 0 never is), or the
\* page is not allocated, or reading it fails: one may be evicted for nothing.
PinMissFails ==
    /\ mgr # Closed
    /\ clock' = NextClock
    /\ \E o \in EnsureSpaceOutcomes(Stamped(frames), file) :
         /\ frames' = o.frames
         /\ FileBecomes(o.file)
    /\ older' = Remaining(DOMAIN frames')
    /\ UNCHANGED <<mgr, held, loan, committed>>

\* allocate_page: room is made, the disk allocates, the clock ticks.
AllocatePage(g) ==
    /\ mgr # Closed
    /\ Writable(mgr)
    /\ held[g] = NoPage
    /\ \E o \in EnsureSpaceOutcomes(frames, file) :
         /\ o.res = "Ok"
         /\ \E a \in AllocatePageOutcomes(mgr, o.file) :
              /\ a.res = "Ok"
              /\ mgr' = a.mgr
              /\ FileBecomes(a.file)
         /\ frames' = With(Stamped(o.frames), mgr.next, NewFrame(Zero))
    /\ clock' = NextClock
    /\ Acquire(g, mgr.next)
    /\ older' = Touched(mgr.next, DOMAIN frames')
    /\ UNCHANGED <<loan, committed>>

AllocatePageFails ==
    /\ mgr # Closed
    /\ Writable(mgr)
    /\ \E o \in EnsureSpaceOutcomes(frames, file) :
         /\ frames' = o.frames
         /\ IF o.res # "Ok"
            THEN UNCHANGED mgr /\ FileBecomes(o.file)
            ELSE \E a \in AllocatePageOutcomes(mgr, o.file) :
                   /\ a.res # "Ok"
                   /\ mgr' = a.mgr
                   /\ FileBecomes(a.file)
    /\ older' = Remaining(DOMAIN frames')
    /\ UNCHANGED <<clock, held, loan, committed>>

\* PageGuard::read and PageGuard::write: RefCell borrows of the page.
BorrowRead(g) ==
    /\ held[g] # NoPage
    /\ loan[g] = "none"
    /\ \A h \in Guards : held[h] = held[g] => loan[h] # "write"
    /\ loan' = [loan EXCEPT ![g] = "read"]
    /\ UNCHANGED <<mgr, file, frames, clock, held, unsynced, committed, older>>

BorrowWrite(g) ==
    /\ held[g] # NoPage
    /\ FrameWritable
    /\ ~Borrowed(held[g])
    /\ loan' = [loan EXCEPT ![g] = "write"]
    /\ UNCHANGED <<mgr, file, frames, clock, held, unsynced, committed, older>>

EndBorrow(g) ==
    /\ loan[g] # "none"
    /\ loan' = [loan EXCEPT ![g] = "none"]
    /\ UNCHANGED <<mgr, file, frames, clock, held, unsynced, committed, older>>

\* Page::write through a mutable borrow.
WritePage(g, bytes) ==
    /\ loan[g] = "write"
    /\ frames' = [frames EXCEPT ![held[g]].data = bytes, ![held[g]].dirty = TRUE]
    /\ committed' = [committed EXCEPT ![held[g]] = NoBytes]
    /\ UNCHANGED <<mgr, file, clock, held, loan, unsynced, older>>

\* Dropping a guard, which no borrow of its page can outlive.
DropGuard(g) ==
    /\ held[g] # NoPage
    /\ loan[g] = "none"
    /\ frames' = [frames EXCEPT ![held[g]].pin = @ - 1]
    /\ held' = [held EXCEPT ![g] = NoPage]
    /\ UNCHANGED <<mgr, file, clock, loan, unsynced, committed, older>>

\* flush_page of one cached page, flush_all of every one of them.
Flush(S) ==
    /\ mgr # Closed
    /\ \E o \in FlushOutcomes(frames, file, S) :
         /\ frames' = o.frames
         /\ FileBecomes(o.file)
    /\ UNCHANGED <<mgr, clock, held, loan, committed, older>>

FlushPage(p) == p \in Cached /\ Flush({p})
FlushAll == Flush(Cached)

\* What fsync makes permanent: the pages the header on disk counts.
SyncedPages(f) == [p \in DataPages |-> IF p < f.next THEN f.pages[p] ELSE NoBytes]

\* sync: flush_all, then fsync; a failed sync is a FlushAll.
Sync ==
    /\ mgr # Closed
    /\ \E o \in FlushOutcomes(frames, file, Cached) :
         /\ o.res = "Ok"
         /\ frames' = o.frames
         /\ file' = o.file
         /\ committed' = SyncedPages(o.file)
    /\ unsynced' = {}
    /\ UNCHANGED <<mgr, clock, held, loan, older>>

SetCatalogRoot(p) ==
    /\ mgr # Closed
    /\ \E o \in SetCatalogRootOutcomes(mgr, file, p) :
         /\ mgr' = o.mgr
         /\ file' = o.file
    /\ UNCHANGED <<frames, clock, held, loan, unsynced, committed, older>>

Emptied ==
    /\ frames' = NoFrames
    /\ clock' = 0
    /\ held' = [g \in Guards |-> NoPage]
    /\ loan' = [g \in Guards |-> "none"]
    /\ older' = {}

\* close consumes the pool, so no guard exists.  On success the manager is
\* returned, to be dropped or given to a new pool; on failure it is dropped.
Close ==
    /\ mgr # Closed
    /\ \A g \in Guards : held[g] = NoPage
    /\ \E o \in FlushOutcomes(frames, file, Cached) :
         \/ /\ o.res = "Ok"
            /\ file' = o.file
            /\ committed' = SyncedPages(o.file)
            /\ unsynced' = {}
            /\ mgr' \in {mgr, Closed}
         \/ /\ FileBecomes(o.file)
            /\ mgr' = Closed
            /\ UNCHANGED committed
    /\ Emptied

\* The pool is dropped without close, or its process stops.
Stop ==
    /\ mgr # Closed
    /\ mgr' = Closed
    /\ Emptied
    /\ UNCHANGED <<file, unsynced, committed>>

\* DiskManager::open or open_read_only, then BufferPool::new.
Open(readOnly) ==
    /\ mgr = Closed
    /\ Openable(file)
    /\ mgr' = OpenManager(file, readOnly)
    /\ UNCHANGED <<file, frames, clock, held, loan, unsynced, committed, older>>

Next ==
    \/ \E g \in Guards, p \in DataPages : PinHit(g, p) \/ PinMiss(g, p)
    \/ PinMissFails
    \/ \E g \in Guards : AllocatePage(g)
    \/ AllocatePageFails
    \/ \E g \in Guards : BorrowRead(g) \/ BorrowWrite(g) \/ EndBorrow(g) \/ DropGuard(g)
    \/ \E g \in Guards, bytes \in Content : WritePage(g, bytes)
    \/ \E p \in DataPages : FlushPage(p) \/ SetCatalogRoot(p)
    \/ FlushAll
    \/ Sync
    \/ Close
    \/ Stop
    \/ \E readOnly \in BOOLEAN : Open(readOnly)

Spec == Init /\ [][Next]_vars
-----------------------------------------------------------------------------
(* The pool never holds more frames than its capacity, whatever pins,      *)
(* failed evictions and failed allocations happened before.                *)
CapacityRespected == Cardinality(Cached) <= Capacity

(* The page of a live guard stays in the cache: no eviction, failed or not, *)
(* separates a guard from its frame, so two guards of a page share one.     *)
GuardedPagesCached == \A g \in Guards : held[g] # NoPage => held[g] \in Cached

(* A frame's pin count is the number of its live guards: hits, misses,     *)
(* exhausted pins and drops keep the books exactly.                        *)
PinsMatchGuards ==
    \A p \in Cached : frames[p].pin = Cardinality({g \in Guards : held[g] = p})

(* A frame that is not dirty agrees with the file, also after a write that *)
(* failed half-way, a partial flush_all or a reopening: nothing a caller   *)
(* wrote is dropped by treating its frame as clean.                        *)
CleanMatchesFile ==
    \A p \in Cached : frames[p].dirty \/ frames[p].data = file.pages[p]

(* A dirty frame can be written back: it belongs to a writable pool and to *)
(* an allocated page, so write_page rejects it for neither reason.         *)
DirtyIsWritable ==
    \A p \in Cached : Allocated(mgr, p) /\ (frames[p].dirty => Writable(mgr))

(* The stamps order the cached pages by their last use; only pages unused  *)
(* since the clock wrapped are tied.                                       *)
StampsFollowUse ==
    \A e \in older : \/ frames[e[1]].used < frames[e[2]].used
                     \/ frames[e[1]].used = 0 /\ frames[e[2]].used = 0

(* What a successful sync or close promised of a page holds in the file    *)
(* until the page is written through a guard again: no later flush,        *)
(* eviction, failed write or crash touches it, and it needs no new fsync.  *)
CommittedStaysPut ==
    \A p \in DataPages : committed[p] # NoBytes =>
        p \notin unsynced /\ file.pages[p] = committed[p]

\* A pin ticks before it makes room: a clock that wraps then has just reset
\* the stamps the victim is chosen by.  An allocation ticks afterwards.
PinWraps == clock = ClockLimit /\ clock' = NextClock /\ mgr' = mgr

(* The frame that leaves an open pool to make room is unpinned, and every  *)
(* unpinned frame was used after it, but for frames not used since the     *)
(* clock wrapped, which are tied; when a pin wraps it, all of them are.    *)
EvictsLeastRecentlyUsed ==
    [][\A v \in Cached \ DOMAIN frames' :
         Stop \/ Close \/
           /\ frames[v].pin = 0
           /\ \A q \in Unpinned(frames) : <<q, v>> \in older =>
                PinWraps \/ frames[v].used = 0]_vars

(* A pool over a read-only manager never writes the file nor dirties a     *)
(* frame.                                                                  *)
ReadOnlyNeverWrites ==
    [][mgr # Closed /\ mgr.readOnly =>
         file' = file /\ \A p \in DOMAIN frames' : ~frames'[p].dirty]_vars

-----------------------------------------------------------------------------
(* The pool implements PageStore: clients see the cached bytes or the      *)
(* file's, and exactly the dirty frames are pending.                       *)
PageCount == IF mgr = Closed THEN file.next - 1 ELSE mgr.next - 1

View(p) == IF p \in Cached THEN frames[p].data ELSE file.pages[p]

Store == INSTANCE PageStore WITH
    view    <- [p \in 1 .. PageCount |-> View(p)],
    disk    <- [p \in 1 .. PageCount |-> file.pages[p]],
    pending <- {p \in Cached : frames[p].dirty},
    kept    <- file.next - 1

ImplementsPageStore == Store!Spec
=============================================================================
