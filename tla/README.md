# Verification of North's storage engine

TLA+ specifications of North, an embedded single-file database in Rust
(`src/src/`), with the TLC runs that check them on small instances and TLAPS
proofs for every value of the constants. `PROJECT.json` lists the runs, the
lines each definition models, the mutants that show a property can fail, the
hazards the properties are for, and the theorems.

## 1. The system

North is a library without threads: one process opens one database file of
8 KiB pages, and every layer borrows the one below. What makes it hard is not
parallelism but failure in the middle of a call, callers that keep guards,
record identifiers and handles across other calls, and long histories.

| Component (source) | State | Operations | Uses |
| --- | --- | --- | --- |
| `DiskManager` (`storage/disk.rs`) | the file; the header in memory (page-id high-water mark, catalog root); read-only flag | create, open, open_read_only, allocate_page, read_page, write_page, set_catalog_root_page_id, sync | the file system |
| `BufferPool`, `PageGuard` (`storage/buffer_pool.rs`) | cached frames (page, dirty, pin count, last use), LRU clock | pin, allocate_page, guard read / write / drop, flush_page, flush_all, sync, close | `DiskManager` |
| `Page` (`storage/page.rs`) | 8192 bytes, dirty flag | bounded reads and writes | – |
| `SlottedPage` (`heap/slotted_page.rs`) | slot directory, record bytes, counts, in a page | insert, get, delete, compact, live_rids, validate, page link | `Page` through a guard's borrow |
| `Rid` (`storage/rid.rs`) | page, slot, generation | encode, decode | – |
| `HeapFile` (`heap/heap_file.rs`) | in-memory list of the pages of a chain | create, open, insert, get, delete, scan | `BufferPool`, `SlottedPage` |
| `Catalog` (`catalog/mod.rs`) | name → table map, next table id, catalog heap | create, open, create_table, open_table_heap | `HeapFile`, schema codec |
| `TableSchema` (`schema/table.rs`) | immutable declaration | new, encode, decode | `Cursor` |
| `RowLayout` (`schema/row.rs`) | column offsets | encode_row, decode_row, project | `TableSchema` |
| `Config`, CLI (`config.rs`, `main.rs`) | – | load and validate a YAML file | – |

Calls go downward only. The pool hands out `PageGuard`s, which pin a frame
until dropped; a guard's page is borrowed shared or mutably (`RefCell`, checked
at run time), and the pool itself borrows a page mutably to write it back.

Hard behaviours, by component, and what makes each correct:

* **Disk manager.** A call is several writes, each of which may fail after part
  of it; memory is changed between them; the process or the power may stop
  anywhere. Correct means: no page id is handed out twice, no page in use is
  zeroed, the header never counts pages the file lacks, the root is set once.
* **Buffer pool.** Eviction, pins and dirty flags must agree while write-backs
  fail half-way and guards live on. Correct means: a guard keeps its frame,
  pins equal guards, a clean frame equals the file, capacity holds, the least
  recently used page leaves, and clients read what they wrote.
* **Slotted page.** Space is reused by slots and by compaction. Correct means:
  rows keep their bytes, identifiers are never reissued, a record that fits is
  stored.
* **Heap file.** An append is four pool calls that may fail in between; two
  handles of a heap hold separate page lists; the chain on disk may be older
  than either. Correct means: every row whose insert succeeded is scanned, and
  walking a chain ends.
* **Catalog.** A table is a catalog row and a heap page written back
  independently. Correct means: names and ids unique, every record's heap
  opens.
* **Schema and row.** Pure codecs, at rest between two runs of the program.
  Correct means: decode inverts encode, accepts nothing encode cannot produce,
  and encode accepts exactly what a page can take.

## 2. Modules

| Module | Models | Abstracts |
| --- | --- | --- |
| `DiskFile` | a file, a manager's header, and each call as the set of its outcomes | page contents are members of `Content`; part of a write over part of another is the single value `Torn`; seeks, paths, magic, version, reserved words |
| `DiskManager` | the manager's calls as actions, with process stops and power loss | – |
| `BufferPool` | the pool and its guards over `DiskFile`, reopened any number of times | the statistics counters |
| `PageStore` | what a pool promises its clients | – |
| `SlottedPage` | a heap page and its operations as operators | byte offsets of header fields, 16-bit codecs |
| `PageLife` | any sequence of operations on one heap page | the page link |
| `RowStore` | what one heap page promises | – |
| `HeapChain` | chains of linked pages | – |
| `HeapOpen` | the loop of `HeapFile::open` | a page is its link, or unreadable |
| `HeapFile` | one table's heap and the handles on it, over `PageStore` | which error a call answers |
| `TableStore` | what a heap promises across losses of the pool: its rows, its rids, and whether it opens | – |
| `Catalog` | the catalog's heap and map, and the chains of the tables' heaps, over `PageStore` | the record codec; the rows of tables |
| `RowLayout` | the row codec | a little-endian word is one cell; ints and floats are opaque; of UTF-8, the bytes below 128 |
| `TableSchema` | declarations and their codec | likewise; an identifier is the sequence of its bytes |
| `StoredTable` | a catalog record and a row at rest: declared, reopened, written, read, damaged | where in the file the two lie |
| `DiskFileProofs` | lemmas on the outcomes of disk calls | – |
| `DiskManagerProofs` | theorems about the manager and its header, power losses included | – |
| `BufferPoolProofs` | theorems about the pool: books, contents, replacement; it implements `PageStore` | – |
| `HeapLemmas` | lemmas on heap pages, sums of sizes, and chains | – |
| `PageLifeProofs` | theorems about a heap page; it implements `RowStore` | – |
| `HeapFileProofs` | the walk of `HeapFile::open` answers what the file holds; theorems about a table's heap, which implements `TableStore` | – |
| `CatalogProofs` | theorems about the catalog while one `Catalog` value is in use | – |
| `StoredTableProofs` | lemmas on the two codecs for lists of any length; theorems about records and rows at rest | – |

`BufferPool` composes `DiskFile`: its actions apply the outcome sets of the
disk calls they make, in the order of the code. `PageLife` composes
`SlottedPage`. `HeapFile` and `Catalog` stand on `PageStore`, the specification
`BufferPool` is proved to implement, so that a write-back or a loss of the pool
may come between any two of their calls; `HeapFile` puts `SlottedPage` values in
the pages. `StoredTable` composes the two codecs with the limits of
`SlottedPage`. The `MC...` modules give constants their values.

### State and actions against the code

`DiskFile`. `File` is the database file: `len` whole pages, `ragged` when it
ends in a fraction of one, the two header words `next` and `root` as they are
on disk (`root = PageIdLimit` is the sentinel `NO_CATALOG_ROOT`, and
`PageIdLimit` stands for `u32::MAX` in both of its uses), and the data pages.
`Manager` is `DatabaseHeader` with the read-only flag. A call is
`XOutcomes(m, f, ...)`: the set of `[res, mgr, file]` it can end with, early
returns in the code's order. A page write that fails leaves the page old, new or
torn; one that extends the file leaves it as it was or ragged. The header write
that fails leaves neither word, the first or both changed.

`DiskManager` has an action per call. A process that dies inside a call leaves
exactly the file of one of the call's failures, so a failing outcome followed by
`Stop` is that crash, and no separate crash action is needed. `PowerLoss`
rolls back any part of what was written since the last sync.

`BufferPool` has one variable per field of `BufferPoolInner` (`mgr`, `file`,
`frames`, `clock`), the live guards with the page each pins (`held`) and how it
borrows it (`loan`), and three histories no guard reads: `unsynced`,
`committed` and `older`. `pin` is `PinHit`, `PinMiss` and `PinMissFails`;
each includes its `next_tick` and, for a miss, the whole of `ensure_space` with
the victim's write-back. `FlushOutcomes` is `flush_all` in any `HashMap` order,
up to its first failure. `Close` and `Stop` end the pool, `Open` is a new
manager and pool on the file. `Frame.writable` is the manager's flag, which
never changes while a pool lives.

`PageLife` has the page and the history of issued rids; a page is its header
words, its directory and the bytes behind the header. Directory entries are
kept apart from the bytes, so it is `freeStart` that keeps records from the
directory, as in the code.

`HeapOpen` has the local variables of `open` (`pages`, `current`, the answer)
and one action per way through the loop body.

`HeapFile`. `view`, `disk`, `pending` and `kept` are the pool's; `handle[h]` is
the `pages` vector of a `HeapFile` value, and `call` the operation between two
pool calls: `create` is allocate / initialize, an append allocate / fill / link.
The `?` after each pool call is the action that gives up there
(`AllocatePageFails`, `AppendLinkFails`); calls that fail before they change
anything are no step. `Open` takes its result from `HeapChain!Chains`, which is
what the loop of `HeapOpen` finds (`OpenAnswers`, section 4). `get` and `scan`
change nothing: they are `RowsOn` in the properties. The pool writes back one
page at a time (`WriteBack`): a flush of several is several such steps. The
histories `rows`, `issued`, `since`, `safe`, `grown` and `cut` are read by no
guard but the bound on rids; `cut` says that a handle appended behind a page
that already had a link, and what the heap promises is promised until then. `Lose` also drops all
handles: nothing in the types binds a `HeapFile` to its pool, and that a handle
is not used with the next pool after a loss is an assumption. `Status`, read by
the refinement only, says whether the heap is created, opens, or no longer opens.

`Catalog`. `catalog[c]` is a `Catalog` value, `rootInMemory` and `rootOnDisk` the
header's root; `create` is allocate / initialize / flush / set root,
`create_table` allocate / initialize / insert, where insert may be another
allocate / fill / link. Write-backs are one page
at a time, as in `HeapFile`. `Fail` is a pool call in between that fails. Setting the
root fails after memory has it (`SetRootFails`), and the next allocation then
writes it with the header. `Openable` is `open` with its walk of every table's
heap. So that those heaps change, tables take inserts and deletes through the
handles of `open_table_heap`, as the pages they write: `ChangeRow` dirties a page
of the heap, and an append is `AppendTable`, `Initialize`, `ExtendTable`. Handles
are not kept here: any page of the chain may get the link, as the last page any
handle lists does, and cutting the chain is one of the cases. What a handle does to
pages that were cut out is no step; they come back only with a loss that undoes the
cut, and then the heap grew since the last sync.

`RowLayout` and `TableSchema`. A row is the sequence of its cells: `encode_row`
is `EncodedRow`, with `EncodesRow` for its checks, `decode_row` and `validate`
are `DecodedRows`, the set of the one list of values they return, or of none
when they answer an error. `TableSchema::new` is `ValidSchema`; the cursor walk
of `decode` is a recursive function over the columns.

`StoredTable` has the cells of the table's record in the catalog, the table as a
`Catalog` holds it, and the cells of a row: `Declare` is `create_table` with its
refusal of records that are too large, `Reopen` is `Catalog::open` reaching the
record, `WriteRow` is `encode_row`, and `DamageRecord` and `DamageRow` change,
cut off or add any one cell. `declared` and `written` are histories.

## 3. Runs

| Run | Instance | States | Shows |
| --- | --- | --- | --- |
| `disk_manager` | 2 data pages, 2 contents, 1 power loss | 148 k | header, length and memory stay ordered under every failure (`HeaderBacked`); a page granted is covered by the header on disk and survives (`GrantsArePersisted`, `GrantedPagesKept`); the root is final (`RootIsFinal`); only a ragged end makes a created file unopenable (`OnlyRaggedFilesAreRefused`) |
| `pool` | 2 pages, 1 frame, 3 guards (symmetric), pin limit 2 | 173 k | guards of one page share its frame until pins are exhausted (`GuardedPagesCached`, `PinsMatchGuards`); a clean frame equals the file (`CleanMatchesFile`); what a sync promised stays in the file (`CommittedStaysPut`); every miss evicts or is refused within capacity; a read-only pool writes nothing; **the pool implements `PageStore`** |
| `pool_lru` | 4 pages, 3 frames, 1 guard, clock limit 5 | 462 k | evictions choose the least recently used unpinned page across clock wraps, the misses that wrap the clock apart |
| `page_life` | page of 10 bytes, 4 slots, 3 generations, records of 0, 1, 3, 7 bytes | 23 k | **the page implements `RowStore`**; it always passes `validate` and can be compacted (`PageStaysValid`); an insert succeeds exactly when the record fits; generations only grow; a stale rid deletes nothing |
| `page_life_no_space` | the same | – | violation: see Findings |
| `heap_open` | every file of 4 pages, each unreadable or linked anywhere | 4 k | the walk ends (`OpenEnds`) and answers what the file holds |
| `heap_file` | 2 handles (symmetric), 3 one-row pages, 3 rids, 1 loss | 453 k | scans return exactly the rows inserts reported (`ScansSeeEveryRow`) and handles know the chain until a stale handle cuts it; afterwards each handle still reads its own pages right and the heap still opens; **the heap implements `TableStore`**: a loss leaves it with every synced row, or as a heap that never opens again; and the latter only if it grew since the last sync or a page is torn |
| `heap_stale_handle` | the same | – | violation: see Findings |
| `catalog` | 1 catalog, 3 names (symmetric), 5 pages, 1 loss | 429 k | opening gives the catalog in use (`ReopensTheSame`); names and ids are unique and no two heaps share a page; synced declarations survive; only growth of the catalog or of a table's heap since the last sync, or a torn page, makes the catalog unopenable |
| `catalog_two` | 2 catalogs | – | violation: see Findings |
| `stored_table` | 4 declarations of 1, 3, 9 and 10 columns, pages of 50 cells, 1 damage | 55 k | records and rows read back as written (`DeclarationsSurvive`, `RowsSurvive`); what is accepted after damage is what encode writes for it, padding bits apart (`RecordsCanonical`, `RowsCanonical`); no row decodes without its primary key; encode takes exactly what an empty page takes (`TakesWhatAPageTakes`) |
| `row_padding` | the same | – | violation: see Findings |

The type invariants of `PageLife`, `HeapOpen`, `HeapFile` and `StoredTable` are
conjuncts of `PageStaysValid`, `AnswersWhatTheFileHolds`, `HandleKnowsChain` and
`DeclarationsSurvive`.

Bounds and why they are enough. Two data pages let one be allocated while
another is cached, dirty or torn, and let every page id be exhausted
(`PageIdLimit = 3`). One frame makes each miss an eviction; three guards with
`PinLimit = 2` share a page until its pins are exhausted, and a flush of one
frame fails at any of its points. That a flush of several frames may stop
between two of them is in the proofs, which are for every capacity, and in
`pool_lru`, whose three frames it flushes in any order. `ClockLimit = 2` wraps
the clock within two pins; `pool_lru` has more pages than frames and a clock
that wraps after the cache filled, and to afford that leaves out failed writes
and the catalog root (`UndisturbedSpec`), which `pool` has. Two contents suffice,
since contents are only copied and compared. Ten-byte pages hold up to four
entries, or records that leave holes of every size up to a full page; three
generations retire slots. One power loss follows any history; a second would
start from a state that reopening also produces. Three heap pages are a first,
a middle and a last one, and with one row to a page an insert appends unless a
row was deleted. Three rids let a slot be reused and a stale rid be deleted; after the
one loss, any history may follow over what it left. Five catalog pages hold the root
page, the heaps of two tables, an appended catalog page, and one more that an
append gives to a table or a failed call leaks; with fewer declarations, a table's
heap has up to four pages, linked and cut in any order; `IdLimit = 3` is `u32::MAX`, so the third table is
refused. Two handles are one that appends and one that does not know of it.
Declarations of nine columns need two bytes of null bitmap, whose second has
padding; one of ten makes a record too long for a page, and the longest text a
row too long. One damage is any changed, missing or surplus cell, with the
values the decoder tells apart (`MCCell`): flags, type tags, the magic numbers,
lengths at the limits, bytes beyond ASCII.

`CHECK_DEADLOCK FALSE` is stated where the system really stops: a file or
a catalog that `open` refuses leaves nothing to do once the pages are used up,
and the walk of `heap_open` ends.

Each property has a mutant in `PROJECT.json`, a plausible mistake in one mapped
definition (`FullTooLate`, `MarkedCleanFirst`, ...), kept beside the definition
and marked "mutant"; TLC finds the property violated under it.

Fairness is assumed in one place. Nothing in these components runs by itself,
every step is a call by a client that may stop calling; but a call that began
goes on, and the one loop whose end is in question is the walk of
`HeapFile::open`. `HeapOpen` has weak fairness of its step, which waits for
nobody, and `OpenEnds` says that the walk ends, on cyclic chains too.

### Environment assumptions

A single process owns the file (the code takes no lock). A file's name is
durable once the file was synced. The two header words, eight adjacent bytes,
reach the disk together on a power loss. A failed fsync does not forget what
remained to be written. Reads return what was written. A page torn by a failed
write does not pass `SlottedPage`'s validation (there is no checksum, so a tear
between two valid images could). In `HeapFile` and `Catalog` a loss of the pool
is a close or the death of the process: the file keeps what was written to it;
power losses are in `DiskManager`.

### Findings

`page_life_no_space` (code bug). When the free bytes of a page, all live
records packed, are fewer than a slot entry, `free_space_after_compaction`
cannot subtract the directory growth and `insert` answers `Corrupt` instead of
`NoSpace`; `HeapFile::insert` goes on to the next page, or appends one, only on
`NoSpace`. One exactly full page therefore makes every later insert that
reaches it fail, against the test of `NoSpace` and the promise of
`ARCHITECTURE.md` that a new page is linked when no page fits.

`heap_stale_handle` (code and document diverge). `append_page_with_record`
links behind the last page its handle lists without looking whether that page
has a link by now. `open_table_heap` takes `&self`, so a table may have two
handles; when both append, the older one cuts the other's page, with its rows,
out of the chain, where `ARCHITECTURE.md` says the page is linked at the tail.

`catalog_two` (code and document diverge). Two `Catalog` values opened on one
pool each check names and ids against their own map only, and can both declare
the same table: "Table names and IDs must be unique" fails, and `open` refuses
the catalog from then on.

`row_padding` (code and document diverge). `validate` looks at the null bits of
existing columns only, so the padding bits of the last bitmap byte may hold
anything: a row that `encode_row` never writes decodes, against the canonical
layout that `ARCHITECTURE.md` promises. `RowsCanonical` of `stored_table` says
that nothing else keeps the layout from being canonical.

Two behaviours the properties make room for, as the documentation promises
nothing else: growing a heap or declaring a table makes the heap, and with a
table's heap the whole catalog, unopenable if the process dies when the link or
declaration was written back and the page it names was not; and the root of an empty catalog, when writing it
failed, stays usable in memory but a later `sync` does not write it.

## 4. Proofs

TLC checks the small instances above; the theorems of this section hold for
every value of the constants that satisfies the named assumptions. All are safety
properties of the specifications the runs check.

`DiskFileProofs` states what each call of `DiskFile` can do to a manager and its
file whatever the outcome (`AllocateEffect`, `WritePageEffect`,
`SetCatalogRootEffect`): types are kept, and `Backed` (header on disk ≤ mark
in memory ≤ file length) is preserved.

### The disk manager

`DiskManagerProofs` proves, for every `PageIdLimit`, file limit, `Content` and
`MaxPowerLosses`, that `Spec` of `DiskManager` implies every property
`disk_manager` checks:

| Theorem | Property |
| --- | --- |
| `TypeCorrect` | `[]TypeOK` |
| `HeaderIsBacked` | `[]HeaderBacked` |
| `RefusesOnlyRagged` | `[]OnlyRaggedFilesAreRefused` |
| `GrantsPersisted` | `[]GrantsArePersisted` |
| `RootSetOnce` | `[]RootIsFinal` |
| `PagesInUseKept` | `GrantedPagesKept` |
| `ReadOnlyManagerHarmless` | `ReadOnlyNeverWrites` |

Assumptions: `DiskFileAssumption` and `DiskManagerAssumption`.

Argument. `HeaderStep` sums up what any call does to the manager and the two
header words, and holds of each outcome (`AllocateStep`, `WritePageStep`,
`SetCatalogRootStep`). All seven rest on one inductive invariant, `Order`
(`OrderInvariant`). Its heart is `HeaderAfter`: every header page zero has held
since the last sync counts at least the pages of the synced one, has an
allocated root, and keeps a synced root. None of the properties is inductive
alone: a power loss brings back any of those headers, so `RootIsFinal` of the
present header says nothing of the next one; and that a granted page is not
zeroed by growing the file needs the header on disk to count it
(`GrantsArePersisted`) while the mark in memory is no lower (`HeaderBacked`).

### The buffer pool

`BufferPoolProofs` proves, for every `Capacity`, `PageIdLimit`,
`Guards`, `ClockLimit`, `PinLimit` and `Content`, that `Spec` implies each
property of the pool that the runs check:

| Theorem | Property | Inductive invariant |
| --- | --- | --- |
| `TypeCorrect` | `[]TypeOK` | `Books` |
| `GuardsKeepFrames` | `[]GuardedPagesCached` | `Books` |
| `PinCountsExact` | `[]PinsMatchGuards` | `Books` |
| `CapacityKept` | `[]CapacityRespected` | itself, with `Books` |
| `CleanIsClean` | `[]CleanMatchesFile` | `Contents` |
| `DirtyCanBeWritten` | `[]DirtyIsWritable` | `Books`, `Contents` |
| `PromisesKept` | `[]CommittedStaysPut` | `Contents` |
| `ReadOnlyPoolHarmless` | `ReadOnlyNeverWrites` | `Books`, `Contents` |
| `StampsOrderUses` | `[]StampsFollowUse` | `Recency` |
| `EvictionPolicy` | `EvictsLeastRecentlyUsed` | `Books`, `Recency` |
| `PoolRefinesPageStore` | `ImplementsPageStore` | `Books`, `Contents` |

`DirtyIsWritable` here and `ReadOnlyNeverWrites` of `DiskManager` are proved and
have no run of their own: TLC meets them on the way to the others.

Assumptions: `DiskFileAssumption` and `BufferPoolAssumption` (positive limits,
a finite set of guards, sentinels distinct from real values), which TLC
evaluates in every pool run. The Rust types give the limits (`u32`, `u64`,
`capacity == 0` is refused); guards are finite because memory is.

Argument. The helpers that flush, evict and make room are summed up in the
relation `WritesBack(fr, f, fr2, f2)`: pages leave the cache only unpinned,
those that stay keep data, pins and stamps, and the file changes only in dirty
frames of a writable pool (`FlushEffect`, `EvictionEffect`,
`EnsureSpaceEffect`). Every action is then this relation plus a small change.
The inductive invariant is `Books`: types, `PoolState` (an open pool is backed
by its file and caches only allocated pages, a closed one caches nothing, only
live guards borrow) and the two invariants together. None of them is inductive alone: exact pins
are why an eviction, which takes an unpinned page, cannot take a guarded one;
guarded pages being cached is why a dropped guard decrements a frame that
exists, from a count that is not zero; cached pages being allocated is why the page
`allocate_page` grants is not cached already. There is one lemma per action
(`PinHitBooks` ... `OpenBooks`) and `BooksStep` collects them. The others rest
on `Books`:

* `CapacityRespected`: `RoomForOne` shows that `ensure_space`, when it succeeds,
  leaves one frame's room; every other action leaves no more pages cached.
* `Contents` says that frames and file agree, and both with what was promised
  (`Agree`), that a mutable borrow means a writable pool, and that a promised
  page is not waiting for an fsync. The clean frames alone would not be
  inductive: that a promised page is clean is why no failed write-back tears
  it, that it lies below the header's mark is why growing the file does not
  zero it, and that a borrower's pool is writable is why what it dirties can be
  written back.
* `Recency` adds to the order of the stamps that none is above the clock, which
  is why a use stamps its page above all others, and that the history relates
  cached pages only. A wrap makes every stamp 0 and the next one 1
  (`StampedOrdered`). `VictimUnused` then reads the policy off `Victims`. The
  policy excuses the one pin that wraps the clock (`PinWraps`): it ticks first, and
  chooses among stamps just reset. An allocation ticks last and is not excused.

`PoolRefinesPageStore` maps each step of the pool to a step of `PageStore`. The
relation `LagsBehind(fr, f, fr2, f2, W)` says exactly how frames and file may
change while clients see nothing: the dirty frames of `W` are written back and
at most one more write fails, leaving its page new or torn. It is proved of
`flush_frame` in any order, of an eviction and of `ensure_space`, which writes
back one page at most (`FlushLag`, `EvictionLag`, `EnsureSpaceLag`); the clean
frames agreeing with the file is why an evicted page still reads the same. Pins,
flushes and syncs are then `WriteBack`, `allocate_page` is `Grow` also when only
its header write failed, closing is `WriteBack` or `Lose`, setting the root is
`Persist` or nothing, and all else is a stutter.

### The heap page

`PageLifeProofs` proves, for every `PageSize`, `HeaderSize`, `SlotSize`,
`GenerationLimit` and `Records` (`SlottedPageAssumption`, `PageLifeAssumption`):

| Theorem | Property |
| --- | --- |
| `PageAlwaysValid` | `[]PageStaysValid` |
| `InsertsWhatFits` | `[]InsertSucceedsIffFits` |
| `GenerationsGrow` | `GenerationsOnlyGrow` |
| `DeletesExactly` | `DeletesOnlyItsRow` |
| `PageRefinesRowStore` | `ImplementsRowStore` |

They rest on the invariant `LifeInv`. `Sound` says of the page that it passes
`validate`, and that the bytes of its live records are no more than what lies
behind `freeEnd`: this is why `compact` always finds room, and is not a
consequence of `validate`. `IssuedBefore` says that an issued rid's slot has its
generation or a later one, or that it is retired: this is why a reused slot
gives a rid that is new, and a stale one matches nothing.

The sum of record sizes is a recursive function over the directory, and how
`compact` lays records out another. The library's induction theorems cannot be
used (they take an operator), so what is needed of such sums is proved by least
counterexample from `WFMin`: that they exist, grow, and change with one summand
(`TotalsExist`, `TotalsChange`, `LiveBytesGrow`). What an operation does to a
sound page, whatever the page is part of, is a lemma of `HeapLemmas`
(`InsertSound`, `DeleteSound`, `CompactSound`), which the heap's proofs use too.

`InsertsWhatFits` says that an insert finds room exactly when there is some.
One half is `RoomFound`: contiguous space or not, the test comes to the live
bytes as `compact` adds them up. The property adds up the rows a client can
read, taking any one away at a time, and asks nothing of the order; that every
such order gives the same sum is `AddsUpAnyOrder`, by the smallest set for which
it does not.

### Opening a heap

`HeapFileProofs` begins with the walk of `HeapFile::open`: `WalkSpec` implies
`[]AnswersWhatTheFileHolds` (`OpenAnswers`), for every set of pages, file and
starting page (`HeapOpenAssumption`): when `open` returns
pages they are the chain, and it refuses only when there is none. The invariant
`WalkInv` says that the pages listed follow the links, that every chain of the
file begins with them (`BeginsChains`), and what each way out of the loop has
found (`Stands`). That a chain repeats no page (`ChainsDoNotRepeat`), by the last
repetition, is why meeting a page again means that there is no chain.

### A table's heap

`HeapFileProofs` goes on to prove, for every number of handles, pages, rids and
losses, and every page layout and set of records, that `Spec` of `HeapFile`
implies every property `heap_file` checks:

| Theorem | Property |
| --- | --- |
| `HeapScansSeeEveryRow` | `[]ScansSeeEveryRow` |
| `HeapHandlesKnowChain` | `[]HandleKnowsChain` |
| `HeapHandlesReadTheirPages` | `[]HandlesReadTheirPages` |
| `HeapOpensAgain` | `[]HeapAlwaysOpens` |
| `LossKeepsChain` | `LossKeepsHeapOpen` |
| `HeapImplementsTableStore` | `ImplementsTableStore` |

Assumptions: `SlottedPageAssumption` and `HeapFileAssumption`. Of the latter, that
a record fits an empty page is `HeapFile::insert`'s own refusal
(`RecordTooLarge`, before it touches a page): larger ones are no step. (The
constants and the assumption of `HeapOpen`, in the same module, are not used
here.)

The invariant is `HeapInv` (`HeapInvariant`), with one lemma for each action.
Its parts, and what would fail without them:

* `TypeInv` and `LinkInv`: pages, and those they link to, lie below the header's
  mark, in the pool and in the file. Otherwise the page an append allocates could
  already be linked from an old page, and filling it would change a chain.
* `CallInv`: until a call ends nothing knows of the page it allocated, neither
  handle, nor link, nor rid. This is why initializing or filling it disturbs
  nobody, and why linking it adds that page and no cycle (`ChainRelinked`).
* `RidInv`: pages remember the rids handed out on them, those in the file the
  rids of the last sync. Two rows never share a rid, before a loss or after it.
* `RowInv`: what is on the pages of a handle, and on those of the chain, is what
  the history says.
* `OpenInv`: there is a chain while the heap is in use; when a loss left none,
  the heap stays as it is.
* `WholeInv`: until an append cuts the chain (`cut`), each handle's list is the
  beginning of the chain, and the chain reaches every row. The first is why an
  insert through an old handle, which goes on from its last page, reaches the
  same rows as one through a new handle.
* `DiskInv`: each page of the file may be behind the page of the pool at its place
  in the chain, by rows inserted or deleted since the last sync and by its link,
  but it lacks the link only if no synced row comes after it (`Behind`); and if
  the heap has not grown since the sync its links are those of the pool.

That a loss keeps the synced rows needs all of `DiskInv`. Chains that start on
the file leave the pool's at the first page whose link was not written back;
`LostChainBegins` finds it as a least counterexample and shows that the chain of
the file is a beginning of the pool's, so that what `Behind` says of each page
adds up to what `TableStore` promises of the rows. `LostRows` is that promise
of a file that has a chain; where it has none the heap does not open, `Status` is
"lost" and stays so. About chains themselves,
`HeapLemmas` proves that there is one at most (`ChainUnique`), that it repeats no
page, and that it ends if its walk stays within the pages (`ChainFound`).

### The catalog

`CatalogProofs` proves, for every set of names, number of records to a page,
`IdLimit`, number of pages and of losses, with `OneCatalog` as hypothesis, every
property `catalog` checks:

| Theorem | Property |
| --- | --- |
| `CatalogTypes` | `[]TypeOK` |
| `CatalogReopens` | `[]ReopensTheSame` |
| `CatalogDeclaresOnce` | `[]UniqueDeclarations` |
| `CatalogKeepsSynced` | `LossKeepsDeclarations` |
| `CatalogOpensAfterLoss` | `LossKeepsCatalogOpen` |

`OneCatalog` says that there is at most one `Catalog` value at a time. It is the
hypothesis of the theorems and not an assumption of the module, since the code
allows two, and then the properties are false: `catalog_two` shows it. The other
assumption is `CatalogAssumption`. (The lemmas on chains come with the constants
and the assumption of `SlottedPage`, which no proof about the catalog uses.)

The invariant is `CatalogInv` (`CatalogInvariant`):

* `TypeInv`, `LinkInv`: as for a heap; the heaps of declared tables are counted
  by the header too, so that a new table's page is nobody's.
* `TablesInv`: the records along the chain have unique ids and names, heaps of
  their own, off the catalog's pages; and before the root is on file there are
  none.
* `ApartInv`: no two pages, of the pool or of the file, link to one page, and none
  to the first page of the catalog or of a table. So no two chains share a page
  (`ChainsApart`, `TablesApart`), and linking a page to one heap leaves every other
  as it was; without it an append to a table could close another table's chain.
* `CatInv`: a `Catalog` value is what opening the catalog gives. Both uniqueness
  of names and the next id are decided from this value only, which is why it has
  to be exact, and why a second value breaks both.
* `OpenInv`, `DiskInv`: a catalog that does not open has nothing synced to lose;
  of one that does, the file has the synced records, in front of any missing link
  (`Behind`), and all of it, the chains of its tables included, if nothing grew
  since the sync (`OnFile`).
* `CallInv`: what a call under way may rely on (`Fits`). The page of a table being
  created is named by nobody (`Unnamed`), the record it will insert has a name and
  id that are still free (`Declares`), and the root being created is empty.

Most actions write no page of a chain: `Aside` says so once and
`CatalogInv` is kept by any such step. `ExtendTableStep` relinks a page of one
table's chain (`TableRelinked`), which may cut it and always leaves a chain. A declaration joins by a record on an
existing page or by the link to a new one; `JoinStep` covers both. After a loss
the chain of the file begins that of the pool, and `LostRecords` compares the
records along them.

### A table at rest

`StoredTableProofs` proves, for every page size, limit of columns and names,
declaration, list of values and number of damages, what `stored_table` checks:

| Theorem | Property |
| --- | --- |
| `RowsReadBack` | `[]RowsSurvive` |
| `TablesReopen` | `[]DeclarationsSurvive` |
| `RecordsHaveOneEncoding` | `[]RecordsCanonical` |
| `RowsHaveOneEncoding` | `[](BytesWhereRead => RowsCanonical)` |
| `KeysHaveValues` | `[]PrimaryKeyNeverNull` |
| `TakesWhatFitsAPage` | `[]TakesWhatAPageTakes` |

Assumptions: `StoredTableAssumption` and those of the modules it composes.

`BytesWhereRead` says that the bitmap and the payloads, as the layout of the
table in the catalog places them, consist of bytes. In the code a cell is a `u8`
and this is so by type. In the model a slot's word is one cell, and after a
damaged declaration was opened a layout could find such a word where it expects
a byte, with no eight bits to account for it. In all states of `stored_table`,
whose words are small, the hypothesis holds.

The invariant, `StoredInv` (`StoredInvariant`), says little: the table a catalog
holds is one that `TableSchema::new` accepts, a record that was not damaged is
that of the table declared, and a row that was not damaged is that of values
`encode_row` took. The theorems are about what the codecs do with them, hence
the lemmas, which are about lists of columns of any length:

* Where things lie. Slots and payloads follow each other, each place a running
  sum of widths or sizes; that sums accumulate (`SumsAccumulate`), that a place
  in the whole is one in exactly one part (`PlacesCover`), and what is found there
  after concatenation (`FlattenPlaces`), are proved by least counterexample, as the
  sums of a page are.
* The bitmap. A byte is the sum of its columns' weights; that the digit of a
  column shows that it is null (`BitmapDigits`, `DigitShows`) goes by
  the eight columns of a byte.
* Decoding a row that was encoded. `RowPlaces` has every cell of the row,
  `OffsetsExpected` that validate expects each payload where encode put it, and
  `RowDecodes` that the values come back.
* Decoding a schema that was encoded. `Shows` says that cells from a position on
  are those of given columns, and `ColumnsWalk` follows decode's cursor from column
  to column; `SchemaDecodes` and `RecordDecodes` end it.
* The converse: what decode accepts is what encode writes. For schemas and
  records (`SchemasDecoded`, `RecordsDecoded`) the walk leaves no cell out. For
  rows (`RowsDecoded`), payloads that start where the previous one ends, up to the
  end of the row, leave no room for anything else (`PayloadsStay`), slots of nulls
  are zero as encode writes them (`SlotsStay`), and a byte is the sum of its
  digits (`ByteHasDigits`), those of columns that do not exist apart
  (`BitmapStays`). That is all that `row_padding` finds.

`KeysHaveValues` is why it matters that `ValidSchema` is checked on reopening:
whatever was damaged, a table that opens has a key column that is not nullable,
and a row whose null bit says otherwise is refused.

The proof also corrected the model: the conditions by which a column is checked
and decoded overlapped, and `CASE` leaves open which of two true arms it takes,
where TLC takes the first. They are exclusive now, as the code's order has them.

### Assumed, and only model-checked

`Books`, `Contents`, `Order`, `LifeInv`, `WalkInv`, `HeapInv` and `CatalogInv` were
checked by TLC before they were proved, on the instances of the runs, `CatalogInv`
also on a larger one. The lemmas on the codecs cannot be run as they stand, being
about sequences of any length; the properties they serve were.

Only model-checked: the liveness property `OpenEnds` (liveness is out of the
prover's reach), and what happens with two `Catalog` values or a stale heap
handle, where properties fail. Inductions over data, which the library states
with an operator as parameter, were replaced by least counterexamples throughout
(`LeastExists` of `HeapLemmas`, from `WFMin`).

## 5. Not modelled

* `Config` (`config.rs`) reads a YAML file and tests four ranges one by one: no
  state, no order, nothing that the tests of the file leave open.
* The command line (`main.rs`) parses arguments and prints; it opens no
  database.
* `Rid` and `PageId` codecs (`storage/rid.rs`) concatenate little-endian words of
  fixed width. A rid is the pair or triple it encodes; the words a table record
  carries, and the values `Catalog::open` refuses, are in `StoredTable`.
* Statistics counters, `Display` and error types decide nothing. Magic numbers
  and reserved words of file and page headers are constants; those of table
  records and schemas are cells that may be damaged.
* Which of several errors a call reports, where a caller does not branch on it.
  `NoSpace` against `Corrupt`, which `HeapFile::insert` does branch on, is kept.

Left for further work: two managers open on one file (the code takes no lock),
which are outside the stated assumptions; and words of several byte cells in
`RowLayout`, which would make the hypothesis of `RowsHaveOneEncoding` a matter of
types.
