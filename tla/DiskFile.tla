------------------------------ MODULE DiskFile ------------------------------
(***************************************************************************)
(* The database file and the calls DiskManager makes on it (storage/       *)
(* disk.rs).  Everything here is an operator: a call is the set of its     *)
(* possible outcomes, so that DiskManager and BufferPool can both be built *)
(* from it.                                                                *)
(*                                                                         *)
(* A file is a record                                                      *)
(*   len     number of whole physical pages, header page included          *)
(*   ragged  the file ends in a fraction of a page                         *)
(*   next    the next_page_id word of page zero                            *)
(*   root    the catalog_root_page_id word of page zero                    *)
(*   pages   the bytes of every data page; beyond the end they are Zero,   *)
(*           which is what the file system fills an extended file with     *)
(* and a manager (struct DiskManager) is the header it holds in memory     *)
(* with its read_only flag.                                                *)
(*                                                                         *)
(* A write that fails may have written a prefix: a data page is then the   *)
(* old one, the new one (the differing bytes were all in the prefix) or a  *)
(* mixture, Torn; an extension leaves a ragged file; the header page is    *)
(* written field by field, next before root as they lie in the page.       *)
(* A crash in the middle of a call leaves one of these same files.         *)
(***************************************************************************)
EXTENDS Naturals

CONSTANTS
    PageIdLimit,   \* u32::MAX: no page has it, on disk it stands for "no catalog root"
    Content,       \* what a page may be written with
    Zero,          \* a page of zeros
    Torn,          \* a page holding part of one write and part of another
    NoRoot         \* Option::None of catalog_root_page_id

ASSUME DiskFileAssumption ==
    /\ PageIdLimit \in Nat
    /\ PageIdLimit > 1
    /\ Zero \in Content
    /\ Torn \notin Content
    /\ NoRoot \notin Nat

FirstDataPageId == 1
DataPages == FirstDataPageId .. (PageIdLimit - 1)
Bytes == Content \cup {Torn}

File == [len : 0 .. PageIdLimit, ragged : BOOLEAN, next : 0 .. PageIdLimit,
         root : 0 .. PageIdLimit, pages : [DataPages -> Bytes]]

Manager == [next : 1 .. PageIdLimit, root : DataPages \cup {NoRoot}, readOnly : BOOLEAN]

\* The catalog root as a word of page zero, and back.
EncodeRoot(root) == IF root = NoRoot THEN PageIdLimit ELSE root
DecodeRoot(word) == IF word = PageIdLimit THEN NoRoot ELSE word

\* The file a successful create leaves: only page zero, nothing allocated.
CreatedFile == [len |-> 1, ragged |-> FALSE, next |-> FirstDataPageId,
                root |-> EncodeRoot(NoRoot), pages |-> [p \in DataPages |-> Zero]]

\* A create cut short leaves a file without a whole header page.
ShortFile == [CreatedFile EXCEPT !.len = 0, !.next = 0, !.root = 0]

\* The checks open makes: whole pages, a header, no page beyond the end.
Openable(f) ==
    /\ f.len >= 1
    /\ ~f.ragged
    /\ f.next >= FirstDataPageId
    /\ f.next <= f.len

OpenManager(f, readOnly) ==
    [next |-> f.next, root |-> DecodeRoot(f.root), readOnly |-> readOnly]

-----------------------------------------------------------------------------
(* Single writes. *)

PutPage(f, p, bytes) ==
    IF p < f.len
    THEN [f EXCEPT !.pages[p] = bytes]
    ELSE [f EXCEPT !.pages[p] = bytes, !.len = p + 1, !.ragged = FALSE]

PutRootOnly(f, m) == [f EXCEPT !.root = EncodeRoot(m.root)]  \* mutant: mark not persisted
PutHeader(f, m) == [f EXCEPT !.next = m.next, !.root = EncodeRoot(m.root)]

FailedPageWrites(f, p, bytes) ==
    IF p < f.len
    THEN {f, [f EXCEPT !.pages[p] = Torn], [f EXCEPT !.pages[p] = bytes]}
    ELSE {f, [f EXCEPT !.ragged = TRUE]}

FailedHeaderWrites(f, m) == {f, [f EXCEPT !.next = m.next], PutHeader(f, m)}

-----------------------------------------------------------------------------
(* The calls: sets of [res, mgr, file].                                    *)

Outcome(res, m, f) == [res |-> res, mgr |-> m, file |-> f]

\* ensure_writable, ensure_allocated_data_page and the other early returns.
Writable(m) == ~m.readOnly

Allocated(m, p) == p >= FirstDataPageId /\ p < m.next

ExhaustedTooLate(m) == m.next > PageIdLimit           \* mutant: off by one
PageIdsExhausted(m) == m.next = PageIdLimit

RootNeverSet(m) == FALSE                              \* mutant: no check
RootAlreadySet(m) == m.root # NoRoot

\* allocate_page: a zeroed page at the high-water mark, then the mark is
\* raised in memory, then the header is written.
NotExtended(f, p) == f                                \* mutant: no page written
Extended(f, p) == PutPage(f, p, Zero)

AllocatePageOutcomes(m, f) ==
    IF ~Writable(m) THEN {Outcome("ReadOnly", m, f)}
    ELSE IF PageIdsExhausted(m) THEN {Outcome("PageIdExhausted", m, f)}
    ELSE LET raised == [m EXCEPT !.next = @ + 1]
             extended == Extended(f, m.next)
         IN  {Outcome("Io", m, g) : g \in FailedPageWrites(f, m.next, Zero)}
             \cup {Outcome("Io", raised, g) : g \in FailedHeaderWrites(extended, raised)}
             \cup {Outcome("Ok", raised, PutHeader(extended, raised))}

WritePageOutcomes(m, f, p, bytes) ==
    IF ~Writable(m) THEN {Outcome("ReadOnly", m, f)}
    ELSE IF ~Allocated(m, p) THEN {Outcome("PageNotAllocated", m, f)}
    ELSE {Outcome("Io", m, g) : g \in FailedPageWrites(f, p, bytes)}
         \cup {Outcome("Ok", m, PutPage(f, p, bytes))}

\* set_catalog_root_page_id: the root is set in memory before it is persisted.
SetCatalogRootOutcomes(m, f, p) ==
    IF ~Writable(m) THEN {Outcome("ReadOnly", m, f)}
    ELSE IF ~Allocated(m, p) THEN {Outcome("PageNotAllocated", m, f)}
    ELSE IF RootAlreadySet(m) THEN {Outcome("CatalogRootAlreadySet", m, f)}
    ELSE LET rooted == [m EXCEPT !.root = p]
         IN  {Outcome("Io", rooted, g) : g \in FailedHeaderWrites(f, rooted)}
             \cup {Outcome("Ok", rooted, PutHeader(f, rooted))}

=============================================================================
