---------------------------- MODULE SlottedPage ----------------------------
(***************************************************************************)
(* A heap page (heap/slotted_page.rs) and its operations as operators: a   *)
(* slot directory growing from the front, record bytes growing from the    *)
(* back.  A page is a record                                               *)
(*   slots      the directory; slot id i of the code is entry i + 1        *)
(*   freeStart  end of the directory, and                                  *)
(*   freeEnd    start of the record area, as the page header states them   *)
(*   live       the header's count of live slots                           *)
(*   bytes      the bytes after the header; directory entries live in      *)
(*              `slots`, so only freeStart keeps records out of them       *)
(* An operation returns [res, page, rid].                                  *)
(***************************************************************************)
EXTENDS Integers, Sequences, FiniteSets

CONSTANTS
    PageSize,          \* PAGE_SIZE
    HeaderSize,        \* PAGE_HEADER_SIZE
    SlotSize,          \* SLOT_ENTRY_SIZE
    GenerationLimit,   \* u16::MAX, the last generation of a slot
    Byte,              \* byte values
    ZeroByte

ASSUME SlottedPageAssumption ==
    /\ HeaderSize \in Nat /\ SlotSize \in Nat \ {0} /\ PageSize \in Nat
    /\ HeaderSize + SlotSize <= PageSize
    /\ GenerationLimit \in Nat \ {0}
    /\ ZeroByte \in Byte

Area == HeaderSize .. (PageSize - 1)

Slot == [offset : 0 .. PageSize, length : 0 .. PageSize,
         gen : 0 .. GenerationLimit, flags : {"free", "live", "retired"}]

Page == [slots : Seq(Slot), freeStart : 0 .. PageSize, freeEnd : 0 .. PageSize,
         live : Nat, bytes : [Area -> Byte]]

Rid == [slot : 1 .. (PageSize - HeaderSize) \div SlotSize, gen : 1 .. GenerationLimit]
NoRid == [slot |-> 0, gen |-> 0]

\* initialize_page
EmptyPage == [slots |-> <<>>, freeStart |-> HeaderSize, freeEnd |-> PageSize,
              live |-> 0, bytes |-> [b \in Area |-> ZeroByte]]

Answer(res, pg, rid) == [res |-> res, page |-> pg, rid |-> rid]

SlotsFlagged(pg, flags) == {i \in DOMAIN pg.slots : pg.slots[i].flags = flags}
LiveSlots(pg) == SlotsFlagged(pg, "live")

LiveRids(pg) == {[slot |-> i, gen |-> pg.slots[i].gen] : i \in LiveSlots(pg)}

GenerationIgnored(pg, rid) == rid.slot \in LiveSlots(pg)       \* mutant
ValidRid(pg, rid) ==
    rid.slot \in LiveSlots(pg) /\ pg.slots[rid.slot].gen = rid.gen

Get(pg, rid) ==
    LET slot == pg.slots[rid.slot]
    IN  [k \in 1 .. slot.length |-> pg.bytes[slot.offset + k - 1]]

Contiguous(pg) == pg.freeEnd - pg.freeStart

-----------------------------------------------------------------------------
(* compact packs the live records downward from the page end, in slot      *)
(* order.                                                                  *)

\* Live record bytes in the first i slots.
LiveBytes(pg) ==
    LET upTo[i \in 0 .. Len(pg.slots)] ==
          IF i = 0 THEN 0
          ELSE upTo[i - 1] + (IF i \in LiveSlots(pg) THEN pg.slots[i].length ELSE 0)
    IN  upTo

PackedOffsetOffByOne(pg, i) == PageSize - LiveBytes(pg)[i - 1]    \* mutant
PackedOffset(pg, i) == PageSize - LiveBytes(pg)[i]

Compact(pg) ==
    LET packedEnd == PageSize - LiveBytes(pg)[Len(pg.slots)]
        occupant(b) == {i \in LiveSlots(pg) :
                          b \in PackedOffset(pg, i) .. PackedOffset(pg, i) + pg.slots[i].length - 1}
    IN  IF packedEnd < pg.freeStart THEN Answer("Corrupt", pg, NoRid)
        ELSE Answer("Ok",
               [pg EXCEPT
                  !.freeEnd = packedEnd,
                  !.slots = [i \in DOMAIN pg.slots |->
                               IF i \in LiveSlots(pg)
                               THEN [pg.slots[i] EXCEPT !.offset = PackedOffset(pg, i)]
                               ELSE pg.slots[i]],
                  !.bytes = [b \in Area |->
                               IF b < pg.freeStart THEN pg.bytes[b]
                               ELSE IF occupant(b) = {} THEN ZeroByte
                               ELSE LET i == CHOOSE i \in occupant(b) : TRUE
                                    IN  pg.bytes[pg.slots[i].offset + b - PackedOffset(pg, i)]]],
               NoRid)

-----------------------------------------------------------------------------
(* insert                                                                  *)

\* find_reusable_slot: the first free slot; 0 for none.
RetiredReusable(pg) ==                                 \* mutant: retired slots taken
    LET reusable == DOMAIN pg.slots \ LiveSlots(pg)
    IN  IF reusable = {} THEN 0
        ELSE CHOOSE i \in reusable : \A j \in reusable : i <= j
ReusableSlot(pg) ==
    LET reusable == SlotsFlagged(pg, "free")
    IN  IF reusable = {} THEN 0
        ELSE CHOOSE i \in reusable : \A j \in reusable : i <= j

\* free_space_after_compaction; negative where the code's subtractions fail.
FreeAfterCompaction(pg, growth) ==
    PageSize - pg.freeStart - growth - LiveBytes(pg)[Len(pg.slots)]

Place(pg, record) ==
    LET reusable == ReusableSlot(pg)
        count == IF reusable = 0 THEN Len(pg.slots) + 1 ELSE Len(pg.slots)
        target == IF reusable = 0 THEN count ELSE reusable
        gen == IF reusable = 0 THEN 1 ELSE pg.slots[reusable].gen
        offset == pg.freeEnd - Len(record)
        slot == [offset |-> offset, length |-> Len(record), gen |-> gen, flags |-> "live"]
    IN  Answer("Ok",
          [slots |-> [i \in 1 .. count |-> IF i = target THEN slot ELSE pg.slots[i]],
           freeStart |-> HeaderSize + count * SlotSize,
           freeEnd |-> offset,
           live |-> pg.live + 1,
           bytes |-> [b \in Area |-> IF b \in offset .. pg.freeEnd - 1
                                     THEN record[b - offset + 1] ELSE pg.bytes[b]]],
          [slot |-> target, gen |-> gen])

GrowthForgotten(pg) == 0                               \* mutant: new entry not counted
DirectoryGrowth(pg) == IF ReusableSlot(pg) = 0 THEN SlotSize ELSE 0

Insert(pg, record) ==
    LET growth == DirectoryGrowth(pg)
        required == Len(record) + growth
        afterCompaction == FreeAfterCompaction(pg, growth)
        packed == Compact(pg)
    IN  IF Contiguous(pg) >= required THEN Place(pg, record)
        ELSE IF afterCompaction < 0 THEN Answer("Corrupt", pg, NoRid)
        ELSE IF afterCompaction < Len(record) THEN Answer("NoSpace", pg, NoRid)
        ELSE IF packed.res # "Ok" THEN packed
        ELSE IF Contiguous(packed.page) < required
             THEN Answer("NoSpace", packed.page, NoRid)
        ELSE Place(packed.page, record)

-----------------------------------------------------------------------------
(* delete, which retires a slot whose generations are used up.             *)

GenerationKept(slot) ==                                \* mutant: generation not raised
    [offset |-> 0, length |-> 0, gen |-> slot.gen, flags |-> "free"]
Vacated(slot) ==
    [offset |-> 0, length |-> 0,
     gen |-> IF slot.gen = GenerationLimit THEN slot.gen ELSE slot.gen + 1,
     flags |-> IF slot.gen = GenerationLimit THEN "retired" ELSE "free"]

Delete(pg, rid) ==
    IF ~ValidRid(pg, rid) THEN Answer("InvalidRid", pg, NoRid)
    ELSE Answer("Ok", [pg EXCEPT !.slots[rid.slot] = Vacated(@), !.live = @ - 1], rid)

-----------------------------------------------------------------------------
(* validate, on every page read from the pool                              *)

EndOf(slot) == slot.offset + slot.length

Validate(pg) ==
    /\ pg.freeStart = HeaderSize + Len(pg.slots) * SlotSize
    /\ pg.freeStart <= pg.freeEnd
    /\ pg.freeEnd <= PageSize
    /\ \A i \in DOMAIN pg.slots :
         IF i \in LiveSlots(pg)
         THEN /\ pg.slots[i].gen # 0
              /\ EndOf(pg.slots[i]) <= PageSize
              /\ pg.slots[i].offset >= pg.freeEnd
         ELSE pg.slots[i].offset = 0 /\ pg.slots[i].length = 0
    /\ pg.live = Cardinality(LiveSlots(pg))
    /\ \A i, j \in LiveSlots(pg) :
         (i # j /\ pg.slots[i].length # 0 /\ pg.slots[j].length # 0) =>
            \/ EndOf(pg.slots[i]) <= pg.slots[j].offset
            \/ EndOf(pg.slots[j]) <= pg.slots[i].offset
=============================================================================
