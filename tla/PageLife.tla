------------------------------ MODULE PageLife ------------------------------
(***************************************************************************)
(* One heap page through any sequence of insert, delete (of rids live,     *)
(* stale or never issued) and compact.                                     *)
(***************************************************************************)
EXTENDS SlottedPage

CONSTANT Records    \* the records inserted: sequences of bytes

ASSUME PageLifeAssumption == Records \subseteq Seq(Byte)

VARIABLES
    page,     \* the page
    issued    \* history: every rid insert returned

vars == <<page, issued>>

TypeOK == page \in Page /\ issued \subseteq Rid

Init == page = EmptyPage /\ issued = {}

InsertRecord(record) ==
    LET answer == Insert(page, record) IN
    /\ page' = answer.page
    /\ issued' = IF answer.res = "Ok" THEN issued \cup {answer.rid} ELSE issued

\* delete of any rid of this page, most of them stale or never issued.
DeleteRecord(rid) ==
    /\ page' = Delete(page, rid).page
    /\ UNCHANGED issued

CompactPage ==
    /\ page' = Compact(page).page
    /\ UNCHANGED issued

Next ==
    \/ \E record \in Records : InsertRecord(record)
    \/ \E rid \in Rid : DeleteRecord(rid)
    \/ CompactPage

Spec == Init /\ [][Next]_vars

-----------------------------------------------------------------------------
(* What validate demands of a page read from disk holds of every page the  *)
(* operations leave: a heap never refuses its own pages, and compaction    *)
(* never finds the records larger than their room.                         *)
PageStaysValid == TypeOK /\ Validate(page) /\ Compact(page).res = "Ok"

(* An insert succeeds exactly when the record and the entry it needs fit   *)
(* beside the live records: no fragmentation left by deletes matters, and  *)
(* nothing is overwritten to make room.                                    *)
InsertSucceedsIffFits ==
    \A record \in Records :
        Insert(page, record).res = "Ok" <=>
            LET entry == IF SlotsFlagged(page, "free") = {} THEN SlotSize ELSE 0
                taken(i) == Len(Get(page, [slot |-> i, gen |-> page.slots[i].gen]))
                total[S \in SUBSET LiveSlots(page)] ==
                    IF S = {} THEN 0
                    ELSE LET i == CHOOSE i \in S : TRUE IN taken(i) + total[S \ {i}]
            IN  HeaderSize + Len(page.slots) * SlotSize + entry
                  + total[LiveSlots(page)] + Len(record) <= PageSize

(* The test reports_no_space_without_modifying_live_rows, for every page:  *)
(* an insert that does not succeed reports NoSpace.                        *)
FullPageReportsNoSpace ==
    \A record \in Records : Insert(page, record).res \in {"Ok", "NoSpace"}

(* A retired slot stays as it is, and a slot's generation never decreases. *)
GenerationsOnlyGrow ==
    [][\A i \in DOMAIN page.slots :
         /\ i \in DOMAIN page'.slots
         /\ page'.slots[i].gen >= page.slots[i].gen
         /\ page.slots[i].flags = "retired" => page'.slots[i] = page.slots[i]]_vars

(* A rid that insert did not return, or whose row is gone, deletes nothing, *)
(* even when its slot holds another row; a live one deletes its row only.   *)
DeletesOnlyItsRow ==
    [][\A rid \in Rid : DeleteRecord(rid) =>
         LiveRids(page') = LiveRids(page) \ {rid}]_vars

(* The page implements RowStore: live rows keep their bytes whatever else  *)
(* is inserted, deleted or compacted, and no rid is issued twice.          *)
Rows == INSTANCE RowStore WITH
    Rids <- Rid,
    rows <- [rid \in LiveRids(page) |-> Get(page, rid)],
    used <- issued

ImplementsRowStore == Rows!Spec
=============================================================================
