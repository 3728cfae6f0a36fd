----------------------------- MODULE PageStore -----------------------------
(***************************************************************************)
(* What a buffer pool promises the layers above it: the database is a      *)
(* growing sequence of pages, a page reads as it was last written, and     *)
(* what the file holds lags behind only for the pages still pending.       *)
(* When the pool goes away, what is left is what the file holds of the     *)
(* pages its header counts.                                                *)
(***************************************************************************)
EXTENDS Naturals, Sequences, FiniteSets

CONSTANTS Content, Zero, Torn

VARIABLES
    view,      \* the pages as clients read them
    disk,      \* the pages as the file holds them
    pending,   \* pages written but not yet written back
    kept       \* how many pages the header on disk counts

vars == <<view, disk, pending, kept>>

Init == view = <<>> /\ disk = <<>> /\ pending = {} /\ kept = 0

\* What the file may hold once the pages W of pending are written back, when
\* at most one more write failed, leaving its page old, new or torn.
WrittenBack(W) ==
    LET done == [p \in DOMAIN disk |-> IF p \in W THEN view[p] ELSE disk[p]]
    IN  {done} \cup {[done EXCEPT ![p] = view[p]] : p \in pending \ W}
               \cup {[done EXCEPT ![p] = Torn] : p \in pending \ W}

Write(p, bytes) ==
    /\ view' = [view EXCEPT ![p] = bytes]
    /\ pending' = pending \cup {p}
    /\ UNCHANGED <<disk, kept>>

WritesBack(W) ==
    /\ disk' \in WrittenBack(W)
    /\ pending' = pending \ W
    /\ UNCHANGED <<view, kept>>

WriteBack == \E W \in SUBSET pending : WritesBack(W)

\* A zeroed page is added; room for it may have cost one write-back.
Grow ==
    /\ view' = Append(view, Zero)
    /\ \E W \in SUBSET pending :
         /\ Cardinality(W) <= 1
         /\ \E d \in WrittenBack(W) : disk' = Append(d, Zero)
         /\ pending' = pending \ W
    /\ kept' \in {kept, Len(view')}

\* The header on disk catches up with the pages allocated.
Persist ==
    /\ kept' = Len(view)
    /\ UNCHANGED <<view, disk, pending>>

\* The pool is closed, or is lost with its process.
LosesAfter(W) ==
    /\ \E d \in WrittenBack(W) : disk' = SubSeq(d, 1, kept)
    /\ view' = disk'
    /\ pending' = {}
    /\ UNCHANGED kept

Lose == \E W \in SUBSET pending : LosesAfter(W)

Next ==
    \/ \E p \in DOMAIN view, bytes \in Content : Write(p, bytes)
    \/ WriteBack
    \/ Grow
    \/ Persist
    \/ Lose

Spec == Init /\ [][Next]_vars
=============================================================================
