---------------------------- MODULE MCHeapFile -----------------------------
(* Pages of three bytes, slot entries of one and one record of one byte:   *)
(* a page takes one row, and is then too full for another but not for a    *)
(* slot entry.                                                             *)
EXTENDS HeapFile, TLC

CONSTANTS h1, h2, x

MCHandles == {h1, h2}
MCByte == {x}
MCRecords == {<<x>>}
MCSymmetry == Permutations(MCHandles)
=============================================================================
