----------------------------- MODULE MCHeapOpen -----------------------------
(* Every file of four pages, some of them unreadable.                      *)
EXTENDS HeapOpen

MCPageIds == 1 .. 4
=============================================================================
