--------------------------- MODULE MCDiskManager ---------------------------
(* DiskManager on files of at most two data pages. *)
EXTENDS DiskManager

CONSTANTS a

MCContent == {Zero, a}
=============================================================================
