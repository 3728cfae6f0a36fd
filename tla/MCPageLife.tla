----------------------------- MODULE MCPageLife -----------------------------
(* Pages of ten bytes: a header of one, entries of two, so up to four slots *)
(* of which three generations are issued; records of 0, 1, 3 and, filling   *)
(* a page exactly, 7 bytes.                                                 *)
EXTENDS PageLife

CONSTANTS x, y, z

MCByte == {x, y, z}
MCRecords == {<<>>, <<x>>, <<y, x, y>>, <<x, y, x, y, x, y, y>>}
=============================================================================
