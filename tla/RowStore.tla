------------------------------ MODULE RowStore ------------------------------
(***************************************************************************)
(* What heap storage promises: rows keep their bytes under their record    *)
(* identifier until they are deleted, and an identifier names at most one  *)
(* row, ever.                                                              *)
(***************************************************************************)
CONSTANTS Records, Rids

VARIABLES
    rows,   \* the rows by record identifier
    used    \* every identifier handed out

vars == <<rows, used>>

Init == rows = [r \in {} |-> r] /\ used = {}

Insert(record) ==
    \E r \in Rids \ used :
        /\ rows' = [q \in DOMAIN rows \cup {r} |-> IF q = r THEN record ELSE rows[q]]
        /\ used' = used \cup {r}

Delete(r) ==
    /\ rows' = [q \in DOMAIN rows \ {r} |-> rows[q]]
    /\ UNCHANGED used

Next ==
    \/ \E record \in Records : Insert(record)
    \/ \E r \in DOMAIN rows : Delete(r)

Spec == Init /\ [][Next]_vars
=============================================================================
