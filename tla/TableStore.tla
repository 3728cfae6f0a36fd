---------------------------- MODULE TableStore -----------------------------
(***************************************************************************)
(* What a heap promises across losses of the pool: a row is there, under   *)
(* the rid its insert returned, until it is deleted; a rid names one row.  *)
(* A loss either leaves a table that opens, with every row that was synced *)
(* and not deleted since and beside them only rows there were since that   *)
(* sync, or a table that never opens again.  A rid synced or kept is never *)
(* issued again.                                                           *)
(***************************************************************************)
CONSTANTS Records, Rids

VARIABLES
    status,  \* "absent" before create, "open" while it can be opened, or "lost"
    rows,    \* the rows, as pairs of rid and record
    used,    \* rids issued
    since,   \* rows there were since the last sync
    safe     \* [rows, used] as of the last sync

vars == <<status, rows, used, since, safe>>

Init ==
    /\ status = "absent"
    /\ rows = {} /\ used = {} /\ since = {} /\ safe = [rows |-> {}, used |-> {}]

Create ==
    /\ UNCHANGED <<rows, used, since, safe>>
    /\ status = "absent" /\ status' = "open"

Insert(record) ==
    /\ \E r \in Rids \ used :
         /\ rows' = rows \cup {<<r, record>>}
         /\ since' = since \cup {<<r, record>>}
         /\ used' = used \cup {r}
    /\ UNCHANGED safe
    /\ status = "open" /\ status' = "open"

Delete(row) ==
    /\ rows' = rows \ {row}
    /\ UNCHANGED <<used, since, safe>>
    /\ status = "open" /\ status' = "open"

Sync ==
    /\ safe' = [rows |-> rows, used |-> used]
    /\ since' = rows
    /\ UNCHANGED <<rows, used, status>>

Lose ==
    /\ used' = safe.used \cup {row[1] : row \in rows'}
    /\ since' = rows'
    /\ safe' = [rows |-> rows', used |-> used']
    /\ \/ /\ rows \cap safe.rows \subseteq rows' /\ rows' \subseteq since
          /\ status = "open" /\ status' = "open"
       \/ /\ rows' = {}
          /\ status' = IF status = "absent" THEN "absent" ELSE "lost"

Next ==
    \/ Create
    \/ \E record \in Records : Insert(record)
    \/ \E row \in rows : Delete(row)
    \/ Sync
    \/ Lose

Spec == Init /\ [][Next]_vars
=============================================================================
