--------------------------- MODULE MCBufferPool ----------------------------
(* BufferPool on a file of at most PageIdLimit - 1 pages; the cfg files say *)
(* which limits are reached.                                                *)
EXTENDS BufferPool, TLC

CONSTANTS a, g1, g2, g3

MCContent == {Zero, a}
MCZeros == {Zero}
MCThreeGuards == {g1, g2, g3}
MCOneGuard == {g1}

\* Behaviours in which no write fails and the catalog root stays unset, so that
\* more pages can be cached, used and evicted.
Undisturbed ==
    /\ ~file.ragged
    /\ file.pages \in [DataPages -> Content]
    /\ file.root = EncodeRoot(NoRoot)
    /\ mgr # Closed => file.next = mgr.next /\ mgr.root = NoRoot

UndisturbedSpec == Init /\ [][Next /\ Undisturbed']_vars

GuardSymmetry == Permutations(Guards)
=============================================================================
