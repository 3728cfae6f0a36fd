----------------------------- MODULE HeapChain -----------------------------
(***************************************************************************)
(* Chains of linked heap pages.  `next` maps each page that can be read to *)
(* the page it links to, or to NoPage.                                     *)
(***************************************************************************)
EXTENDS Naturals, Sequences, FiniteSets

CONSTANT NoPage    \* no link (u32::MAX on the page)

ListedPages(pages) == {pages[i] : i \in DOMAIN pages}

\* `pages` is the whole chain that starts at page `first`.
IsChain(next, first, pages) ==
    /\ pages \in Seq(DOMAIN next)
    /\ pages # <<>> /\ pages[1] = first
    /\ \A i \in DOMAIN pages :
         next[pages[i]] = IF i = Len(pages) THEN NoPage ELSE pages[i + 1]

\* The chain from `first`, as a set of at most one: the walk that has met as
\* many pages as there are, if it ended.
Chains(next, first) ==
    LET walk[n \in Nat] ==
          IF n = 0 THEN <<first>>
          ELSE LET before == walk[n - 1]
                   last == before[Len(before)]
               IN  IF last \in DOMAIN next /\ next[last] # NoPage
                   THEN Append(before, next[last]) ELSE before
    IN  {pages \in {walk[Cardinality(DOMAIN next)]} : IsChain(next, first, pages)}
=============================================================================
