----------------------------- MODULE HeapOpen ------------------------------
(***************************************************************************)
(* The walk of HeapFile::open (heap/heap_file.rs) over a file whose links  *)
(* are anything: pages may be unreadable (not allocated, not a heap page,  *)
(* corrupt), and chains may run into themselves.                           *)
(***************************************************************************)
EXTENDS HeapChain

CONSTANTS
    PageIds,    \* ids a link may hold
    First,      \* the page the heap is opened at
    MaxWalk     \* bound on the length of the walk

ASSUME HeapOpenAssumption ==
    First \in PageIds /\ NoPage \notin PageIds /\ MaxWalk \in Nat

VARIABLES
    next,       \* the links of the readable pages
    pages,      \* the members found
    visited,
    current,    \* the page to read
    result      \* "Walking", or what open returned

walkVars == <<next, pages, visited, current, result>>

WalkTypeOK ==
    /\ next \in UNION {[S -> PageIds \cup {NoPage}] : S \in SUBSET PageIds}
    /\ pages \in Seq(PageIds)
    /\ visited \subseteq PageIds
    /\ current \in PageIds
    /\ result \in {"Walking", "Ok", "Cycle", "Unreadable"}

WalkInit ==
    /\ next \in UNION {[S -> PageIds \cup {NoPage}] : S \in SUBSET PageIds}
    /\ pages = <<>>
    /\ visited = {}
    /\ current = First
    /\ result = "Walking"

OnlyFirstSeen(p) == p = First /\ pages # <<>>                 \* mutant: cycles back to the root only
BackwardSeen(p) == pages # <<>> /\ p < pages[Len(pages)]      \* mutant: ids must ascend
Seen(p) == p \in visited

FindCycle ==
    /\ Seen(current)
    /\ result' = "Cycle"
    /\ UNCHANGED <<next, pages, visited, current>>

Visit ==
    /\ ~Seen(current)
    /\ Len(pages) < MaxWalk
    /\ visited' = visited \cup {current}
    /\ pages' = Append(pages, current)
    /\ UNCHANGED next

MeetUnreadable ==
    /\ Visit
    /\ current \notin DOMAIN next
    /\ result' = "Unreadable"
    /\ UNCHANGED current

ReachEnd ==
    /\ Visit
    /\ current \in DOMAIN next
    /\ next[current] = NoPage
    /\ result' = "Ok"
    /\ UNCHANGED current

FollowLink ==
    /\ Visit
    /\ current \in DOMAIN next
    /\ next[current] # NoPage
    /\ current' = next[current]
    /\ UNCHANGED result

WalkNext ==
    /\ result = "Walking"
    /\ FindCycle \/ MeetUnreadable \/ ReachEnd \/ FollowLink

\* The loop keeps running: nothing in it waits.
WalkSpec == WalkInit /\ [][WalkNext]_walkVars /\ WF_walkVars(WalkNext)

-----------------------------------------------------------------------------
(* open always returns, on every file: also when the chain runs into a     *)
(* cycle that does not contain the first page.                             *)
OpenEnds == <>(result # "Walking")

(* open succeeds exactly when the file holds a whole chain from the first  *)
(* page, and then its list is that chain; it reports a cycle only when the *)
(* pages from `current` on link back to `current`.                         *)
AnswersWhatTheFileHolds ==
    /\ WalkTypeOK
    /\ result = "Ok" => IsChain(next, First, pages)
    /\ result \in {"Cycle", "Unreadable"} => Chains(next, First) = {}
    /\ result = "Cycle" =>
         /\ ListedPages(pages) \subseteq DOMAIN next
         /\ current \in ListedPages(pages)
         /\ next[pages[Len(pages)]] = current
=============================================================================
