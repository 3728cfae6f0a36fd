--------------------------- MODULE HeapFileProofs ---------------------------
(***************************************************************************)
(* Proofs about a table's heap, for every number of handles, pages, rids   *)
(* and losses and every set of records: the chain, the handles and the     *)
(* rows agree, the heap opens again, and it implements TableStore.         *)
(***************************************************************************)
EXTENDS HeapFile, HeapOpen, HeapLemmas

-----------------------------------------------------------------------------
(* The walk of open, whatever the links of the file are.                   *)

\* The list follows the links from the first page to `current`, and is what
\* every chain begins with.
FollowsLinks ==
    /\ pages = <<>> => current = First
    /\ pages # <<>> => pages[1] = First
    /\ \A i \in 1 .. Len(pages) - 1 : pages[i] \in DOMAIN next /\ next[pages[i]] = pages[i + 1]

BeginsChains ==
    \A chain \in Chains(next, First) :
        Len(pages) <= Len(chain) /\ \A i \in 1 .. Len(pages) : pages[i] = chain[i]

LastLinksTo(p) ==
    pages # <<>> => pages[Len(pages)] \in DOMAIN next /\ next[pages[Len(pages)]] = p

\* Where the walk stands, by its result.
Stands ==
    /\ result \in {"Walking", "Cycle"} => LastLinksTo(current)
    /\ result = "Cycle" => current \in visited
    /\ result = "Ok" => LastLinksTo(NoPage)
    /\ result = "Unreadable" => pages # <<>> /\ pages[Len(pages)] \notin DOMAIN next
    /\ result = "Ok" => pages # <<>>

WalkInv ==
    WalkTypeOK /\ visited = ListedPages(pages) /\ FollowsLinks /\ BeginsChains /\ Stands

LEMMA WalkLinks == WalkTypeOK => next \in [DOMAIN next -> PageIds \cup {NoPage}] /\ NoPage \notin DOMAIN next
BY HeapOpenAssumption DEF WalkTypeOK

LEMMA InitWalks == WalkInit => WalkInv
<1> SUFFICES ASSUME WalkInit PROVE WalkInv
  OBVIOUS
<1>1. WalkTypeOK
  BY HeapOpenAssumption DEF WalkInit, WalkTypeOK
<1>2. visited = ListedPages(pages) /\ FollowsLinks /\ Stands
  BY DEF WalkInit, ListedPages, FollowsLinks, Stands, LastLinksTo
<1>3. BeginsChains
  <2> SUFFICES ASSUME NEW chain \in Chains(next, First) PROVE Len(pages) <= Len(chain)
    BY DEF WalkInit, BeginsChains
  <2>1. Len(chain) \in Nat
    BY <1>1, WalkLinks, ChainsAreChains, ChainLinks
  <2>2. QED
    BY <2>1 DEF WalkInit
<1>4. QED
  BY <1>1, <1>2, <1>3 DEF WalkInv

\* A page that is visited is the next one of every chain there is.
LEMMA VisitBegins == WalkInv /\ Visit /\ result = "Walking" => BeginsChains'
<1> SUFFICES ASSUME WalkInv, Visit, result = "Walking",
                    NEW chain \in Chains(next, First)
             PROVE  /\ Len(pages') <= Len(chain)
                    /\ \A i \in 1 .. Len(pages') : pages'[i] = chain[i]
  BY DEF Visit, BeginsChains
<1> DEFINE n == Len(pages)
<1>1. /\ WalkTypeOK /\ FollowsLinks /\ LastLinksTo(current)
      /\ n <= Len(chain) /\ \A i \in 1 .. n : pages[i] = chain[i]
  BY DEF WalkInv, BeginsChains, Stands
<1>2. /\ pages \in Seq(PageIds) /\ n \in Nat /\ current \in PageIds /\ current # NoPage
      /\ pages' = Append(pages, current)
  BY <1>1, HeapOpenAssumption DEF WalkTypeOK, Visit
<1>3. IsChain(next, First, chain) /\ NoPage \notin DOMAIN next
  BY <1>1, WalkLinks, ChainsAreChains
<1>4. n < Len(chain) /\ chain[n + 1] = current
  <2>1. CASE n = 0
    <3>1. pages = <<>> /\ current = First
      BY <1>1, <1>2, <2>1 DEF FollowsLinks
    <3>2. QED
      BY <1>3, <2>1, <3>1, ChainLinks
  <2>2. CASE n # 0
    <3>1. next[chain[n]] = current
      BY <1>1, <1>2, <2>2 DEF LastLinksTo
    <3>2. QED
      BY <1>1, <1>2, <1>3, <2>2, <3>1, ChainLinks
  <2>3. QED
    BY <2>1, <2>2
<1>5. Len(chain) \in Nat
  BY <1>3, ChainLinks
<1>6. QED
  BY <1>1, <1>2, <1>4, <1>5

LEMMA VisitFollows == WalkInv /\ Visit /\ result = "Walking" =>
    /\ FollowsLinks' /\ visited' = ListedPages(pages')
    /\ pages' # <<>> /\ pages'[Len(pages')] = current
    /\ pages' \in Seq(PageIds) /\ visited' \subseteq PageIds
<1> SUFFICES ASSUME WalkInv, Visit, result = "Walking"
             PROVE  /\ FollowsLinks' /\ visited' = ListedPages(pages')
                    /\ pages' # <<>> /\ pages'[Len(pages')] = current
                    /\ pages' \in Seq(PageIds) /\ visited' \subseteq PageIds
  OBVIOUS
<1> DEFINE n == Len(pages)
<1>1. /\ pages \in Seq(PageIds) /\ n \in Nat /\ current \in PageIds
      /\ visited \subseteq PageIds /\ visited = ListedPages(pages)
      /\ FollowsLinks /\ LastLinksTo(current)
  BY DEF WalkInv, WalkTypeOK, Stands
<1>2. /\ pages' = Append(pages, current) /\ next' = next /\ visited' = visited \cup {current}
      /\ Len(pages') = n + 1 /\ pages'[n + 1] = current /\ pages' \in Seq(PageIds)
      /\ \A i \in 1 .. n : pages'[i] = pages[i]
  BY <1>1 DEF Visit
<1>3. visited' = ListedPages(pages')
  <2>1. DOMAIN pages = 1 .. n /\ DOMAIN pages' = 1 .. n + 1
    BY <1>1, <1>2
  <2>2. 1 .. n + 1 = 1 .. n \cup {n + 1}
    BY <1>1
  <2>3. QED
    BY <1>1, <1>2, <2>1, <2>2 DEF ListedPages
<1>4. pages'[1] = First
  BY <1>1, <1>2 DEF FollowsLinks
<1>5. ASSUME NEW i \in 1 .. n PROVE pages'[i] \in DOMAIN next /\ next[pages'[i]] = pages'[i + 1]
  <2>1. CASE i = n
    BY <1>1, <1>2, <2>1 DEF LastLinksTo
  <2>2. CASE i # n
    BY <1>1, <1>2, <2>2 DEF FollowsLinks
  <2>3. QED
    BY <2>1, <2>2
<1>6. FollowsLinks'
  BY <1>1, <1>2, <1>4, <1>5 DEF FollowsLinks
<1>7. QED
  BY <1>1, <1>2, <1>3, <1>6

LEMMA NextWalks == WalkInv /\ [WalkNext]_walkVars => WalkInv'
<1> SUFFICES ASSUME WalkInv, [WalkNext]_walkVars PROVE WalkInv'
  OBVIOUS
<1>1. CASE UNCHANGED walkVars
  BY <1>1 DEF walkVars, WalkInv, WalkTypeOK, FollowsLinks, BeginsChains, Stands, LastLinksTo
<1>2. CASE result = "Walking" /\ FindCycle
  <2>1. /\ UNCHANGED <<next, pages, visited, current>> /\ result' = "Cycle"
        /\ current \in visited
    BY <1>2 DEF FindCycle, Seen
  <2>2. QED
    BY <1>2, <2>1 DEF WalkInv, WalkTypeOK, FollowsLinks, BeginsChains, Stands, LastLinksTo
<1>3. ASSUME result = "Walking", Visit,
             \/ /\ current \notin DOMAIN next /\ result' = "Unreadable" /\ current' = current
             \/ /\ current \in DOMAIN next /\ next[current] = NoPage
                /\ result' = "Ok" /\ current' = current
             \/ /\ current \in DOMAIN next /\ next[current] # NoPage
                /\ current' = next[current] /\ result' = result
      PROVE  WalkInv'
  <2>1. /\ BeginsChains' /\ FollowsLinks' /\ visited' = ListedPages(pages')
        /\ pages' # <<>> /\ pages'[Len(pages')] = current
        /\ pages' \in Seq(PageIds) /\ visited' \subseteq PageIds /\ next' = next
    BY <1>3, VisitBegins, VisitFollows DEF Visit
  <2>2. current' \in PageIds
    BY <1>3, WalkLinks DEF WalkInv, WalkTypeOK
  <2>3. WalkTypeOK'
    BY <1>3, <2>1, <2>2 DEF WalkInv, WalkTypeOK
  <2>4. Stands'
    BY <1>3, <2>1 DEF Stands, LastLinksTo
  <2>5. QED
    BY <2>1, <2>3, <2>4 DEF WalkInv
<1>4. QED
  BY <1>1, <1>2, <1>3 DEF WalkNext, MeetUnreadable, ReachEnd, FollowLink

-----------------------------------------------------------------------------
(* A walk that ended in an error has excluded every chain.                 *)
LEMMA WalkAnswers == WalkInv => AnswersWhatTheFileHolds
<1> SUFFICES ASSUME WalkInv PROVE AnswersWhatTheFileHolds
  OBVIOUS
<1> DEFINE n == Len(pages)
<1>1. /\ WalkTypeOK /\ pages \in Seq(PageIds) /\ n \in Nat /\ current \in PageIds
      /\ next \in [DOMAIN next -> PageIds \cup {NoPage}] /\ NoPage \notin DOMAIN next
      /\ NoPage \notin PageIds
  BY WalkLinks, HeapOpenAssumption DEF WalkInv, WalkTypeOK
<1>2. ASSUME result = "Ok" PROVE IsChain(next, First, pages)
  <2>1. /\ pages # <<>> /\ pages[1] = First /\ n \in Nat \ {0} /\ DOMAIN pages = 1 .. n
        /\ pages[n] \in DOMAIN next /\ next[pages[n]] = NoPage
    BY <1>1, <1>2 DEF WalkInv, FollowsLinks, Stands, LastLinksTo
  <2>2. \A i \in 1 .. n - 1 : pages[i] \in DOMAIN next /\ next[pages[i]] = pages[i + 1]
    BY DEF WalkInv, FollowsLinks
  <2>3. \A i \in 1 .. n : pages[i] \in DOMAIN next
    BY <2>1, <2>2
  <2>4. pages \in Seq(DOMAIN next)
    BY <1>1, <2>1, <2>3
  <2>5. QED
    BY <2>1, <2>2, <2>4 DEF IsChain
<1>3. ASSUME result \in {"Cycle", "Unreadable"}, NEW chain \in Chains(next, First) PROVE FALSE
  <2>1. /\ IsChain(next, First, chain)
        /\ n <= Len(chain) /\ \A i \in 1 .. n : pages[i] = chain[i]
    BY ChainsAreChains DEF WalkInv, BeginsChains
  <2>2. Len(chain) \in Nat
    BY <1>1, <2>1, ChainLinks
  <2>3. CASE result = "Unreadable"
    <3>1. n \in 1 .. Len(chain) /\ pages[n] \notin DOMAIN next
      BY <1>1, <2>1, <2>2, <2>3 DEF WalkInv, Stands
    <3>2. QED
      BY <1>1, <2>1, <3>1, ChainLinks
  <2>4. CASE result = "Cycle"
    <3>1. PICK k \in 1 .. n : pages[k] = current
      BY <1>1, <2>4 DEF WalkInv, Stands, ListedPages
    <3>2. n # 0 /\ next[chain[n]] = current /\ current # NoPage
      BY <1>1, <2>1, <2>4, <3>1 DEF WalkInv, Stands, LastLinksTo
    <3>3. n < Len(chain) /\ chain[n + 1] = chain[k]
      BY <1>1, <2>1, <2>2, <3>1, <3>2, ChainLinks
    <3>4. QED
      BY <1>1, <2>1, <2>2, <3>1, <3>3, ChainsDoNotRepeat
  <2>5. QED
    BY <1>3, <2>3, <2>4
<1>4. ASSUME result = "Cycle"
      PROVE  /\ ListedPages(pages) \subseteq DOMAIN next
             /\ current \in ListedPages(pages)
             /\ next[pages[n]] = current
  <2>1. current \in ListedPages(pages) /\ n # 0
    BY <1>1, <1>4 DEF WalkInv, Stands, ListedPages
  <2>2. pages[n] \in DOMAIN next /\ next[pages[n]] = current
    BY <1>1, <1>4, <2>1 DEF WalkInv, Stands, LastLinksTo
  <2>3. \A i \in 1 .. n : pages[i] \in DOMAIN next
    BY <1>1, <2>1, <2>2 DEF WalkInv, FollowsLinks
  <2>4. QED
    BY <1>1, <2>1, <2>2, <2>3 DEF ListedPages
<1>5. QED
  BY <1>1, <1>2, <1>3, <1>4 DEF AnswersWhatTheFileHolds

(* Whatever the links of the file, and however many pages it has: open     *)
(* answers with the chain if there is one, and with an error only if there *)
(* is none.                                                                *)
THEOREM OpenAnswers == WalkSpec => []AnswersWhatTheFileHolds
<1>1. WalkSpec => []WalkInv
  BY InitWalks, NextWalks, PTL DEF WalkSpec
<1>2. QED
  BY <1>1, WalkAnswers, PTL

-----------------------------------------------------------------------------
(* Pages.                                                                  *)

\* What a page of the database may hold.
SoundPage == {pg \in HeapPage : Sound(pg.body)}
Image == {Zero, Torn} \cup SoundPage

PageRows(pg, p) == {<<HeapRid(p, rid), Get(pg.body, rid)>> : rid \in LiveRids(pg.body)}

FilledPage(record) == [NewPage EXCEPT !.body = Insert(EmptyPage, record).page]

\* Every rid of a set that names page p was handed out there.
AllHandedOut(pg, p, used) == \A r \in Rid : HeapRid(p, r) \in used => HandedOut(pg.body, r)

LEMMA SoundPageFacts ==
    ASSUME NEW pg \in SoundPage
    PROVE  /\ pg \in Image /\ pg # Zero /\ pg # Torn
           /\ Sound(pg.body) /\ pg.body \in Page /\ Validate(pg.body)
           /\ pg.next \in {NoPage} \cup 1 .. MaxPages
           /\ pg = [body |-> pg.body, next |-> pg.next]
<1>1. pg \in HeapPage /\ Sound(pg.body)
  BY DEF SoundPage
<1>2. pg # Zero /\ pg # Torn
  BY <1>1, HeapFileAssumption
<1>3. /\ pg.body \in Page /\ pg.next \in {NoPage} \cup 1 .. MaxPages
      /\ pg = [body |-> pg.body, next |-> pg.next]
  BY <1>1 DEF HeapPage
<1>4. QED
  BY <1>1, <1>2, <1>3 DEF Image, Sound

LEMMA NotSoundPages == Zero \notin SoundPage /\ Torn \notin SoundPage /\ Zero \in Image /\ Torn \in Image
BY HeapFileAssumption DEF SoundPage, Image

\* Another body or another link in a sound page.
LEMMA RewrittenPage ==
    ASSUME NEW pg \in SoundPage
    PROVE  /\ \A body : Sound(body) =>
                /\ [pg EXCEPT !.body = body] \in SoundPage
                /\ [pg EXCEPT !.body = body].next = pg.next
                /\ [pg EXCEPT !.body = body].body = body
           /\ \A p \in 1 .. MaxPages :
                /\ [pg EXCEPT !.next = p] \in SoundPage
                /\ [pg EXCEPT !.next = p].next = p
                /\ [pg EXCEPT !.next = p].body = pg.body
<1>1. pg \in HeapPage /\ Sound(pg.body)
  BY DEF SoundPage
<1>2. ASSUME NEW body, Sound(body)
      PROVE  /\ [pg EXCEPT !.body = body] \in SoundPage
             /\ [pg EXCEPT !.body = body].next = pg.next
             /\ [pg EXCEPT !.body = body].body = body
  <2>1. body \in Page
    BY <1>2 DEF Sound
  <2>2. [pg EXCEPT !.body = body] \in HeapPage /\ [pg EXCEPT !.body = body].body = body
        /\ [pg EXCEPT !.body = body].next = pg.next
    BY <1>1, <2>1 DEF HeapPage
  <2> QED
    BY <1>2, <2>2 DEF SoundPage
<1>3. ASSUME NEW p \in 1 .. MaxPages
      PROVE  /\ [pg EXCEPT !.next = p] \in SoundPage
             /\ [pg EXCEPT !.next = p].next = p
             /\ [pg EXCEPT !.next = p].body = pg.body
  <2>1. [pg EXCEPT !.next = p] \in HeapPage /\ [pg EXCEPT !.next = p].body = pg.body
        /\ [pg EXCEPT !.next = p].next = p
    BY <1>1 DEF HeapPage
  <2> QED
    BY <1>1, <2>1 DEF SoundPage
<1>4. QED
  BY <1>2, <1>3

LEMMA HeapRidFields ==
    ASSUME NEW p, NEW r \in Rid
    PROVE  /\ HeapRid(p, r).page = p
           /\ \A q : \A s \in Rid : HeapRid(p, r) = HeapRid(q, s) => p = q /\ r = s
<1>1. ASSUME NEW q, NEW s \in Rid, HeapRid(p, r) = HeapRid(q, s) PROVE p = q /\ r = s
  <2>1. HeapRid(p, r).page = p /\ HeapRid(p, r).slot = r.slot /\ HeapRid(p, r).gen = r.gen
        /\ HeapRid(q, s).page = q /\ HeapRid(q, s).slot = s.slot /\ HeapRid(q, s).gen = s.gen
    BY DEF HeapRid
  <2> QED
    BY <1>1, <2>1, RidFields
<1>2. QED
  BY <1>1 DEF HeapRid

\* The rids of a sound page fit the page.
LEMMA LiveRidsFit ==
    ASSUME NEW pg, Sound(pg)
    PROVE  LiveRids(pg) \subseteq Rid
<1>1. /\ pg \in Page /\ Validate(pg) /\ Len(pg.slots) \in Nat
      /\ \A i \in LiveSlots(pg) : /\ i \in 1 .. Len(pg.slots)
                                  /\ pg.slots[i].gen \in 0 .. GenerationLimit /\ pg.slots[i].gen # 0
  BY SlotTypes DEF Sound
<1>2. Len(pg.slots) <= (PageSize - HeaderSize) \div SlotSize
  <2>1. /\ PageSize - HeaderSize \in Nat /\ SlotSize \in Nat \ {0}
        /\ HeaderSize \in Nat /\ PageSize \in Nat
    BY SlottedPageAssumption
  <2>2. Len(pg.slots) * SlotSize <= PageSize - HeaderSize
    <3>1. /\ pg.freeStart = HeaderSize + Len(pg.slots) * SlotSize
          /\ pg.freeStart <= pg.freeEnd /\ pg.freeEnd <= PageSize
          /\ pg.freeEnd \in Nat /\ Len(pg.slots) * SlotSize \in Int
      BY <1>1, <2>1, SlotTypes DEF Validate
    <3> QED
      BY <2>1, <3>1
  <2> QED
    BY <1>1, <2>1, <2>2, SlotsFit
<1>3. ASSUME NEW r \in LiveRids(pg) PROVE r \in Rid
  <2>1. PICK i \in LiveSlots(pg) : r = [slot |-> i, gen |-> pg.slots[i].gen]
    BY DEF LiveRids
  <2>2. (PageSize - HeaderSize) \div SlotSize \in Int
    BY SlottedPageAssumption
  <2>3. i \in 1 .. (PageSize - HeaderSize) \div SlotSize /\ pg.slots[i].gen \in 1 .. GenerationLimit
    <3>1. pg.slots[i].gen \in 1 .. GenerationLimit
      BY <1>1, SlottedPageAssumption
    <3> HIDE DEF LiveRids
    <3>2. i \in 1 .. Len(pg.slots)
      BY <1>1
    <3> QED
      BY <1>1, <1>2, <2>2, <3>1, <3>2
  <2> QED
    BY <2>1, <2>3 DEF Rid
<1>4. QED
  BY <1>3

LEMMA NewPageSound ==
    /\ NewPage \in SoundPage /\ NewPage.next = NoPage /\ NewPage.body = EmptyPage
    /\ LiveRids(NewPage.body) = {}
<1>1. Sound(EmptyPage) /\ EmptyPage \in Page /\ LiveRids(EmptyPage) = {}
  BY EmptyPageSound DEF Sound
<1>2. NewPage.next = NoPage /\ NewPage.body = EmptyPage /\ NewPage \in HeapPage
  BY <1>1 DEF NewPage, HeapPage
<1>3. QED
  BY <1>1, <1>2 DEF SoundPage

\* An empty page takes any record of the size insert lets through.
LEMMA EmptyPageTakes ==
    ASSUME NEW record \in Records
    PROVE  LET answer == Insert(EmptyPage, record)
           IN  /\ answer.res = "Ok" /\ answer.rid \in Rid
               /\ Sound(answer.page)
               /\ Places(EmptyPage, answer.page, answer.rid.slot, answer.rid.gen, record)
<1>1. record \in Seq(Byte) /\ HeaderSize + SlotSize + Len(record) <= PageSize
  BY HeapFileAssumption
<1>2. Sound(EmptyPage)
  BY EmptyPageSound
<1>3. Contiguous(EmptyPage) >= Len(record) + DirectoryGrowth(EmptyPage)
  <2>1. Contiguous(EmptyPage) = PageSize - HeaderSize
    BY DEF Contiguous, EmptyPage
  <2>2. DirectoryGrowth(EmptyPage) \in {0, SlotSize}
    BY DEF DirectoryGrowth
  <2>3. Len(record) \in Nat
    BY <1>1
  <2> QED
    BY <1>1, <2>1, <2>2, <2>3, SlottedPageAssumption
<1>4. Insert(EmptyPage, record) = Place(EmptyPage, record)
  BY <1>3 DEF Insert
<1>5. QED
  BY <1>1, <1>2, <1>3, <1>4, PlaceSound

LEMMA FilledPageSound ==
    ASSUME NEW record \in Records, NEW p
    PROVE  LET rid == Insert(EmptyPage, record).rid
           IN  /\ FilledPage(record) \in SoundPage /\ FilledPage(record).next = NoPage
               /\ rid \in Rid
               /\ PageRows(FilledPage(record), p) = {<<HeapRid(p, rid), record>>}
               /\ HandedOut(FilledPage(record).body, rid)
<1> DEFINE rid == Insert(EmptyPage, record).rid
           body == Insert(EmptyPage, record).page
<1>1. /\ rid \in Rid /\ Sound(body) /\ body \in Page
      /\ Places(EmptyPage, body, rid.slot, rid.gen, record)
      /\ record \in Seq(Byte) /\ EmptyPage \in Page /\ LiveRids(EmptyPage) = {}
  BY EmptyPageTakes, HeapFileAssumption, EmptyPageSound DEF Sound
<1>2. LiveRids(body) = {rid} /\ Get(body, rid) = record
  <2> HIDE DEF body, rid
  <2> QED
    BY <1>1, PlacesRow
<1>3. /\ FilledPage(record) \in SoundPage /\ FilledPage(record).next = NoPage
      /\ FilledPage(record).body = body
  <2> HIDE DEF body, rid
  <2>1. FilledPage(record) = [NewPage EXCEPT !.body = body]
    BY DEF FilledPage, body
  <2> QED
    BY <1>1, <2>1, NewPageSound, RewrittenPage
<1>4. HandedOut(body, rid)
  <2> HIDE DEF body, rid
  <2> QED
    BY <1>1, <1>2, LiveHandedOut
<1>5. PageRows(FilledPage(record), p) = {<<HeapRid(p, rid), record>>}
  <2> HIDE DEF body, rid
  <2> QED
    BY <1>2, <1>3 DEF PageRows
<1>6. QED
  BY <1>1, <1>3, <1>4, <1>5

\* A row of a page names it, and one rid names one row.
LEMMA PageRowsNamed ==
    ASSUME NEW pg \in SoundPage, NEW p, NEW row \in PageRows(pg, p)
    PROVE  /\ row[1].page = p
           /\ \E r \in LiveRids(pg.body) : r \in Rid /\ row = <<HeapRid(p, r), Get(pg.body, r)>>
           /\ \A other \in PageRows(pg, p) : other[1] = row[1] => other = row
<1>1. LiveRids(pg.body) \subseteq Rid
  BY SoundPageFacts, LiveRidsFit
<1>2. PICK r \in LiveRids(pg.body) : row = <<HeapRid(p, r), Get(pg.body, r)>>
  BY DEF PageRows
<1>3. r \in Rid /\ row[1] = HeapRid(p, r)
  BY <1>1, <1>2
<1>4. ASSUME NEW other \in PageRows(pg, p), other[1] = row[1] PROVE other = row
  <2>1. PICK s \in LiveRids(pg.body) : other = <<HeapRid(p, s), Get(pg.body, s)>>
    BY DEF PageRows
  <2>2. s \in Rid /\ HeapRid(p, s) = HeapRid(p, r)
    BY <1>1, <1>3, <1>4, <2>1
  <2>3. s = r
    BY <1>3, <2>2, HeapRidFields
  <2> QED
    BY <1>2, <2>1, <2>3
<1>5. QED
  BY <1>2, <1>3, <1>4, HeapRidFields

LEMMA RowsHandedOut ==
    ASSUME NEW pg \in SoundPage, NEW p
    PROVE  AllHandedOut(pg, p, {row[1] : row \in PageRows(pg, p)})
<1> SUFFICES ASSUME NEW r \in Rid, NEW row \in PageRows(pg, p), HeapRid(p, r) = row[1]
             PROVE  HandedOut(pg.body, r)
  BY DEF AllHandedOut
<1>1. PICK s \in LiveRids(pg.body) : s \in Rid /\ row = <<HeapRid(p, s), Get(pg.body, s)>>
  BY PageRowsNamed
<1>2. r = s
  BY <1>1, HeapRidFields
<1>3. QED
  BY <1>1, <1>2, SoundPageFacts, LiveHandedOut

LEMMA RowInserted ==
    ASSUME NEW pg \in SoundPage, NEW p, NEW record \in Records, Insert(pg.body, record).res = "Ok"
    PROVE  LET rid == Insert(pg.body, record).rid
               new == [pg EXCEPT !.body = Insert(pg.body, record).page]
           IN  /\ new \in SoundPage /\ new.next = pg.next /\ rid \in Rid
               /\ PageRows(new, p) = PageRows(pg, p) \cup {<<HeapRid(p, rid), record>>}
               /\ \A used : AllHandedOut(pg, p, used) =>
                    /\ HeapRid(p, rid) \notin used
                    /\ AllHandedOut(new, p, used \cup {HeapRid(p, rid)})
<1> DEFINE old == pg.body
           rid == Insert(pg.body, record).rid
           body == Insert(pg.body, record).page
           new == [pg EXCEPT !.body = body]
<1>1. /\ Sound(old) /\ old \in Page /\ record \in Seq(Byte)
      /\ Sound(body) /\ rid \in Rid
      /\ Places(old, body, rid.slot, rid.gen, record)
  BY SoundPageFacts, HeapFileAssumption, InsertSound
<1> HIDE DEF body, rid
<1>2. new \in SoundPage /\ new.next = pg.next /\ new.body = body
  BY <1>1, RewrittenPage
<1> HIDE DEF new
<1>3. /\ LiveRids(body) = LiveRids(old) \cup {rid} /\ Get(body, rid) = record
      /\ \A r \in LiveRids(old) : Get(body, r) = Get(old, r)
  <2> HIDE DEF old
  <2> QED
    BY <1>1, PlacesRow
<1>4. PageRows(new, p) = PageRows(pg, p) \cup {<<HeapRid(p, rid), record>>}
  BY <1>2, <1>3 DEF PageRows
<1>5. ASSUME NEW used, AllHandedOut(pg, p, used)
      PROVE  /\ HeapRid(p, rid) \notin used
             /\ AllHandedOut(new, p, used \cup {HeapRid(p, rid)})
  <2> DEFINE U == {r \in Rid : HeapRid(p, r) \in used}
  <2>1. U \subseteq Rid /\ \A r \in U : HandedOut(old, r)
    BY <1>5 DEF AllHandedOut
  <2>2. rid \notin U /\ \A r \in U \cup {rid} : HandedOut(body, r)
    <3> HIDE DEF U, old
    <3> QED
      BY <1>1, <2>1, PlacesHandsOut
  <2>3. ASSUME NEW r \in Rid, HeapRid(p, r) \in used \cup {HeapRid(p, rid)} PROVE r \in U \cup {rid}
    BY <1>1, <2>3, HeapRidFields
  <2> QED
    BY <1>1, <1>2, <2>2, <2>3 DEF AllHandedOut
<1>6. QED
  BY <1>1, <1>2, <1>4, <1>5 DEF new, body, rid

LEMMA RowDeleted ==
    ASSUME NEW pg \in SoundPage, NEW p, NEW rid \in Rid, Delete(pg.body, rid).res = "Ok"
    PROVE  LET new == [pg EXCEPT !.body = Delete(pg.body, rid).page]
           IN  /\ new \in SoundPage /\ new.next = pg.next
               /\ PageRows(new, p) = {row \in PageRows(pg, p) : row[1] # HeapRid(p, rid)}
               /\ \E row \in PageRows(pg, p) : row[1] = HeapRid(p, rid)
               /\ \A used : AllHandedOut(pg, p, used) => AllHandedOut(new, p, used)
<1> DEFINE body == Delete(pg.body, rid).page
           new == [pg EXCEPT !.body = body]
<1>1. ValidRid(pg.body, rid)
  BY DEF Delete, Answer
<1>2. /\ Sound(pg.body) /\ pg.body \in Page /\ Sound(body)
      /\ Empties(pg.body, body, rid.slot) /\ LiveRids(pg.body) \subseteq Rid
  BY <1>1, SoundPageFacts, DeleteSound, LiveRidsFit
<1> HIDE DEF body
<1>3. new \in SoundPage /\ new.next = pg.next /\ new.body = body
  BY <1>2, RewrittenPage
<1> HIDE DEF new
<1>4. /\ rid \in LiveRids(pg.body) /\ LiveRids(body) = LiveRids(pg.body) \ {rid}
      /\ \A r \in LiveRids(body) : Get(body, r) = Get(pg.body, r)
  BY <1>1, <1>2, EmptiesRow
<1>5. \A r \in LiveRids(pg.body) : HeapRid(p, r) = HeapRid(p, rid) <=> r = rid
  BY <1>2, HeapRidFields
<1>6. PageRows(new, p) = {row \in PageRows(pg, p) : row[1] # HeapRid(p, rid)}
  BY <1>3, <1>4, <1>5 DEF PageRows
<1>7. \E row \in PageRows(pg, p) : row[1] = HeapRid(p, rid)
  <2> DEFINE gone == <<HeapRid(p, rid), Get(pg.body, rid)>>
  <2>1. gone \in PageRows(pg, p)
    BY <1>4 DEF PageRows
  <2> WITNESS gone \in PageRows(pg, p)
  <2> QED
    OBVIOUS
<1>8. ASSUME NEW used, AllHandedOut(pg, p, used) PROVE AllHandedOut(new, p, used)
  BY <1>2, <1>3, <1>8, EmptiesHandedOut DEF AllHandedOut
<1>9. QED
  BY <1>3, <1>6, <1>7, <1>8 DEF new, body

LEMMA PageLinked ==
    ASSUME NEW pg \in SoundPage, NEW p, NEW q \in 1 .. MaxPages
    PROVE  LET new == [pg EXCEPT !.next = q]
           IN  /\ new \in SoundPage /\ new.next = q /\ PageRows(new, p) = PageRows(pg, p)
               /\ \A used : AllHandedOut(pg, p, used) => AllHandedOut(new, p, used)
BY RewrittenPage DEF PageRows, AllHandedOut

-----------------------------------------------------------------------------
(* The database.                                                           *)

\* Pages that can be read, and their links.
LEMMA ReadablePages ==
    ASSUME NEW store \in Seq(Image)
    PROVE  /\ DOMAIN store = 1 .. Len(store) /\ Len(store) \in Nat
           /\ \A p : Readable(store, p) <=> p \in DOMAIN store /\ store[p] \in SoundPage
           /\ DOMAIN Links(store) = {p \in DOMAIN store : store[p] \in SoundPage}
           /\ \A p \in DOMAIN Links(store) : Links(store)[p] = store[p].next
<1>1. DOMAIN store = 1 .. Len(store) /\ Len(store) \in Nat
  OBVIOUS
<1>2. ASSUME NEW p PROVE Readable(store, p) <=> p \in DOMAIN store /\ store[p] \in SoundPage
  <2>1. p \in DOMAIN store => store[p] \in Image
    OBVIOUS
  <2> QED
    BY <2>1, SoundPageFacts DEF Readable, Image
<1>3. QED
  BY <1>1, <1>2 DEF Links

LEMMA SameLinks ==
    ASSUME NEW s \in Seq(Image), NEW t \in Seq(Image),
           \A p : /\ p \in DOMAIN s /\ s[p] \in SoundPage <=> p \in DOMAIN t /\ t[p] \in SoundPage
                  /\ p \in DOMAIN s /\ s[p] \in SoundPage => t[p].next = s[p].next
    PROVE  Links(t) = Links(s)
<1>1. /\ Links(s) = [p \in {q \in DOMAIN s : Readable(s, q)} |-> s[p].next]
      /\ Links(t) = [p \in {q \in DOMAIN t : Readable(t, q)} |-> t[p].next]
  BY DEF Links
<1>2. {q \in DOMAIN s : Readable(s, q)} = {q \in DOMAIN t : Readable(t, q)}
  BY ReadablePages
<1>3. \A p \in {q \in DOMAIN s : Readable(s, q)} : t[p].next = s[p].next
  BY ReadablePages
<1>4. QED
  BY <1>1, <1>2, <1>3

\* The walk finds the chain of the heap if there is one, and no other.
LEMMA TheChain ==
    ASSUME NEW store \in Seq(Image), Len(store) <= MaxPages, NEW first
    PROVE  /\ IsFiniteSet(DOMAIN Links(store)) /\ NoPage \notin DOMAIN Links(store)
           /\ \A c : c \in Chains(Links(store), first) <=> IsChain(Links(store), first, c)
           /\ \A c, d \in Chains(Links(store), first) : c = d
<1>1. DOMAIN Links(store) \subseteq 1 .. Len(store) /\ Len(store) \in Nat
  BY ReadablePages
<1>2. IsFiniteSet(DOMAIN Links(store))
  <2>1. IsFiniteSet(1 .. Len(store)) /\ DOMAIN Links(store) \in SUBSET (1 .. Len(store))
    BY <1>1, FS_Interval
  <2> QED
    BY <2>1, FS_Subset
<1>3. NoPage \notin DOMAIN Links(store)
  BY <1>1, HeapFileAssumption
<1>4. \A c : IsChain(Links(store), first, c) => Chains(Links(store), first) = {c}
  BY <1>2, <1>3, ChainFound
<1>5. \A c : c \in Chains(Links(store), first) <=> IsChain(Links(store), first, c)
  BY <1>4, ChainsAreChains
<1>6. QED
  BY <1>2, <1>3, <1>4, <1>5

\* The pages of a chain, in terms of the database.
LEMMA ChainPages ==
    ASSUME NEW store \in Seq(Image), Len(store) <= MaxPages, NEW first, NEW c,
           IsChain(Links(store), first, c)
    PROVE  /\ c \in Seq(DOMAIN store) /\ Len(c) \in Nat \ {0} /\ DOMAIN c = 1 .. Len(c) /\ c[1] = first
           /\ \A i \in 1 .. Len(c) :
                /\ c[i] \in DOMAIN store /\ store[c[i]] \in SoundPage
                /\ i = Len(c) => store[c[i]].next = NoPage
                /\ i < Len(c) => store[c[i]].next = c[i + 1] /\ store[c[i]].next # NoPage
<1>1. NoPage \notin DOMAIN Links(store)
  BY TheChain
<1>2. /\ c \in Seq(DOMAIN Links(store)) /\ Len(c) \in Nat \ {0}
      /\ DOMAIN c = 1 .. Len(c) /\ c[1] = first
      /\ \A i \in 1 .. Len(c) :
           /\ c[i] \in DOMAIN Links(store)
           /\ i = Len(c) => Links(store)[c[i]] = NoPage
           /\ i < Len(c) => Links(store)[c[i]] = c[i + 1] /\ Links(store)[c[i]] # NoPage
  BY <1>1, ChainLinks
<1>3. \A p \in DOMAIN Links(store) :
        p \in DOMAIN store /\ store[p] \in SoundPage /\ Links(store)[p] = store[p].next
  BY ReadablePages
<1>4. c \in Seq(DOMAIN store)
  <2> DEFINE D == DOMAIN Links(store)
             E == DOMAIN store
  <2>1. D \subseteq E
    BY <1>3
  <2>3. c \in Seq(D)
    BY <1>2
  <2> HIDE DEF D, E
  <2>2. c \in Seq(E)
    BY <2>1, <2>3
  <2> QED
    BY <2>2 DEF E
<1>5. QED
  BY <1>2, <1>3, <1>4

-----------------------------------------------------------------------------
(* The inductive invariant.                                                *)

Calls ==
    [step : {"idle"}]
        \cup [step : {"create"}, handle : Handles, page : 1 .. MaxPages]
        \cup [step : {"fill", "link"}, handle : Handles, page : 1 .. MaxPages, record : Records]

TypeInv ==
    /\ view \in Seq(Image) /\ disk \in Seq(Image)
    /\ Len(view) = Len(disk) /\ Len(view) <= MaxPages
    /\ pending \subseteq DOMAIN view
    /\ kept \in 0 .. Len(view)
    /\ root \in {NoPage} \cup 1 .. kept
    /\ handle \in [Handles -> Seq(DOMAIN view)]
    /\ root = NoPage => \A h \in Handles : handle[h] = <<>>
    /\ issued \subseteq HeapRids
    /\ grown \in BOOLEAN /\ cut \in BOOLEAN
    /\ losses \in 0 .. MaxLosses

\* Heap pages, and the pages they link to, are counted by the header.
Counted(store) ==
    \A p \in DOMAIN store : store[p] \in SoundPage =>
        p <= kept /\ store[p].next \in {NoPage} \cup 1 .. kept

LinkInv == Counted(view) /\ Counted(disk)

\* Nothing knows of the page a call has allocated until the call ends.
CallInv ==
    /\ call \in Calls
    /\ call.step # "idle" =>
         /\ call.page \in 1 .. kept /\ call.page # root
         /\ \A h \in Handles : call.page \notin ListedPages(handle[h])
         /\ \A q \in DOMAIN view : view[q] \in SoundPage => view[q].next # call.page
         /\ \A rid \in issued : rid.page # call.page
    /\ call.step = "create" => root = NoPage
    /\ call.step \in {"fill", "link"} => handle[call.handle] # <<>>
    /\ call.step \in {"create", "fill"} => view[call.page] = Zero /\ disk[call.page] = Zero
    /\ call.step = "link" =>
         /\ view[call.page] = FilledPage(call.record)
         /\ disk[call.page] \in {Zero, Torn, view[call.page]}

\* A rid is handed out once: the pages remember those of the past, the ones
\* on disk those of the last sync.
RidInv ==
    /\ \A rid \in issued : rid.page <= kept
    /\ safe.used \subseteq issued
    /\ \A row \in rows : row[1] \in issued
    /\ \A row \in safe.rows : row[1] \in safe.used
    /\ rows \subseteq since
    /\ \A p \in DOMAIN view : view[p] \in SoundPage => AllHandedOut(view[p], p, issued)
    /\ \A p \in DOMAIN disk : disk[p] \in SoundPage => AllHandedOut(disk[p], p, safe.used)

RowsAt(p) == {row \in rows : row[1].page = p}

\* The pages of handles and of the chain hold the rows there are on them.
RowInv ==
    /\ \A h \in Handles : \A p \in ListedPages(handle[h]) :
         view[p] \in SoundPage /\ PageRows(view[p], p) = RowsAt(p)
    /\ \A c \in HeapChains(view) : \A p \in ListedPages(c) : PageRows(view[p], p) = RowsAt(p)

\* A heap that cannot be opened stays as the loss left it.
OpenInv ==
    /\ root # NoPage /\ (losses = 0 \/ InUse) => HeapChains(view) # {}
    /\ root # NoPage /\ HeapChains(view) = {} => pending = {} /\ disk = view

Begins(list, c) == Len(list) <= Len(c) /\ list = SubSeq(c, 1, Len(list))

\* Unless it was cut, the chain has every handle's pages, and every row.
WholeInv ==
    ~cut =>
        /\ \A h \in Handles : handle[h] # <<>> => \E c \in HeapChains(view) : Begins(handle[h], c)
        /\ \A row \in rows : \E c \in HeapChains(view) : row[1].page \in ListedPages(c)

\* A page of the file behind page i of the chain: its rows were there since
\* the last sync, those synced and still there are on it, and its link is not
\* missing if such rows come after it.
Behind(pg, c, i) ==
    pg \in SoundPage =>
        /\ pg.next \in {NoPage, view[c[i]].next}
        /\ PageRows(pg, c[i]) \subseteq since
        /\ \A row \in rows \cap safe.rows : row[1].page = c[i] => row \in PageRows(pg, c[i])
        /\ \A j \in i + 1 .. Len(c) : \A row \in rows \cap safe.rows :
             row[1].page = c[j] => pg.next = view[c[i]].next

SameLink(pg, p) == pg = Torn \/ (pg \in SoundPage /\ pg.next = view[p].next)

DiskInv ==
    /\ ~cut => \A c \in HeapChains(view) : \A i \in DOMAIN c : Behind(disk[c[i]], c, i)
    /\ ~grown => \A c \in HeapChains(view) : \A p \in ListedPages(c) : SameLink(disk[p], p)

StoreInv == TypeInv /\ LinkInv /\ RidInv /\ RowInv /\ OpenInv /\ WholeInv /\ DiskInv

HeapInv == StoreInv /\ CallInv

-----------------------------------------------------------------------------
(* Consequences.                                                           *)

LEMMA StoreFacts ==
    ASSUME TypeInv
    PROVE  /\ DOMAIN view = 1 .. Len(view) /\ DOMAIN disk = DOMAIN view /\ Len(view) \in Nat
           /\ kept \in Nat /\ 1 .. kept \subseteq DOMAIN view /\ 1 .. kept \subseteq 1 .. MaxPages
           /\ DOMAIN view \subseteq 1 .. MaxPages
           /\ \A p \in DOMAIN view : view[p] \in Image /\ disk[p] \in Image
           /\ \A h \in Handles :
                /\ handle[h] \in Seq(DOMAIN view) /\ DOMAIN handle[h] = 1 .. Len(handle[h])
                /\ Len(handle[h]) \in Nat /\ ListedPages(handle[h]) \subseteq DOMAIN view
BY HeapFileAssumption DEF TypeInv, ListedPages

LEMMA HeapChainIs ==
    ASSUME TypeInv
    PROVE  /\ \A c : c \in HeapChains(view) <=> root # NoPage /\ IsChain(Links(view), root, c)
           /\ \A c, d \in HeapChains(view) : c = d
           /\ \A c \in HeapChains(view) :
                /\ c \in Seq(DOMAIN view) /\ Len(c) \in Nat \ {0} /\ DOMAIN c = 1 .. Len(c) /\ c[1] = root
                /\ ListedPages(c) \subseteq DOMAIN view
                /\ \A p \in ListedPages(c) : view[p] \in SoundPage
                /\ \A i \in 1 .. Len(c) :
                     /\ c[i] \in ListedPages(c) /\ c[i] \in DOMAIN view /\ view[c[i]] \in SoundPage
                     /\ i = Len(c) => view[c[i]].next = NoPage
                     /\ i < Len(c) => view[c[i]].next = c[i + 1] /\ view[c[i]].next # NoPage
<1>1. view \in Seq(Image) /\ Len(view) <= MaxPages
  BY DEF TypeInv
<1>2. \A c : c \in HeapChains(view) <=> root # NoPage /\ IsChain(Links(view), root, c)
  BY <1>1, TheChain DEF HeapChains
<1>3. \A c, d \in HeapChains(view) : c = d
  BY <1>1, TheChain DEF HeapChains
<1>4. ASSUME NEW c \in HeapChains(view)
      PROVE  /\ c \in Seq(DOMAIN view) /\ Len(c) \in Nat \ {0} /\ DOMAIN c = 1 .. Len(c) /\ c[1] = root
             /\ \A i \in 1 .. Len(c) :
                  /\ c[i] \in DOMAIN view /\ view[c[i]] \in SoundPage
                  /\ i = Len(c) => view[c[i]].next = NoPage
                  /\ i < Len(c) => view[c[i]].next = c[i + 1] /\ view[c[i]].next # NoPage
  BY <1>1, <1>2, ChainPages
<1>5. ASSUME NEW c \in HeapChains(view)
      PROVE  /\ ListedPages(c) = {c[i] : i \in 1 .. Len(c)}
             /\ ListedPages(c) \subseteq DOMAIN view
             /\ \A p \in ListedPages(c) : view[p] \in SoundPage
  BY <1>4 DEF ListedPages
<1>6. QED
  BY <1>2, <1>3, <1>4, <1>5

LEMMA CallFacts ==
    ASSUME CallInv
    PROVE  /\ call.step \in {"idle", "create", "fill", "link"}
           /\ call.step = "idle" => call = Idle
           /\ call.step # "idle" => call.handle \in Handles /\ call.page \in 1 .. MaxPages
           /\ call.step \in {"fill", "link"} => call.record \in Records
           /\ Idle \in Calls /\ Idle.step = "idle"
BY DEF CallInv, Calls, Idle

LEMMA HeapInvInit == Init => HeapInv
<1> SUFFICES ASSUME Init PROVE HeapInv
  OBVIOUS
<1>1. /\ view = <<>> /\ disk = <<>> /\ pending = {} /\ kept = 0 /\ root = NoPage
      /\ handle = [h \in Handles |-> <<>>] /\ call = Idle /\ rows = {} /\ issued = {} /\ since = {}
      /\ safe = [rows |-> {}, used |-> {}] /\ grown = FALSE /\ cut = FALSE /\ losses = 0
  BY DEF Init, Pool!Init
<1>2. HeapChains(view) = {}
  BY <1>1 DEF HeapChains
<1>3. TypeInv
  <2>1. view \in Seq(Image) /\ disk \in Seq(Image) /\ Len(view) = 0 /\ Len(disk) = 0
    BY <1>1
  <2>2. handle \in [Handles -> Seq(DOMAIN view)] /\ \A h \in Handles : handle[h] = <<>>
    BY <1>1
  <2>3. MaxPages \in Nat /\ losses \in 0 .. MaxLosses /\ kept \in 0 .. Len(view)
    BY <1>1, <2>1, HeapFileAssumption
  <2>4. pending \subseteq DOMAIN view /\ issued \subseteq HeapRids /\ grown \in BOOLEAN /\ cut \in BOOLEAN
    BY <1>1
  <2>5. root \in {NoPage} \cup 1 .. kept /\ Len(view) <= MaxPages
    BY <1>1, <2>1, <2>3
  <2> QED
    BY <2>1, <2>2, <2>3, <2>4, <2>5 DEF TypeInv
<1>4. LinkInv /\ RidInv /\ DiskInv
  BY <1>1, <1>2 DEF LinkInv, Counted, RidInv, DiskInv
<1>5. RowInv /\ OpenInv /\ WholeInv
  BY <1>1, <1>2 DEF RowInv, OpenInv, WholeInv, ListedPages
<1>6. CallInv
  <2>1. call \in Calls /\ call.step = "idle"
    BY <1>1 DEF Idle, Calls
  <2> QED
    BY <2>1 DEF CallInv
<1>7. QED
  BY <1>3, <1>4, <1>5, <1>6 DEF HeapInv, StoreInv

\* A page is itself behind no page of the chain.
LEMMA NotBehind ==
    ASSUME TypeInv, RidInv, RowInv, NEW c \in HeapChains(view), NEW i \in DOMAIN c
    PROVE  Behind(view[c[i]], c, i)
<1>1. /\ i \in 1 .. Len(c) /\ c[i] \in ListedPages(c) /\ view[c[i]] \in SoundPage
      /\ view[c[i]].next = view[c[i]].next
  BY HeapChainIs
<1>2. PageRows(view[c[i]], c[i]) = RowsAt(c[i])
  BY <1>1 DEF RowInv
<1>3. rows \subseteq since
  BY DEF RidInv
<1>4. QED
  BY <1>1, <1>2, <1>3 DEF Behind, RowsAt

-----------------------------------------------------------------------------
(* Write-backs.                                                            *)

\* What write-backs may make of the file.
Later(d) ==
    /\ d \in Seq(Image) /\ Len(d) = Len(disk)
    /\ \A p \in DOMAIN view : d[p] \in {disk[p], view[p], Torn}
    /\ pending = {} => d = disk

LEMMA WrittenBackLater ==
    ASSUME TypeInv, NEW W \in SUBSET pending, NEW d \in Pool!WrittenBack(W)
    PROVE  Later(d)
<1> DEFINE done == [p \in DOMAIN disk |-> IF p \in W THEN view[p] ELSE disk[p]]
<1>1. /\ DOMAIN view = 1 .. Len(view) /\ DOMAIN disk = DOMAIN view /\ Len(view) \in Nat
      /\ Len(disk) = Len(view) /\ pending \subseteq DOMAIN view /\ W \subseteq pending
      /\ \A p \in DOMAIN view : view[p] \in Image /\ disk[p] \in Image
      /\ disk \in Seq(Image) /\ Torn \in Image
  BY StoreFacts, NotSoundPages DEF TypeInv
<1>2. DOMAIN done = 1 .. Len(view) /\ \A p \in DOMAIN view : done[p] \in {disk[p], view[p]} /\ done[p] \in Image
  BY <1>1
<1>3. pending = {} => done = disk
  <2>1. disk = [p \in DOMAIN disk |-> disk[p]]
    BY <1>1
  <2> QED
    BY <1>1, <2>1
<1> HIDE DEF done
<1>4. /\ DOMAIN d = 1 .. Len(view)
      /\ \A p \in DOMAIN view : d[p] \in {disk[p], view[p], Torn} /\ d[p] \in Image
      /\ pending = {} => d = disk
  <2>1. \/ d = done
        \/ \E p \in pending \ W : d = [done EXCEPT ![p] = view[p]]
        \/ \E p \in pending \ W : d = [done EXCEPT ![p] = Torn]
    BY DEF Pool!WrittenBack, done
  <2>2. CASE d = done
    BY <1>1, <1>2, <1>3, <2>2
  <2>3. ASSUME NEW p \in pending \ W, NEW v \in {view[p], Torn}, d = [done EXCEPT ![p] = v]
        PROVE  /\ DOMAIN d = 1 .. Len(view) /\ pending # {}
               /\ \A q \in DOMAIN view : d[q] \in {disk[q], view[q], Torn} /\ d[q] \in Image
    <3>1. DOMAIN d = DOMAIN done /\ p \in DOMAIN done
      BY <1>1, <1>2, <2>3
    <3>2. \A q \in DOMAIN view : d[q] = IF q = p THEN v ELSE done[q]
      BY <1>1, <1>2, <2>3
    <3> QED
      BY <1>1, <1>2, <2>3, <3>1, <3>2
  <2> QED
    BY <2>1, <2>2, <2>3
<1>5. d \in Seq(Image) /\ Len(d) = Len(view)
  <2>1. d = [p \in 1 .. Len(view) |-> d[p]]
    <3>1. \/ d = done
          \/ \E p \in pending \ W : d = [done EXCEPT ![p] = view[p]]
          \/ \E p \in pending \ W : d = [done EXCEPT ![p] = Torn]
      BY DEF Pool!WrittenBack, done
    <3>2. done = [p \in 1 .. Len(view) |-> done[p]]
      BY <1>1 DEF done
    <3> QED
      BY <1>1, <1>2, <1>4, <3>1, <3>2
  <2>2. d \in [1 .. Len(view) -> Image]
    BY <1>1, <1>4, <2>1
  <2> QED
    BY <1>1, <2>2
<1>6. QED
  BY <1>1, <1>4, <1>5 DEF Later

\* They disturb nothing that is said of the file.
LEMMA LaterKeeps ==
    ASSUME StoreInv, NEW d, Later(d)
    PROVE  /\ DOMAIN d = DOMAIN view /\ Counted(d)
           /\ \A p \in DOMAIN d : d[p] \in SoundPage => AllHandedOut(d[p], p, safe.used)
           /\ ~cut => \A c \in HeapChains(view) : \A i \in DOMAIN c : Behind(d[c[i]], c, i)
           /\ ~grown => \A c \in HeapChains(view) : \A p \in ListedPages(c) : SameLink(d[p], p)
<1> USE DEF StoreInv
<1>1. /\ DOMAIN d = DOMAIN view /\ DOMAIN disk = DOMAIN view
      /\ \A p \in DOMAIN view : d[p] \in SoundPage => d[p] = disk[p] \/ d[p] = view[p]
  BY StoreFacts, NotSoundPages DEF Later, TypeInv
<1>2. Counted(d)
  BY <1>1 DEF LinkInv, Counted
<1>3. ASSUME NEW p \in DOMAIN d, d[p] \in SoundPage PROVE AllHandedOut(d[p], p, safe.used)
  <2>1. AllHandedOut(view[p], p, issued) => AllHandedOut(view[p], p, safe.used)
    BY DEF AllHandedOut, RidInv
  <2> QED
    BY <1>1, <1>3, <2>1 DEF RidInv
<1>4. ASSUME ~cut, NEW c \in HeapChains(view), NEW i \in DOMAIN c PROVE Behind(d[c[i]], c, i)
  <2>1. c[i] \in DOMAIN view
    BY HeapChainIs
  <2>2. CASE d[c[i]] \in SoundPage
    <3>1. d[c[i]] = disk[c[i]] \/ d[c[i]] = view[c[i]]
      BY <1>1, <2>1, <2>2
    <3> QED
      BY <1>4, <3>1, NotBehind DEF DiskInv
  <2>3. CASE d[c[i]] \notin SoundPage
    BY <2>3 DEF Behind
  <2> QED
    BY <2>2, <2>3
<1>5. ASSUME ~grown, NEW c \in HeapChains(view), NEW p \in ListedPages(c) PROVE SameLink(d[p], p)
  <2>1. p \in DOMAIN view /\ view[p] \in SoundPage
    BY HeapChainIs
  <2>2. d[p] \in {disk[p], view[p], Torn}
    BY <2>1 DEF Later
  <2>3. SameLink(disk[p], p)
    BY <1>5 DEF DiskInv
  <2>4. CASE d[p] = view[p]
    BY <2>1, <2>4 DEF SameLink
  <2>5. CASE d[p] = Torn
    BY <2>5 DEF SameLink
  <2>6. CASE d[p] = disk[p]
    BY <2>3, <2>6
  <2> QED
    BY <2>2, <2>4, <2>5, <2>6
<1>6. QED
  BY <1>1, <1>2, <1>3, <1>4, <1>5

\* A write-back changes only the file.
LEMMA WriteBackStep == HeapInv /\ WriteBack => HeapInv'
<1> SUFFICES ASSUME HeapInv, WriteBack PROVE HeapInv'
  OBVIOUS
<1> USE DEF HeapInv
<1>1. PICK W \in SUBSET pending : disk' \in Pool!WrittenBack(W) /\ pending' = pending \ W
  BY DEF WriteBack, Pool!WritesBack
<1>2. /\ view' = view /\ kept' = kept /\ root' = root /\ handle' = handle /\ call' = call
      /\ rows' = rows /\ issued' = issued /\ since' = since /\ safe' = safe
      /\ grown' = grown /\ cut' = cut /\ losses' = losses
      /\ call.step \in {"idle", "link"}
  BY DEF WriteBack, Pool!WritesBack, history
<1>3. Later(disk')
  BY <1>1, WrittenBackLater DEF StoreInv
<1>4. HeapChains(view)' = HeapChains(view) /\ InUse' = InUse
  BY <1>2 DEF HeapChains, InUse
<1>5. TypeInv' /\ DOMAIN disk' = DOMAIN view
  <2>1. TypeInv
    BY DEF StoreInv
  <2>2. disk' \in Seq(Image) /\ Len(disk') = Len(view) /\ pending' \subseteq DOMAIN view
    BY <1>1, <1>3, <2>1 DEF Later, TypeInv
  <2>3. DOMAIN disk' = DOMAIN view
    BY <2>1, <2>2, StoreFacts
  <2> QED
    BY <1>2, <2>1, <2>2, <2>3 DEF TypeInv
<1>6. LinkInv'
  BY <1>2, <1>3, LaterKeeps DEF LinkInv, Counted, StoreInv
<1>7. RidInv'
  BY <1>2, <1>3, LaterKeeps DEF RidInv, StoreInv
<1>8. RowInv'
  BY <1>2, <1>4 DEF RowInv, RowsAt, StoreInv
<1>9. OpenInv'
  <2>1. OpenInv
    BY DEF StoreInv
  <2>2. pending = {} => disk' = disk /\ pending' = {}
    BY <1>1, <1>3 DEF Later
  <2> QED
    BY <1>2, <1>4, <2>1, <2>2 DEF OpenInv
<1>10. WholeInv'
  BY <1>2, <1>4 DEF WholeInv, StoreInv
<1>11. DiskInv'
  <2>1. \A pg, c, i : Behind(pg, c, i)' <=> Behind(pg, c, i)
    BY <1>2 DEF Behind
  <2>2. \A pg, p : SameLink(pg, p)' <=> SameLink(pg, p)
    BY <1>2 DEF SameLink
  <2> QED
    BY <1>2, <1>3, <1>4, <2>1, <2>2, LaterKeeps DEF DiskInv
<1>12. CallInv'
  <2>1. CallInv /\ TypeInv
    BY DEF StoreInv
  <2>2. call.step = "link" => disk'[call.page] \in {Zero, Torn, view[call.page]}
    <3>1. call.step = "link" => call.page \in DOMAIN view
      BY <2>1, StoreFacts, CallFacts DEF CallInv
    <3> QED
      BY <1>3, <2>1, <3>1 DEF CallInv, Later
  <2> QED
    BY <1>2, <2>1, <2>2 DEF CallInv
<1>13. QED
  BY <1>5, <1>6, <1>7, <1>8, <1>9, <1>10, <1>11, <1>12 DEF StoreInv

-----------------------------------------------------------------------------
(* A page is added to the database.                                        *)

\* Adding a page that holds nothing, which makes room by write-backs.
LEMMA GrowStep ==
    ASSUME HeapInv, Len(view) < MaxPages, Pool!Grow, UNCHANGED <<root, handle, history, losses>>
    PROVE  /\ StoreInv'
           /\ Len(view') = Len(view) + 1 /\ kept \in Nat /\ kept' \in {kept, Len(view')}
           /\ \A p \in DOMAIN view : p \in DOMAIN view' /\ view'[p] = view[p]
           /\ DOMAIN view' = DOMAIN view \cup {Len(view')}
           /\ view'[Len(view')] = Zero /\ disk'[Len(view')] = Zero
           /\ Len(view') \notin DOMAIN view /\ Len(view') > kept
           /\ Len(view') \in 1 .. MaxPages
           /\ HeapChains(view)' = HeapChains(view)
<1> DEFINE n == Len(view) + 1
<1> USE DEF HeapInv
<1>0. PICK W \in SUBSET pending :
         /\ \E d \in Pool!WrittenBack(W) : disk' = Append(d, Zero)
         /\ pending' = pending \ W
  BY DEF Pool!Grow
<1>1. PICK d \in Pool!WrittenBack(W) : disk' = Append(d, Zero) /\ pending' = pending \ W
  BY <1>0
<1>2. /\ view' = Append(view, Zero) /\ kept' \in {kept, Len(view')}
      /\ root' = root /\ handle' = handle
      /\ rows' = rows /\ issued' = issued /\ since' = since /\ safe' = safe
      /\ grown' = grown /\ cut' = cut /\ losses' = losses
  BY DEF Pool!Grow, history
<1>3. TypeInv /\ LinkInv /\ RidInv /\ RowInv /\ OpenInv /\ WholeInv /\ DiskInv
  BY DEF StoreInv
<1>4. Later(d)
  BY <1>3, WrittenBackLater
<1>5. /\ DOMAIN d = DOMAIN view /\ Counted(d)
      /\ \A p \in DOMAIN d : d[p] \in SoundPage => AllHandedOut(d[p], p, safe.used)
      /\ ~cut => \A c \in HeapChains(view) : \A i \in DOMAIN c : Behind(d[c[i]], c, i)
      /\ ~grown => \A c \in HeapChains(view) : \A p \in ListedPages(c) : SameLink(d[p], p)
  BY <1>4, LaterKeeps
<1>6. /\ view \in Seq(Image) /\ d \in Seq(Image) /\ Len(d) = Len(view)
      /\ DOMAIN view = 1 .. Len(view) /\ Len(view) \in Nat /\ MaxPages \in Nat
      /\ kept \in 0 .. Len(view) /\ Zero \in Image /\ Zero \notin SoundPage
      /\ DOMAIN view \subseteq 1 .. MaxPages
  BY <1>3, <1>4, StoreFacts, NotSoundPages, HeapFileAssumption DEF TypeInv, Later
<1>7. /\ view' \in Seq(Image) /\ Len(view') = n /\ DOMAIN view' = 1 .. n
      /\ \A p \in 1 .. Len(view) : view'[p] = view[p]
      /\ view'[n] = Zero
  BY <1>2, <1>6, AppendToSeq
<1>8. /\ disk' \in Seq(Image) /\ Len(disk') = n /\ DOMAIN disk' = 1 .. n
      /\ \A p \in 1 .. Len(view) : disk'[p] = d[p]
      /\ disk'[n] = Zero
  BY <1>1, <1>6, AppendToSeq
<1>9. /\ DOMAIN view' = DOMAIN view \cup {n} /\ DOMAIN disk' = DOMAIN view \cup {n}
      /\ n \notin DOMAIN view /\ n \in 1 .. MaxPages /\ n > kept
  BY <1>6, <1>7, <1>8
<1>10. kept' \in {kept, n} /\ kept \in Nat /\ n \in Nat
  BY <1>2, <1>6, <1>7
<1>11. Links(view') = Links(view)
  BY <1>6, <1>7, <1>9, SameLinks
<1>12. HeapChains(view)' = HeapChains(view) /\ InUse' = InUse
  BY <1>2, <1>11 DEF HeapChains, InUse
<1>13. \A c \in HeapChains(view) : \A p \in ListedPages(c) : p \in DOMAIN view
  BY <1>3, HeapChainIs
<1> HIDE DEF n
<1>14. TypeInv'
  <2>1. handle' \in [Handles -> Seq(DOMAIN view')]
    <3>1. \A h \in Handles : handle[h] \in Seq(DOMAIN view')
      <4> SUFFICES ASSUME NEW h \in Handles PROVE handle[h] \in Seq(DOMAIN view')
        OBVIOUS
      <4> DEFINE D == DOMAIN view
                 E == DOMAIN view'
      <4>1. D \subseteq E /\ handle[h] \in Seq(D)
        BY <1>3, <1>9, StoreFacts
      <4> HIDE DEF D, E
      <4>2. handle[h] \in Seq(E)
        BY <4>1
      <4> QED
        BY <4>2 DEF E
    <3>2. handle = [h \in Handles |-> handle[h]]
      BY <1>3 DEF TypeInv
    <3> QED
      BY <1>2, <3>1, <3>2
  <2>2. kept' \in 0 .. Len(view') /\ root' \in {NoPage} \cup 1 .. kept'
    BY <1>2, <1>3, <1>6, <1>7, <1>9, <1>10 DEF TypeInv
  <2>3. pending' \subseteq DOMAIN view' /\ Len(view') = Len(disk') /\ Len(view') <= MaxPages
    BY <1>1, <1>3, <1>7, <1>8, <1>9 DEF TypeInv
  <2> QED
    BY <1>2, <1>3, <1>7, <1>8, <2>1, <2>2, <2>3 DEF TypeInv
<1>15. LinkInv'
  <2>1. \A p \in DOMAIN view : p <= kept => p <= kept'
    BY <1>6, <1>9, <1>10
  <2>2. 1 .. kept \subseteq 1 .. kept'
    BY <1>9, <1>10
  <2> QED
    BY <1>3, <1>5, <1>6, <1>7, <1>8, <1>9, <2>1, <2>2 DEF LinkInv, Counted
<1>16. RidInv'
  <2>1. \A rid \in issued : rid.page <= kept'
    <3> SUFFICES ASSUME NEW rid \in issued PROVE rid.page <= kept'
      OBVIOUS
    <3>1. rid.page \in 1 .. MaxPages /\ rid.page <= kept
      BY <1>3 DEF RidInv, TypeInv, HeapRids, HeapRid
    <3> QED
      BY <1>9, <1>10, <3>1, HeapFileAssumption
  <2> QED
    BY <1>2, <1>3, <1>5, <1>6, <1>7, <1>8, <1>9, <2>1 DEF RidInv
<1>17. RowInv'
  <2>1. \A h \in Handles : ListedPages(handle[h]) \subseteq DOMAIN view
    BY <1>3, StoreFacts
  <2> QED
    BY <1>2, <1>3, <1>6, <1>7, <1>12, <1>13, <2>1 DEF RowInv, RowsAt
<1>18. OpenInv'
  <2>1. pending = {} /\ disk = view => pending' = {} /\ disk' = view'
    BY <1>1, <1>2, <1>4 DEF Later
  <2> QED
    BY <1>2, <1>3, <1>12, <2>1 DEF OpenInv
<1>19. WholeInv'
  BY <1>2, <1>3, <1>12 DEF WholeInv
<1>20. DiskInv'
  <2>1. ASSUME ~cut, NEW c \in HeapChains(view), NEW i \in DOMAIN c PROVE Behind(disk[c[i]], c, i)'
    <3>1. c[i] \in DOMAIN view
      BY <1>3, HeapChainIs
    <3>2. view'[c[i]] = view[c[i]] /\ disk'[c[i]] = d[c[i]]
      BY <1>6, <1>7, <1>8, <3>1
    <3> QED
      BY <1>2, <1>5, <2>1, <3>2 DEF Behind
  <2>2. ASSUME ~grown, NEW c \in HeapChains(view), NEW p \in ListedPages(c) PROVE SameLink(disk[p], p)'
    <3>1. view'[p] = view[p] /\ disk'[p] = d[p]
      BY <1>6, <1>7, <1>8, <1>13
    <3> QED
      BY <1>5, <2>2, <3>1 DEF SameLink
  <2> QED
    BY <1>2, <1>12, <2>1, <2>2 DEF DiskInv
<1>21. StoreInv'
  BY <1>14, <1>15, <1>16, <1>17, <1>18, <1>19, <1>20 DEF StoreInv
<1>22. Len(view') = n
  BY <1>7
<1>23. QED
  BY <1>6, <1>7, <1>8, <1>9, <1>10, <1>12, <1>21, <1>22, SMTT(30)

LEMMA AllocateFailsStep == HeapInv /\ AllocatePageFails => HeapInv'
<1> SUFFICES ASSUME HeapInv, AllocatePageFails PROVE HeapInv'
  OBVIOUS
<1>1. StoreInv'
  BY GrowStep DEF AllocatePageFails
<1>2. call' = call /\ call = Idle /\ call \in Calls /\ call.step = "idle"
  BY CallFacts DEF AllocatePageFails, HeapInv, CallInv
<1>3. CallInv'
  BY <1>2 DEF CallInv
<1>4. QED
  BY <1>1, <1>3 DEF HeapInv

\* A page allocated for a call: nothing else refers to it.
LEMMA AllocateStep ==
    ASSUME HeapInv, AllocatePage, UNCHANGED <<root, handle, history, losses>>
    PROVE  /\ StoreInv'
           /\ Len(view') \in 1 .. kept' /\ Len(view') \in 1 .. MaxPages /\ Len(view') # root'
           /\ \A h \in Handles : Len(view') \notin ListedPages(handle'[h])
           /\ \A q \in DOMAIN view' : view'[q] \in SoundPage => view'[q].next # Len(view')
           /\ \A rid \in issued' : rid.page # Len(view')
           /\ view'[Len(view')] = Zero /\ disk'[Len(view')] = Zero
<1>1. /\ StoreInv' /\ kept \in Nat
      /\ \A p \in DOMAIN view : p \in DOMAIN view' /\ view'[p] = view[p]
      /\ DOMAIN view' = DOMAIN view \cup {Len(view')}
      /\ view'[Len(view')] = Zero /\ disk'[Len(view')] = Zero
      /\ Len(view') \notin DOMAIN view /\ Len(view') > kept
      /\ Len(view') \in 1 .. MaxPages
  BY GrowStep DEF AllocatePage
<1>2. kept' = Len(view') /\ root' = root /\ handle' = handle /\ issued' = issued
  BY DEF AllocatePage, history
<1>3. TypeInv /\ LinkInv /\ RidInv /\ Zero \notin SoundPage
  BY NotSoundPages DEF HeapInv, StoreInv
<1>4. Len(view') \in 1 .. kept' /\ \A p \in 1 .. kept : p # Len(view')
  <2> DEFINE n == Len(view')
  <2>1. n \in 1 .. MaxPages /\ n > kept /\ kept' = n /\ kept \in Nat /\ MaxPages \in Nat
    BY <1>1, <1>2, HeapFileAssumption
  <2> HIDE DEF n
  <2>2. n \in 1 .. kept' /\ \A p \in 1 .. kept : p # n
    BY <2>1
  <2> QED
    BY <2>2 DEF n
<1>5. Len(view') # root'
  BY <1>1, <1>2, <1>3, <1>4, HeapFileAssumption DEF TypeInv
<1>6. \A h \in Handles : Len(view') \notin ListedPages(handle'[h])
  BY <1>1, <1>2, <1>3, StoreFacts
<1>7. ASSUME NEW q \in DOMAIN view', view'[q] \in SoundPage PROVE view'[q].next # Len(view')
  <2>1. q \in DOMAIN view /\ view'[q] = view[q]
    BY <1>1, <1>3, <1>7
  <2>2. view[q].next \in {NoPage} \cup 1 .. kept
    BY <1>3, <1>7, <2>1 DEF LinkInv, Counted
  <2> QED
    BY <1>1, <1>4, <2>1, <2>2, HeapFileAssumption
<1>8. ASSUME NEW rid \in issued' PROVE rid.page # Len(view')
  <2>1. rid.page <= kept
    BY <1>2, <1>3, <1>8 DEF RidInv
  <2>2. rid.page \in 1 .. MaxPages
    BY <1>2, <1>3, <1>8 DEF TypeInv, HeapRids, HeapRid
  <2> DEFINE n == Len(view')
  <2>3. n \in 1 .. MaxPages /\ kept \in Nat /\ n > kept
    BY <1>1
  <2> HIDE DEF n
  <2>4. rid.page # n
    <3> DEFINE m == rid.page
    <3>1. m \in 1 .. MaxPages /\ m <= kept
      BY <2>1, <2>2
    <3> HIDE DEF m
    <3>2. m # n
      BY <2>3, <3>1, HeapFileAssumption
    <3> QED
      BY <3>2 DEF m
  <2> QED
    BY <2>4 DEF n
<1>9. QED
  BY <1>1, <1>4, <1>5, <1>6, <1>7, <1>8

LEMMA CreateStep ==
    ASSUME HeapInv, NEW h \in Handles, Create(h)
    PROVE  HeapInv'
<1>1. /\ AllocatePage /\ UNCHANGED <<root, handle, history, losses>> /\ root = NoPage
      /\ call' = [step |-> "create", handle |-> h, page |-> Len(view')]
  BY DEF Create
<1>2. /\ StoreInv'
      /\ Len(view') \in 1 .. kept' /\ Len(view') \in 1 .. MaxPages /\ Len(view') # root'
      /\ \A k \in Handles : Len(view') \notin ListedPages(handle'[k])
      /\ \A q \in DOMAIN view' : view'[q] \in SoundPage => view'[q].next # Len(view')
      /\ \A rid \in issued' : rid.page # Len(view')
      /\ view'[Len(view')] = Zero /\ disk'[Len(view')] = Zero
  BY <1>1, AllocateStep
<1>3. call' \in Calls /\ call'.step = "create" /\ call'.page = Len(view')
  BY <1>1, <1>2 DEF Calls
<1>4. CallInv'
  BY <1>1, <1>2, <1>3 DEF CallInv
<1>5. QED
  BY <1>2, <1>4 DEF HeapInv

LEMMA AppendAllocateStep ==
    ASSUME HeapInv, NEW h \in Handles, NEW record \in Records, AppendAllocate(h, record)
    PROVE  HeapInv'
<1>1. /\ AllocatePage /\ UNCHANGED <<root, handle, history, losses>> /\ handle[h] # <<>>
      /\ call' = [step |-> "fill", handle |-> h, page |-> Len(view'), record |-> record]
  BY DEF AppendAllocate
<1>2. /\ StoreInv'
      /\ Len(view') \in 1 .. kept' /\ Len(view') \in 1 .. MaxPages /\ Len(view') # root'
      /\ \A k \in Handles : Len(view') \notin ListedPages(handle'[k])
      /\ \A q \in DOMAIN view' : view'[q] \in SoundPage => view'[q].next # Len(view')
      /\ \A rid \in issued' : rid.page # Len(view')
      /\ view'[Len(view')] = Zero /\ disk'[Len(view')] = Zero
  BY <1>1, AllocateStep
<1>3. call' \in Calls /\ call'.step = "fill" /\ call'.page = Len(view') /\ call'.handle = h
  BY <1>1, <1>2 DEF Calls
<1>4. CallInv'
  BY <1>1, <1>2, <1>3 DEF CallInv
<1>5. QED
  BY <1>2, <1>4 DEF HeapInv

LEMMA OpenStep ==
    ASSUME HeapInv, NEW h \in Handles, Open(h)
    PROVE  HeapInv'
<1>1. PICK c \in HeapChains(view) : handle' = [handle EXCEPT ![h] = c]
  BY DEF Open
<1>2. /\ view' = view /\ disk' = disk /\ pending' = pending /\ kept' = kept /\ root' = root /\ call' = call
      /\ rows' = rows /\ issued' = issued /\ since' = since /\ safe' = safe
      /\ grown' = grown /\ cut' = cut /\ losses' = losses /\ call = Idle
  BY DEF Open, pool, history
<1>3. TypeInv /\ LinkInv /\ RidInv /\ RowInv /\ OpenInv /\ WholeInv /\ DiskInv /\ CallInv
  BY DEF HeapInv, StoreInv
<1>4. /\ root # NoPage /\ c \in Seq(DOMAIN view) /\ Len(c) \in Nat
      /\ \A p \in ListedPages(c) : view[p] \in SoundPage
  BY <1>3, HeapChainIs
<1>5. HeapChains(view)' = HeapChains(view)
  BY <1>2 DEF HeapChains
<1>6. \A k \in Handles : handle'[k] = IF k = h THEN c ELSE handle[k]
  BY <1>1, <1>3 DEF TypeInv
<1>7. TypeInv'
  <2>1. handle' \in [Handles -> Seq(DOMAIN view)]
    BY <1>1, <1>3, <1>4 DEF TypeInv
  <2> QED
    BY <1>2, <1>3, <1>4, <2>1 DEF TypeInv
<1>8. LinkInv' /\ RidInv' /\ DiskInv'
  BY <1>2, <1>3, <1>5 DEF LinkInv, Counted, RidInv, DiskInv, Behind, SameLink
<1>9. RowInv'
  BY <1>2, <1>3, <1>4, <1>5, <1>6 DEF RowInv, RowsAt
<1>10. OpenInv'
  BY <1>1, <1>2, <1>3, <1>5 DEF OpenInv
<1>11. WholeInv'
  <2>1. Begins(c, c)
    <3>1. SubSeq(c, 1, Len(c)) = c
      BY <1>4, WholeSeq, <1>3, HeapChainIs
    <3> QED
      BY <1>4, <3>1 DEF Begins
  <2> QED
    BY <1>1, <1>2, <1>3, <1>5, <1>6, <2>1 DEF WholeInv
<1>12. CallInv'
  BY <1>2, <1>3 DEF CallInv, Idle
<1>13. QED
  BY <1>7, <1>8, <1>9, <1>10, <1>11, <1>12 DEF HeapInv, StoreInv

LEMMA AppendLinkFailsStep == HeapInv /\ AppendLinkFails => HeapInv'
<1> SUFFICES ASSUME HeapInv, AppendLinkFails PROVE HeapInv'
  OBVIOUS
<1>1. /\ view' = view /\ disk' = disk /\ pending' = pending /\ kept' = kept /\ root' = root
      /\ rows' = rows /\ issued' = issued /\ since' = since /\ safe' = safe /\ handle' = handle
      /\ grown' = grown /\ cut' = cut /\ losses' = losses /\ call' = Idle
  BY DEF AppendLinkFails, pool, history
<1>2. TypeInv /\ LinkInv /\ RidInv /\ RowInv /\ OpenInv /\ WholeInv /\ DiskInv /\ CallInv
  BY DEF HeapInv, StoreInv
<1>3. HeapChains(view)' = HeapChains(view) /\ InUse' = InUse
  BY <1>1 DEF HeapChains, InUse
<1>4. TypeInv' /\ LinkInv' /\ RidInv' /\ RowInv'
  BY <1>1, <1>2, <1>3 DEF TypeInv, LinkInv, Counted, RidInv, RowInv, RowsAt
<1>5. OpenInv' /\ WholeInv' /\ DiskInv'
  BY <1>1, <1>2, <1>3 DEF OpenInv, WholeInv, DiskInv, Behind, SameLink
<1>6. CallInv'
  BY <1>1, <1>2, CallFacts DEF CallInv
<1>7. QED
  BY <1>4, <1>5, <1>6 DEF HeapInv, StoreInv

LEMMA SyncStep == HeapInv /\ Sync => HeapInv'
<1> SUFFICES ASSUME HeapInv, Sync PROVE HeapInv'
  OBVIOUS
<1>1. /\ view' = view /\ disk' = view /\ pending' = {} /\ kept' = kept /\ root' = root
      /\ rows' = rows /\ issued' = issued /\ since' = rows /\ handle' = handle
      /\ safe' = [rows |-> rows, used |-> issued]
      /\ grown' = FALSE /\ cut' = cut /\ losses' = losses /\ call' = call /\ call = Idle
  BY DEF Sync
<1>2. TypeInv /\ LinkInv /\ RidInv /\ RowInv /\ OpenInv /\ WholeInv /\ DiskInv /\ CallInv
  BY DEF HeapInv, StoreInv
<1>3. HeapChains(view)' = HeapChains(view) /\ InUse' = InUse
  BY <1>1 DEF HeapChains, InUse
<1>4. TypeInv' /\ LinkInv' /\ RidInv' /\ RowInv'
  BY <1>1, <1>2, <1>3 DEF TypeInv, LinkInv, Counted, RidInv, RowInv, RowsAt
<1>5. OpenInv' /\ WholeInv'
  BY <1>1, <1>2, <1>3 DEF OpenInv, WholeInv
<1>6. DiskInv'
  <2>1. ASSUME NEW c \in HeapChains(view), NEW i \in DOMAIN c PROVE Behind(disk[c[i]], c, i)'
    <3>1. c \in HeapChains(view)' /\ TypeInv' /\ RidInv' /\ RowInv' /\ view'[c[i]] = disk'[c[i]]
      BY <1>1, <1>3, <1>4, <2>1
    <3>2. /\ c[i] \in ListedPages(c) /\ PageRows(view[c[i]], c[i]) = RowsAt(c[i])
      BY <1>2, <2>1, HeapChainIs DEF RowInv
    <3> QED
      BY <1>1, <3>2 DEF Behind, RowsAt
  <2>2. ASSUME NEW c \in HeapChains(view), NEW p \in ListedPages(c) PROVE SameLink(disk[p], p)'
    BY <1>1, <1>2, <2>2, HeapChainIs DEF SameLink
  <2> QED
    BY <1>3, <2>1, <2>2 DEF DiskInv
<1>7. CallInv'
  BY <1>1, <1>2 DEF CallInv, Idle
<1>8. QED
  BY <1>4, <1>5, <1>6, <1>7 DEF HeapInv, StoreInv

-----------------------------------------------------------------------------
(* A page of a handle is rewritten.                                        *)

LEMMA BeginsListed ==
    ASSUME TypeInv, NEW h \in Handles, NEW c \in HeapChains(view), Begins(handle[h], c)
    PROVE  /\ Len(handle[h]) <= Len(c)
           /\ \A i \in 1 .. Len(handle[h]) : i \in 1 .. Len(c) /\ handle[h][i] = c[i]
           /\ ListedPages(handle[h]) \subseteq ListedPages(c)
<1> DEFINE n == Len(handle[h])
<1>1. /\ n \in Nat /\ DOMAIN handle[h] = 1 .. n
      /\ c \in Seq(DOMAIN view) /\ Len(c) \in Nat /\ DOMAIN c = 1 .. Len(c)
  BY StoreFacts, HeapChainIs
<1>2. n <= Len(c) /\ handle[h] = SubSeq(c, 1, n)
  BY DEF Begins
<1>3. ASSUME NEW i \in 1 .. n PROVE i \in 1 .. Len(c) /\ handle[h][i] = c[i]
  <2>1. n \in 1 .. Len(c) /\ i \in 1 .. Len(c)
    BY <1>1, <1>2
  <2>2. SubSeq(c, 1, n)[i] = c[i]
    BY <1>1, <2>1, StartOfSeq
  <2> QED
    BY <1>2, <2>1, <2>2
<1>4. QED
  BY <1>1, <1>2, <1>3 DEF ListedPages

\* A handle's page: what every operation that goes through one may assume.
LEMMA ListedFacts ==
    ASSUME StoreInv, NEW h \in Handles, NEW p \in ListedPages(handle[h])
    PROVE  /\ p \in DOMAIN view /\ view[p] \in SoundPage /\ p <= kept /\ p \in 1 .. MaxPages
           /\ PageRows(view[p], p) = RowsAt(p)
           /\ root # NoPage /\ HeapChains(view) # {} /\ handle[h] # <<>>
<1>1. TypeInv /\ LinkInv /\ RowInv /\ OpenInv
  BY DEF StoreInv
<1>2. p \in DOMAIN view /\ p \in 1 .. MaxPages
  BY <1>1, StoreFacts
<1>3. view[p] \in SoundPage /\ PageRows(view[p], p) = RowsAt(p) /\ p <= kept
  BY <1>1, <1>2 DEF RowInv, LinkInv, Counted
<1>4. handle[h] # <<>>
  BY DEF ListedPages
<1>5. root # NoPage
  BY <1>1, <1>4 DEF TypeInv
<1>6. QED
  BY <1>1, <1>2, <1>3, <1>4, <1>5 DEF OpenInv, InUse

LEMMA RewriteStep ==
    ASSUME HeapInv, call = Idle, NEW h \in Handles, NEW p \in ListedPages(handle[h]),
           NEW pg \in SoundPage, pg.next = view[p].next, Pool!Write(p, pg),
           UNCHANGED <<root, handle, call, safe, grown, cut, losses>>,
           issued \subseteq issued', issued' \subseteq HeapRids,
           \A rid \in issued' \ issued : rid.page = p,
           AllHandedOut(pg, p, issued'),
           PageRows(pg, p) = {row \in rows' : row[1].page = p},
           \A q : q # p => {row \in rows' : row[1].page = q} = RowsAt(q),
           \A row \in rows' : row[1] \in issued',
           rows' \subseteq since', since \subseteq since', rows' \cap safe.rows \subseteq rows
    PROVE  HeapInv'
<1>0. view' = [view EXCEPT ![p] = pg]
  BY DEF Pool!Write
<1>1. /\ pending' = pending \cup {p}
      /\ disk' = disk /\ kept' = kept /\ root' = root /\ handle' = handle /\ call' = call
      /\ safe' = safe /\ grown' = grown /\ cut' = cut /\ losses' = losses
  BY DEF Pool!Write
<1>2. TypeInv /\ LinkInv /\ RidInv /\ RowInv /\ OpenInv /\ WholeInv /\ DiskInv /\ CallInv
  BY DEF HeapInv, StoreInv
<1>3. /\ p \in DOMAIN view /\ view[p] \in SoundPage /\ p <= kept /\ p \in 1 .. MaxPages
      /\ root # NoPage /\ HeapChains(view) # {} /\ handle[h] # <<>>
  BY ListedFacts DEF HeapInv
<1>4. /\ view' \in Seq(Image) /\ Len(view') = Len(view) /\ DOMAIN view' = DOMAIN view
      /\ view'[p] = pg /\ \A q \in DOMAIN view : q # p => view'[q] = view[q]
  <2>1. pg \in Image /\ view \in Seq(Image)
    BY <1>2, SoundPageFacts DEF TypeInv
  <2> QED
    BY <1>0, <1>3, <2>1, PageReplaced
<1>5. \A q \in DOMAIN view : /\ view'[q] \in SoundPage <=> view[q] \in SoundPage
                             /\ view[q] \in SoundPage => view'[q].next = view[q].next
  BY <1>3, <1>4
<1>6. HeapChains(view)' = HeapChains(view) /\ InUse' = InUse
  <2>1. Links(view') = Links(view)
    BY <1>2, <1>4, <1>5, SameLinks DEF TypeInv
  <2> QED
    BY <1>1, <2>1 DEF HeapChains, InUse
<1>7. TypeInv'
  BY <1>1, <1>2, <1>3, <1>4 DEF TypeInv
<1>8. LinkInv'
  BY <1>1, <1>2, <1>4, <1>5 DEF LinkInv, Counted
<1>9. RidInv'
  <2>1. \A rid \in issued' : rid.page <= kept
    BY <1>2, <1>3 DEF RidInv
  <2>2. ASSUME NEW q \in DOMAIN view', view'[q] \in SoundPage PROVE AllHandedOut(view'[q], q, issued')
    <3>1. CASE q = p
      BY <1>4, <3>1
    <3>2. CASE q # p
      <4>1. view'[q] = view[q] /\ AllHandedOut(view[q], q, issued)
        BY <1>2, <1>4, <2>2, <3>2 DEF RidInv
      <4>2. ASSUME NEW r \in Rid, HeapRid(q, r) \in issued' PROVE HeapRid(q, r) \in issued
        BY <3>2, <4>2, HeapRidFields
      <4> QED
        BY <4>1, <4>2 DEF AllHandedOut
    <3> QED
      BY <3>1, <3>2
  <2> QED
    BY <1>1, <1>2, <2>1, <2>2 DEF RidInv
<1>10. \A q \in DOMAIN view : view[q] \in SoundPage /\ PageRows(view[q], q) = RowsAt(q)
                                => view'[q] \in SoundPage /\ PageRows(view'[q], q) = RowsAt(q)'
  BY <1>3, <1>4 DEF RowsAt
<1>11. RowInv'
  <2>1. \A k \in Handles : ListedPages(handle[k]) \subseteq DOMAIN view
    BY <1>2, StoreFacts
  <2>2. \A c \in HeapChains(view) : \A q \in ListedPages(c) : q \in DOMAIN view /\ view[q] \in SoundPage
    BY <1>2, HeapChainIs
  <2> QED
    BY <1>1, <1>2, <1>6, <1>10, <2>1, <2>2 DEF RowInv
<1>12. OpenInv'
  BY <1>1, <1>3, <1>6 DEF OpenInv
<1>13. WholeInv'
  <2>1. ASSUME ~cut, NEW row \in rows' PROVE \E c \in HeapChains(view) : row[1].page \in ListedPages(c)
    <3>1. CASE row[1].page = p
      <4>1. PICK c \in HeapChains(view) : Begins(handle[h], c)
        BY <1>2, <1>3, <2>1 DEF WholeInv
      <4> QED
        BY <1>2, <3>1, <4>1, BeginsListed
    <3>2. CASE row[1].page # p
      <4>1. row \in RowsAt(row[1].page)
        BY <2>1, <3>2
      <4> QED
        BY <1>2, <2>1, <4>1 DEF WholeInv, RowsAt
    <3> QED
      BY <3>1, <3>2
  <2> QED
    BY <1>1, <1>2, <1>6, <2>1 DEF WholeInv
<1>14. DiskInv'
  <2>1. \A c \in HeapChains(view) : \A i \in DOMAIN c :
          c[i] \in ListedPages(c) /\ c[i] \in DOMAIN view /\ view'[c[i]].next = view[c[i]].next
    BY <1>2, <1>5, HeapChainIs
  <2>2. ASSUME ~cut, NEW c \in HeapChains(view), NEW i \in DOMAIN c PROVE Behind(disk[c[i]], c, i)'
    <3>1. Behind(disk[c[i]], c, i)
      BY <1>2, <2>2 DEF DiskInv
    <3> QED
      BY <1>1, <2>1, <2>2, <3>1 DEF Behind
  <2>3. ASSUME ~grown, NEW c \in HeapChains(view), NEW q \in ListedPages(c) PROVE SameLink(disk[q], q)'
    <3>1. SameLink(disk[q], q) /\ view'[q].next = view[q].next
      BY <1>2, <1>5, <2>3, HeapChainIs DEF DiskInv
    <3> QED
      BY <1>1, <3>1 DEF SameLink
  <2> QED
    BY <1>1, <1>6, <2>2, <2>3 DEF DiskInv
<1>15. CallInv'
  BY <1>1, <1>2 DEF CallInv, Idle
<1>16. QED
  BY <1>7, <1>8, <1>9, <1>11, <1>12, <1>13, <1>14, <1>15 DEF HeapInv, StoreInv

LEMMA InsertInPageStep ==
    ASSUME HeapInv, NEW h \in Handles, NEW record \in Records, InsertInPage(h, record)
    PROVE  /\ HeapInv'
           /\ \E rid \in HeapRids \ issued :
                /\ issued' = issued \cup {rid} /\ safe' = safe
                /\ rows' = rows \cup {<<rid, record>>} /\ since' = since \cup {<<rid, record>>}
<1>1. PICK i \in DOMAIN handle[h] :
        LET p == handle[h][i]
        IN  /\ TryRes(p, record) = "Ok"
            /\ Pool!Write(p, [view[p] EXCEPT !.body = TryInsert(p, record).page])
            /\ Answers(HeapRid(p, TryInsert(p, record).rid), record)
  BY DEF InsertInPage
<1> DEFINE p == handle[h][i]
           rid == Insert(view[p].body, record).rid
           pg == [view[p] EXCEPT !.body = Insert(view[p].body, record).page]
           new == HeapRid(p, rid)
<1>2. /\ UNCHANGED <<root, handle, call, grown, cut, losses, safe>> /\ call = Idle
      /\ issued' = issued \cup {new}
      /\ rows' = rows \cup {<<new, record>>} /\ since' = since \cup {<<new, record>>}
      /\ Pool!Write(p, pg)
  BY <1>1 DEF InsertInPage, Answers, TryInsert
<1>3. TypeInv /\ RidInv /\ p \in ListedPages(handle[h])
  BY DEF HeapInv, StoreInv, ListedPages
<1>4. /\ p \in DOMAIN view /\ view[p] \in SoundPage /\ p \in 1 .. MaxPages
      /\ PageRows(view[p], p) = RowsAt(p)
  BY <1>3, ListedFacts DEF HeapInv
<1>5. Insert(view[p].body, record).res = "Ok"
  <2>1. view \in Seq(Image)
    BY <1>3 DEF TypeInv
  <2>2. Readable(view, p)
    BY <1>4, <2>1, ReadablePages
  <2> QED
    BY <1>1, <2>2 DEF TryRes, TryInsert
<1>6. /\ pg \in SoundPage /\ pg.next = view[p].next /\ rid \in Rid
      /\ PageRows(pg, p) = PageRows(view[p], p) \cup {<<new, record>>}
      /\ \A used : AllHandedOut(view[p], p, used) =>
           new \notin used /\ AllHandedOut(pg, p, used \cup {new})
  BY <1>4, <1>5, RowInserted
<1> HIDE DEF p, rid, pg
<1>7. new.page = p /\ new \in HeapRids
  BY <1>4, <1>6, HeapRidFields DEF HeapRids
<1> HIDE DEF new
<1>8. new \notin issued /\ AllHandedOut(pg, p, issued')
  BY <1>2, <1>3, <1>4, <1>6 DEF RidInv
<1>9. \A q : {row \in rows' : row[1].page = q} =
               IF q = p THEN RowsAt(q) \cup {<<new, record>>} ELSE RowsAt(q)
  BY <1>2, <1>7 DEF RowsAt
<1>10. /\ \A row \in rows' : row[1] \in issued'
       /\ rows' \subseteq since' /\ since \subseteq since' /\ rows' \cap safe.rows \subseteq rows
  <2>1. <<new, record>> \notin safe.rows
    BY <1>3, <1>8 DEF RidInv
  <2> QED
    BY <1>2, <1>3, <2>1 DEF RidInv
<1>11. /\ issued \subseteq issued' /\ issued' \subseteq HeapRids
       /\ \A r \in issued' \ issued : r.page = p
  BY <1>2, <1>3, <1>7 DEF TypeInv
<1>12. HeapInv'
  BY <1>2, <1>3, <1>4, <1>6, <1>8, <1>9, <1>10, <1>11, RewriteStep
<1>13. QED
  BY <1>2, <1>7, <1>8, <1>12

\* The rid of an issued row, as the page knows it.
LEMMA PageRid ==
    ASSUME NEW rid \in HeapRids
    PROVE  /\ [slot |-> rid.slot, gen |-> rid.gen] \in Rid
           /\ rid = HeapRid(rid.page, [slot |-> rid.slot, gen |-> rid.gen])
<1>1. PICK p \in 1 .. MaxPages, r \in Rid : rid = HeapRid(p, r)
  BY DEF HeapRids
<1>2. rid.page = p /\ rid.slot = r.slot /\ rid.gen = r.gen /\ r = [slot |-> r.slot, gen |-> r.gen]
  BY <1>1, RidFields DEF HeapRid
<1>3. QED
  BY <1>1, <1>2

LEMMA DeleteRowStep ==
    ASSUME HeapInv, NEW h \in Handles, NEW rid \in issued, DeleteRow(h, rid)
    PROVE  /\ HeapInv'
           /\ \E row \in rows : rows' = rows \ {row}
           /\ UNCHANGED <<issued, since, safe>>
<1> DEFINE p == rid.page
           r == [slot |-> rid.slot, gen |-> rid.gen]
           pg == [view[p] EXCEPT !.body = Delete(view[p].body, r).page]
<1>1. /\ p \in ListedPages(handle[h])
      /\ Delete(view[p].body, r).res = "Ok"
      /\ Pool!Write(p, pg)
      /\ rows' = {row \in rows : row[1] # rid}
      /\ UNCHANGED <<root, handle, call, issued, since, safe, grown, cut, losses>> /\ call = Idle
  BY DEF DeleteRow
<1>2. TypeInv /\ RidInv
  BY DEF HeapInv, StoreInv
<1>3. r \in Rid /\ rid = HeapRid(p, r)
  BY <1>2, PageRid DEF TypeInv
<1> HIDE DEF r
<1>4. /\ p \in DOMAIN view /\ view[p] \in SoundPage
      /\ PageRows(view[p], p) = RowsAt(p)
  BY <1>1, ListedFacts DEF HeapInv
<1>5. /\ pg \in SoundPage /\ pg.next = view[p].next
      /\ PageRows(pg, p) = {row \in PageRows(view[p], p) : row[1] # rid}
      /\ \E row \in PageRows(view[p], p) : row[1] = rid
      /\ \A used : AllHandedOut(view[p], p, used) => AllHandedOut(pg, p, used)
  BY <1>1, <1>3, <1>4, RowDeleted
<1> HIDE DEF pg
<1>6. PICK gone \in RowsAt(p) : gone[1] = rid
  BY <1>4, <1>5
<1>7. \A row \in rows : row[1] = rid <=> row = gone
  <2> SUFFICES ASSUME NEW row \in rows, row[1] = rid PROVE row = gone
    BY <1>6
  <2>1. row \in PageRows(view[p], p) /\ gone \in PageRows(view[p], p)
    BY <1>4, <1>6 DEF RowsAt
  <2> QED
    BY <1>4, <1>6, <2>1, PageRowsNamed
<1>8. gone \in rows /\ rows' = rows \ {gone}
  BY <1>1, <1>6, <1>7 DEF RowsAt
<1>9. \A q : {row \in rows' : row[1].page = q} =
               IF q = p THEN {row \in RowsAt(q) : row[1] # rid} ELSE RowsAt(q)
  BY <1>1 DEF RowsAt
<1>10. AllHandedOut(pg, p, issued')
  BY <1>1, <1>2, <1>4, <1>5 DEF RidInv
<1>11. /\ \A row \in rows' : row[1] \in issued'
       /\ rows' \subseteq since' /\ since \subseteq since' /\ rows' \cap safe.rows \subseteq rows
       /\ issued \subseteq issued' /\ issued' \subseteq HeapRids
       /\ \A s \in issued' \ issued : s.page = p
  BY <1>1, <1>2, <1>8 DEF RidInv, TypeInv
<1>12. HeapInv'
  BY <1>1, <1>4, <1>5, <1>9, <1>10, <1>11, RewriteStep
<1>13. QED
  BY <1>1, <1>8, <1>12

-----------------------------------------------------------------------------
(* A page is initialized that nothing refers to yet.                       *)

\* The chain, if there is one, does not change.
LEMMA FreshPage ==
    ASSUME HeapInv, call.step \in {"create", "fill"}, NEW pg \in SoundPage, pg.next = NoPage,
           Pool!Write(call.page, pg)
    PROVE  /\ call.page \in DOMAIN view /\ call.page \in 1 .. kept /\ view[call.page] \notin SoundPage
           /\ view' \in Seq(Image) /\ Len(view') = Len(view) /\ DOMAIN view' = DOMAIN view
           /\ view'[call.page] = pg /\ \A q \in DOMAIN view : q # call.page => view'[q] = view[q]
           /\ disk' = disk /\ kept' = kept /\ pending' = pending \cup {call.page}
           /\ disk[call.page] = Zero
           /\ \A c \in HeapChains(view) : call.page \notin ListedPages(c)
           /\ \A first : first # call.page =>
                (\A c : IsChain(Links(view'), first, c) <=> IsChain(Links(view), first, c))
<1> DEFINE n == call.page
<1>1. TypeInv /\ LinkInv /\ CallInv
  BY DEF HeapInv, StoreInv
<1>2. /\ n \in 1 .. kept /\ n # root /\ view[n] = Zero /\ disk[n] = Zero
      /\ \A q \in DOMAIN view : view[q] \in SoundPage => view[q].next # n
  BY <1>1 DEF CallInv
<1>3. /\ n \in DOMAIN view /\ n \in 1 .. MaxPages /\ view[n] \notin SoundPage
      /\ view \in Seq(Image) /\ Len(view) <= MaxPages /\ pg \in Image
  BY <1>1, <1>2, StoreFacts, NotSoundPages, SoundPageFacts DEF TypeInv
<1>4. view' = [view EXCEPT ![n] = pg]
  BY DEF Pool!Write
<1>5. /\ view' \in Seq(Image) /\ Len(view') = Len(view) /\ DOMAIN view' = DOMAIN view
      /\ view'[n] = pg /\ \A q \in DOMAIN view : q # n => view'[q] = view[q]
  BY <1>3, <1>4, PageReplaced
<1>6. disk' = disk /\ kept' = kept /\ pending' = pending \cup {n}
  BY DEF Pool!Write
<1> HIDE DEF n
<1>7. /\ DOMAIN Links(view) = {p \in DOMAIN view : view[p] \in SoundPage}
      /\ \A p \in DOMAIN Links(view) : Links(view)[p] = view[p].next
      /\ DOMAIN Links(view') = {p \in DOMAIN view' : view'[p] \in SoundPage}
      /\ \A p \in DOMAIN Links(view') : Links(view')[p] = view'[p].next
      /\ NoPage \notin DOMAIN Links(view) /\ NoPage \notin DOMAIN Links(view')
  BY <1>3, <1>5, ReadablePages, TheChain
<1>8. /\ DOMAIN Links(view') = DOMAIN Links(view) \cup {n}
      /\ n \notin DOMAIN Links(view)
      /\ \A p \in DOMAIN Links(view) : Links(view')[p] = Links(view)[p]
  BY <1>3, <1>5, <1>7
<1>9. /\ \A p \in DOMAIN Links(view) : Links(view)[p] # n
      /\ \A p \in DOMAIN Links(view') : Links(view')[p] # n
  <2>1. NoPage # n
    BY <1>3, HeapFileAssumption
  <2> QED
    BY <1>2, <1>5, <1>7, <1>8, <2>1
<1>10. ASSUME NEW first, first # n, NEW c, IsChain(Links(view), first, c)
       PROVE  IsChain(Links(view'), first, c) /\ n \notin ListedPages(c)
  <2>1. n \notin ListedPages(c)
    BY <1>7, <1>9, <1>10, NotOnChain
  <2>2. \A p \in ListedPages(c) : p \in DOMAIN Links(view)
    BY <1>10 DEF IsChain, ListedPages
  <2> QED
    BY <1>8, <1>10, <2>1, <2>2, ChainKept
<1>11. ASSUME NEW first, first # n, NEW c, IsChain(Links(view'), first, c)
       PROVE  IsChain(Links(view), first, c)
  <2>1. n \notin ListedPages(c)
    BY <1>7, <1>9, <1>11, NotOnChain
  <2>2. \A p \in ListedPages(c) : p \in DOMAIN Links(view')
    BY <1>11 DEF IsChain, ListedPages
  <2> QED
    BY <1>8, <1>11, <2>1, <2>2, ChainKept
<1>12. \A c \in HeapChains(view) : n \notin ListedPages(c)
  BY <1>1, <1>2, <1>10, HeapChainIs
<1>13. QED
  BY <1>2, <1>3, <1>5, <1>6, <1>10, <1>11, <1>12 DEF n

LEMMA AppendFillStep == HeapInv /\ AppendFill => HeapInv'
<1> SUFFICES ASSUME HeapInv, AppendFill PROVE HeapInv'
  OBVIOUS
<1> DEFINE n == call.page
           pg == FilledPage(call.record)
<1>1. /\ call.step = "fill" /\ Pool!Write(n, pg)
      /\ call' = [call EXCEPT !.step = "link"]
      /\ root' = root /\ handle' = handle /\ rows' = rows /\ issued' = issued /\ since' = since
      /\ safe' = safe /\ grown' = grown /\ cut' = cut /\ losses' = losses
  BY DEF AppendFill, FilledPage, history
<1>2. TypeInv /\ LinkInv /\ RidInv /\ RowInv /\ OpenInv /\ WholeInv /\ DiskInv /\ CallInv
  BY DEF HeapInv, StoreInv
<1>3. /\ n # root /\ \A h \in Handles : n \notin ListedPages(handle[h])
      /\ \A q \in DOMAIN view : view[q] \in SoundPage => view[q].next # n
      /\ \A rid \in issued : rid.page # n
      /\ handle[call.handle] # <<>> /\ call.handle \in Handles /\ call.record \in Records
  BY <1>1, <1>2, CallFacts DEF CallInv
<1>4. pg \in SoundPage /\ pg.next = NoPage
  BY <1>3, FilledPageSound
<1>5. /\ n \in DOMAIN view /\ n \in 1 .. kept /\ view[n] \notin SoundPage
      /\ view' \in Seq(Image) /\ Len(view') = Len(view) /\ DOMAIN view' = DOMAIN view
      /\ view'[n] = pg /\ \A q \in DOMAIN view : q # n => view'[q] = view[q]
      /\ disk' = disk /\ kept' = kept /\ pending' = pending \cup {n} /\ disk[n] = Zero
      /\ \A c \in HeapChains(view) : n \notin ListedPages(c)
      /\ \A first : first # n =>
           (\A c : IsChain(Links(view'), first, c) <=> IsChain(Links(view), first, c))
  BY <1>1, <1>4, FreshPage
<1>6. call' \in Calls /\ call'.step = "link" /\ call'.page = n /\ call'.handle = call.handle
      /\ call'.record = call.record
  BY <1>1, <1>2 DEF CallInv, Calls
<1> HIDE DEF n, pg
<1>7. HeapChains(view)' = HeapChains(view) /\ InUse' = InUse
  <2>1. Chains(Links(view'), root) = Chains(Links(view), root)
    <3>1. Len(view') <= MaxPages /\ view \in Seq(Image)
      BY <1>2, <1>5 DEF TypeInv
    <3>2. \A c : c \in Chains(Links(view'), root) <=> c \in Chains(Links(view), root)
      BY <1>3, <1>5, <3>1, TheChain
    <3> QED
      BY <3>2
  <2> QED
    BY <1>1, <2>1 DEF HeapChains, InUse
<1>8. TypeInv'
  BY <1>1, <1>2, <1>5 DEF TypeInv
<1>9. LinkInv'
  BY <1>1, <1>2, <1>4, <1>5 DEF LinkInv, Counted
<1>10. RidInv'
  <2>1. AllHandedOut(view'[n], n, issued)
    BY <1>3, HeapRidFields DEF AllHandedOut
  <2> QED
    BY <1>1, <1>2, <1>5, <2>1 DEF RidInv
<1>11. RowInv'
  <2>1. \A h \in Handles : \A q \in ListedPages(handle[h]) : q \in DOMAIN view /\ q # n
    BY <1>2, <1>3, StoreFacts
  <2>2. \A c \in HeapChains(view) : \A q \in ListedPages(c) : q \in DOMAIN view /\ q # n
    BY <1>2, <1>5, HeapChainIs
  <2> QED
    BY <1>1, <1>2, <1>5, <1>7, <2>1, <2>2 DEF RowInv, RowsAt
<1>12. OpenInv'
  <2>1. root # NoPage /\ InUse
    BY <1>2, <1>3 DEF TypeInv, InUse
  <2> QED
    BY <1>1, <1>2, <1>7, <2>1 DEF OpenInv
<1>13. WholeInv'
  BY <1>1, <1>2, <1>7 DEF WholeInv
<1>14. DiskInv'
  <2>1. \A c \in HeapChains(view) : \A q \in ListedPages(c) : view'[q] = view[q]
    BY <1>2, <1>5, HeapChainIs
  <2>2. \A c \in HeapChains(view) : \A i \in DOMAIN c : c[i] \in ListedPages(c)
    BY DEF ListedPages
  <2>3. ASSUME ~cut, NEW c \in HeapChains(view), NEW i \in DOMAIN c PROVE Behind(disk[c[i]], c, i)'
    BY <1>1, <1>2, <1>5, <2>1, <2>2, <2>3 DEF DiskInv, Behind
  <2>4. ASSUME ~grown, NEW c \in HeapChains(view), NEW q \in ListedPages(c) PROVE SameLink(disk[q], q)'
    BY <1>2, <1>5, <2>1, <2>4 DEF DiskInv, SameLink
  <2> QED
    BY <1>1, <1>7, <2>3, <2>4 DEF DiskInv
<1>15. CallInv'
  <2>1. NoPage # n
    BY <1>2, <1>5, StoreFacts, HeapFileAssumption
  <2>2. view'[n] = FilledPage(call.record) /\ disk'[n] = Zero
    BY <1>5 DEF pg
  <2>3. \A q \in DOMAIN view' : view'[q] \in SoundPage => view'[q].next # n
    BY <1>3, <1>4, <1>5, <2>1
  <2> QED
    BY <1>1, <1>3, <1>5, <1>6, <2>2, <2>3 DEF CallInv
<1>16. QED
  BY <1>8, <1>9, <1>10, <1>11, <1>12, <1>13, <1>14, <1>15 DEF HeapInv, StoreInv

LEMMA CreateInitializeStep == HeapInv /\ CreateInitialize => HeapInv'
<1> SUFFICES ASSUME HeapInv, CreateInitialize PROVE HeapInv'
  OBVIOUS
<1>0. PICK n, h : n = call.page /\ h = call.handle
  OBVIOUS
<1> DEFINE one == <<n>>
<1>1. /\ call.step = "create" /\ Pool!Write(n, NewPage)
      /\ handle' = [handle EXCEPT ![h] = one]
  BY <1>0 DEF CreateInitialize
<1>2. /\ root' = n /\ call' = Idle /\ grown' = TRUE
      /\ rows' = rows /\ issued' = issued /\ since' = since
      /\ safe' = safe /\ cut' = cut /\ losses' = losses
  BY <1>0 DEF CreateInitialize
<1>3. TypeInv /\ LinkInv /\ RidInv /\ RowInv /\ OpenInv /\ WholeInv /\ DiskInv /\ CallInv
  BY DEF HeapInv, StoreInv
<1>4. /\ root = NoPage /\ \A rid \in issued : rid.page # n
      /\ \A k \in Handles : handle[k] = <<>>
      /\ h \in Handles
  BY <1>0, <1>1, <1>3, CallFacts DEF CallInv, TypeInv
<1>5. /\ n \in DOMAIN view /\ n \in 1 .. kept /\ view[n] \notin SoundPage
      /\ view' \in Seq(Image) /\ Len(view') = Len(view) /\ DOMAIN view' = DOMAIN view
      /\ view'[n] = NewPage /\ \A q \in DOMAIN view : q # n => view'[q] = view[q]
      /\ disk' = disk /\ kept' = kept /\ pending' = pending \cup {n} /\ disk[n] = Zero
  BY <1>0, <1>1, NewPageSound, FreshPage
<1>6. handle' \in [Handles -> Seq(DOMAIN view)] /\ \A k \in Handles : handle'[k] = IF k = h THEN one ELSE <<>>
  <2>1. one \in Seq(DOMAIN view)
    BY <1>5
  <2> HIDE DEF one
  <2> QED
    BY <1>1, <1>3, <1>4, <2>1 DEF TypeInv
<1>7. n # NoPage /\ n \in 1 .. MaxPages
  BY <1>3, <1>5, StoreFacts, HeapFileAssumption
<1>8. one \in Seq({n}) /\ one # <<>> /\ Len(one) = 1 /\ DOMAIN one = {1} /\ one[1] = n /\ ListedPages(one) = {n}
  BY DEF ListedPages
<1> HIDE DEF one
<1>9. TypeInv'
  <2>1. root' \in {NoPage} \cup 1 .. kept' /\ root' # NoPage
    BY <1>2, <1>5, <1>7
  <2>2. pending' \subseteq DOMAIN view'
    BY <1>3, <1>5 DEF TypeInv
  <2> QED
    BY <1>2, <1>3, <1>5, <1>6, <2>1, <2>2 DEF TypeInv
<1>10. HeapChains(view)' = {one}
  <2>1. n \in DOMAIN Links(view') /\ Links(view')[n] = NoPage
    BY <1>5, NewPageSound, ReadablePages
  <2>2. one \in Seq(DOMAIN Links(view'))
    BY <1>8, <2>1
  <2>3. IsChain(Links(view'), n, one)
    BY <1>8, <2>1, <2>2 DEF IsChain
  <2>4. one \in Chains(Links(view'), n) /\ \A c, d \in Chains(Links(view'), n) : c = d
    BY <1>3, <1>5, <2>3, TheChain DEF TypeInv
  <2>5. Chains(Links(view'), n) = {one}
    BY <2>4
  <2> QED
    BY <1>2, <1>7, <2>5 DEF HeapChains
<1>11. LinkInv'
  BY <1>3, <1>5, NewPageSound DEF LinkInv, Counted
<1>12. RidInv'
  <2>1. AllHandedOut(view'[n], n, issued)
    BY <1>4, HeapRidFields DEF AllHandedOut
  <2> QED
    BY <1>2, <1>3, <1>5, <2>1 DEF RidInv
<1>13. PageRows(view'[n], n) = {} /\ RowsAt(n)' = {} /\ view'[n] \in SoundPage
  <2>1. PageRows(NewPage, n) = {}
    BY NewPageSound DEF PageRows
  <2>2. \A row \in rows : row[1].page # n
    BY <1>3, <1>4 DEF RidInv
  <2>3. RowsAt(n)' = {}
    BY <1>2, <2>2 DEF RowsAt
  <2> QED
    BY <1>5, <2>1, <2>3, NewPageSound
<1>14. RowInv'
  <2>1. \A k \in Handles : ListedPages(handle'[k]) \subseteq {n}
    BY <1>6, <1>8 DEF ListedPages
  <2>2. \A q \in {n} : view'[q] \in SoundPage /\ PageRows(view'[q], q) = RowsAt(q)'
    BY <1>13
  <2> QED
    BY <1>8, <1>10, <2>1, <2>2 DEF RowInv
<1>15. OpenInv'
  BY <1>10 DEF OpenInv
<1>16. WholeInv'
  <2>1. ~cut => rows = {}
    BY <1>3, <1>4 DEF WholeInv, HeapChains
  <2>2. Begins(one, one)
    <3>1. SubSeq(one, 1, Len(one)) = one
      BY <1>8, WholeSeq
    <3> QED
      BY <1>8, <3>1 DEF Begins
  <2> QED
    BY <1>2, <1>6, <1>10, <2>1, <2>2 DEF WholeInv
<1>17. DiskInv'
  <2>1. Behind(disk[one[1]], one, 1)'
    BY <1>5, <1>8, NotSoundPages DEF Behind
  <2>2. \A c \in HeapChains(view)' : \A i \in DOMAIN c : Behind(disk[c[i]], c, i)'
    BY <1>8, <1>10, <2>1
  <2> QED
    BY <1>2, <2>2 DEF DiskInv
<1>18. CallInv'
  BY <1>2, CallFacts, <1>3 DEF CallInv
<1>19. QED
  BY <1>9, <1>11, <1>12, <1>14, <1>15, <1>16, <1>17, <1>18 DEF HeapInv, StoreInv

-----------------------------------------------------------------------------
(* A page joins the chain.                                                 *)

LEMMA BeginsMore ==
    ASSUME NEW S, NEW c \in Seq(S), NEW n \in S, NEW s \in Seq(S), Begins(s, c), s # <<>>
    PROVE  Begins(s, Append(c, n))
<1> DEFINE d == Append(c, n)
           k == Len(s)
<1>1. /\ d \in Seq(S) /\ Len(d) = Len(c) + 1 /\ Len(c) \in Nat
      /\ \A i \in 1 .. Len(c) : d[i] = c[i]
  BY AppendToSeq
<1>2. k \in Nat /\ k # 0 /\ k <= Len(c) /\ s = SubSeq(c, 1, k)
  BY DEF Begins
<1> HIDE DEF d, k
<1>3. k \in 1 .. Len(c) /\ k \in 1 .. Len(d)
  BY <1>1, <1>2
<1>4. /\ SubSeq(c, 1, k) \in Seq(S) /\ Len(SubSeq(c, 1, k)) = k
      /\ \A i \in 1 .. k : SubSeq(c, 1, k)[i] = c[i]
  BY <1>3, StartOfSeq
<1>5. /\ SubSeq(d, 1, k) \in Seq(S) /\ Len(SubSeq(d, 1, k)) = k
      /\ \A i \in 1 .. k : SubSeq(d, 1, k)[i] = d[i]
  BY <1>1, <1>3, StartOfSeq
<1>6. \A i \in 1 .. k : d[i] = c[i]
  BY <1>1, <1>2
<1> DEFINE u == SubSeq(c, 1, k)
           v == SubSeq(d, 1, k)
<1> HIDE DEF u, v
<1>7. u = v
  <2>1. u \in Seq(S) /\ v \in Seq(S) /\ Len(u) = Len(v) /\ \A i \in 1 .. Len(u) : u[i] = v[i]
    BY <1>4, <1>5, <1>6 DEF u, v
  <2> QED
    BY <2>1, SameSeq
<1>8. k <= Len(d) /\ s = SubSeq(d, 1, k)
  BY <1>1, <1>2, <1>7 DEF u, v
<1>9. QED
  BY <1>8 DEF Begins, d, k

\* Linking the last page of handle h to page n.
LEMMA LinkStep ==
    ASSUME HeapInv, call.step = "link", NEW h, h = call.handle, NEW n, n = call.page,
           NEW last, last = LastPage(h), Pool!Write(last, LinkTo(last, n))
    PROVE  /\ h \in Handles /\ handle[h] # <<>> /\ last \in ListedPages(handle[h]) /\ last # n
           /\ n \in DOMAIN view /\ n \in 1 .. kept /\ n \in 1 .. MaxPages /\ n # NoPage
           /\ last \in DOMAIN view /\ view[last] \in SoundPage
           /\ view' \in Seq(Image) /\ Len(view') = Len(view) /\ DOMAIN view' = DOMAIN view
           /\ view'[last] \in SoundPage /\ view'[last].next = n
           /\ PageRows(view'[last], last) = PageRows(view[last], last)
           /\ \A used : AllHandedOut(view[last], last, used) => AllHandedOut(view'[last], last, used)
           /\ \A q \in DOMAIN view : q # last => view'[q] = view[q]
           /\ view[n] = FilledPage(call.record) /\ view[n] \in SoundPage /\ view[n].next = NoPage
           /\ disk' = disk /\ kept' = kept /\ pending' = pending \cup {last}
<1> DEFINE pg == LinkTo(last, n)
<1>1. StoreInv /\ TypeInv /\ CallInv
  BY DEF HeapInv, StoreInv
<1>2. /\ h \in Handles /\ handle[h] # <<>> /\ n \in 1 .. kept /\ n \in 1 .. MaxPages
      /\ n \notin ListedPages(handle[h]) /\ call.record \in Records
      /\ view[n] = FilledPage(call.record)
  BY <1>1, CallFacts DEF CallInv
<1>3. n \in DOMAIN view /\ n # NoPage
  BY <1>1, <1>2, StoreFacts, HeapFileAssumption
<1>4. last \in ListedPages(handle[h])
  <2>1. handle[h] \in Seq(DOMAIN view) /\ DOMAIN handle[h] = 1 .. Len(handle[h]) /\ Len(handle[h]) \in Nat
    BY <1>1, <1>2, StoreFacts
  <2>2. Len(handle[h]) \in DOMAIN handle[h]
    BY <1>2, <2>1
  <2> QED
    BY <2>2 DEF LastPage, ListedPages
<1>5. last \in DOMAIN view /\ view[last] \in SoundPage /\ last # n
  BY <1>1, <1>2, <1>4, ListedFacts
<1>6. view[n] \in SoundPage /\ view[n].next = NoPage
  BY <1>2, FilledPageSound
<1>7. /\ pg \in SoundPage /\ pg.next = n /\ PageRows(pg, last) = PageRows(view[last], last)
      /\ \A used : AllHandedOut(view[last], last, used) => AllHandedOut(pg, last, used)
  <2> DEFINE raw == [view[last] EXCEPT !.next = n]
  <2>1. /\ raw \in SoundPage /\ raw.next = n /\ PageRows(raw, last) = PageRows(view[last], last)
        /\ \A used : AllHandedOut(view[last], last, used) => AllHandedOut(raw, last, used)
    BY <1>2, <1>5, PageLinked
  <2>2. pg = raw
    BY DEF LinkTo
  <2> HIDE DEF pg, raw
  <2> QED
    BY <2>1, <2>2
<1> HIDE DEF pg
<1>8. view' = [view EXCEPT ![last] = pg]
  BY DEF Pool!Write, pg
<1>9. /\ view' \in Seq(Image) /\ Len(view') = Len(view) /\ DOMAIN view' = DOMAIN view
      /\ view'[last] = pg /\ \A q \in DOMAIN view : q # last => view'[q] = view[q]
  BY <1>1, <1>5, <1>7, <1>8, PageReplaced, SoundPageFacts DEF TypeInv
<1>10. disk' = disk /\ kept' = kept /\ pending' = pending \cup {last}
  BY DEF Pool!Write
<1>11. QED
  BY <1>2, <1>3, <1>4, <1>5, <1>6, <1>7, <1>9, <1>10

\* The page joins the chain behind the last page of the handle, if that is on
\* the chain; what came after is then cut off.
LEMMA LinkedChain ==
    ASSUME HeapInv, call.step = "link", NEW h, h = call.handle, NEW n, n = call.page,
           NEW last, last = LastPage(h), Pool!Write(last, LinkTo(last, n))
    PROVE  \E c \in HeapChains(view) :
             /\ n \notin ListedPages(c) /\ root # NoPage
             /\ \E d : /\ Chains(Links(view'), root) = {d}
                       /\ \A p \in ListedPages(d) : p \in ListedPages(c) \cup {n}
                       /\ handle[h] = c => d = Append(c, n) /\ last = c[Len(c)]
<1>1. TypeInv /\ CallInv /\ OpenInv
  BY DEF HeapInv, StoreInv
<1>2. /\ h \in Handles /\ handle[h] # <<>> /\ last # n
      /\ n \in DOMAIN view /\ n # NoPage /\ view[n] \in SoundPage /\ view[n].next = NoPage
      /\ last \in DOMAIN view /\ view[last] \in SoundPage
      /\ view' \in Seq(Image) /\ Len(view') = Len(view) /\ DOMAIN view' = DOMAIN view
      /\ view'[last] \in SoundPage /\ view'[last].next = n
      /\ \A q \in DOMAIN view : q # last => view'[q] = view[q]
  BY LinkStep
<1>3. n # root /\ \A q \in DOMAIN view : view[q] \in SoundPage => view[q].next # n
  BY <1>1 DEF CallInv
<1>4. root # NoPage /\ HeapChains(view) # {}
  BY <1>1, <1>2 DEF TypeInv, OpenInv, InUse
<1>5. PICK c : c \in HeapChains(view)
  BY <1>4
<1> DEFINE old == Links(view)
           new == Links(view')
<1>6. /\ DOMAIN old = {p \in DOMAIN view : view[p] \in SoundPage}
      /\ \A p \in DOMAIN old : old[p] = view[p].next
      /\ DOMAIN new = {p \in DOMAIN view' : view'[p] \in SoundPage}
      /\ \A p \in DOMAIN new : new[p] = view'[p].next
      /\ NoPage \notin DOMAIN old
  BY <1>1, <1>2, ReadablePages, TheChain DEF TypeInv
<1>7. IsChain(old, root, c)
  BY <1>1, <1>5, HeapChainIs
<1>8. \A e : IsChain(new, root, e) => Chains(new, root) = {e}
  <2>1. /\ Len(view') <= MaxPages
        /\ \A e : e \in Chains(new, root) <=> IsChain(new, root, e)
        /\ \A e, f \in Chains(new, root) : e = f
    BY <1>1, <1>2, TheChain DEF TypeInv
  <2> HIDE DEF new
  <2> QED
    BY <2>1
<1> HIDE DEF old, new
<1>9. DOMAIN new = DOMAIN old /\ n \in DOMAIN new /\ new[n] = NoPage /\ last \in DOMAIN new /\ new[last] = n
      /\ \A p \in DOMAIN old : p # last => new[p] = old[p]
  BY <1>2, <1>6
<1>10. n \notin ListedPages(c)
  <2>1. \A p \in DOMAIN old : old[p] # n
    BY <1>3, <1>6
  <2> QED
    BY <1>3, <1>6, <1>7, <2>1, NotOnChain
<1>11. /\ c \in Seq(DOMAIN view) /\ Len(c) \in Nat \ {0} /\ DOMAIN c = 1 .. Len(c)
       /\ \A p \in ListedPages(c) : p \in DOMAIN old
  <2>1. \A p \in ListedPages(c) : p \in DOMAIN old
    BY <1>7 DEF IsChain, ListedPages
  <2> QED
    BY <1>1, <1>5, <2>1, HeapChainIs
<1>12. CASE last \notin ListedPages(c)
  <2>1. IsChain(new, root, c)
    BY <1>7, <1>9, <1>11, <1>12, ChainKept
  <2>2. handle[h] # c
    <3>1. last \in ListedPages(handle[h])
      BY LinkStep
    <3> QED
      BY <1>12, <3>1
  <2>3. Chains(new, root) = {c}
    BY <1>8, <2>1
  <2>4. WITNESS c \in HeapChains(view)
  <2> QED
    BY <1>4, <1>10, <2>2, <2>3 DEF new
<1>13. CASE last \in ListedPages(c)
  <2>1. PICK k \in 1 .. Len(c) : last = c[k]
    BY <1>11, <1>13 DEF ListedPages
  <2> DEFINE d == Append(SubSeq(c, 1, k), n)
  <2>2. IsChain(new, root, d)
    <3>1. \A p \in ListedPages(c) \ {c[k]} : p \in DOMAIN new /\ new[p] = old[p]
      BY <1>9, <1>11, <2>1
    <3> QED
      BY <1>6, <1>7, <1>9, <2>1, <3>1, ChainRelinked
  <2>3. Chains(new, root) = {d}
    BY <1>8, <2>2
  <2>4. \A p \in ListedPages(d) : p \in ListedPages(c) \cup {n}
    <3> DEFINE s == SubSeq(c, 1, k)
    <3>1. s \in Seq(DOMAIN view) /\ Len(s) = k /\ \A i \in 1 .. k : s[i] = c[i]
      BY <1>11, <2>1, StartOfSeq
    <3>2. DOMAIN d = 1 .. k + 1 /\ d[k + 1] = n /\ \A i \in 1 .. k : d[i] = c[i]
      <4> HIDE DEF s
      <4>1. d = Append(s, n)
        BY DEF s
      <4> HIDE DEF d
      <4> QED
        BY <1>2, <3>1, <4>1, AppendToSeq
    <3> HIDE DEF d
    <3>3. \A i \in 1 .. k + 1 : i = k + 1 \/ (i \in 1 .. k /\ i \in DOMAIN c)
      BY <1>11, <2>1
    <3> QED
      BY <3>2, <3>3 DEF ListedPages
  <2>5. ASSUME handle[h] = c PROVE d = Append(c, n) /\ last = c[Len(c)]
    <3>1. last = c[Len(c)]
      BY <2>5 DEF LastPage
    <3>2. Len(c) \in 1 .. Len(c)
      BY <1>11
    <3>3. k = Len(c)
      <4>1. k < Len(c) \/ k = Len(c)
        <5>1. Len(c) \in Nat /\ k \in 1 .. Len(c)
          BY <1>11
        <5> HIDE DEF d
        <5> QED
          BY <5>1
      <4>2. k < Len(c) => c[k] # c[Len(c)]
        BY <1>6, <1>7, <3>2, ChainsDoNotRepeat
      <4> QED
        BY <2>1, <3>1, <4>1, <4>2
    <3>4. SubSeq(c, 1, Len(c)) = c
      BY <1>11, WholeSeq
    <3> QED
      BY <3>1, <3>3, <3>4
  <2> HIDE DEF d
  <2>6. WITNESS c \in HeapChains(view)
  <2> QED
    BY <1>4, <1>10, <2>3, <2>4, <2>5 DEF new
<1>14. QED
  BY <1>12, <1>13

LEMMA AppendLinkStep ==
    ASSUME HeapInv, AppendLink
    PROVE  /\ HeapInv'
           /\ \E record \in Records : \E rid \in HeapRids \ issued :
                /\ issued' = issued \cup {rid} /\ safe' = safe
                /\ rows' = rows \cup {<<rid, record>>} /\ since' = since \cup {<<rid, record>>}
<1>1. PICK h, n, last, record : h = call.handle /\ n = call.page /\ last = LastPage(h) /\ record = call.record
  OBVIOUS
<1> DEFINE rid == Insert(EmptyPage, record).rid
           new == HeapRid(n, rid)
<1>2. /\ call.step = "link" /\ Pool!Write(last, LinkTo(last, n))
      /\ handle' = [handle EXCEPT ![h] = Append(@, n)]
  BY <1>1 DEF AppendLink, Listed
<1>3. /\ root' = root /\ losses' = losses /\ call' = Idle /\ grown' = TRUE /\ safe' = safe
      /\ issued' = issued \cup {new}
      /\ rows' = rows \cup {<<new, record>>} /\ since' = since \cup {<<new, record>>}
      /\ cut' = (cut \/ handle[h] \notin HeapChains(view))
  BY <1>1 DEF AppendLink, Answers
<1>4. TypeInv /\ LinkInv /\ RidInv /\ RowInv /\ OpenInv /\ WholeInv /\ DiskInv /\ CallInv /\ StoreInv
  BY DEF HeapInv, StoreInv
<1>5. /\ h \in Handles /\ handle[h] # <<>> /\ last \in ListedPages(handle[h]) /\ last # n
      /\ n \in DOMAIN view /\ n \in 1 .. kept /\ n \in 1 .. MaxPages /\ n # NoPage
      /\ last \in DOMAIN view /\ view[last] \in SoundPage
      /\ view' \in Seq(Image) /\ Len(view') = Len(view) /\ DOMAIN view' = DOMAIN view
      /\ view'[last] \in SoundPage /\ view'[last].next = n
      /\ PageRows(view'[last], last) = PageRows(view[last], last)
      /\ \A used : AllHandedOut(view[last], last, used) => AllHandedOut(view'[last], last, used)
      /\ \A q \in DOMAIN view : q # last => view'[q] = view[q]
      /\ view[n] = FilledPage(call.record) /\ view[n] \in SoundPage /\ view[n].next = NoPage
      /\ disk' = disk /\ kept' = kept /\ pending' = pending \cup {last}
  BY <1>1, <1>2, LinkStep
<1>6. /\ \A k \in Handles : n \notin ListedPages(handle[k])
      /\ \A r \in issued : r.page # n
      /\ disk[n] \in {Zero, Torn, view[n]}
      /\ record \in Records
  BY <1>1, <1>2, <1>4, CallFacts DEF CallInv
<1>7. /\ rid \in Rid /\ PageRows(view'[n], n) = {<<new, record>>} /\ view'[n] = view[n]
      /\ HandedOut(view[n].body, rid)
  BY <1>1, <1>5, <1>6, FilledPageSound
<1> HIDE DEF rid
<1>8. new.page = n /\ new \in HeapRids /\ \A r \in Rid : HeapRid(n, r) = new => r = rid
  BY <1>5, <1>7, HeapRidFields DEF HeapRids
<1> HIDE DEF new
<1>9. new \notin issued /\ <<new, record>> \notin safe.rows
  BY <1>4, <1>6, <1>8 DEF RidInv
<1>10. PICK c \in HeapChains(view) :
         /\ n \notin ListedPages(c) /\ root # NoPage
         /\ \E d : /\ Chains(Links(view'), root) = {d}
                   /\ \A p \in ListedPages(d) : p \in ListedPages(c) \cup {n}
                   /\ handle[h] = c => d = Append(c, n) /\ last = c[Len(c)]
  BY <1>1, <1>2, LinkedChain
<1>11. PICK d : /\ Chains(Links(view'), root) = {d}
                /\ \A p \in ListedPages(d) : p \in ListedPages(c) \cup {n}
                /\ handle[h] = c => d = Append(c, n) /\ last = c[Len(c)]
  BY <1>10
<1>12. HeapChains(view)' = {d}
  BY <1>3, <1>10, <1>11 DEF HeapChains
<1>13. \A k \in Handles : handle'[k] = IF k = h THEN Append(handle[h], n) ELSE handle[k]
  BY <1>2, <1>4 DEF TypeInv
<1>14. /\ Append(handle[h], n) \in Seq(DOMAIN view) /\ Append(handle[h], n) # <<>>
       /\ \A p \in ListedPages(Append(handle[h], n)) : p \in ListedPages(handle[h]) \cup {n}
  <2>1. handle[h] \in Seq(DOMAIN view) /\ DOMAIN handle[h] = 1 .. Len(handle[h]) /\ Len(handle[h]) \in Nat
    BY <1>4, <1>5, StoreFacts
  <2> DEFINE s == handle[h]
             t == Append(s, n)
  <2>2. /\ t \in Seq(DOMAIN view) /\ Len(t) = Len(s) + 1 /\ DOMAIN t = 1 .. Len(s) + 1
        /\ t[Len(s) + 1] = n /\ \A i \in 1 .. Len(s) : t[i] = s[i]
    BY <1>5, <2>1, AppendToSeq
  <2> HIDE DEF s, t
  <2>3. Len(s) \in Nat /\ DOMAIN s = 1 .. Len(s)
    BY <2>1 DEF s
  <2>4. t # <<>>
    BY <2>2, <2>3
  <2>5. \A i \in 1 .. Len(s) + 1 : i = Len(s) + 1 \/ i \in DOMAIN s
    BY <2>3
  <2>6. \A p \in ListedPages(t) : p \in ListedPages(s) \cup {n}
    BY <2>2, <2>3, <2>5 DEF ListedPages
  <2> QED
    BY <2>2, <2>4, <2>6 DEF s, t
<1>15. handle' \in [Handles -> Seq(DOMAIN view)]
  BY <1>2, <1>4, <1>14 DEF TypeInv
<1>16. TypeInv'
  <2>1. cut' \in BOOLEAN /\ pending' \subseteq DOMAIN view' /\ issued' \subseteq HeapRids
    BY <1>3, <1>4, <1>5, <1>8 DEF TypeInv
  <2> QED
    BY <1>3, <1>4, <1>5, <1>10, <1>15, <2>1 DEF TypeInv
<1>17. LinkInv'
  <2>1. \A p \in DOMAIN view : view'[p] \in SoundPage =>
          p <= kept /\ view'[p].next \in {NoPage} \cup 1 .. kept
    BY <1>4, <1>5 DEF LinkInv, Counted
  <2> QED
    BY <1>4, <1>5, <2>1 DEF LinkInv, Counted
<1>18. RidInv'
  <2>1. ASSUME NEW q \in DOMAIN view', view'[q] \in SoundPage PROVE AllHandedOut(view'[q], q, issued')
    <3>1. CASE q = n
      <4>1. \A r \in Rid : HeapRid(n, r) \in issued' => r = rid
        BY <1>3, <1>6, <1>8, HeapRidFields
      <4> QED
        BY <1>7, <3>1, <4>1 DEF AllHandedOut
    <3>2. CASE q # n
      <4>1. AllHandedOut(view'[q], q, issued)
        BY <1>4, <1>5, <2>1 DEF RidInv
      <4>2. \A r \in Rid : HeapRid(q, r) # new
        BY <1>8, <3>2, HeapRidFields
      <4> QED
        BY <1>3, <4>1, <4>2 DEF AllHandedOut
    <3> QED
      BY <3>1, <3>2
  <2>2. \A r \in issued' : r.page <= kept
    BY <1>3, <1>4, <1>5, <1>8 DEF RidInv
  <2>3. /\ safe.used \subseteq issued' /\ \A row \in rows' : row[1] \in issued'
        /\ rows' \subseteq since'
    BY <1>3, <1>4 DEF RidInv
  <2>4. /\ \A row \in safe.rows : row[1] \in safe.used
        /\ \A p \in DOMAIN disk : disk[p] \in SoundPage => AllHandedOut(disk[p], p, safe.used)
    BY <1>4 DEF RidInv
  <2>5. disk' = disk /\ safe' = safe /\ kept' = kept
    BY <1>3, <1>5
  <2> QED
    BY <2>1, <2>2, <2>3, <2>4, <2>5 DEF RidInv
<1>19. \A q : q # n => RowsAt(q)' = RowsAt(q)
  BY <1>3, <1>8 DEF RowsAt
<1>20. RowsAt(n)' = {<<new, record>>}
  <2>1. \A row \in rows : row[1].page # n
    BY <1>4, <1>6 DEF RidInv
  <2> QED
    BY <1>3, <1>8, <2>1 DEF RowsAt
<1>21. \A q \in DOMAIN view : q # n /\ view[q] \in SoundPage /\ PageRows(view[q], q) = RowsAt(q)
                                => view'[q] \in SoundPage /\ PageRows(view'[q], q) = RowsAt(q)'
  BY <1>5, <1>19
<1>22. RowInv'
  <2>1. ASSUME NEW k \in Handles, NEW p \in ListedPages(handle'[k])
        PROVE  view'[p] \in SoundPage /\ PageRows(view'[p], p) = RowsAt(p)'
    <3>1. p = n \/ p \in ListedPages(handle[k])
      BY <1>13, <1>14, <2>1
    <3>2. CASE p = n
      BY <1>5, <1>7, <1>20, <3>2
    <3>3. CASE p \in ListedPages(handle[k])
      BY <1>4, <1>6, <1>21, <3>3, StoreFacts DEF RowInv
    <3> QED
      BY <3>1, <3>2, <3>3
  <2>2. ASSUME NEW p \in ListedPages(d) PROVE PageRows(view'[p], p) = RowsAt(p)'
    <3>1. CASE p = n
      BY <1>7, <1>20, <3>1
    <3>2. CASE p # n
      <4>1. p \in ListedPages(c)
        BY <1>11, <2>2, <3>2
      <4>2. p \in DOMAIN view /\ view[p] \in SoundPage /\ PageRows(view[p], p) = RowsAt(p)
        BY <1>4, <4>1, HeapChainIs DEF RowInv
      <4> QED
        BY <1>21, <3>2, <4>2
    <3> QED
      BY <3>1, <3>2
  <2> QED
    BY <1>12, <2>1, <2>2 DEF RowInv
<1>23. OpenInv'
  BY <1>12 DEF OpenInv
<1>m. PICK m : m = Len(c)
  OBVIOUS
<1>24. /\ c \in Seq(DOMAIN view) /\ Len(c) = m /\ DOMAIN c = 1 .. m
       /\ \A i \in 1 .. m :
            /\ c[i] \in ListedPages(c) /\ c[i] \in DOMAIN view
            /\ i = m => view[c[i]].next = NoPage
       /\ \A b \in HeapChains(view) : b = c
  BY <1>4, <1>m, HeapChainIs
<1>n. m \in Nat /\ m # 0
  BY <1>4, <1>m, HeapChainIs
<1>25. ~cut' => ~cut /\ handle[h] = c
  BY <1>3, <1>24
<1>26. ASSUME ~cut'
       PROVE  /\ d = Append(c, n) /\ last = c[m] /\ Len(d) = m + 1 /\ d[m + 1] = n
              /\ d \in Seq(DOMAIN view) /\ DOMAIN d = 1 .. m + 1
              /\ \A i \in 1 .. m : d[i] = c[i]
  <2>1. d = Append(c, n) /\ last = c[m]
    BY <1>11, <1>24, <1>25, <1>26
  <2> DEFINE S == DOMAIN view
  <2>2. c \in Seq(S) /\ n \in S
    BY <1>5, <1>24
  <2> HIDE DEF S
  <2>3. /\ Append(c, n) \in Seq(S) /\ Len(Append(c, n)) = Len(c) + 1
        /\ DOMAIN Append(c, n) = 1 .. Len(c) + 1
        /\ \A i \in 1 .. Len(c) : Append(c, n)[i] = c[i]
        /\ Append(c, n)[Len(c) + 1] = n
    BY <2>2, AppendToSeq
  <2> QED
    BY <2>1, <2>3, <1>m DEF S
<1>27. WholeInv'
  <2> SUFFICES ASSUME ~cut'
               PROVE  /\ \A k \in Handles : handle'[k] # <<>> => Begins(handle'[k], d)
                      /\ \A row \in rows' : row[1].page \in ListedPages(d)
    BY <1>12 DEF WholeInv
  <2>1. ASSUME NEW k \in Handles, handle'[k] # <<>> PROVE Begins(handle'[k], d)
    <3>1. CASE k = h
      <4>1. handle'[k] = d
        BY <1>13, <1>25, <1>26, <3>1
      <4>2. SubSeq(d, 1, Len(d)) = d /\ Len(d) <= Len(d)
        BY <1>24, <1>26, WholeSeq
      <4> QED
        BY <4>1, <4>2 DEF Begins
    <3>2. CASE k # h
      <4>1. handle'[k] = handle[k] /\ handle[k] # <<>> /\ handle[k] \in Seq(DOMAIN view)
        BY <1>4, <1>13, <2>1, <3>2, StoreFacts
      <4>2. Begins(handle[k], c)
        BY <1>4, <1>24, <1>25, <4>1 DEF WholeInv
      <4>3. c \in Seq(DOMAIN view) /\ n \in DOMAIN view /\ d = Append(c, n)
        BY <1>5, <1>24, <1>26
      <4>4. Begins(handle[k], Append(c, n))
        BY <4>1, <4>2, <4>3, BeginsMore
      <4> QED
        BY <4>1, <4>3, <4>4
    <3> QED
      BY <3>1, <3>2
  <2>2. ASSUME NEW row \in rows' PROVE row[1].page \in ListedPages(d)
    <3>1. \A i \in 1 .. m + 1 : d[i] \in ListedPages(d)
      BY <1>26 DEF ListedPages
    <3>2. CASE row = <<new, record>>
      <4>1. m + 1 \in 1 .. m + 1
        BY <1>n
      <4> QED
        BY <1>8, <1>26, <3>1, <3>2, <4>1
    <3>3. CASE row \in rows
      <4>1. row[1].page \in ListedPages(c)
        BY <1>4, <1>24, <1>25, <3>3 DEF WholeInv
      <4>2. PICK i \in 1 .. m : row[1].page = c[i]
        BY <1>24, <4>1 DEF ListedPages
      <4>3. i \in 1 .. m + 1
        BY <1>n
      <4> QED
        BY <1>26, <3>1, <4>2, <4>3
    <3> QED
      BY <1>3, <3>2, <3>3
  <2> QED
    BY <2>1, <2>2
<1>28. DiskInv'
  <2> SUFFICES ASSUME ~cut', NEW i \in 1 .. m + 1 PROVE Behind(disk[d[i]], d, i)'
    BY <1>3, <1>12, <1>26 DEF DiskInv
  <2>1. \A row \in rows' \cap safe'.rows : row \in rows \cap safe.rows /\ row[1].page # n
    BY <1>3, <1>4, <1>6, <1>9 DEF RidInv
  <2>2. since \subseteq since' /\ <<new, record>> \in since'
    BY <1>3
  <2>3. CASE i \in 1 .. m
    <3>1. d[i] = c[i] /\ Behind(disk[c[i]], c, i) /\ i \in DOMAIN c
      BY <1>4, <1>24, <1>25, <1>26, <2>3 DEF DiskInv
    <3>2. c[i] \in DOMAIN view /\ c[i] # n
      BY <1>10, <1>24, <2>3
    <3>3. i < m => view'[c[i]] = view[c[i]]
      <4>1. i < m => c[i] # c[m]
        <5>1. IsChain(Links(view), root, c) /\ NoPage \notin DOMAIN Links(view)
          BY <1>4, HeapChainIs, TheChain DEF TypeInv
        <5>2. Len(c) = m /\ m \in 1 .. m
          BY <1>n, <1>m
        <5> QED
          BY <2>3, <5>1, <5>2, ChainsDoNotRepeat
      <4> QED
        BY <1>5, <1>26, <3>2, <4>1
    <3>4. i < m \/ i = m
      BY <1>n, <2>3
    <3> DEFINE pg == disk[c[i]]
    <3>5. CASE pg \notin SoundPage
      BY <1>5, <3>1, <3>5 DEF Behind
    <3>6. CASE pg \in SoundPage
      <4>1. /\ pg.next \in {NoPage, view[c[i]].next}
            /\ PageRows(pg, c[i]) \subseteq since
            /\ \A row \in rows \cap safe.rows : row[1].page = c[i] => row \in PageRows(pg, c[i])
            /\ \A j \in i + 1 .. m : \A row \in rows \cap safe.rows :
                 row[1].page = c[j] => pg.next = view[c[i]].next
        BY <3>1, <3>6, <1>m DEF Behind
      <4>2. pg.next \in {NoPage, view'[c[i]].next}
        BY <1>24, <2>3, <3>3, <3>4, <4>1
      <4>3. ASSUME NEW j \in i + 1 .. m + 1, NEW row \in rows' \cap safe'.rows, row[1].page = d[j]
            PROVE  pg.next = view'[c[i]].next
        <5>1. j # m + 1
          BY <1>26, <2>1, <4>3
        <5>2. j \in i + 1 .. m /\ j \in 1 .. m /\ i < m
          BY <1>n, <2>3, <5>1
        <5> QED
          BY <1>26, <2>1, <3>3, <4>1, <4>3, <5>2
      <4>4. PageRows(pg, c[i]) \subseteq since'
        BY <2>2, <4>1
      <4>5. \A row \in rows' \cap safe'.rows : row[1].page = c[i] => row \in PageRows(pg, c[i])
        BY <2>1, <4>1
      <4> HIDE DEF pg
      <4>6. disk'[d[i]] = pg /\ Len(d) = m + 1 /\ d[i] = c[i]
        BY <1>5, <1>26, <3>1 DEF pg
      <4> QED
        BY <4>2, <4>3, <4>4, <4>5, <4>6 DEF Behind
    <3> QED
      BY <3>5, <3>6
  <2>4. CASE i = m + 1
    <3>1. d[i] = n /\ disk'[d[i]] = disk[n] /\ Len(d) = m + 1
      BY <1>5, <1>26, <2>4
    <3>2. disk[n] \in SoundPage => disk[n] = view[n]
      BY <1>6, NotSoundPages
    <3>3. \A j \in i + 1 .. Len(d) : FALSE
      BY <1>n, <2>4, <3>1
    <3> QED
      BY <1>5, <1>7, <2>1, <2>2, <3>1, <3>2, <3>3 DEF Behind
  <2> QED
    BY <1>n, <2>3, <2>4
<1>29. CallInv'
  BY <1>3, <1>4, CallFacts DEF CallInv
<1>30. HeapInv'
  BY <1>16, <1>17, <1>18, <1>22, <1>23, <1>27, <1>28, <1>29 DEF HeapInv, StoreInv
<1>31. QED
  BY <1>3, <1>6, <1>8, <1>9, <1>30

-----------------------------------------------------------------------------
(* A loss.                                                                 *)

\* A scan returns the rows of the pages of the chain.
LEMMA ScanReturns ==
    ASSUME NEW store, NEW row
    PROVE  row \in Scan(store) <=>
             \E c \in HeapChains(store) : \E p \in ListedPages(c) : row \in PageRows(store[p], p)
BY DEF Scan, RowsOn, PageRows

\* The chain of a store.
LEMMA StoreChainIs ==
    ASSUME NEW store \in Seq(Image), Len(store) <= MaxPages
    PROVE  /\ \A c, d \in HeapChains(store) : c = d
           /\ \A c \in HeapChains(store) :
                /\ root # NoPage /\ IsChain(Links(store), root, c)
                /\ Len(c) \in Nat /\ Len(c) # 0 /\ DOMAIN c = 1 .. Len(c) /\ c[1] = root
                /\ \A p \in ListedPages(c) : p \in DOMAIN store /\ store[p] \in SoundPage
                /\ \A i \in 1 .. Len(c) :
                     /\ c[i] \in ListedPages(c) /\ c[i] \in DOMAIN store /\ store[c[i]] \in SoundPage
                     /\ i = Len(c) => store[c[i]].next = NoPage
                     /\ i < Len(c) => store[c[i]].next = c[i + 1] /\ store[c[i]].next # NoPage
<1>1. ASSUME NEW c, NEW d, c \in HeapChains(store), d \in HeapChains(store) PROVE c = d
  BY <1>1, TheChain DEF HeapChains
<1>2. ASSUME NEW c \in HeapChains(store) PROVE root # NoPage /\ IsChain(Links(store), root, c)
  BY <1>2, TheChain DEF HeapChains
<1>3. ASSUME NEW c \in HeapChains(store)
      PROVE  /\ Len(c) \in Nat /\ Len(c) # 0 /\ DOMAIN c = 1 .. Len(c) /\ c[1] = root
             /\ \A i \in 1 .. Len(c) :
                  /\ c[i] \in DOMAIN store /\ store[c[i]] \in SoundPage
                  /\ i = Len(c) => store[c[i]].next = NoPage
                  /\ i < Len(c) => store[c[i]].next = c[i + 1] /\ store[c[i]].next # NoPage
  BY <1>2, <1>3, ChainPages
<1>4. QED
  BY <1>1, <1>2, <1>3 DEF ListedPages

\* What a loss leaves: the pages the header counts, as write-backs left them.
Left(s, d) == Later(d) /\ s = SubSeq(d, 1, kept)

LEMMA LostPages ==
    ASSUME StoreInv, NEW d, NEW s, Left(s, d)
    PROVE  /\ s \in Seq(Image) /\ Len(s) = kept /\ DOMAIN s = 1 .. kept /\ Len(s) <= MaxPages
           /\ \A p \in 1 .. kept : p \in DOMAIN view /\ s[p] = d[p]
<1>1. /\ kept \in 0 .. Len(view) /\ Len(view) \in Nat /\ Len(d) = Len(view) /\ d \in Seq(Image) /\ s = SubSeq(d, 1, kept)
      /\ Len(view) <= MaxPages /\ MaxPages \in Nat /\ DOMAIN view = 1 .. Len(view)
  BY StoreFacts, HeapFileAssumption DEF StoreInv, TypeInv, Later, Left
<1>2. CASE kept = 0
  <2>1. s = <<>>
    BY <1>1, <1>2
  <2> QED
    BY <1>1, <1>2, <2>1
<1>3. CASE kept # 0
  <2>1. kept \in 1 .. Len(d)
    BY <1>1, <1>3
  <2>2. /\ s \in Seq(Image) /\ Len(s) = kept /\ DOMAIN s = 1 .. kept
        /\ \A i \in 1 .. kept : s[i] = d[i]
    BY <1>1, <2>1, StartOfSeq
  <2> QED
    BY <1>1, <2>2
<1>4. QED
  BY <1>2, <1>3

\* Unless the heap was cut, the chain a loss leaves is where the chain began.
LEMMA LostChainBegins ==
    ASSUME StoreInv, ~cut, NEW d, NEW s, Left(s, d),
           NEW c \in HeapChains(view), NEW e \in HeapChains(s)
    PROVE  \A i \in 1 .. Len(e) : i \in 1 .. Len(c) /\ e[i] = c[i] /\ s[e[i]] = d[c[i]]
<1>1. TypeInv /\ s \in Seq(Image) /\ Len(s) <= MaxPages /\ DOMAIN s = 1 .. kept
  BY LostPages DEF StoreInv
<1>m. PICK m, n : m = Len(c) /\ n = Len(e)
  OBVIOUS
<1>2. /\ DOMAIN c = 1 .. m /\ c[1] = root
      /\ \A i \in 1 .. m : i < m => view[c[i]].next = c[i + 1]
      /\ \A i \in 1 .. m : i = m => view[c[i]].next = NoPage
  BY <1>1, <1>m, HeapChainIs
<1>3. /\ e[1] = root
      /\ \A i \in 1 .. n : /\ e[i] \in 1 .. kept /\ s[e[i]] \in SoundPage
                           /\ i < n => s[e[i]].next = e[i + 1] /\ s[e[i]].next # NoPage
  BY <1>1, <1>m, StoreChainIs
<1>4. m \in Nat /\ m # 0 /\ n \in Nat
  BY <1>1, <1>m, StoreChainIs, HeapChainIs
<1>5. \A i \in 1 .. n : s[e[i]] = d[e[i]]
  BY <1>3, LostPages
<1> DEFINE Off == {i \in 1 .. n : ~(i \in 1 .. m /\ e[i] = c[i])}
<1>6. Off = {}
  <2> SUFFICES ASSUME Off # {} PROVE FALSE
    OBVIOUS
  <2>1. Off \subseteq Nat
    BY <1>4
  <2>2. PICK k \in Off : \A j \in Off : k <= j
    BY <2>1, LeastExists
  <2>3. k \in 1 .. n /\ k # 1
    BY <1>2, <1>3, <1>4, <2>2
  <2>4. /\ k - 1 \in 1 .. n /\ k - 1 < n /\ (k - 1) + 1 = k /\ k - 1 \notin Off
    BY <1>4, <2>2, <2>3
  <2>5. PICK b : b = k - 1
    OBVIOUS
  <2>6. b \in 1 .. m /\ e[b] = c[b] /\ b + 1 = k /\ b \in 1 .. n /\ b < n
    BY <2>4, <2>5
  <2>7. s[e[b]].next = e[k] /\ e[k] # NoPage /\ d[c[b]] \in SoundPage /\ d[c[b]].next = e[k]
    BY <1>3, <1>5, <2>6
  <2>8. Behind(d[c[b]], c, b)
    BY <1>2, <2>6, LaterKeeps DEF Left
  <2>9. view[c[b]].next = e[k]
    BY <2>7, <2>8 DEF Behind
  <2>10. b < m
    BY <1>2, <1>4, <2>6, <2>7, <2>9
  <2>11. c[k] = e[k] /\ k \in 1 .. m
    <3>1. c[b + 1] = e[k]
      BY <1>2, <2>6, <2>9, <2>10
    <3>2. b + 1 \in 1 .. m
      BY <1>4, <2>6, <2>10
    <3> QED
      BY <2>6, <3>1, <3>2
  <2> QED
    BY <2>2, <2>11
<1>7. \A i \in 1 .. n : i \in 1 .. m /\ e[i] = c[i]
  BY <1>6
<1>8. QED
  BY <1>5, <1>7, <1>m

\* A heap that could not be opened before a loss cannot be opened after it.
LEMMA LostWithoutChain ==
    ASSUME StoreInv, HeapChains(view) = {}, NEW d, NEW s, Left(s, d)
    PROVE  HeapChains(s) = {}
<1> SUFFICES ASSUME root # NoPage PROVE HeapChains(s) = {}
  BY DEF HeapChains
<1>1. TypeInv /\ LinkInv /\ OpenInv /\ view \in Seq(Image)
  BY DEF StoreInv, TypeInv
<1>2. pending = {} /\ disk = view
  BY <1>1 DEF OpenInv
<1>3. d = view
  BY <1>2 DEF Later, Left
<1>4. s \in Seq(Image) /\ DOMAIN s = 1 .. kept /\ \A p \in 1 .. kept : p \in DOMAIN view /\ s[p] = view[p]
  BY <1>3, LostPages
<1>5. \A p \in DOMAIN view : view[p] \in SoundPage => p \in 1 .. kept
  BY <1>1, StoreFacts DEF LinkInv, Counted
<1>6. Links(s) = Links(view)
  BY <1>1, <1>4, <1>5, SameLinks
<1>7. QED
  BY <1>6 DEF HeapChains

\* What a loss makes of the rows, if it leaves a heap that opens.
LEMMA LostRows ==
    ASSUME StoreInv, ~cut, NEW d, NEW s, Left(s, d), HeapChains(s) # {}
    PROVE  rows \cap safe.rows \subseteq Scan(s) /\ Scan(s) \subseteq since
<1>1. PICK e \in HeapChains(s) : TRUE
  OBVIOUS
<1>2. PICK c \in HeapChains(view) : TRUE
  BY LostWithoutChain
<1>3. TypeInv /\ RidInv /\ WholeInv /\ s \in Seq(Image) /\ Len(s) <= MaxPages
  BY LostPages DEF StoreInv
<1>m. PICK m, n : m = Len(c) /\ n = Len(e)
  OBVIOUS
<1>4. m \in Nat /\ n \in Nat /\ n # 0
  BY <1>3, <1>m, HeapChainIs, StoreChainIs
<1>5. /\ DOMAIN c = 1 .. m /\ DOMAIN e = 1 .. n
      /\ \A i \in 1 .. m : i < m => view[c[i]].next # NoPage
      /\ \A i \in 1 .. n : s[e[i]] \in SoundPage /\ (i = n => s[e[i]].next = NoPage)
  <2>1. DOMAIN c = 1 .. m /\ \A i \in 1 .. m : i < m => view[c[i]].next # NoPage
    BY <1>3, <1>m, HeapChainIs
  <2>2. /\ DOMAIN e = 1 .. Len(e)
        /\ \A i \in 1 .. Len(e) : s[e[i]] \in SoundPage /\ (i = Len(e) => s[e[i]].next = NoPage)
    <3>1. s \in Seq(Image) /\ Len(s) <= MaxPages /\ e \in HeapChains(s)
      BY <1>1, <1>3
    <3> HIDE DEF HeapChains
    <3> QED
      BY ONLY <3>1, StoreChainIs
  <2> QED
    BY <1>m, <2>1, <2>2
<1>6. \A i \in 1 .. n : i \in 1 .. m /\ e[i] = c[i] /\ s[e[i]] = d[c[i]]
  <2>1. \A i \in 1 .. Len(e) : i \in 1 .. Len(c) /\ e[i] = c[i] /\ s[e[i]] = d[c[i]]
    BY LostChainBegins
  <2> QED
    BY <1>m, <2>1
<1>7. \A i \in 1 .. n : Behind(d[c[i]], c, i)
  BY <1>5, <1>6, LaterKeeps DEF Left
<1>8. \A i \in 1 .. n :
        /\ PageRows(s[e[i]], e[i]) \subseteq since
        /\ \A row \in rows \cap safe.rows : row[1].page = c[i] => row \in PageRows(s[e[i]], e[i])
        /\ \A j \in i + 1 .. m : \A row \in rows \cap safe.rows :
             row[1].page = c[j] => s[e[i]].next = view[c[i]].next
  BY <1>5, <1>6, <1>7, <1>m DEF Behind
<1>9. ASSUME NEW row \in Scan(s) PROVE row \in since
  <2>1. PICK f \in HeapChains(s) : \E p \in ListedPages(f) : row \in PageRows(s[p], p)
    BY ScanReturns
  <2>2. f = e
    BY <1>3, StoreChainIs
  <2>3. PICK i \in 1 .. n : row \in PageRows(s[e[i]], e[i])
    BY <1>5, <2>1, <2>2 DEF ListedPages
  <2> QED
    BY <1>8, <2>3
<1>10. ASSUME NEW row \in rows \cap safe.rows PROVE row \in Scan(s)
  <2>1. PICK b \in HeapChains(view) : row[1].page \in ListedPages(b)
    BY <1>3 DEF WholeInv
  <2>2. b = c
    BY <1>3, HeapChainIs
  <2>3. PICK j \in 1 .. m : row[1].page = c[j]
    BY <1>5, <2>1, <2>2 DEF ListedPages
  <2>4. j <= n
    <3> SUFFICES ASSUME ~(j <= n) PROVE FALSE
      OBVIOUS
    <3>1. n \in 1 .. n /\ n < m /\ j \in n + 1 .. m /\ n \in 1 .. m
      BY <1>4, <2>3
    <3>2. s[e[n]].next = view[c[n]].next
      BY <1>8, <2>3, <3>1
    <3> QED
      BY <1>5, <3>1, <3>2
  <2>5. j \in 1 .. n
    BY <1>4, <2>3, <2>4
  <2>6. row \in PageRows(s[e[j]], e[j]) /\ e[j] \in ListedPages(e)
    BY <1>5, <1>8, <2>3, <2>5 DEF ListedPages
  <2> QED
    BY <1>1, <2>6, ScanReturns
<1> QED
  BY <1>9, <1>10

\* With every page's link on file and none torn, a loss leaves the chain.
LEMMA LostChainOpens ==
    ASSUME StoreInv, ~grown, InUse, NEW d, NEW s, Left(s, d),
           \A p \in DOMAIN s : s[p] # Torn
    PROVE  HeapChains(s) # {}
<1>1. TypeInv /\ LinkInv /\ OpenInv
  BY DEF StoreInv
<1>2. root # NoPage
  BY <1>1 DEF TypeInv, InUse
<1>3. PICK c \in HeapChains(view) : TRUE
  BY <1>1, <1>2 DEF OpenInv
<1>4. s \in Seq(Image) /\ Len(s) <= MaxPages /\ DOMAIN s = 1 .. kept /\ \A p \in 1 .. kept : s[p] = d[p]
  BY LostPages
<1>5. view \in Seq(Image) /\ IsChain(Links(view), root, c)
  BY <1>1, HeapChainIs DEF TypeInv
<1>6. ASSUME NEW p \in ListedPages(c) PROVE p \in DOMAIN Links(s) /\ Links(s)[p] = Links(view)[p]
  <2>1. p \in DOMAIN view /\ view[p] \in SoundPage
    BY <1>1, HeapChainIs
  <2>2. p \in 1 .. kept
    BY <1>1, <2>1, StoreFacts DEF LinkInv, Counted
  <2>3. SameLink(d[p], p) /\ d[p] = s[p] /\ s[p] # Torn
    BY <1>4, <2>2, LaterKeeps DEF Left
  <2>4. s[p] \in SoundPage /\ s[p].next = view[p].next
    BY <2>3 DEF SameLink
  <2> QED
    BY <1>4, <1>5, <2>1, <2>2, <2>4, ReadablePages
<1>7. IsChain(Links(s), root, c)
  BY <1>5, <1>6, ChainKept
<1>8. c \in HeapChains(s)
  BY <1>2, <1>4, <1>7, TheChain DEF HeapChains
<1>9. QED
  BY <1>8

LEMMA LoseStep ==
    ASSUME HeapInv, Lose
    PROVE  /\ HeapInv'
           /\ \E d : Left(view', d)
           /\ rows' = Scan(view')
<1>1. PICK d \in Pool!WrittenBack({}) : disk' = SubSeq(d, 1, kept)
  BY DEF Lose, Pool!LosesAfter
<1> DEFINE new == {row[1] : row \in rows'}
<1>2. /\ view' = disk' /\ pending' = {} /\ kept' = kept /\ root' = root /\ losses' = losses + 1
      /\ losses < MaxLosses /\ call' = Idle /\ grown' = FALSE /\ cut' = FALSE
      /\ rows' = Scan(view') /\ since' = rows' /\ issued' = safe.used \cup new
  BY DEF Lose, Pool!LosesAfter
<1>3. handle' = [h \in Handles |-> <<>>]
  BY DEF Lose
<1>4. safe'.rows = rows' /\ safe'.used = issued'
  <2>1. safe' = [rows |-> rows', used |-> issued']
    BY DEF Lose
  <2> QED
    BY <2>1
<1>5. StoreInv /\ TypeInv /\ RidInv
  BY DEF HeapInv, StoreInv
<1>6. Left(view', d)
  BY <1>1, <1>2, <1>5, WrittenBackLater DEF Left
<1>7. /\ view' \in Seq(Image) /\ Len(view') = kept /\ DOMAIN view' = 1 .. kept /\ Len(view') <= MaxPages
      /\ \A p \in 1 .. kept : p \in DOMAIN view /\ view'[p] = d[p] /\ p \in 1 .. MaxPages
      /\ kept \in Nat
  <2>1. 1 .. kept \subseteq 1 .. MaxPages /\ kept \in Nat
    BY <1>5, StoreFacts
  <2> QED
    BY <1>5, <1>6, <2>1, LostPages
<1>8. /\ Counted(d)
      /\ \A p \in 1 .. kept : view'[p] \in SoundPage => AllHandedOut(view'[p], p, safe.used)
  BY <1>5, <1>6, <1>7, LaterKeeps DEF Left
<1>9. HeapChains(view)' = HeapChains(view')
  BY <1>2 DEF HeapChains
<1>10. \A c \in HeapChains(view') : \A p \in ListedPages(c) : p \in 1 .. kept /\ view'[p] \in SoundPage
  BY <1>7, StoreChainIs
<1>11. ASSUME NEW row
       PROVE  row \in rows' <=>
                \E c \in HeapChains(view') : \E p \in ListedPages(c) : row \in PageRows(view'[p], p)
  BY <1>2, ScanReturns
<1>12. ASSUME NEW row \in rows'
       PROVE  /\ row[1].page \in 1 .. kept /\ view'[row[1].page] \in SoundPage
              /\ row \in PageRows(view'[row[1].page], row[1].page)
              /\ \E c \in HeapChains(view') : row[1].page \in ListedPages(c)
              /\ row[1] \in HeapRids /\ row[1] \in issued'
  <2>1. PICK c \in HeapChains(view') : \E p \in ListedPages(c) : row \in PageRows(view'[p], p)
    BY <1>11
  <2>2. PICK p \in ListedPages(c) : row \in PageRows(view'[p], p)
    BY <2>1
  <2>3. p \in 1 .. kept /\ view'[p] \in SoundPage
    BY <1>10
  <2>4. row[1].page = p /\ \E r \in Rid : row[1] = HeapRid(p, r)
    BY <2>2, <2>3, PageRowsNamed
  <2>5. row[1] \in HeapRids
    BY <1>7, <2>3, <2>4 DEF HeapRids
  <2>6. row[1] \in issued'
    BY <1>2
  <2> QED
    BY <2>2, <2>3, <2>4, <2>5, <2>6
<1>13. \A c \in HeapChains(view') : \A p \in ListedPages(c) : PageRows(view'[p], p) = RowsAt(p)'
  <2> SUFFICES ASSUME NEW c \in HeapChains(view'), NEW p \in ListedPages(c)
               PROVE  PageRows(view'[p], p) = RowsAt(p)'
    OBVIOUS
  <2>1. \A row \in PageRows(view'[p], p) : row \in rows' /\ row[1].page = p
    BY <1>10, <1>11, PageRowsNamed
  <2>2. \A row \in rows' : row[1].page = p => row \in PageRows(view'[p], p)
    BY <1>12
  <2>3. RowsAt(p)' = {row \in rows' : row[1].page = p}
    BY DEF RowsAt
  <2> QED
    BY <2>1, <2>2, <2>3
<1>14. ASSUME NEW p \in DOMAIN view', view'[p] \in SoundPage PROVE AllHandedOut(view'[p], p, issued')
  <2>1. AllHandedOut(view'[p], p, safe.used)
    BY <1>7, <1>8, <1>14
  <2>2. AllHandedOut(view'[p], p, {row[1] : row \in PageRows(view'[p], p)})
    BY <1>14, RowsHandedOut
  <2> SUFFICES ASSUME NEW r \in Rid, HeapRid(p, r) \in issued' PROVE HandedOut(view'[p].body, r)
    BY DEF AllHandedOut
  <2>3. CASE HeapRid(p, r) \in safe.used
    BY <2>1, <2>3 DEF AllHandedOut
  <2>4. CASE HeapRid(p, r) \in new
    <3>1. PICK row \in rows' : HeapRid(p, r) = row[1]
      BY <2>4
    <3>2. row[1].page = p
      BY <3>1, HeapRidFields
    <3>3. row \in PageRows(view'[p], p)
      BY <1>12, <3>2
    <3> QED
      BY <2>2, <3>1, <3>3 DEF AllHandedOut
  <2> QED
    BY <1>2, <2>3, <2>4
<1>15. TypeInv'
  <2>1. issued' \subseteq HeapRids
    BY <1>2, <1>5, <1>12 DEF TypeInv, RidInv
  <2>2. handle' \in [Handles -> Seq(DOMAIN view')] /\ \A h \in Handles : handle'[h] = <<>>
    BY <1>3
  <2>3. losses' \in 0 .. MaxLosses
    BY <1>2, <1>5, HeapFileAssumption DEF TypeInv
  <2>4. root \in {NoPage} \cup 1 .. kept /\ kept \in 0 .. kept
    BY <1>5, <1>7 DEF TypeInv
  <2> QED
    BY <1>2, <1>7, <2>1, <2>2, <2>3, <2>4 DEF TypeInv
<1>16. LinkInv'
  <2>1. Counted(view)'
    BY <1>2, <1>7, <1>8, <1>5, LaterKeeps, <1>6 DEF Counted, Left
  <2> QED
    BY <1>2, <2>1 DEF LinkInv, Counted
<1>17. RidInv'
  <2>1. \A rid \in issued' : rid.page <= kept'
    <3>1. \A rid \in safe.used : rid.page <= kept
      BY <1>5 DEF RidInv
    <3>2. \A rid \in new : rid.page <= kept
      BY <1>7, <1>12
    <3> QED
      BY <1>2, <3>1, <3>2
  <2>2. \A row \in rows' : row[1] \in issued'
    BY <1>12
  <2> QED
    BY <1>2, <1>4, <1>14, <2>1, <2>2 DEF RidInv
<1>18. \A h \in Handles : handle'[h] = <<>> /\ ListedPages(handle'[h]) = {}
  BY <1>3 DEF ListedPages
<1>19. RowInv'
  BY <1>9, <1>13, <1>18 DEF RowInv
<1>20. OpenInv'
  <2>1. losses' # 0
    BY <1>2, <1>5, HeapFileAssumption DEF TypeInv
  <2>2. ~InUse'
    BY <1>18 DEF InUse
  <2> QED
    BY <1>2, <2>1, <2>2 DEF OpenInv
<1>21. WholeInv'
  BY <1>9, <1>12, <1>18 DEF WholeInv
<1>22. DiskInv'
  <2>1. ASSUME NEW c \in HeapChains(view'), NEW i \in DOMAIN c PROVE Behind(disk[c[i]], c, i)'
    <3>1. PageRows(view'[c[i]], c[i]) = RowsAt(c[i])'
      BY <1>13 DEF ListedPages
    <3>2. \A row \in rows' : row[1].page = c[i] => row \in PageRows(view'[c[i]], c[i])
      BY <3>1 DEF RowsAt
    <3>3. PageRows(view'[c[i]], c[i]) \subseteq rows'
      BY <3>1 DEF RowsAt
    <3> QED
      BY <1>2, <1>4, <3>2, <3>3 DEF Behind
  <2>2. ASSUME NEW c \in HeapChains(view'), NEW p \in ListedPages(c) PROVE SameLink(disk[p], p)'
    BY <1>2, <1>10 DEF SameLink
  <2> QED
    BY <1>9, <2>1, <2>2 DEF DiskInv
<1>23. CallInv'
  <2>1. call' \in Calls /\ call'.step = "idle"
    BY <1>2 DEF Idle, Calls
  <2> QED
    BY <2>1 DEF CallInv
<1>24. QED
  BY <1>2, <1>6, <1>15, <1>16, <1>17, <1>19, <1>20, <1>21, <1>22, <1>23 DEF HeapInv, StoreInv

-----------------------------------------------------------------------------
(* The theorems.                                                           *)

\* Steps by which no row comes or goes.
Quiet ==
    \/ AllocatePageFails \/ CreateInitialize \/ AppendFill \/ AppendLinkFails \/ WriteBack
    \/ \E h \in Handles :
         Create(h) \/ Open(h) \/ \E record \in Records : AppendAllocate(h, record)

LEMMA HeapInvStep == HeapInv /\ [Next]_vars => HeapInv'
<1> SUFFICES ASSUME HeapInv, [Next]_vars PROVE HeapInv'
  OBVIOUS
<1>1. CASE AllocatePageFails
  BY <1>1, AllocateFailsStep
<1>2. ASSUME NEW h \in Handles, Create(h) PROVE HeapInv'
  BY <1>2, CreateStep
<1>3. ASSUME NEW h \in Handles, Open(h) PROVE HeapInv'
  BY <1>3, OpenStep
<1>4. ASSUME NEW h \in Handles, NEW record \in Records, InsertInPage(h, record) PROVE HeapInv'
  BY <1>4, InsertInPageStep
<1>5. ASSUME NEW h \in Handles, NEW record \in Records, AppendAllocate(h, record) PROVE HeapInv'
  BY <1>5, AppendAllocateStep
<1>6. ASSUME NEW h \in Handles, NEW rid \in issued, DeleteRow(h, rid) PROVE HeapInv'
  BY <1>6, DeleteRowStep
<1>7. CASE CreateInitialize
  BY <1>7, CreateInitializeStep
<1>8. CASE AppendFill
  BY <1>8, AppendFillStep
<1>9. CASE AppendLink
  BY <1>9, AppendLinkStep
<1>10. CASE AppendLinkFails
  BY <1>10, AppendLinkFailsStep
<1>11. CASE WriteBack
  BY <1>11, WriteBackStep
<1>12. CASE Sync
  BY <1>12, SyncStep
<1>13. CASE Lose
  BY <1>13, LoseStep
<1>14. CASE UNCHANGED vars
  <2>1. /\ view' = view /\ disk' = disk /\ pending' = pending /\ kept' = kept /\ root' = root
        /\ rows' = rows /\ issued' = issued /\ since' = since /\ safe' = safe /\ handle' = handle
        /\ grown' = grown /\ cut' = cut /\ losses' = losses /\ call' = call
    BY <1>14 DEF vars, pool, history
  <2>2. HeapChains(view)' = HeapChains(view) /\ InUse' = InUse
    BY <2>1 DEF HeapChains, InUse
  <2>3. TypeInv' /\ LinkInv' /\ RidInv' /\ RowInv'
    BY <2>1, <2>2 DEF HeapInv, StoreInv, TypeInv, LinkInv, Counted, RidInv, RowInv, RowsAt
  <2>4. OpenInv' /\ WholeInv' /\ DiskInv'
    BY <2>1, <2>2 DEF HeapInv, StoreInv, OpenInv, WholeInv, DiskInv, Behind, SameLink
  <2>5. CallInv'
    BY <2>1 DEF HeapInv, CallInv
  <2> QED
    BY <2>3, <2>4, <2>5 DEF HeapInv, StoreInv
<1>15. QED
  BY <1>1, <1>2, <1>3, <1>4, <1>5, <1>6, <1>7, <1>8, <1>9, <1>10, <1>11, <1>12, <1>13, <1>14 DEF Next

(* The invariant holds in every reachable state of the heap.               *)
THEOREM HeapInvariant == Spec => []HeapInv
BY HeapInvInit, HeapInvStep, PTL DEF Spec

(* A scan of the heap returns each row inserted and not deleted, and no    *)
(* other, whichever handles inserted and deleted them, unless an append    *)
(* cut the chain.                                                          *)
THEOREM HeapScansSeeEveryRow == Spec => []ScansSeeEveryRow
<1>1. ASSUME HeapInv, ~cut PROVE Scan(view) = rows
  <2>1. TypeInv /\ RowInv /\ WholeInv
    BY <1>1 DEF HeapInv, StoreInv
  <2>2. ASSUME NEW row \in Scan(view) PROVE row \in rows
    <3>1. PICK c \in HeapChains(view) : \E p \in ListedPages(c) : row \in PageRows(view[p], p)
      BY ScanReturns
    <3>2. PICK p \in ListedPages(c) : row \in PageRows(view[p], p)
      BY <3>1
    <3>3. row \in RowsAt(p)
      BY <2>1, <3>2 DEF RowInv
    <3> QED
      BY <3>3 DEF RowsAt
  <2>3. ASSUME NEW row \in rows PROVE row \in Scan(view)
    <3>1. PICK c \in HeapChains(view) : row[1].page \in ListedPages(c)
      BY <1>1, <2>1 DEF WholeInv
    <3>2. row \in PageRows(view[row[1].page], row[1].page)
      BY <2>1, <3>1 DEF RowInv, RowsAt
    <3> QED
      BY <3>1, <3>2, ScanReturns
  <2> QED
    BY <2>2, <2>3
<1>2. HeapInv => ScansSeeEveryRow
  BY <1>1 DEF ScansSeeEveryRow
<1>3. QED
  BY <1>2, HeapInvariant, PTL

(* Unless an append cut the chain, each handle lists its pages from the    *)
(* first one on, in order.                                                 *)
THEOREM HeapHandlesKnowChain == Spec => []HandleKnowsChain
<1>1. ASSUME HeapInv PROVE HandleKnowsChain
  <2>1. TypeInv /\ WholeInv /\ CallInv
    BY <1>1 DEF HeapInv, StoreInv
  <2>2. kept \in 0 .. Len(view) /\ Len(view) \in Nat /\ DOMAIN view = 1 .. Len(view)
    BY <2>1, StoreFacts DEF TypeInv
  <2>3. root \in {NoPage} \cup DOMAIN view
    BY <2>1, <2>2 DEF TypeInv
  <2>4. call.step \in {"idle", "create", "fill", "link"}
    BY <2>1 DEF CallInv, Calls
  <2>5. TypeOK
    BY <2>1, <2>3, <2>4 DEF TypeOK, TypeInv
  <2> QED
    BY <2>1, <2>5 DEF HandleKnowsChain, WholeInv, Begins
<1>2. HeapInv => HandleKnowsChain
  BY <1>1
<1>3. QED
  BY <1>2, HeapInvariant, PTL

(* Cut or not, each handle reads exactly the rows of the pages it lists.   *)
THEOREM HeapHandlesReadTheirPages == Spec => []HandlesReadTheirPages
<1>1. ASSUME HeapInv, NEW h \in Handles
      PROVE  RowsOn(view, ListedPages(handle[h])) = {row \in rows : row[1].page \in ListedPages(handle[h])}
  <2>1. \A p \in ListedPages(handle[h]) : PageRows(view[p], p) = {row \in rows : row[1].page = p}
    BY <1>1 DEF HeapInv, StoreInv, RowInv, RowsAt
  <2>2. RowsOn(view, ListedPages(handle[h])) = UNION {PageRows(view[p], p) : p \in ListedPages(handle[h])}
    BY DEF RowsOn, PageRows
  <2> QED
    BY <2>1, <2>2
<1>2. HeapInv => HandlesReadTheirPages
  BY <1>1 DEF HandlesReadTheirPages
<1>3. QED
  BY <1>2, HeapInvariant, PTL

(* While the pool lives the heap opens again.                              *)
THEOREM HeapOpensAgain == Spec => []HeapAlwaysOpens
<1>1. HeapInv => HeapAlwaysOpens
  BY DEF HeapInv, StoreInv, OpenInv, HeapAlwaysOpens
<1>2. QED
  BY <1>1, HeapInvariant, PTL

(* A loss makes a heap in use unopenable only when pages joined it since   *)
(* the last sync or a page is torn.                                        *)
THEOREM LossKeepsChain == Spec => LossKeepsHeapOpen
<1>1. ASSUME HeapInv, Lose, ~grown, InUse, ~SomeTorn' PROVE HeapChains(view') # {}
  <2>1. PICK d : Left(view', d)
    BY <1>1, LoseStep
  <2>2. view' = disk'
    BY <1>1 DEF Lose, Pool!LosesAfter
  <2>3. \A p \in DOMAIN view' : view'[p] # Torn
    BY <1>1, <2>2 DEF SomeTorn
  <2>4. StoreInv
    BY <1>1 DEF HeapInv
  <2> QED
    BY <1>1, <2>1, <2>3, <2>4, LostChainOpens
<1>2. HeapInv /\ [Next]_vars =>
        [(Lose /\ ~grown /\ InUse /\ ~SomeTorn') => HeapChains(view') # {}]_vars
  BY <1>1
<1>3. QED
  BY <1>2, HeapInvariant, PTL DEF Spec, LossKeepsHeapOpen

\* Whether a heap opens, as the table store has it.
LEMMA StatusIs ==
    /\ root = NoPage => Status = "absent"
    /\ root # NoPage /\ HeapChains(view) # {} => Status = "open"
    /\ root # NoPage /\ HeapChains(view) = {} => Status = "lost"
BY DEF Status, HeapChains

LEMMA InUseOpens ==
    ASSUME HeapInv, NEW h \in Handles, handle[h] # <<>>
    PROVE  root # NoPage /\ HeapChains(view) # {} /\ Status = "open"
<1>1. root # NoPage /\ InUse
  BY DEF HeapInv, StoreInv, TypeInv, InUse
<1>2. HeapChains(view) # {}
  BY <1>1 DEF HeapInv, StoreInv, OpenInv
<1>3. QED
  BY <1>1, <1>2, StatusIs

\* A handle that keeps its heap in use keeps it open.
LEMMA StaysOpen ==
    ASSUME HeapInv, HeapInv', NEW h \in Handles, handle[h] # <<>>, handle'[h] # <<>>
    PROVE  Status = "open" /\ Status' = "open"
<1>1. Status = "open"
  BY InUseOpens
<1>2. root' # NoPage /\ InUse'
  BY DEF HeapInv, StoreInv, TypeInv, InUse
<1>3. HeapChains(view)' # {}
  BY <1>2 DEF HeapInv, StoreInv, OpenInv
<1>4. Status' = "open"
  BY <1>2, <1>3 DEF Status, HeapChains
<1>5. QED
  BY <1>1, <1>4

\* Steps that change pages but no row keep the heap as it is, but for the one
\* that makes it.
LEMMA QuietStatus ==
    ASSUME HeapInv, HeapInv', Quiet
    PROVE  Status' = Status \/ (Status = "absent" /\ Status' = "open")
<1>1. ASSUME Pool!Grow, Len(view) < MaxPages, UNCHANGED <<root, handle, history, losses>>
      PROVE  Status' = Status
  <2>1. HeapChains(view)' = HeapChains(view) /\ root' = root
    BY <1>1, GrowStep
  <2> QED
    BY <2>1 DEF Status, HeapChains
<1>2. CASE AllocatePageFails
  BY <1>1, <1>2 DEF AllocatePageFails
<1>3. ASSUME NEW h \in Handles, Create(h) PROVE Status' = Status
  BY <1>1, <1>3 DEF Create, AllocatePage
<1>4. ASSUME NEW h \in Handles, NEW record \in Records, AppendAllocate(h, record) PROVE Status' = Status
  BY <1>1, <1>4 DEF AppendAllocate, AllocatePage
<1>5. CASE CreateInitialize
  <2>1. call.handle \in Handles /\ root = NoPage
    BY <1>5, CallFacts DEF CreateInitialize, HeapInv, CallInv
  <2>2. handle \in [Handles -> Seq(DOMAIN view)]
    BY DEF HeapInv, StoreInv, TypeInv
  <2>3. handle'[call.handle] # <<>>
    BY <1>5, <2>1, <2>2 DEF CreateInitialize
  <2>4. root' # NoPage /\ InUse'
    BY <2>1, <2>3 DEF HeapInv, StoreInv, TypeInv, InUse
  <2>5. HeapChains(view)' # {}
    BY <2>4 DEF HeapInv, StoreInv, OpenInv
  <2>6. Status' = "open"
    BY <2>4, <2>5 DEF Status, HeapChains
  <2> QED
    BY <2>1, <2>6, StatusIs
<1>6. CASE AppendFill
  <2>1. call.handle \in Handles /\ handle[call.handle] # <<>> /\ handle' = handle
    BY <1>6, CallFacts DEF AppendFill, HeapInv, CallInv
  <2> QED
    BY <2>1, StaysOpen
<1>7. CASE UNCHANGED <<view, root>>
  BY <1>7 DEF Status
<1>8. CASE AppendLinkFails \/ WriteBack \/ \E h \in Handles : Open(h)
  BY <1>7, <1>8 DEF AppendLinkFails, WriteBack, Open, Pool!WritesBack, pool
<1>9. QED
  BY <1>2, <1>3, <1>4, <1>5, <1>6, <1>8 DEF Quiet

\* A loss keeps the synced rows, or the heap does not open any more.
LEMMA LossIsTables == HeapInv /\ Lose /\ ~cut => Table!Lose
<1> SUFFICES ASSUME HeapInv, Lose, ~cut PROVE Table!Lose
  OBVIOUS
<1>1. PICK d : Left(view', d)
  BY LoseStep
<1>2. StoreInv /\ rows' = Scan(view') /\ root' = root
  BY LoseStep DEF HeapInv, Lose
<1>3. HeapChains(view)' = HeapChains(view')
  BY <1>2 DEF HeapChains
<1>4. CASE HeapChains(view') # {}
  <2>1. root # NoPage
    BY <1>4 DEF HeapChains
  <2>2. HeapChains(view) # {}
    BY <1>1, <1>2, <1>4, LostWithoutChain
  <2>3. Status = "open"
    BY <2>1, <2>2, StatusIs
  <2>4. Status' = "open"
    BY <1>2, <1>3, <1>4, <2>1 DEF Status, HeapChains
  <2>5. rows \cap safe.rows \subseteq rows' /\ rows' \subseteq since
    BY <1>1, <1>2, <1>4, LostRows
  <2> QED
    BY <2>3, <2>4, <2>5 DEF Lose, Table!Lose
<1>5. CASE HeapChains(view') = {}
  <2>1. rows' = {}
    BY <1>2, <1>5, ScanReturns
  <2>2. Status' = IF root = NoPage THEN "absent" ELSE "lost"
    BY <1>2, <1>3, <1>5 DEF Status, HeapChains
  <2>3. Status' = IF Status = "absent" THEN "absent" ELSE "lost"
    BY <2>2, StatusIs
  <2> QED
    BY <2>1, <2>3 DEF Lose, Table!Lose
<1>6. QED
  BY <1>4, <1>5

(* The heap implements TableStore: every create, insert, delete, sync and  *)
(* loss is one of its steps, and no other step changes a row, a rid or     *)
(* whether the heap opens; unless an append cut the chain.                 *)
THEOREM HeapImplementsTableStore == Spec => ImplementsTableStore
<1>1. Init => Table!Init
  BY StatusIs DEF Init, Table!Init
<1>2. ASSUME HeapInv, HeapInv', [Next]_vars
      PROVE  [cut \/ cut' \/ Unseen \/ Table!Next]_(Table!vars)
  <2>1. CASE Unseen
    BY <2>1
  <2>2. CASE Quiet
    <3>1. UNCHANGED <<rows, issued, since, safe>>
      BY <2>2 DEF Quiet, AllocatePageFails, CreateInitialize, AppendFill, AppendLinkFails,
                  WriteBack, Create, Open, AppendAllocate, history
    <3>2. CASE Status' = Status
      BY <3>1, <3>2 DEF Table!vars
    <3>3. CASE Status = "absent" /\ Status' = "open"
      BY <3>1, <3>3 DEF Table!Next, Table!Create
    <3> QED
      BY <1>2, <2>2, <3>2, <3>3, QuietStatus
  <2>3. ASSUME NEW h \in Handles, NEW record \in Records, InsertInPage(h, record)
        PROVE  Table!Next
    <3>1. handle[h] # <<>> /\ handle'[h] # <<>>
      BY <2>3 DEF InsertInPage
    <3>2. Status = "open" /\ Status' = "open"
      BY <1>2, <3>1, StaysOpen
    <3> QED
      BY <1>2, <2>3, <3>2, InsertInPageStep DEF Table!Next, Table!Insert
  <2>4. ASSUME NEW h \in Handles, NEW rid \in issued, DeleteRow(h, rid)
        PROVE  Table!Next
    <3>1. handle[h] # <<>> /\ handle'[h] # <<>>
      BY <2>4 DEF DeleteRow, ListedPages
    <3>2. Status = "open" /\ Status' = "open"
      BY <1>2, <3>1, StaysOpen
    <3> QED
      BY <1>2, <2>4, <3>2, DeleteRowStep DEF Table!Next, Table!Delete
  <2>5. CASE AppendLink
    <3>1. call.handle \in Handles /\ handle[call.handle] # <<>> /\ handle \in [Handles -> Seq(DOMAIN view)]
      BY <1>2, <2>5, CallFacts DEF AppendLink, HeapInv, CallInv, StoreInv, TypeInv
    <3>2. handle'[call.handle] = Append(handle[call.handle], call.page)
      BY <2>5, <3>1 DEF AppendLink, Listed
    <3>3. handle[call.handle] \in Seq(DOMAIN view)
      BY <3>1
    <3>4. handle'[call.handle] # <<>>
      BY <3>2, <3>3
    <3>5. Status = "open" /\ Status' = "open"
      BY <1>2, <3>1, <3>4, StaysOpen
    <3> QED
      BY <1>2, <2>5, <3>5, AppendLinkStep DEF Table!Next, Table!Insert
  <2>6. CASE Sync
    <3>1. Status' = Status
      BY <2>6 DEF Sync, Status
    <3> QED
      BY <2>6, <3>1 DEF Sync, Table!Next, Table!Sync
  <2>7. CASE Lose
    BY <1>2, <2>7, LossIsTables DEF Table!Next
  <2>8. CASE UNCHANGED vars
    BY <2>1, <2>8 DEF Unseen, vars, pool, history
  <2> QED
    BY <1>2, <2>2, <2>3, <2>4, <2>5, <2>6, <2>7, <2>8 DEF Next, Quiet
<1>3. HeapInv /\ HeapInv' /\ [Next]_vars => [cut \/ cut' \/ Unseen \/ Table!Next]_(Table!vars)
  BY <1>2
<1>4. QED
  BY <1>1, <1>3, HeapInvariant, PTL DEF Spec, ImplementsTableStore
=============================================================================
