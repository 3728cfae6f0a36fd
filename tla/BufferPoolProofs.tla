-------------------------- MODULE BufferPoolProofs --------------------------
(***************************************************************************)
(* Proofs about BufferPool, for every capacity, number of pages, guards    *)
(* and limits.                                                             *)
(*                                                                         *)
(* The helpers that write back and evict are summed up once, in the        *)
(* relation WritesBack between the frames and file before and after; the   *)
(* invariants are then proved in layers: Books (types, pin counts, guards) *)
(* first, then capacity, contents, replacement, and last the refinement of *)
(* PageStore.                                                              *)
(***************************************************************************)
EXTENDS BufferPool, DiskFileProofs, FiniteSetTheorems, SequenceTheorems

IsFrames(fr) == DOMAIN fr \subseteq DataPages /\ fr \in [DOMAIN fr -> Frame]

\* What flushing some frames and evicting some others may do.
WritesBack(fr, f, fr2, f2) ==
    /\ IsFrames(fr2)
    /\ f2 \in File
    /\ f2.len = f.len /\ f2.next = f.next /\ f2.root = f.root
    /\ f2 = f \/ Writable(mgr)
    /\ DOMAIN fr2 \subseteq DOMAIN fr
    /\ \A p \in DOMAIN fr \ DOMAIN fr2 : fr[p].pin = 0
    /\ \A p \in DOMAIN fr2 :
         /\ fr2[p].data = fr[p].data
         /\ fr2[p].pin = fr[p].pin
         /\ fr2[p].used = fr[p].used
         /\ fr2[p].dirty => fr[p].dirty
         /\ fr[p].dirty => fr2[p].dirty \/ f2.pages[p] = fr[p].data
    /\ \A p \in DataPages :
         \/ f2.pages[p] = f.pages[p]
         \/ p \in DOMAIN fr /\ fr[p].dirty /\ Writable(mgr)

LEMMA PoolConstants ==
    /\ Capacity \in Nat /\ Capacity >= 1
    /\ ClockLimit \in Nat /\ ClockLimit >= 1
    /\ PinLimit \in Nat /\ PinLimit >= 1
    /\ IsFiniteSet(Guards)
    /\ NoPage \notin DataPages
    /\ NoBytes \notin Bytes
    /\ Closed \notin Manager
BY BufferPoolAssumption, ConstantTypes

LEMMA CleanedType ==
    ASSUME NEW fr, IsFrames(fr), NEW W \in SUBSET DOMAIN fr
    PROVE  /\ IsFrames(Cleaned(fr, W))
           /\ DOMAIN Cleaned(fr, W) = DOMAIN fr
           /\ \A p \in DOMAIN fr :
                /\ Cleaned(fr, W)[p].data = fr[p].data
                /\ Cleaned(fr, W)[p].pin = fr[p].pin
                /\ Cleaned(fr, W)[p].used = fr[p].used
                /\ Cleaned(fr, W)[p].dirty = (fr[p].dirty /\ p \notin W)
<1>1. /\ DOMAIN Cleaned(fr, W) = DOMAIN fr
      /\ \A p \in DOMAIN fr : Cleaned(fr, W)[p] =
           IF p \in W THEN [fr[p] EXCEPT !.dirty = FALSE] ELSE fr[p]
  BY DEF Cleaned
<1>2. \A p \in DOMAIN fr : fr[p] \in Frame
  BY DEF IsFrames
<1>3. ASSUME NEW p \in DOMAIN fr
      PROVE  /\ Cleaned(fr, W)[p] \in Frame
             /\ Cleaned(fr, W)[p].data = fr[p].data
             /\ Cleaned(fr, W)[p].pin = fr[p].pin
             /\ Cleaned(fr, W)[p].used = fr[p].used
             /\ Cleaned(fr, W)[p].dirty = (fr[p].dirty /\ p \notin W)
  <2>1. CASE p \in W
    BY <2>1, <1>1, <1>2 DEF Frame
  <2>2. CASE p \notin W
    BY <2>2, <1>1, <1>2 DEF Frame
  <2>3. QED
    BY <2>1, <2>2
<1>4. Cleaned(fr, W) \in [DOMAIN fr -> Frame]
  BY <1>1, <1>3 DEF Cleaned
<1>5. QED
  BY <1>1, <1>3, <1>4 DEF IsFrames

LEMMA WrittenToType ==
    ASSUME NEW fr, IsFrames(fr), NEW f \in File, NEW W \in SUBSET DOMAIN fr
    PROVE  /\ WrittenTo(f, fr, W) \in File
           /\ WrittenTo(f, fr, W).len = f.len
           /\ WrittenTo(f, fr, W).next = f.next
           /\ WrittenTo(f, fr, W).root = f.root
           /\ \A p \in DataPages : WrittenTo(f, fr, W).pages[p] =
                IF p \in W /\ fr[p].dirty THEN fr[p].data ELSE f.pages[p]
           /\ (\A p \in W : ~fr[p].dirty) => WrittenTo(f, fr, W) = f
<1> DEFINE written == [p \in DataPages |->
                        IF p \in W /\ NeedsWrite(fr, p) THEN fr[p].data ELSE f.pages[p]]
<1>1. written \in [DataPages -> Bytes]
  <2>1. \A p \in W : fr[p].data \in Bytes
    BY DEF IsFrames, Frame
  <2>2. f.pages \in [DataPages -> Bytes]
    BY DEF File
  <2>3. QED
    BY <2>1, <2>2
<1>2. WrittenTo(f, fr, W) = [len |-> f.len, ragged |-> f.ragged, next |-> f.next,
                             root |-> f.root, pages |-> written]
  BY DEF WrittenTo, File
<1>3. \A p \in DataPages :
        written[p] = IF p \in W /\ fr[p].dirty THEN fr[p].data ELSE f.pages[p]
  BY DEF NeedsWrite
<1> HIDE DEF written
<1>4. ASSUME \A p \in W : ~fr[p].dirty
      PROVE  WrittenTo(f, fr, W) = f
  <2>1. written = f.pages
    BY <1>1, <1>3, <1>4 DEF File
  <2>2. QED
    BY <2>1, <1>2 DEF File
<1>5. QED
  BY <1>1, <1>2, <1>3, <1>4 DEF File

\* The frames W written back in full, as flush_frame does one after the other.
LEMMA WrittenBackInFull ==
    ASSUME NEW fr, IsFrames(fr), NEW f \in File, NEW W \in SUBSET DOMAIN fr,
           \A p \in W : CanFlush(fr, p)
    PROVE  WritesBack(fr, f, Cleaned(fr, W), WrittenTo(f, fr, W))
<1>1. \A p \in W : fr[p].dirty => Writable(mgr)
  BY DEF CanFlush, NeedsWrite
<1>2. /\ IsFrames(Cleaned(fr, W))
      /\ DOMAIN Cleaned(fr, W) = DOMAIN fr
      /\ \A p \in DOMAIN fr :
           /\ Cleaned(fr, W)[p].data = fr[p].data
           /\ Cleaned(fr, W)[p].pin = fr[p].pin
           /\ Cleaned(fr, W)[p].used = fr[p].used
           /\ Cleaned(fr, W)[p].dirty = (fr[p].dirty /\ p \notin W)
  BY CleanedType
<1>3. /\ WrittenTo(f, fr, W) \in File
      /\ WrittenTo(f, fr, W).len = f.len
      /\ WrittenTo(f, fr, W).next = f.next
      /\ WrittenTo(f, fr, W).root = f.root
      /\ \A p \in DataPages : WrittenTo(f, fr, W).pages[p] =
           IF p \in W /\ fr[p].dirty THEN fr[p].data ELSE f.pages[p]
      /\ (\A p \in W : ~fr[p].dirty) => WrittenTo(f, fr, W) = f
  BY WrittenToType
<1>4. DOMAIN fr \subseteq DataPages
  BY DEF IsFrames
<1>5. QED
  BY <1>1, <1>2, <1>3, <1>4 DEF WritesBack

\* Writing back, then a flush_frame that fails.
LEMMA FailureEffect ==
    ASSUME mgr \in Manager, NEW fr, IsFrames(fr), NEW f \in File, Backed(mgr, f),
           NEW p \in DOMAIN fr, NEW o \in FlushFailures(fr, f, p)
    PROVE  /\ o.frames = fr
           /\ WritesBack(fr, f, fr, o.file)
           /\ o.res # "Ok"
<1>1. p \in DataPages /\ fr[p] \in Frame
  BY DEF IsFrames
<1>2. WritesBack(fr, f, fr, f)
  BY DEF WritesBack, IsFrames
<1>3. CASE Borrowed(p)
  BY <1>2, <1>3 DEF FlushFailures, Flushed
<1>4. CASE ~Borrowed(p) /\ fr[p].dirty
  <2>1. PICK w \in WritePageOutcomes(mgr, f, p, fr[p].data) :
          w.res # "Ok" /\ o = Flushed(w.res, fr, w.file)
    BY <1>4 DEF FlushFailures, NeedsWrite, AfterFailedWrite
  <2>2. fr[p].data \in Bytes
    BY <1>1 DEF Frame
  <2>3. /\ w.file \in File
        /\ w.file.len = f.len /\ w.file.next = f.next /\ w.file.root = f.root
        /\ \A q \in DataPages : q # p => w.file.pages[q] = f.pages[q]
        /\ mgr.readOnly => w.file = f
    BY <1>1, <2>1, <2>2, WritePageEffect
  <2>4. o.frames = fr /\ o.file = w.file /\ o.res # "Ok"
    BY <2>1 DEF Flushed
  <2>5. WritesBack(fr, f, fr, w.file)
    BY <1>1, <1>4, <2>3 DEF WritesBack, IsFrames, Writable
  <2>6. QED
    BY <2>4, <2>5
<1>5. CASE ~Borrowed(p) /\ ~fr[p].dirty
  BY <1>5 DEF FlushFailures, NeedsWrite
<1>6. QED
  BY <1>3, <1>4, <1>5

LEMMA FlushEffect ==
    ASSUME mgr \in Manager, NEW fr, IsFrames(fr), NEW f \in File, Backed(mgr, f),
           NEW S \in SUBSET DOMAIN fr, NEW o \in FlushOutcomes(fr, f, S)
    PROVE  /\ WritesBack(fr, f, o.frames, o.file)
           /\ DOMAIN o.frames = DOMAIN fr
           /\ o.res = "Ok" => \A p \in S : ~o.frames[p].dirty
<1>1. \/ /\ o = Flushed("Ok", Cleaned(fr, S), WrittenTo(f, fr, S))
         /\ \A p \in S : CanFlush(fr, p)
      \/ \E W \in SUBSET S : \E p \in S \ W :
           /\ \A q \in W : CanFlush(fr, q)
           /\ o \in FlushFailures(Cleaned(fr, W), WrittenTo(f, fr, W), p)
  BY DEF FlushOutcomes
<1>2. CASE /\ o = Flushed("Ok", Cleaned(fr, S), WrittenTo(f, fr, S))
           /\ \A p \in S : CanFlush(fr, p)
  <2>1. /\ DOMAIN Cleaned(fr, S) = DOMAIN fr
        /\ \A p \in S : ~Cleaned(fr, S)[p].dirty
    BY CleanedType
  <2>2. WritesBack(fr, f, Cleaned(fr, S), WrittenTo(f, fr, S))
    BY <1>2, WrittenBackInFull
  <2>3. o.frames = Cleaned(fr, S) /\ o.file = WrittenTo(f, fr, S)
    BY <1>2 DEF Flushed
  <2>4. QED
    BY <2>1, <2>2, <2>3
<1>3. ASSUME NEW W \in SUBSET S, NEW p \in S \ W,
             \A q \in W : CanFlush(fr, q),
             o \in FlushFailures(Cleaned(fr, W), WrittenTo(f, fr, W), p)
      PROVE  /\ WritesBack(fr, f, o.frames, o.file)
             /\ DOMAIN o.frames = DOMAIN fr
             /\ o.res # "Ok"
  <2> DEFINE fr1 == Cleaned(fr, W)
             f1 == WrittenTo(f, fr, W)
  <2>1. WritesBack(fr, f, fr1, f1)
    BY <1>3, WrittenBackInFull
  <2>2. DOMAIN fr1 = DOMAIN fr /\ \A q \in W : ~fr1[q].dirty
    BY CleanedType
  <2>3. \A q \in DOMAIN fr : q \notin W => fr1[q] = fr[q]
    BY DEF Cleaned
  <2>4. IsFrames(fr1) /\ f1 \in File /\ Backed(mgr, f1)
    BY <2>1 DEF WritesBack, Backed
  <2>5. \A q \in DataPages : q \notin W => f1.pages[q] = f.pages[q]
    BY WrittenToType
  <2> HIDE DEF fr1, f1
  <2>6. /\ o.frames = fr1 /\ o.res # "Ok"
        /\ WritesBack(fr1, f1, fr1, o.file)
    BY <1>3, <2>2, <2>4, FailureEffect DEF fr1, f1
  <2>7. WritesBack(fr, f, fr1, o.file)
    <3>1. \A q \in DOMAIN fr1 : fr[q].dirty => fr1[q].dirty \/ o.file.pages[q] = fr[q].data
      BY <2>1, <2>2, <2>4, <2>6 DEF WritesBack, IsFrames
    <3>2. \A q \in DataPages :
            \/ o.file.pages[q] = f.pages[q]
            \/ q \in DOMAIN fr /\ fr[q].dirty /\ Writable(mgr)
      BY <2>1, <2>2, <2>6 DEF WritesBack
    <3>3. QED
      BY <2>1, <2>2, <2>6, <3>1, <3>2 DEF WritesBack
  <2>8. QED
    BY <2>2, <2>6, <2>7
<1>4. QED
  BY <1>1, <1>2, <1>3

\* Evicting one unpinned page, or failing to.
LEMMA EvictionEffect ==
    ASSUME mgr \in Manager, NEW fr, IsFrames(fr), NEW f \in File, Backed(mgr, f),
           NEW v \in DOMAIN fr, fr[v].pin = 0, NEW o \in EvictionOutcomes(fr, f, v)
    PROVE  /\ WritesBack(fr, f, o.frames, o.file)
           /\ o.res = "Ok" => DOMAIN o.frames = DOMAIN fr \ {v}
           /\ o.res # "Ok" => DOMAIN o.frames = DOMAIN fr
<1>1. PICK w \in FlushOutcomes(fr, f, {v}) :
        o = IF w.res = "Ok" THEN Flushed("Ok", Without(w.frames, v), w.file) ELSE w
  BY DEF EvictionOutcomes
<1>2. WritesBack(fr, f, w.frames, w.file) /\ DOMAIN w.frames = DOMAIN fr
  BY FlushEffect
<1>3. CASE w.res = "Ok"
  <2>1. o.res = "Ok" /\ o.frames = Without(w.frames, v) /\ o.file = w.file
    BY <1>1, <1>3 DEF Flushed
  <2>2. /\ DOMAIN Without(w.frames, v) = DOMAIN fr \ {v}
        /\ \A p \in DOMAIN fr \ {v} : Without(w.frames, v)[p] = w.frames[p]
    BY <1>2 DEF Without
  <2>3. IsFrames(Without(w.frames, v))
    BY <1>2, <2>2 DEF IsFrames, WritesBack, Without
  <2>4. WritesBack(fr, f, Without(w.frames, v), w.file)
    BY <1>2, <2>2, <2>3 DEF WritesBack
  <2>5. QED
    BY <2>1, <2>2, <2>4
<1>4. CASE w.res # "Ok"
  BY <1>1, <1>2, <1>4
<1>5. QED
  BY <1>3, <1>4

LEMMA EnsureSpaceEffect ==
    ASSUME mgr \in Manager, NEW fr, IsFrames(fr), NEW f \in File, Backed(mgr, f),
           NEW o \in EnsureSpaceOutcomes(fr, f)
    PROVE  /\ WritesBack(fr, f, o.frames, o.file)
           /\ o.res = "Ok" =>
                \/ o.frames = fr /\ ~Full(fr)
                \/ \E v \in DOMAIN fr \cap Victims(fr) : DOMAIN o.frames = DOMAIN fr \ {v}
           /\ o.res # "Ok" => DOMAIN o.frames = DOMAIN fr
<1>1. WritesBack(fr, f, fr, f)
  BY DEF WritesBack, IsFrames
<1>2. CASE ~Full(fr)
  BY <1>1, <1>2 DEF EnsureSpaceOutcomes, Flushed
<1>3. CASE Full(fr) /\ Victims(fr) = {}
  BY <1>1, <1>3 DEF EnsureSpaceOutcomes, Flushed
<1>4. CASE Full(fr) /\ Victims(fr) # {}
  <2>1. PICK v \in Victims(fr) : o \in EvictionOutcomes(fr, f, v)
    BY <1>4 DEF EnsureSpaceOutcomes
  <2>2. v \in DOMAIN fr /\ fr[v].pin = 0
    BY DEF Victims, Unpinned
  <2>3. QED
    BY <2>1, <2>2, EvictionEffect
<1>5. QED
  BY <1>2, <1>3, <1>4

LEMMA StampedType ==
    ASSUME NEW fr, IsFrames(fr), clock \in 0 .. ClockLimit
    PROVE  /\ IsFrames(Stamped(fr))
           /\ DOMAIN Stamped(fr) = DOMAIN fr
           /\ NextClock \in 1 .. ClockLimit
           /\ \A p \in DOMAIN fr :
                /\ Stamped(fr)[p].data = fr[p].data
                /\ Stamped(fr)[p].pin = fr[p].pin
                /\ Stamped(fr)[p].dirty = fr[p].dirty
                /\ Stamped(fr)[p].used = IF clock = ClockLimit THEN 0 ELSE fr[p].used
<1>1. \A p \in DOMAIN fr : fr[p] \in Frame
  BY DEF IsFrames
<1>2. NextClock \in 1 .. ClockLimit
  BY PoolConstants DEF NextClock
<1>3. CASE clock = ClockLimit
  <2>1. /\ DOMAIN Stamped(fr) = DOMAIN fr
        /\ \A p \in DOMAIN fr : Stamped(fr)[p] = [fr[p] EXCEPT !.used = 0]
    BY <1>3 DEF Stamped
  <2>2. ASSUME NEW p \in DOMAIN fr
        PROVE  /\ Stamped(fr)[p] \in Frame
               /\ Stamped(fr)[p].data = fr[p].data
               /\ Stamped(fr)[p].pin = fr[p].pin
               /\ Stamped(fr)[p].dirty = fr[p].dirty
               /\ Stamped(fr)[p].used = 0
    BY <1>1, <2>1, PoolConstants DEF Frame
  <2>3. Stamped(fr) \in [DOMAIN fr -> Frame]
    BY <1>3, <2>1, <2>2 DEF Stamped
  <2>4. QED
    BY <1>2, <1>3, <2>1, <2>2, <2>3 DEF IsFrames
<1>4. CASE clock # ClockLimit
  BY <1>2, <1>4 DEF Stamped
<1>5. QED
  BY <1>3, <1>4

\* The frame of a page just read or allocated, and adding it.
LEMMA NewFrameType ==
    ASSUME clock \in 0 .. ClockLimit, NEW bytes \in Bytes
    PROVE  /\ NewFrame(bytes) \in Frame
           /\ NewFrame(bytes).data = bytes
           /\ NewFrame(bytes).dirty = FALSE
           /\ NewFrame(bytes).pin = 1
           /\ NewFrame(bytes).used = NextClock
<1>1. NextClock \in 0 .. ClockLimit
  BY PoolConstants DEF NextClock
<1>2. QED
  BY <1>1, PoolConstants DEF NewFrame, Frame

LEMMA WithType ==
    ASSUME NEW fr, IsFrames(fr), NEW p \in DataPages, NEW frame \in Frame
    PROVE  /\ IsFrames(With(fr, p, frame))
           /\ DOMAIN With(fr, p, frame) = DOMAIN fr \cup {p}
           /\ With(fr, p, frame)[p] = frame
           /\ \A q \in DOMAIN fr : q # p => With(fr, p, frame)[q] = fr[q]
BY DEF With, IsFrames

-----------------------------------------------------------------------------
(* The books: types, what an open or closed pool looks like, and the pin   *)
(* counts.  Pin counts keep guarded pages cached, cached pages keep DropGuard *)
(* on frames that exist: neither invariant is inductive without the other. *)

PoolState ==
    /\ mgr = Closed => Cached = {} /\ \A g \in Guards : held[g] = NoPage
    /\ mgr # Closed => Backed(mgr, file)
    /\ file.root >= 1
    /\ \A p \in Cached : Allocated(mgr, p)
    /\ \A g \in Guards : loan[g] # "none" => held[g] # NoPage

Books == TypeOK /\ PoolState /\ GuardedPagesCached /\ PinsMatchGuards

Holders(p) == {g \in Guards : held[g] = p}

LEMMA HoldersFinite ==
    ASSUME TypeOK, NEW p
    PROVE  /\ IsFiniteSet(Holders(p))
           /\ Cardinality(Holders(p)) \in Nat
           /\ Cardinality(Holders(p)) = 0 <=> Holders(p) = {}
<1>1. Holders(p) \subseteq Guards
  BY DEF Holders
<1>2. IsFiniteSet(Holders(p))
  BY <1>1, PoolConstants, FS_Subset
<1>3. QED
  BY <1>2, FS_CardinalityType, FS_EmptySet

LEMMA CachedFrames ==
    ASSUME TypeOK
    PROVE  /\ IsFrames(frames)
           /\ \A p \in Cached : /\ p \in DataPages
                                /\ frames[p] \in Frame
                                /\ frames[p].pin \in 0 .. PinLimit
BY DEF TypeOK, IsFrames, Cached, Frame

LEMMA GuardsPin ==
    ASSUME Books, NEW g \in Guards, held[g] # NoPage
    PROVE  held[g] \in Cached /\ frames[held[g]].pin # 0
<1>1. held[g] \in Cached
  BY DEF Books, GuardedPagesCached
<1>2. g \in Holders(held[g])
  BY DEF Holders
<1>3. frames[held[g]].pin = Cardinality(Holders(held[g]))
  BY <1>1 DEF Books, PinsMatchGuards, Holders
<1>4. TypeOK
  BY DEF Books
<1>5. QED
  BY <1>1, <1>2, <1>3, <1>4, HoldersFinite

\* Frames with the pins of the cached ones, but for unpinned pages that left.
KeepsPins(fr) ==
    /\ DOMAIN fr \subseteq Cached
    /\ \A p \in DOMAIN fr : fr[p].pin = frames[p].pin
    /\ \A p \in Cached \ DOMAIN fr : frames[p].pin = 0

LEMMA WritingBackKeepsPins ==
    ASSUME NEW fr, KeepsPins(fr), NEW f, NEW fr2, NEW f2, WritesBack(fr, f, fr2, f2)
    PROVE  KeepsPins(fr2)
BY DEF WritesBack, KeepsPins

\* A step that at most evicts, with the guards as they are.
LEMMA KeptPinsBooks ==
    ASSUME Books, KeepsPins(frames'), held' = held
    PROVE  GuardedPagesCached' /\ PinsMatchGuards'
<1>1. GuardedPagesCached'
  BY GuardsPin DEF GuardedPagesCached, Cached, KeepsPins
<1>2. PinsMatchGuards'
  BY DEF PinsMatchGuards, Books, Cached, KeepsPins
<1>3. QED
  BY <1>1, <1>2

\* A step that also pins a page that was not cached for a new guard.
LEMMA NewFrameKeepsBooks ==
    ASSUME Books, NEW fr, KeepsPins(fr),
           NEW g \in Guards, held[g] = NoPage, NEW p \in DataPages, p \notin Cached,
           DOMAIN frames' = DOMAIN fr \cup {p}, frames'[p].pin = 1,
           \A q \in DOMAIN fr : q # p => frames'[q] = fr[q],
           held' = [held EXCEPT ![g] = p]
    PROVE  GuardedPagesCached' /\ PinsMatchGuards'
<1>1. held \in [Guards -> DataPages \cup {NoPage}]
  BY DEF Books, TypeOK
<1>2. DOMAIN fr \subseteq Cached /\ \A q \in DOMAIN fr : fr[q].pin = frames[q].pin
  BY DEF KeepsPins
<1>3. \A q \in Cached \ DOMAIN fr : frames[q].pin = 0
  BY DEF KeepsPins
<1>4. GuardedPagesCached'
  <2>1. ASSUME NEW h \in Guards, held'[h] # NoPage
        PROVE  held'[h] \in DOMAIN frames'
    <3>1. CASE h = g
      BY <3>1, <1>1
    <3>2. CASE h # g
      <4>1. held'[h] = held[h] /\ held[h] # NoPage
        BY <1>1, <2>1, <3>2
      <4>2. held[h] \in DOMAIN fr
        BY <4>1, <1>3, GuardsPin
      <4>3. QED
        BY <4>1, <4>2
    <3>3. QED
      BY <3>1, <3>2
  <2>2. QED
    BY <2>1 DEF GuardedPagesCached, Cached
<1>5. PinsMatchGuards'
  <2>1. \A h \in Guards : held[h] # p
    BY PoolConstants DEF Books, GuardedPagesCached
  <2>2. {h \in Guards : held'[h] = p} = {g}
    BY <1>1, <2>1
  <2>3. Cardinality({h \in Guards : held'[h] = p}) = 1
    BY <2>2, FS_Singleton
  <2>4. ASSUME NEW q \in DOMAIN fr, q # p
        PROVE  frames'[q].pin = Cardinality({h \in Guards : held'[h] = q})
    <3>1. q \in DataPages /\ q # NoPage
      BY <1>2, PoolConstants DEF Books, TypeOK
    <3>2. {h \in Guards : held'[h] = q} = {h \in Guards : held[h] = q}
      BY <1>1, <2>4, <3>1
    <3>3. frames[q].pin = Cardinality({h \in Guards : held[h] = q})
      BY <1>2 DEF Books, PinsMatchGuards
    <3>4. QED
      BY <1>2, <2>4, <3>2, <3>3
  <2>5. QED
    BY <2>3, <2>4 DEF PinsMatchGuards, Cached
<1>6. QED
  BY <1>4, <1>5

LEMMA BooksInit == Init => Books
<1> SUFFICES ASSUME Init PROVE Books
  OBVIOUS
<1>1. CreatedFile \in File /\ CreatedFile.root = PageIdLimit
      /\ CreatedFile.next = 1 /\ CreatedFile.len = 1
  <2>1. [p \in DataPages |-> Zero] \in [DataPages -> Bytes]
    BY ConstantTypes DEF Bytes
  <2>2. EncodeRoot(NoRoot) = PageIdLimit
    BY DEF EncodeRoot
  <2>3. CreatedFile = [len |-> 1, ragged |-> FALSE, next |-> 1, root |-> PageIdLimit,
                       pages |-> [p \in DataPages |-> Zero]]
    BY <2>2 DEF CreatedFile, FirstDataPageId
  <2>4. QED
    BY <2>1, <2>3, ConstantTypes DEF File
<1>2. mgr = [next |-> 1, root |-> NoRoot, readOnly |-> FALSE] /\ mgr \in Manager
  BY <1>1, ConstantTypes DEF Init, OpenManager, DecodeRoot, Manager
<1>3. Cached = {} /\ frames \in [Cached -> Frame]
  BY DEF Init, NoFrames, Cached
<1>4. TypeOK
  <2>1. file \in File
    BY <1>1 DEF Init
  <2>2. clock \in 0 .. ClockLimit
    BY PoolConstants DEF Init
  <2>3. held \in [Guards -> DataPages \cup {NoPage}] /\ loan \in [Guards -> {"none", "read", "write"}]
    BY DEF Init
  <2>4. unsynced \subseteq DataPages /\ older \subseteq DataPages \X DataPages
    BY DEF Init
  <2>5. committed \in [DataPages -> Bytes \cup {NoBytes}]
    BY DEF Init
  <2>6. QED
    BY <1>2, <1>3, <2>1, <2>2, <2>3, <2>4, <2>5 DEF TypeOK
<1>5. PoolState
  <2>1. Backed(mgr, file)
    <3>1. file.root = PageIdLimit /\ file.next = 1 /\ file.len = 1
      BY <1>1 DEF Init
    <3>2. mgr.next = 1
      BY <1>2
    <3>3. QED
      BY <3>1, <3>2, ConstantTypes DEF Backed
  <2>2. file.root >= 1
    BY <1>1, ConstantTypes DEF Init
  <2>3. \A g \in Guards : held[g] = NoPage /\ loan[g] = "none"
    BY DEF Init
  <2>4. QED
    BY <1>3, <2>1, <2>2, <2>3 DEF PoolState
<1>6. GuardedPagesCached /\ PinsMatchGuards
  BY <1>3 DEF Init, GuardedPagesCached, PinsMatchGuards
<1>7. QED
  BY <1>4, <1>5, <1>6 DEF Books

LEMMA TouchedType ==
    ASSUME TypeOK, NEW p \in DataPages, NEW C \in SUBSET DataPages
    PROVE  /\ Touched(p, C) \subseteq DataPages \X DataPages
           /\ Remaining(C) \subseteq DataPages \X DataPages
BY DEF TypeOK, Touched, Remaining

\* The types of a step that leaves the frames `frames'` and the file `file'`.
LEMMA TypeStep ==
    ASSUME TypeOK, IsFrames(frames'), file' \in File,
           mgr' \in Manager \cup {Closed}, clock' \in 0 .. ClockLimit,
           held' \in [Guards -> DataPages \cup {NoPage}],
           loan' \in [Guards -> {"none", "read", "write"}],
           unsynced' \subseteq DataPages,
           committed' \in [DataPages -> Bytes \cup {NoBytes}],
           older' \subseteq DataPages \X DataPages
    PROVE  TypeOK'
BY DEF TypeOK, IsFrames, Cached

LEMMA PinHitBooks ==
    ASSUME Books, NEW g \in Guards, NEW p \in DataPages, PinHit(g, p)
    PROVE  Books'
<1> DEFINE st == Stamped(frames)
<1>1. TypeOK /\ PoolState /\ p \in Cached /\ mgr # Closed
  BY DEF Books, PinHit
<1>2. /\ IsFrames(st)
      /\ DOMAIN st = Cached
      /\ NextClock \in 1 .. ClockLimit
      /\ \A q \in Cached : st[q].pin = frames[q].pin /\ st[q] \in Frame
  BY <1>1, CachedFrames, StampedType DEF TypeOK, IsFrames, Cached
<1>3. clock' \in 0 .. ClockLimit
  BY <1>2, PoolConstants DEF PinHit
<1>4. /\ mgr' = mgr /\ file' = file /\ loan' = loan
      /\ unsynced' = unsynced /\ committed' = committed
  BY DEF PinHit
<1> HIDE DEF st
<1>5. CASE PinExhausted(p)
  <2>1. frames' = st /\ held' = held /\ older' = older
    BY <1>5 DEF PinHit, st
  <2>2. TypeOK'
    BY <1>1, <1>2, <1>3, <1>4, <2>1, TypeStep DEF TypeOK
  <2>3. PoolState'
    BY <1>1, <1>2, <1>4, <2>1 DEF PoolState, Cached
  <2>4. GuardedPagesCached' /\ PinsMatchGuards'
    BY <1>2, <2>1 DEF Books, GuardedPagesCached, PinsMatchGuards, Cached
  <2>5. QED
    BY <2>2, <2>3, <2>4 DEF Books
<1>6. CASE ~PinExhausted(p)
  <2>1. /\ frames' = [st EXCEPT ![p] = [st[p] EXCEPT !.pin = @ + 1, !.used = NextClock]]
        /\ held' = [held EXCEPT ![g] = p]
        /\ older' = Touched(p, Cached)
        /\ held[g] = NoPage
    BY <1>6 DEF PinHit, st, Acquire
  <2>2. frames[p].pin \in 0 .. PinLimit /\ frames[p].pin # PinLimit
    BY <1>1, <1>6, CachedFrames DEF PinExhausted
  <2>3. /\ DOMAIN frames' = Cached
        /\ frames'[p] = [st[p] EXCEPT !.pin = st[p].pin + 1, !.used = NextClock]
        /\ \A q \in Cached : q # p => frames'[q] = st[q]
    BY <1>1, <1>2, <2>1
  <2>4. frames'[p] \in Frame /\ frames'[p].pin = frames[p].pin + 1
    <3>1. st[p] \in Frame /\ st[p].pin = frames[p].pin
      BY <1>1, <1>2
    <3>2. frames'[p] = [data |-> st[p].data, dirty |-> st[p].dirty, pin |-> frames[p].pin + 1,
                        used |-> NextClock]
      BY <2>3, <3>1 DEF Frame
    <3>3. QED
      BY <1>2, <2>2, <3>1, <3>2, PoolConstants DEF Frame
  <2>5. IsFrames(frames')
    <3>1. \A q \in Cached : frames'[q] \in Frame
      BY <1>2, <2>3, <2>4
    <3>2. frames' \in [Cached -> Frame]
      BY <2>1, <2>4, <2>3, <1>2, <3>1 DEF IsFrames
    <3>3. QED
      BY <2>3, <3>2, <1>1 DEF IsFrames, TypeOK
  <2>6. held \in [Guards -> DataPages \cup {NoPage}]
    BY <1>1 DEF TypeOK
  <2>7. TypeOK'
    <3>1. older' \subseteq DataPages \X DataPages
      BY <1>1, <2>1, TouchedType DEF TypeOK
    <3>2. held' \in [Guards -> DataPages \cup {NoPage}]
      BY <2>1, <2>6
    <3>3. QED
      BY <1>1, <1>3, <1>4, <2>5, <3>1, <3>2, TypeStep DEF TypeOK
  <2>8. PoolState'
    BY <1>1, <1>4, <2>1, <2>3, <2>6, PoolConstants DEF PoolState, Cached
  <2>9. GuardedPagesCached'
    BY <1>1, <2>1, <2>3, <2>6 DEF Books, GuardedPagesCached, Cached
  <2>10. PinsMatchGuards'
    <3>1. {h \in Guards : held'[h] = p} = Holders(p) \cup {g} /\ g \notin Holders(p)
      BY <2>1, <2>6, PoolConstants DEF Holders
    <3>2. Cardinality({h \in Guards : held'[h] = p}) = Cardinality(Holders(p)) + 1
      BY <1>1, <3>1, HoldersFinite, FS_AddElement
    <3>3. frames[p].pin = Cardinality(Holders(p))
      BY <1>1 DEF Books, PinsMatchGuards, Holders
    <3>4. ASSUME NEW q \in Cached, q # p
          PROVE  frames'[q].pin = Cardinality({h \in Guards : held'[h] = q})
      <4>1. q # NoPage
        BY <1>1, CachedFrames, PoolConstants
      <4>2. {h \in Guards : held'[h] = q} = {h \in Guards : held[h] = q}
        BY <2>1, <2>6, <3>4, <4>1
      <4>3. QED
        BY <1>2, <2>3, <3>4, <4>2 DEF Books, PinsMatchGuards
    <3>5. QED
      BY <2>3, <2>4, <3>2, <3>3, <3>4 DEF PinsMatchGuards, Cached
  <2>11. QED
    BY <2>7, <2>8, <2>9, <2>10 DEF Books
<1>7. QED
  BY <1>5, <1>6

\* What every action that runs on an open pool starts from.
LEMMA OpenPool ==
    ASSUME Books, mgr # Closed
    PROVE  /\ TypeOK /\ PoolState
           /\ mgr \in Manager /\ file \in File /\ Backed(mgr, file)
           /\ IsFrames(frames) /\ KeepsPins(frames)
           /\ IsFrames(Stamped(frames)) /\ KeepsPins(Stamped(frames))
           /\ clock \in 0 .. ClockLimit /\ NextClock \in 0 .. ClockLimit
           /\ mgr.next \in Nat /\ mgr.next >= 1
<1>1. TypeOK /\ PoolState /\ mgr \in Manager /\ file \in File /\ clock \in 0 .. ClockLimit
  BY DEF Books, TypeOK
<1>2. IsFrames(frames)
  BY <1>1, CachedFrames
<1>3. /\ IsFrames(Stamped(frames)) /\ DOMAIN Stamped(frames) = DOMAIN frames
      /\ NextClock \in 1 .. ClockLimit
      /\ \A p \in DOMAIN frames : Stamped(frames)[p].pin = frames[p].pin
  BY <1>1, <1>2, StampedType
<1>4. mgr.next \in Nat /\ mgr.next >= 1
  BY <1>1, ConstantTypes DEF Manager
<1>5. QED
  BY <1>1, <1>2, <1>3, <1>4, PoolConstants DEF PoolState, KeepsPins, Cached

\* A step that writes back and evicts, with manager and guards as they are.
LEMMA WritingBackBooks ==
    ASSUME Books, mgr # Closed, NEW fr, IsFrames(fr), KeepsPins(fr),
           WritesBack(fr, file, frames', file'),
           mgr' = mgr, held' = held, loan' = loan,
           clock' \in 0 .. ClockLimit,
           unsynced' \subseteq DataPages,
           committed' \in [DataPages -> Bytes \cup {NoBytes}],
           older' \subseteq DataPages \X DataPages
    PROVE  Books'
<1>1. /\ TypeOK /\ PoolState /\ mgr \in Manager /\ Backed(mgr, file)
  BY OpenPool
<1>2. /\ IsFrames(frames') /\ file' \in File
      /\ file'.len = file.len /\ file'.next = file.next /\ file'.root = file.root
      /\ KeepsPins(frames')
  BY WritingBackKeepsPins DEF WritesBack
<1>3. TypeOK'
  BY <1>1, <1>2, TypeStep DEF TypeOK
<1>4. PoolState'
  BY <1>1, <1>2 DEF PoolState, Backed, Cached, KeepsPins
<1>5. QED
  BY <1>2, <1>3, <1>4, KeptPinsBooks DEF Books

\* A step that pins page p, new to the cache, for guard g.
LEMMA NewFrameBooks ==
    ASSUME Books, mgr # Closed, NEW fr, IsFrames(fr), KeepsPins(fr),
           NEW g \in Guards, held[g] = NoPage, NEW p \in DataPages, p \notin Cached,
           NEW bytes \in Bytes, frames' = With(fr, p, NewFrame(bytes)),
           held' = [held EXCEPT ![g] = p], loan' = loan, clock' = NextClock,
           mgr' \in Manager, file' \in File, Backed(mgr', file'),
           p < mgr'.next, mgr'.next >= mgr.next,
           unsynced' \subseteq DataPages, committed' = committed,
           older' = Touched(p, DOMAIN frames')
    PROVE  Books'
<1>1. /\ TypeOK /\ PoolState /\ mgr \in Manager
      /\ clock \in 0 .. ClockLimit /\ NextClock \in 0 .. ClockLimit
      /\ mgr.next \in Nat
  BY OpenPool
<1>2. /\ IsFrames(frames') /\ DOMAIN frames' = DOMAIN fr \cup {p}
      /\ frames'[p].pin = 1
      /\ \A q \in DOMAIN fr : q # p => frames'[q] = fr[q]
  <2> DEFINE frame == NewFrame(bytes)
  <2>1. frame \in Frame /\ frame.pin = 1
    BY <1>1, NewFrameType
  <2>2. frames' = With(fr, p, frame)
    OBVIOUS
  <2> HIDE DEF frame
  <2>3. /\ IsFrames(With(fr, p, frame))
        /\ DOMAIN With(fr, p, frame) = DOMAIN fr \cup {p}
        /\ With(fr, p, frame)[p] = frame
        /\ \A q \in DOMAIN fr : q # p => With(fr, p, frame)[q] = fr[q]
    BY <2>1, WithType
  <2>4. QED
    BY <2>1, <2>2, <2>3
<1>3. held' \in [Guards -> DataPages \cup {NoPage}]
  BY <1>1 DEF TypeOK
<1>4. TypeOK'
  <2>1. older' \subseteq DataPages \X DataPages
    BY <1>1, <1>2, TouchedType DEF IsFrames
  <2>2. QED
    BY <1>1, <1>2, <1>3, <2>1, TypeStep DEF TypeOK
<1>5. PoolState'
  <2>1. \A h \in Guards : loan'[h] # "none" => held'[h] # NoPage
    BY <1>1, PoolConstants DEF PoolState, TypeOK
  <2>2. ASSUME NEW q \in DOMAIN frames'
        PROVE  Allocated(mgr', q)
    <3>1. q \in DOMAIN fr \/ q = p
      BY <1>2
    <3>2. q \in DOMAIN fr => Allocated(mgr, q)
      BY <1>1 DEF PoolState, KeepsPins
    <3>3. q \in Nat /\ q >= 1 /\ mgr'.next \in Nat
      BY <1>2, ConstantTypes DEF IsFrames, Manager
    <3>4. QED
      BY <1>1, <3>1, <3>2, <3>3 DEF Allocated, FirstDataPageId
  <2>3. mgr' # Closed
    BY PoolConstants
  <2>4. QED
    BY <2>1, <2>2, <2>3 DEF PoolState, Backed, Cached
<1>6. GuardedPagesCached' /\ PinsMatchGuards'
  BY <1>2, NewFrameKeepsBooks
<1>7. QED
  BY <1>4, <1>5, <1>6 DEF Books

LEMMA PinMissBooks ==
    ASSUME Books, NEW g \in Guards, NEW p \in DataPages, PinMiss(g, p)
    PROVE  Books'
<1> DEFINE st == Stamped(frames)
<1>1. mgr # Closed
  BY DEF PinMiss
<1>2. /\ TypeOK /\ mgr \in Manager /\ file \in File /\ Backed(mgr, file)
      /\ IsFrames(st) /\ KeepsPins(st)
      /\ mgr.next \in Nat
  BY <1>1, OpenPool
<1>3. PICK o \in EnsureSpaceOutcomes(st, file) :
        /\ frames' = With(o.frames, p, NewFrame(o.file.pages[p]))
        /\ FileBecomes(o.file)
  BY DEF PinMiss
<1> HIDE DEF st
<1>4. /\ p \notin Cached /\ held[g] = NoPage /\ p < mgr.next
      /\ clock' = NextClock /\ held' = [held EXCEPT ![g] = p]
      /\ older' = Touched(p, DOMAIN frames')
      /\ mgr' = mgr /\ loan' = loan /\ committed' = committed
  BY DEF PinMiss, Acquire, Allocated
<1>5. WritesBack(st, file, o.frames, o.file)
  BY <1>2, <1>3, EnsureSpaceEffect
<1>6. IsFrames(o.frames) /\ KeepsPins(o.frames)
  BY <1>2, <1>5, WritingBackKeepsPins DEF WritesBack
<1>7. /\ file' = o.file /\ file' \in File /\ unsynced' \subseteq DataPages
      /\ mgr' \in Manager /\ Backed(mgr', file') /\ mgr'.next >= mgr.next /\ p < mgr'.next
  BY <1>2, <1>3, <1>4, <1>5 DEF FileBecomes, TypeOK, WritesBack, Backed
<1> DEFINE bytes == o.file.pages[p]
           fr == o.frames
<1>8. bytes \in Bytes /\ frames' = With(fr, p, NewFrame(bytes))
  BY <1>3, <1>7 DEF File
<1> HIDE DEF bytes
<1>9. QED
  BY <1>1, <1>4, <1>6, <1>7, <1>8, NewFrameBooks

LEMMA PinMissFailsBooks ==
    ASSUME Books, PinMissFails
    PROVE  Books'
<1>1. mgr # Closed
  BY DEF PinMissFails
<1>2. /\ TypeOK /\ mgr \in Manager /\ file \in File /\ Backed(mgr, file)
      /\ IsFrames(Stamped(frames)) /\ KeepsPins(Stamped(frames))
      /\ NextClock \in 0 .. ClockLimit
  BY <1>1, OpenPool
<1>3. PICK o \in EnsureSpaceOutcomes(Stamped(frames), file) :
        frames' = o.frames /\ FileBecomes(o.file)
  BY DEF PinMissFails
<1>4. WritesBack(Stamped(frames), file, frames', file')
  BY <1>2, <1>3, EnsureSpaceEffect DEF FileBecomes
<1>5. unsynced' \subseteq DataPages /\ committed' \in [DataPages -> Bytes \cup {NoBytes}]
  BY <1>2, <1>3 DEF FileBecomes, TypeOK, PinMissFails
<1>6. older' \subseteq DataPages \X DataPages
  BY <1>2 DEF PinMissFails, Remaining, TypeOK
<1>7. QED
  BY <1>1, <1>2, <1>4, <1>5, <1>6, WritingBackBooks DEF PinMissFails
LEMMA AllocatePageBooks ==
    ASSUME Books, NEW g \in Guards, AllocatePage(g)
    PROVE  Books'
<1> DEFINE p == mgr.next
<1>1. mgr # Closed
  BY DEF AllocatePage
<1>2. /\ TypeOK /\ PoolState /\ mgr \in Manager /\ file \in File /\ Backed(mgr, file)
      /\ IsFrames(frames) /\ KeepsPins(frames) /\ clock \in 0 .. ClockLimit
      /\ mgr.next \in Nat /\ mgr.next >= 1
  BY <1>1, OpenPool
<1>3. PICK o \in EnsureSpaceOutcomes(frames, file) :
        /\ \E a \in AllocatePageOutcomes(mgr, o.file) :
             a.res = "Ok" /\ mgr' = a.mgr /\ FileBecomes(a.file)
        /\ frames' = With(Stamped(o.frames), p, NewFrame(Zero))
  BY DEF AllocatePage
<1>4. WritesBack(frames, file, o.frames, o.file)
  BY <1>2, EnsureSpaceEffect
<1>5. /\ IsFrames(o.frames) /\ KeepsPins(o.frames)
      /\ o.file \in File /\ Backed(mgr, o.file)
  BY <1>2, <1>4, WritingBackKeepsPins DEF WritesBack, Backed
<1>6. PICK a \in AllocatePageOutcomes(mgr, o.file) :
        a.res = "Ok" /\ mgr' = a.mgr /\ FileBecomes(a.file)
  BY <1>3
<1>7. /\ a.mgr \in Manager /\ a.file \in File /\ Backed(a.mgr, a.file)
      /\ p \in DataPages /\ a.mgr.next = p + 1
  BY <1>2, <1>5, <1>6, AllocateEffect
<1>8. /\ file' \in File /\ unsynced' \subseteq DataPages
      /\ mgr' \in Manager /\ Backed(mgr', file') /\ mgr'.next >= mgr.next /\ p < mgr'.next
  <2>1. p + 1 >= p /\ p < p + 1
    BY <1>2
  <2>2. QED
    BY <1>2, <1>6, <1>7, <2>1 DEF FileBecomes, TypeOK
<1> DEFINE fr == Stamped(o.frames)
<1>9. IsFrames(fr) /\ KeepsPins(fr)
  BY <1>2, <1>5, StampedType DEF KeepsPins
<1>10. p \notin Cached
  BY <1>2 DEF PoolState, Allocated
<1>11. Zero \in Bytes /\ frames' = With(fr, p, NewFrame(Zero))
  BY <1>3, ConstantTypes DEF Bytes
<1>12. /\ held[g] = NoPage /\ held' = [held EXCEPT ![g] = p]
       /\ loan' = loan /\ clock' = NextClock /\ committed' = committed
       /\ older' = Touched(p, DOMAIN frames')
  BY DEF AllocatePage, Acquire
<1> HIDE DEF fr, p
<1>13. QED
  BY <1>1, <1>7, <1>8, <1>9, <1>10, <1>11, <1>12, NewFrameBooks

LEMMA AllocatePageFailsBooks ==
    ASSUME Books, AllocatePageFails
    PROVE  Books'
<1>1. mgr # Closed
  BY DEF AllocatePageFails
<1>2. /\ TypeOK /\ PoolState /\ mgr \in Manager /\ file \in File /\ Backed(mgr, file)
      /\ IsFrames(frames) /\ KeepsPins(frames) /\ mgr.next \in Nat
  BY <1>1, OpenPool
<1>3. PICK o \in EnsureSpaceOutcomes(frames, file) :
        /\ frames' = o.frames
        /\ \/ mgr' = mgr /\ FileBecomes(o.file)
           \/ \E a \in AllocatePageOutcomes(mgr, o.file) :
                mgr' = a.mgr /\ FileBecomes(a.file)
  BY DEF AllocatePageFails
<1>4. WritesBack(frames, file, frames', o.file)
  BY <1>2, <1>3, EnsureSpaceEffect
<1>5. IsFrames(frames') /\ KeepsPins(frames') /\ o.file \in File /\ Backed(mgr, o.file)
  BY <1>2, <1>4, WritingBackKeepsPins DEF WritesBack, Backed
<1>6. /\ mgr' \in Manager /\ file' \in File /\ Backed(mgr', file')
      /\ mgr'.next >= mgr.next /\ unsynced' \subseteq DataPages
  <2>1. CASE mgr' = mgr /\ FileBecomes(o.file)
    BY <2>1, <1>2, <1>5 DEF FileBecomes, TypeOK
  <2>2. ASSUME NEW a \in AllocatePageOutcomes(mgr, o.file), mgr' = a.mgr, FileBecomes(a.file)
        PROVE  /\ mgr' \in Manager /\ file' \in File /\ Backed(mgr', file')
               /\ mgr'.next >= mgr.next /\ unsynced' \subseteq DataPages
    <3>1. /\ a.mgr \in Manager /\ a.file \in File /\ Backed(a.mgr, a.file)
          /\ a.mgr.next >= mgr.next
      BY <1>2, <1>5, AllocateEffect
    <3>2. QED
      BY <2>2, <3>1, <1>2 DEF FileBecomes, TypeOK
  <2>3. QED
    BY <1>3, <2>1, <2>2
<1>7. /\ clock' = clock /\ held' = held /\ loan' = loan /\ committed' = committed
      /\ older' \subseteq DataPages \X DataPages
  BY <1>2 DEF AllocatePageFails, Remaining, TypeOK
<1>8. TypeOK'
  BY <1>2, <1>5, <1>6, <1>7, TypeStep DEF TypeOK
<1>9. PoolState'
  <2>1. ASSUME NEW q \in DOMAIN frames'
        PROVE  Allocated(mgr', q)
    <3>1. Allocated(mgr, q)
      BY <1>2, <1>5 DEF PoolState, KeepsPins
    <3>2. q \in Nat /\ mgr'.next \in Nat
      BY <1>5, <1>6, ConstantTypes DEF IsFrames, Manager
    <3>3. QED
      BY <1>2, <1>6, <3>1, <3>2 DEF Allocated
  <2>2. mgr' # Closed
    BY <1>6, PoolConstants
  <2>3. QED
    BY <1>2, <1>6, <1>7, <2>1, <2>2 DEF PoolState, Backed, Cached
<1>10. QED
  BY <1>5, <1>7, <1>8, <1>9, KeptPinsBooks DEF Books

LEMMA BorrowBooks ==
    ASSUME Books, NEW g \in Guards, BorrowRead(g) \/ BorrowWrite(g) \/ EndBorrow(g)
    PROVE  Books'
<1>1. /\ mgr' = mgr /\ file' = file /\ frames' = frames /\ clock' = clock
      /\ held' = held /\ unsynced' = unsynced /\ committed' = committed /\ older' = older
  BY DEF BorrowRead, BorrowWrite, EndBorrow
<1>2. \E kind \in {"none", "read", "write"} :
        loan' = [loan EXCEPT ![g] = kind] /\ (kind # "none" => held[g] # NoPage)
  BY DEF BorrowRead, BorrowWrite, EndBorrow
<1>3. TypeOK'
  BY <1>1, <1>2 DEF Books, TypeOK, Cached
<1>4. PoolState'
  BY <1>1, <1>2 DEF Books, TypeOK, PoolState, Cached
<1>5. GuardedPagesCached' /\ PinsMatchGuards'
  BY <1>1 DEF Books, GuardedPagesCached, PinsMatchGuards, Cached
<1>6. QED
  BY <1>3, <1>4, <1>5 DEF Books

LEMMA WritePageBooks ==
    ASSUME Books, NEW g \in Guards, NEW bytes \in Content, WritePage(g, bytes)
    PROVE  Books'
<1> DEFINE p == held[g]
<1>1. TypeOK /\ PoolState
  BY DEF Books
<1>2. p # NoPage
  BY <1>1 DEF WritePage, PoolState
<1>3. p \in Cached
  BY <1>2 DEF Books, GuardedPagesCached
<1>4. p \in DataPages /\ frames[p] \in Frame /\ IsFrames(frames)
  BY <1>1, <1>3, CachedFrames
<1>5. /\ mgr' = mgr /\ file' = file /\ clock' = clock /\ held' = held
      /\ loan' = loan /\ unsynced' = unsynced /\ older' = older
      /\ committed' = [committed EXCEPT ![p] = NoBytes]
      /\ frames' = [frames EXCEPT ![p] = [frames[p] EXCEPT !.data = bytes, !.dirty = TRUE]]
  BY DEF WritePage
<1> HIDE DEF p
<1>6. /\ DOMAIN frames' = Cached
      /\ frames'[p] = [frames[p] EXCEPT !.data = bytes, !.dirty = TRUE]
      /\ \A q \in Cached : q # p => frames'[q] = frames[q]
  BY <1>3, <1>4, <1>5 DEF IsFrames, Cached
<1>7. frames'[p] \in Frame /\ frames'[p].pin = frames[p].pin
  <2>1. frames'[p] = [data |-> bytes, dirty |-> TRUE, pin |-> frames[p].pin, used |-> frames[p].used]
    BY <1>4, <1>6 DEF Frame
  <2>2. bytes \in Bytes
    BY DEF Bytes
  <2>3. QED
    BY <1>4, <2>1, <2>2 DEF Frame
<1>8. IsFrames(frames')
  <2>1. \A q \in Cached : frames'[q] \in Frame
    BY <1>4, <1>6, <1>7 DEF IsFrames, Cached
  <2>2. frames' \in [Cached -> Frame]
    BY <1>4, <1>5, <1>6, <1>7, <2>1 DEF IsFrames, Cached
  <2>3. QED
    BY <1>4, <1>6, <2>2 DEF IsFrames, Cached
<1>9. TypeOK'
  BY <1>1, <1>5, <1>8, TypeStep DEF TypeOK
<1>10. PoolState'
  BY <1>1, <1>5, <1>6 DEF PoolState, Cached
<1>11. GuardedPagesCached' /\ PinsMatchGuards'
  BY <1>5, <1>6, <1>7 DEF Books, GuardedPagesCached, PinsMatchGuards, Cached
<1>12. QED
  BY <1>9, <1>10, <1>11 DEF Books

LEMMA DropGuardBooks ==
    ASSUME Books, NEW g \in Guards, DropGuard(g)
    PROVE  Books'
<1> DEFINE p == held[g]
<1>1. TypeOK /\ PoolState /\ held \in [Guards -> DataPages \cup {NoPage}]
  BY DEF Books, TypeOK
<1>2. p # NoPage /\ loan[g] = "none"
  BY DEF DropGuard
<1>3. p \in Cached /\ frames[p].pin # 0
  BY <1>2, GuardsPin
<1>4. p \in DataPages /\ frames[p] \in Frame /\ frames[p].pin \in 0 .. PinLimit /\ IsFrames(frames)
  BY <1>1, <1>3, CachedFrames
<1>5. /\ mgr' = mgr /\ file' = file /\ clock' = clock /\ loan' = loan
      /\ unsynced' = unsynced /\ committed' = committed /\ older' = older
      /\ held' = [held EXCEPT ![g] = NoPage]
      /\ frames' = [frames EXCEPT ![p] = [frames[p] EXCEPT !.pin = frames[p].pin - 1]]
  BY DEF DropGuard
<1>6. g \in Holders(p)
  BY DEF Holders
<1> HIDE DEF p
<1>7. /\ DOMAIN frames' = Cached
      /\ frames'[p] = [frames[p] EXCEPT !.pin = frames[p].pin - 1]
      /\ \A q \in Cached : q # p => frames'[q] = frames[q]
  BY <1>3, <1>4, <1>5 DEF IsFrames, Cached
<1>8. frames'[p] \in Frame /\ frames'[p].pin = frames[p].pin - 1
  <2>1. frames'[p] = [data |-> frames[p].data, dirty |-> frames[p].dirty,
                      pin |-> frames[p].pin - 1, used |-> frames[p].used]
    BY <1>4, <1>7 DEF Frame
  <2>2. frames[p].pin - 1 \in 0 .. PinLimit
    BY <1>3, <1>4, PoolConstants
  <2>3. QED
    BY <1>4, <2>1, <2>2 DEF Frame
<1>9. IsFrames(frames')
  <2>1. \A q \in Cached : frames'[q] \in Frame
    BY <1>4, <1>7, <1>8 DEF IsFrames, Cached
  <2>2. frames' \in [Cached -> Frame]
    BY <1>4, <1>5, <1>7, <1>8, <2>1 DEF IsFrames, Cached
  <2>3. QED
    BY <1>4, <1>7, <2>2 DEF IsFrames, Cached
<1>10. TypeOK'
  BY <1>1, <1>5, <1>9, TypeStep DEF TypeOK
<1>11. PoolState'
  BY <1>1, <1>2, <1>5, <1>7 DEF PoolState, Cached
<1>12. GuardedPagesCached'
  BY <1>1, <1>5, <1>7 DEF Books, GuardedPagesCached, Cached
<1>13. PinsMatchGuards'
  <2>1. {h \in Guards : held'[h] = p} = Holders(p) \ {g}
    BY <1>1, <1>2, <1>4, <1>5, PoolConstants DEF Holders
  <2>2. Cardinality({h \in Guards : held'[h] = p}) = Cardinality(Holders(p)) - 1
    BY <1>1, <1>6, <2>1, HoldersFinite, FS_RemoveElement
  <2>3. frames[p].pin = Cardinality(Holders(p))
    BY <1>3 DEF Books, PinsMatchGuards, Holders
  <2>4. ASSUME NEW q \in Cached, q # p
        PROVE  frames'[q].pin = Cardinality({h \in Guards : held'[h] = q})
    <3>1. q # NoPage
      BY <1>1, CachedFrames, PoolConstants
    <3>2. held[g] # q
      BY <2>4 DEF p
    <3>3. {h \in Guards : held'[h] = q} = {h \in Guards : held[h] = q}
      BY <1>1, <1>5, <3>1, <3>2
    <3>4. QED
      BY <1>7, <2>4, <3>3 DEF Books, PinsMatchGuards
  <2>5. QED
    BY <1>7, <1>8, <2>2, <2>3, <2>4 DEF PinsMatchGuards, Cached
<1>14. QED
  BY <1>10, <1>11, <1>12, <1>13 DEF Books
LEMMA FlushBooks ==
    ASSUME Books, NEW S \in SUBSET Cached, Flush(S)
    PROVE  Books'
<1>1. mgr # Closed
  BY DEF Flush
<1>2. /\ TypeOK /\ mgr \in Manager /\ file \in File /\ Backed(mgr, file)
      /\ IsFrames(frames) /\ KeepsPins(frames)
  BY <1>1, OpenPool
<1>3. PICK o \in FlushOutcomes(frames, file, S) : frames' = o.frames /\ FileBecomes(o.file)
  BY DEF Flush
<1>4. WritesBack(frames, file, frames', file')
  BY <1>2, <1>3, FlushEffect DEF FileBecomes, Cached
<1>5. /\ mgr' = mgr /\ clock' = clock /\ held' = held /\ loan' = loan
      /\ committed' = committed /\ older' = older /\ unsynced' \subseteq DataPages
  BY <1>2, <1>3 DEF Flush, FileBecomes, TypeOK
<1>6. QED
  BY <1>1, <1>2, <1>4, <1>5, WritingBackBooks DEF TypeOK

\* What a sync promises is bytes of pages.
LEMMA SyncedPagesType ==
    ASSUME NEW f \in File
    PROVE  SyncedPages(f) \in [DataPages -> Bytes \cup {NoBytes}]
BY DEF SyncedPages, File

LEMMA SyncBooks ==
    ASSUME Books, Sync
    PROVE  Books'
<1>1. mgr # Closed
  BY DEF Sync
<1>2. /\ TypeOK /\ mgr \in Manager /\ file \in File /\ Backed(mgr, file)
      /\ IsFrames(frames) /\ KeepsPins(frames)
  BY <1>1, OpenPool
<1>3. PICK o \in FlushOutcomes(frames, file, Cached) :
        frames' = o.frames /\ file' = o.file /\ committed' = SyncedPages(o.file)
  BY DEF Sync
<1>4. WritesBack(frames, file, frames', file')
  BY <1>2, <1>3, FlushEffect DEF Cached
<1>5. committed' \in [DataPages -> Bytes \cup {NoBytes}]
  BY <1>3, <1>4, SyncedPagesType DEF WritesBack
<1>6. QED
  BY <1>1, <1>2, <1>4, <1>5, WritingBackBooks DEF Sync, TypeOK

LEMMA SetCatalogRootBooks ==
    ASSUME Books, NEW p \in DataPages, SetCatalogRoot(p)
    PROVE  Books'
<1>1. mgr # Closed
  BY DEF SetCatalogRoot
<1>2. /\ TypeOK /\ PoolState /\ mgr \in Manager /\ file \in File /\ Backed(mgr, file)
      /\ IsFrames(frames)
  BY <1>1, OpenPool
<1>3. PICK o \in SetCatalogRootOutcomes(mgr, file, p) : mgr' = o.mgr /\ file' = o.file
  BY DEF SetCatalogRoot
<1>4. /\ mgr' \in Manager /\ file' \in File /\ Backed(mgr', file') /\ mgr'.next = mgr.next
  BY <1>2, <1>3, SetCatalogRootEffect
<1>5. /\ frames' = frames /\ clock' = clock /\ held' = held /\ loan' = loan
      /\ unsynced' = unsynced /\ committed' = committed /\ older' = older
  BY DEF SetCatalogRoot
<1>6. TypeOK'
  BY <1>2, <1>4, <1>5, TypeStep DEF TypeOK
<1>7. PoolState'
  BY <1>2, <1>4, <1>5, PoolConstants DEF PoolState, Backed, Cached, Allocated
<1>8. GuardedPagesCached' /\ PinsMatchGuards'
  BY <1>5 DEF Books, GuardedPagesCached, PinsMatchGuards, Cached
<1>9. QED
  BY <1>6, <1>7, <1>8 DEF Books

\* A step after which the cache is empty and no guard exists.
LEMMA EmptiedBooks ==
    ASSUME TypeOK, Emptied, file' \in File, file'.root >= 1,
           mgr' \in Manager \cup {Closed},
           mgr' # Closed => Backed(mgr', file'),
           unsynced' \subseteq DataPages,
           committed' \in [DataPages -> Bytes \cup {NoBytes}]
    PROVE  Books'
<1>1. /\ DOMAIN frames' = {} /\ IsFrames(frames') /\ clock' \in 0 .. ClockLimit
      /\ \A g \in Guards : held'[g] = NoPage /\ loan'[g] = "none"
  BY PoolConstants DEF Emptied, NoFrames, IsFrames
<1>2. /\ held' \in [Guards -> DataPages \cup {NoPage}]
      /\ loan' \in [Guards -> {"none", "read", "write"}]
      /\ older' \subseteq DataPages \X DataPages
  BY DEF Emptied
<1>3. TypeOK'
  BY <1>1, <1>2, TypeStep
<1>4. PoolState'
  BY <1>1 DEF PoolState, Cached
<1>5. GuardedPagesCached' /\ PinsMatchGuards'
  BY <1>1 DEF GuardedPagesCached, PinsMatchGuards, Cached
<1>6. QED
  BY <1>3, <1>4, <1>5 DEF Books

LEMMA CloseBooks ==
    ASSUME Books, Close
    PROVE  Books'
<1>1. mgr # Closed /\ Emptied
  BY DEF Close
<1>2. /\ TypeOK /\ PoolState /\ mgr \in Manager /\ file \in File /\ Backed(mgr, file)
      /\ IsFrames(frames)
  BY <1>1, OpenPool
<1>3. PICK o \in FlushOutcomes(frames, file, Cached) :
        \/ /\ file' = o.file /\ committed' = SyncedPages(o.file) /\ unsynced' = {}
           /\ mgr' \in {mgr, Closed}
        \/ FileBecomes(o.file) /\ mgr' = Closed /\ committed' = committed
  BY DEF Close
<1>4. WritesBack(frames, file, o.frames, o.file)
  BY <1>2, <1>3, FlushEffect DEF Cached
<1>5. file' = o.file /\ file' \in File /\ file'.root >= 1 /\ Backed(mgr, file')
  BY <1>2, <1>3, <1>4 DEF FileBecomes, WritesBack, Backed, PoolState
<1>6. /\ mgr' \in {mgr, Closed} /\ unsynced' \subseteq DataPages
      /\ committed' \in [DataPages -> Bytes \cup {NoBytes}]
  BY <1>2, <1>3, <1>5, SyncedPagesType DEF FileBecomes, TypeOK
<1>7. QED
  BY <1>1, <1>2, <1>5, <1>6, EmptiedBooks

LEMMA StopBooks ==
    ASSUME Books, Stop
    PROVE  Books'
<1>1. TypeOK /\ PoolState
  BY DEF Books
<1>2. Emptied /\ mgr' = Closed
  BY DEF Stop
<1>3. file' = file /\ unsynced' = unsynced /\ committed' = committed
  BY DEF Stop
<1>4. file \in File /\ file.root >= 1 /\ unsynced \subseteq DataPages
      /\ committed \in [DataPages -> Bytes \cup {NoBytes}]
  BY <1>1 DEF TypeOK, PoolState
<1>5. QED
  BY <1>1, <1>2, <1>3, <1>4, EmptiedBooks

\* The header on disk makes a manager.
LEMMA OpenedManager ==
    ASSUME NEW f \in File, Openable(f), f.root >= 1, NEW readOnly \in BOOLEAN
    PROVE  OpenManager(f, readOnly) \in Manager /\ OpenManager(f, readOnly).next = f.next
<1>1. f.next \in 1 .. PageIdLimit /\ f.root \in 1 .. PageIdLimit
  BY ConstantTypes DEF File, Openable, FirstDataPageId
<1>2. DecodeRoot(f.root) \in DataPages \cup {NoRoot}
  BY <1>1, ConstantTypes DEF DecodeRoot
<1>3. QED
  BY <1>1, <1>2 DEF OpenManager, Manager

LEMMA OpenBooks ==
    ASSUME Books, NEW readOnly \in BOOLEAN, Open(readOnly)
    PROVE  Books'
<1>1. TypeOK /\ PoolState
  BY DEF Books
<1>2. /\ mgr = Closed /\ Openable(file) /\ mgr' = OpenManager(file, readOnly)
      /\ file' = file /\ frames' = frames /\ clock' = clock /\ held' = held
      /\ loan' = loan /\ unsynced' = unsynced /\ committed' = committed /\ older' = older
  BY DEF Open
<1>3. Cached = {} /\ (\A g \in Guards : held[g] = NoPage) /\ file.root >= 1
  BY <1>1, <1>2 DEF PoolState
<1>4. file.next \in Nat /\ file.root \in Nat /\ file.len \in Nat
  BY <1>1, ConstantTypes DEF TypeOK, File
<1>5. mgr'.next = file.next /\ mgr' \in Manager
  BY <1>1, <1>2, <1>3, OpenedManager DEF TypeOK
<1>6. Backed(mgr', file')
  BY <1>2, <1>3, <1>4, <1>5 DEF Backed, Openable
<1>7. TypeOK'
  BY <1>1, <1>2, <1>5 DEF TypeOK, Cached
<1>8. PoolState'
  BY <1>1, <1>2, <1>3, <1>5, <1>6, PoolConstants DEF PoolState, Cached
<1>9. GuardedPagesCached' /\ PinsMatchGuards'
  BY <1>2 DEF Books, GuardedPagesCached, PinsMatchGuards, Cached
<1>10. QED
  BY <1>7, <1>8, <1>9 DEF Books

LEMMA BooksStep == Books /\ [Next]_vars => Books'
<1> SUFFICES ASSUME Books, [Next]_vars PROVE Books'
  OBVIOUS
<1>1. CASE UNCHANGED vars
  BY <1>1 DEF vars, Books, TypeOK, PoolState, GuardedPagesCached, PinsMatchGuards, Cached
<1>2. ASSUME NEW g \in Guards, NEW p \in DataPages, PinHit(g, p) \/ PinMiss(g, p)
      PROVE  Books'
  BY <1>2, PinHitBooks, PinMissBooks
<1>3. CASE PinMissFails
  BY <1>3, PinMissFailsBooks
<1>4. ASSUME NEW g \in Guards, AllocatePage(g)
      PROVE  Books'
  BY <1>4, AllocatePageBooks
<1>5. CASE AllocatePageFails
  BY <1>5, AllocatePageFailsBooks
<1>6. ASSUME NEW g \in Guards, BorrowRead(g) \/ BorrowWrite(g) \/ EndBorrow(g) \/ DropGuard(g)
      PROVE  Books'
  BY <1>6, BorrowBooks, DropGuardBooks
<1>7. ASSUME NEW g \in Guards, NEW bytes \in Content, WritePage(g, bytes)
      PROVE  Books'
  BY <1>7, WritePageBooks
<1>8. ASSUME NEW p \in DataPages, FlushPage(p) \/ SetCatalogRoot(p)
      PROVE  Books'
  BY <1>8, FlushBooks, SetCatalogRootBooks DEF FlushPage
<1>9. CASE FlushAll
  BY <1>9, FlushBooks DEF FlushAll
<1>10. CASE Sync
  BY <1>10, SyncBooks
<1>11. CASE Close
  BY <1>11, CloseBooks
<1>12. CASE Stop
  BY <1>12, StopBooks
<1>13. ASSUME NEW readOnly \in BOOLEAN, Open(readOnly)
       PROVE  Books'
  BY <1>13, OpenBooks
<1>14. QED
  BY <1>1, <1>2, <1>3, <1>4, <1>5, <1>6, <1>7, <1>8, <1>9, <1>10, <1>11, <1>12, <1>13 DEF Next

\* The books are always in order.
THEOREM BooksInvariant == Spec => []Books
BY BooksInit, BooksStep, PTL DEF Spec

(* Every variable keeps its type: page ids stay below the limit, stamps    *)
(* below the clock's and pin counts between 0 and their limit, so neither  *)
(* the checked additions nor the subtraction in PageGuard::drop overflow.  *)
THEOREM TypeCorrect == Spec => []TypeOK
BY BooksInvariant, PTL DEF Books

(* No eviction, failed write or reopening takes away the frame of a live   *)
(* PageGuard.                                                              *)
THEOREM GuardsKeepFrames == Spec => []GuardedPagesCached
BY BooksInvariant, PTL DEF Books

(* Pin counts are exactly the numbers of live guards of their pages.       *)
THEOREM PinCountsExact == Spec => []PinsMatchGuards
BY BooksInvariant, PTL DEF Books

-----------------------------------------------------------------------------
(* What the pool keeps where: capacity, and the agreement of cached        *)
(* frames, the file and what was synced.  Both rest on Books.              *)

(* Capacity. *)

LEMMA CacheFinite ==
    ASSUME TypeOK
    PROVE  IsFiniteSet(Cached)
<1>1. IsFiniteSet(DataPages)
  BY ConstantTypes, FS_Interval
<1>2. QED
  BY <1>1, FS_Subset DEF TypeOK

LEMMA SmallerCache ==
    ASSUME TypeOK, CapacityRespected, DOMAIN frames' \subseteq Cached
    PROVE  CapacityRespected'
<1>1. /\ Cardinality(DOMAIN frames') <= Cardinality(Cached)
      /\ Cardinality(DOMAIN frames') \in Nat /\ Cardinality(Cached) \in Nat
  BY CacheFinite, FS_Subset, FS_CardinalityType
<1>2. QED
  BY <1>1, PoolConstants DEF CapacityRespected, Cached

\* ensure_space leaves room for one more frame.
LEMMA RoomForOne ==
    ASSUME Books, mgr # Closed, CapacityRespected,
           NEW fr, IsFrames(fr), DOMAIN fr = Cached,
           NEW o \in EnsureSpaceOutcomes(fr, file), o.res = "Ok",
           NEW p, DOMAIN frames' = DOMAIN o.frames \cup {p}
    PROVE  CapacityRespected'
<1>1. TypeOK /\ mgr \in Manager /\ file \in File /\ Backed(mgr, file)
  BY OpenPool
<1>2. \/ o.frames = fr /\ ~Full(fr)
      \/ \E v \in Cached : DOMAIN o.frames = Cached \ {v}
  BY <1>1, EnsureSpaceEffect
<1>3. /\ IsFiniteSet(Cached) /\ Cardinality(Cached) \in Nat
      /\ Capacity \in Nat /\ Cardinality(Cached) <= Capacity
  BY <1>1, CacheFinite, FS_CardinalityType, PoolConstants DEF CapacityRespected
<1>4. IsFiniteSet(DOMAIN o.frames) /\ Cardinality(DOMAIN o.frames) + 1 <= Capacity
  <2>1. CASE o.frames = fr /\ ~Full(fr)
    BY <2>1, <1>3 DEF Full
  <2>2. ASSUME NEW v \in Cached, DOMAIN o.frames = Cached \ {v}
        PROVE  IsFiniteSet(DOMAIN o.frames) /\ Cardinality(DOMAIN o.frames) + 1 <= Capacity
    <3>1. /\ IsFiniteSet(Cached \ {v})
          /\ Cardinality(Cached \ {v}) = Cardinality(Cached) - 1
      BY <1>3, FS_RemoveElement
    <3>2. QED
      BY <1>3, <2>2, <3>1
  <2>3. QED
    BY <1>2, <2>1, <2>2
<1>5. Cardinality(DOMAIN o.frames) \in Nat
  BY <1>4, FS_CardinalityType
<1>6. Cardinality(DOMAIN o.frames \cup {p}) <= Capacity
  <2>1. \/ Cardinality(DOMAIN o.frames \cup {p}) = Cardinality(DOMAIN o.frames)
        \/ Cardinality(DOMAIN o.frames \cup {p}) = Cardinality(DOMAIN o.frames) + 1
    BY <1>4, FS_AddElement
  <2>2. QED
    BY <1>3, <1>4, <1>5, <2>1
<1>7. QED
  BY <1>6 DEF CapacityRespected, Cached

LEMMA PinHitDomain ==
    ASSUME Books, NEW g \in Guards, NEW p \in DataPages, PinHit(g, p)
    PROVE  DOMAIN frames' = Cached
<1>1. DOMAIN Stamped(frames) = Cached
  BY CachedFrames, StampedType DEF Books, TypeOK, Cached
<1>2. QED
  BY <1>1 DEF PinHit

LEMMA CapacityStep == Books /\ CapacityRespected /\ [Next]_vars => CapacityRespected'
<1> SUFFICES ASSUME Books, CapacityRespected, [Next]_vars PROVE CapacityRespected'
  OBVIOUS
<1>1. TypeOK
  BY DEF Books
<1>2. CASE UNCHANGED vars
  BY <1>2 DEF vars, CapacityRespected, Cached
<1>3. ASSUME NEW g \in Guards, NEW p \in DataPages, PinHit(g, p)
      PROVE  CapacityRespected'
  BY <1>1, <1>3, PinHitDomain, SmallerCache
<1>4. ASSUME NEW g \in Guards, NEW p \in DataPages, PinMiss(g, p)
      PROVE  CapacityRespected'
  <2> DEFINE st == Stamped(frames)
  <2>1. mgr # Closed
    BY <1>4 DEF PinMiss
  <2>2. IsFrames(st) /\ DOMAIN st = Cached
    BY <1>1, CachedFrames, StampedType DEF TypeOK, Cached
  <2>3. PICK o \in EnsureSpaceOutcomes(st, file) :
          o.res = "Ok" /\ DOMAIN frames' = DOMAIN o.frames \cup {p}
    BY <1>4 DEF PinMiss, With
  <2> HIDE DEF st
  <2>4. QED
    BY <2>1, <2>2, <2>3, RoomForOne
<1>5. CASE PinMissFails
  <2> DEFINE st == Stamped(frames)
  <2>1. mgr # Closed
    BY <1>5 DEF PinMissFails
  <2>2. IsFrames(st) /\ DOMAIN st = Cached
    BY <1>1, CachedFrames, StampedType DEF TypeOK, Cached
  <2>3. PICK o \in EnsureSpaceOutcomes(st, file) : frames' = o.frames
    BY <1>5 DEF PinMissFails
  <2> HIDE DEF st
  <2>4. WritesBack(st, file, frames', o.file)
    BY <2>1, <2>2, <2>3, OpenPool, EnsureSpaceEffect
  <2>5. QED
    BY <1>1, <2>2, <2>4, SmallerCache DEF WritesBack
<1>6. ASSUME NEW g \in Guards, AllocatePage(g)
      PROVE  CapacityRespected'
  <2>1. mgr # Closed
    BY <1>6 DEF AllocatePage
  <2>2. IsFrames(frames)
    BY <1>1, CachedFrames
  <2>3. PICK o \in EnsureSpaceOutcomes(frames, file) :
          o.res = "Ok" /\ frames' = With(Stamped(o.frames), mgr.next, NewFrame(Zero))
    BY <1>6 DEF AllocatePage
  <2>4. IsFrames(o.frames)
    BY <2>1, <2>2, <2>3, OpenPool, EnsureSpaceEffect DEF WritesBack
  <2>5. DOMAIN Stamped(o.frames) = DOMAIN o.frames
    BY <1>1, <2>4, StampedType DEF TypeOK
  <2>6. DOMAIN frames' = DOMAIN o.frames \cup {mgr.next}
    BY <2>3, <2>5 DEF With
  <2>7. QED
    BY <2>1, <2>2, <2>3, <2>6, RoomForOne DEF Cached
<1>7. CASE AllocatePageFails
  <2>1. mgr # Closed
    BY <1>7 DEF AllocatePageFails
  <2>2. PICK o \in EnsureSpaceOutcomes(frames, file) : frames' = o.frames
    BY <1>7 DEF AllocatePageFails
  <2>3. WritesBack(frames, file, frames', o.file)
    BY <2>1, <2>2, OpenPool, EnsureSpaceEffect
  <2>4. QED
    BY <1>1, <2>3, SmallerCache DEF WritesBack, Cached
<1>8. ASSUME NEW g \in Guards, BorrowRead(g) \/ BorrowWrite(g) \/ EndBorrow(g) \/ DropGuard(g)
      PROVE  CapacityRespected'
  BY <1>1, <1>8, SmallerCache DEF BorrowRead, BorrowWrite, EndBorrow, DropGuard, Cached
<1>9. ASSUME NEW g \in Guards, NEW bytes \in Content, WritePage(g, bytes)
      PROVE  CapacityRespected'
  BY <1>1, <1>9, SmallerCache DEF WritePage, Cached
<1>10. ASSUME NEW S \in SUBSET Cached, Flush(S)
       PROVE  CapacityRespected'
  <2>1. mgr # Closed
    BY <1>10 DEF Flush
  <2>2. PICK o \in FlushOutcomes(frames, file, S) : frames' = o.frames
    BY <1>10 DEF Flush
  <2>3. DOMAIN frames' = Cached
    BY <2>1, <2>2, OpenPool, FlushEffect DEF Cached
  <2>4. QED
    BY <1>1, <2>3, SmallerCache
<1>11. CASE Sync
  <2>1. mgr # Closed
    BY <1>11 DEF Sync
  <2>2. PICK o \in FlushOutcomes(frames, file, Cached) : frames' = o.frames
    BY <1>11 DEF Sync
  <2>3. DOMAIN frames' = Cached
    BY <2>1, <2>2, OpenPool, FlushEffect DEF Cached
  <2>4. QED
    BY <1>1, <2>3, SmallerCache
<1>12. CASE Close \/ Stop
  BY <1>1, <1>12, SmallerCache DEF Close, Stop, Emptied, NoFrames
<1>13. ASSUME NEW p \in DataPages, SetCatalogRoot(p)
       PROVE  CapacityRespected'
  BY <1>13 DEF SetCatalogRoot, CapacityRespected, Cached
<1>14. ASSUME NEW readOnly \in BOOLEAN, Open(readOnly)
       PROVE  CapacityRespected'
  BY <1>14 DEF Open, CapacityRespected, Cached
<1>15. QED
  BY <1>2, <1>3, <1>4, <1>5, <1>6, <1>7, <1>8, <1>9, <1>10, <1>11, <1>12, <1>13, <1>14
     DEF Next, FlushPage, FlushAll

(* The cache never outgrows its capacity, whatever evictions failed.       *)
THEOREM CapacityKept == Spec => []CapacityRespected
<1>1. Init => CapacityRespected
  BY PoolConstants, FS_EmptySet DEF Init, NoFrames, CapacityRespected, Cached
<1>2. QED
  BY <1>1, BooksInvariant, CapacityStep, PTL DEF Spec
-----------------------------------------------------------------------------
(* Contents: frames, file, dirty flags and synced bytes.                   *)

\* Frames fr and file f agree with each other and with what was committed.
Agree(fr, f) ==
    /\ \A p \in DOMAIN fr : fr[p].dirty \/ fr[p].data = f.pages[p]
    /\ \A p \in DOMAIN fr : fr[p].dirty => Writable(mgr)
    /\ \A p \in DataPages : committed[p] # NoBytes =>
         /\ f.pages[p] = committed[p]
         /\ p < f.next
         /\ p \in DOMAIN fr => ~fr[p].dirty

Contents ==
    /\ Agree(frames, file)
    /\ \A g \in Guards : loan[g] = "write" => Writable(mgr)
    /\ \A p \in DataPages : committed[p] # NoBytes => p \notin unsynced

\* Frames that differ in pins and stamps only.
SameContents(fr, fr2) ==
    /\ DOMAIN fr2 = DOMAIN fr
    /\ \A p \in DOMAIN fr : fr2[p].data = fr[p].data /\ fr2[p].dirty = fr[p].dirty

LEMMA SameAgrees ==
    ASSUME NEW fr, NEW fr2, NEW f, Agree(fr, f), SameContents(fr, fr2)
    PROVE  Agree(fr2, f)
BY DEF Agree, SameContents

LEMMA WritingBackAgrees ==
    ASSUME NEW fr, NEW f, NEW fr2, NEW f2, Agree(fr, f), IsFrames(fr), WritesBack(fr, f, fr2, f2)
    PROVE  Agree(fr2, f2)
<1>1. ASSUME NEW p \in DOMAIN fr2
      PROVE  /\ fr2[p].dirty \/ fr2[p].data = f2.pages[p]
             /\ fr2[p].dirty => Writable(mgr)
  <2>1. p \in DOMAIN fr /\ p \in DataPages
    BY DEF WritesBack, IsFrames
  <2>2. QED
    BY <2>1 DEF WritesBack, Agree
<1>2. ASSUME NEW p \in DataPages, committed[p] # NoBytes
      PROVE  /\ f2.pages[p] = committed[p]
             /\ p < f2.next
             /\ p \in DOMAIN fr2 => ~fr2[p].dirty
  BY <1>2 DEF WritesBack, Agree
<1>3. QED
  BY <1>1, <1>2 DEF Agree

LEMMA StampedContents ==
    ASSUME TypeOK, NEW fr, IsFrames(fr)
    PROVE  SameContents(fr, Stamped(fr))
BY StampedType DEF TypeOK, SameContents

\* What a step has to leave behind when it promises nothing new.
LEMMA ContentsKept ==
    ASSUME Contents, committed' = committed, Writable(mgr)' = Writable(mgr),
           Agree(frames', file'),
           \A g \in Guards : loan'[g] = "write" => Writable(mgr),
           \A p \in DataPages : p \in unsynced' =>
               p \in unsynced \/ file'.pages[p] # file.pages[p]
    PROVE  Contents'
<1>1. Agree(frames, file)'
  BY DEF Agree
<1>2. \A p \in DataPages : committed'[p] # NoBytes => p \notin unsynced'
  BY DEF Contents, Agree
<1>3. QED
  BY <1>1, <1>2 DEF Contents

\* A new clean frame that holds what the file holds.
LEMMA NewFrameAgrees ==
    ASSUME NEW fr, NEW f, Agree(fr, f), IsFrames(fr), NEW p \in DataPages, p \notin DOMAIN fr,
           clock \in 0 .. ClockLimit, f.pages[p] \in Bytes
    PROVE  Agree(With(fr, p, NewFrame(f.pages[p])), f)
<1> DEFINE frame == NewFrame(f.pages[p])
<1>1. frame \in Frame /\ frame.data = f.pages[p] /\ frame.dirty = FALSE
  BY NewFrameType
<1> HIDE DEF frame
<1>2. /\ IsFrames(With(fr, p, frame))
      /\ DOMAIN With(fr, p, frame) = DOMAIN fr \cup {p}
      /\ With(fr, p, frame)[p] = frame
      /\ \A q \in DOMAIN fr : q # p => With(fr, p, frame)[q] = fr[q]
  BY <1>1, WithType, ZenonT(40)
<1>3. Agree(With(fr, p, frame), f)
  BY <1>1, <1>2 DEF Agree
<1>4. QED
  BY <1>3 DEF frame

LEMMA ContentsInit == Init => Contents
<1> SUFFICES ASSUME Init PROVE Contents
  OBVIOUS
<1>1. DOMAIN frames = {}
  BY DEF Init, NoFrames
<1>2. \A p \in DataPages : committed[p] = NoBytes
  BY DEF Init
<1>3. \A g \in Guards : loan[g] = "none"
  BY DEF Init
<1>4. QED
  BY <1>1, <1>2, <1>3 DEF Contents, Agree

LEMMA PinHitSame ==
    ASSUME Books, NEW g \in Guards, NEW p \in DataPages, PinHit(g, p)
    PROVE  SameContents(frames, frames')
<1> DEFINE st == Stamped(frames)
<1>1. TypeOK /\ IsFrames(frames) /\ p \in Cached
  BY CachedFrames DEF Books, PinHit
<1>2. SameContents(frames, st) /\ IsFrames(st) /\ DOMAIN st = Cached
  BY <1>1, StampedContents, StampedType DEF TypeOK, Cached
<1>3. \/ frames' = st
      \/ frames' = [st EXCEPT ![p] = [st[p] EXCEPT !.pin = @ + 1, !.used = NextClock]]
  BY DEF PinHit
<1> HIDE DEF st
<1>4. CASE frames' = st
  BY <1>2, <1>4
<1>5. CASE frames' = [st EXCEPT ![p] = [st[p] EXCEPT !.pin = @ + 1, !.used = NextClock]]
  <2>1. st[p] \in Frame
    BY <1>1, <1>2 DEF IsFrames
  <2>2. /\ DOMAIN frames' = DOMAIN st
        /\ frames'[p].data = st[p].data /\ frames'[p].dirty = st[p].dirty
        /\ \A q \in DOMAIN st : q # p => frames'[q] = st[q]
    BY <1>1, <1>2, <1>5, <2>1 DEF Frame
  <2>3. QED
    BY <1>1, <1>2, <2>2 DEF SameContents, Cached
<1>6. QED
  BY <1>3, <1>4, <1>5

LEMMA PinHitContents ==
    ASSUME Books, Contents, NEW g \in Guards, NEW p \in DataPages, PinHit(g, p)
    PROVE  Contents'
<1>1. /\ mgr' = mgr /\ file' = file /\ loan' = loan
      /\ unsynced' = unsynced /\ committed' = committed
  BY DEF PinHit
<1>2. Agree(frames', file')
  BY <1>1, PinHitSame, SameAgrees DEF Contents
<1>3. QED
  BY <1>1, <1>2, ContentsKept DEF Contents

LEMMA PinMissContents ==
    ASSUME Books, Contents, NEW g \in Guards, NEW p \in DataPages, PinMiss(g, p)
    PROVE  Contents'
<1> DEFINE st == Stamped(frames)
<1>1. mgr # Closed
  BY DEF PinMiss
<1>2. /\ TypeOK /\ mgr \in Manager /\ file \in File /\ Backed(mgr, file)
      /\ IsFrames(frames) /\ IsFrames(st) /\ clock \in 0 .. ClockLimit
  BY <1>1, OpenPool
<1>3. PICK o \in EnsureSpaceOutcomes(st, file) :
        /\ frames' = With(o.frames, p, NewFrame(o.file.pages[p]))
        /\ FileBecomes(o.file)
  BY DEF PinMiss
<1>4. SameContents(frames, st) /\ DOMAIN st = Cached
  BY <1>2, StampedContents DEF SameContents, Cached
<1> HIDE DEF st
<1>5. Agree(st, file)
  BY <1>4, SameAgrees DEF Contents
<1>6. WritesBack(st, file, o.frames, o.file)
  BY <1>2, <1>3, EnsureSpaceEffect
<1>7. Agree(o.frames, o.file) /\ IsFrames(o.frames) /\ p \notin DOMAIN o.frames /\ o.file \in File
  BY <1>2, <1>4, <1>5, <1>6, WritingBackAgrees DEF WritesBack, PinMiss
<1>8. o.file.pages[p] \in Bytes
  BY <1>7 DEF File
<1> DEFINE fr == o.frames
           f == o.file
<1>9. Agree(With(fr, p, NewFrame(f.pages[p])), f)
  BY <1>2, <1>7, <1>8, NewFrameAgrees
<1>10. frames' = With(fr, p, NewFrame(f.pages[p])) /\ file' = f
  BY <1>3 DEF FileBecomes
<1> HIDE DEF fr, f
<1>11. Agree(frames', file')
  BY <1>9, <1>10
<1>12. mgr' = mgr /\ loan' = loan /\ committed' = committed
  BY DEF PinMiss
<1>13. QED
  BY <1>3, <1>11, <1>12, ContentsKept DEF Contents, FileBecomes

LEMMA PinMissFailsContents ==
    ASSUME Books, Contents, PinMissFails
    PROVE  Contents'
<1> DEFINE st == Stamped(frames)
<1>1. mgr # Closed
  BY DEF PinMissFails
<1>2. /\ TypeOK /\ mgr \in Manager /\ file \in File /\ Backed(mgr, file)
      /\ IsFrames(frames) /\ IsFrames(st)
  BY <1>1, OpenPool
<1>3. PICK o \in EnsureSpaceOutcomes(st, file) : frames' = o.frames /\ FileBecomes(o.file)
  BY DEF PinMissFails
<1>4. SameContents(frames, st)
  BY <1>2, StampedContents
<1> HIDE DEF st
<1>5. Agree(st, file)
  BY <1>4, SameAgrees DEF Contents
<1>6. WritesBack(st, file, frames', file')
  BY <1>2, <1>3, EnsureSpaceEffect DEF FileBecomes
<1>7. Agree(frames', file')
  BY <1>2, <1>5, <1>6, WritingBackAgrees
<1>8. mgr' = mgr /\ loan' = loan /\ committed' = committed
  BY DEF PinMissFails
<1>9. QED
  BY <1>3, <1>7, <1>8, ContentsKept DEF Contents, FileBecomes

\* The file changes at page n only, which nothing cached or promised is.
LEMMA ExtendingAgrees ==
    ASSUME NEW fr, NEW f \in File, NEW f2 \in File, Agree(fr, f), IsFrames(fr),
           NEW n \in Nat, n \notin DOMAIN fr, f.next <= n, f2.next >= f.next,
           \A q \in DataPages : q # n => f2.pages[q] = f.pages[q]
    PROVE  Agree(fr, f2)
<1>1. f.next \in Nat /\ f2.next \in Nat /\ DataPages \subseteq Nat
  BY ConstantTypes DEF File
<1>2. ASSUME NEW p \in DOMAIN fr
      PROVE  fr[p].dirty \/ fr[p].data = f2.pages[p]
  BY DEF IsFrames, Agree
<1>3. ASSUME NEW p \in DataPages, committed[p] # NoBytes
      PROVE  f2.pages[p] = committed[p] /\ p < f2.next /\ (p \in DOMAIN fr => ~fr[p].dirty)
  <2>1. f.pages[p] = committed[p] /\ p < f.next /\ (p \in DOMAIN fr => ~fr[p].dirty)
    BY <1>3 DEF Agree
  <2>2. p # n /\ p < f2.next
    BY <1>1, <2>1
  <2>3. QED
    BY <2>1, <2>2
<1>4. QED
  BY <1>2, <1>3 DEF Agree

LEMMA AllocatePageContents ==
    ASSUME Books, Contents, NEW g \in Guards, AllocatePage(g)
    PROVE  Contents'
<1> DEFINE n == mgr.next
<1>1. mgr # Closed
  BY DEF AllocatePage
<1>2. /\ TypeOK /\ PoolState /\ mgr \in Manager /\ file \in File /\ Backed(mgr, file)
      /\ IsFrames(frames) /\ clock \in 0 .. ClockLimit /\ n \in Nat
  BY <1>1, OpenPool
<1>3. PICK o \in EnsureSpaceOutcomes(frames, file) :
        /\ \E a \in AllocatePageOutcomes(mgr, o.file) :
             a.res = "Ok" /\ mgr' = a.mgr /\ FileBecomes(a.file)
        /\ frames' = With(Stamped(o.frames), n, NewFrame(Zero))
  BY DEF AllocatePage
<1>4. WritesBack(frames, file, o.frames, o.file)
  BY <1>2, EnsureSpaceEffect
<1>5. /\ IsFrames(o.frames) /\ DOMAIN o.frames \subseteq Cached
      /\ o.file \in File /\ Backed(mgr, o.file)
  BY <1>2, <1>4 DEF WritesBack, Backed, Cached
<1>6. Agree(o.frames, o.file)
  BY <1>2, <1>4, WritingBackAgrees DEF Contents
<1>7. PICK a \in AllocatePageOutcomes(mgr, o.file) :
        a.res = "Ok" /\ mgr' = a.mgr /\ FileBecomes(a.file)
  BY <1>3
<1>8. /\ a.file \in File /\ a.mgr.readOnly = mgr.readOnly
      /\ a.file.next >= o.file.next
      /\ \A q \in DataPages : q # n => a.file.pages[q] = o.file.pages[q]
      /\ n \in DataPages /\ a.file.pages[n] = Zero
  BY <1>2, <1>5, <1>7, AllocateEffect
<1>9. n \notin Cached
  BY <1>2 DEF PoolState, Allocated
<1> DEFINE fr == Stamped(o.frames)
           f == a.file
<1>10. IsFrames(fr) /\ DOMAIN fr = DOMAIN o.frames /\ SameContents(o.frames, fr)
  BY <1>2, <1>5, StampedType, StampedContents
<1>11. Agree(fr, o.file)
  BY <1>6, <1>10, SameAgrees
<1>12. file' = f /\ unsynced' = unsynced \cup {p \in DataPages : f.pages[p] # file.pages[p]}
  BY <1>7 DEF FileBecomes
<1>13. frames' = With(fr, n, NewFrame(f.pages[n])) /\ Zero \in Bytes
  BY <1>3, <1>8, ConstantTypes DEF Bytes
<1> HIDE DEF fr, f, n
<1>14. Agree(fr, f)
  BY <1>2, <1>5, <1>8, <1>9, <1>10, <1>11, ExtendingAgrees DEF Backed, f, n
<1>15. Agree(frames', file')
  BY <1>2, <1>5, <1>8, <1>9, <1>10, <1>12, <1>13, <1>14, NewFrameAgrees DEF f
<1>16. Writable(mgr)' = Writable(mgr)
  BY <1>7, <1>8 DEF Writable
<1>17. loan' = loan /\ committed' = committed
  BY DEF AllocatePage
<1>18. QED
  BY <1>12, <1>15, <1>16, <1>17, ContentsKept DEF Contents

LEMMA AllocatePageFailsContents ==
    ASSUME Books, Contents, AllocatePageFails
    PROVE  Contents'
<1> DEFINE n == mgr.next
<1>1. mgr # Closed
  BY DEF AllocatePageFails
<1>2. /\ TypeOK /\ PoolState /\ mgr \in Manager /\ file \in File /\ Backed(mgr, file)
      /\ IsFrames(frames) /\ n \in Nat
  BY <1>1, OpenPool
<1>3. PICK o \in EnsureSpaceOutcomes(frames, file) :
        /\ frames' = o.frames
        /\ \/ mgr' = mgr /\ FileBecomes(o.file)
           \/ \E a \in AllocatePageOutcomes(mgr, o.file) :
                mgr' = a.mgr /\ FileBecomes(a.file)
  BY DEF AllocatePageFails
<1>4. WritesBack(frames, file, frames', o.file)
  BY <1>2, <1>3, EnsureSpaceEffect
<1>5. /\ IsFrames(frames') /\ DOMAIN frames' \subseteq Cached
      /\ o.file \in File /\ Backed(mgr, o.file)
  BY <1>2, <1>4 DEF WritesBack, Backed, Cached
<1>6. Agree(frames', o.file)
  BY <1>2, <1>4, WritingBackAgrees DEF Contents
<1>7. loan' = loan /\ committed' = committed
  BY DEF AllocatePageFails
<1>8. CASE mgr' = mgr /\ FileBecomes(o.file)
  BY <1>6, <1>7, <1>8, ContentsKept DEF Contents, FileBecomes
<1>9. ASSUME NEW a \in AllocatePageOutcomes(mgr, o.file), mgr' = a.mgr, FileBecomes(a.file)
      PROVE  Contents'
  <2>1. /\ a.file \in File /\ a.mgr.readOnly = mgr.readOnly
        /\ a.file.next >= o.file.next
        /\ \A q \in DataPages : q # n => a.file.pages[q] = o.file.pages[q]
    BY <1>2, <1>5, AllocateEffect
  <2>2. n \notin DOMAIN frames'
    BY <1>2, <1>5 DEF PoolState, Allocated
  <2> HIDE DEF n
  <2>3. Agree(frames', a.file)
    BY <1>2, <1>5, <1>6, <2>1, <2>2, ExtendingAgrees DEF Backed, n
  <2>4. Writable(mgr)' = Writable(mgr)
    BY <1>9, <2>1 DEF Writable
  <2>5. QED
    BY <1>7, <1>9, <2>3, <2>4, ContentsKept DEF Contents, FileBecomes
<1>10. QED
  BY <1>3, <1>8, <1>9

\* Taking and ending borrows, and dropping guards.
LEMMA GuardSame ==
    ASSUME Books, NEW g \in Guards,
           BorrowRead(g) \/ BorrowWrite(g) \/ EndBorrow(g) \/ DropGuard(g)
    PROVE  SameContents(frames, frames')
<1>1. IsFrames(frames)
  BY CachedFrames DEF Books
<1>2. CASE BorrowRead(g) \/ BorrowWrite(g) \/ EndBorrow(g)
  BY <1>2 DEF BorrowRead, BorrowWrite, EndBorrow, SameContents
<1>3. CASE DropGuard(g)
  <2> DEFINE p == held[g]
  <2>1. p \in Cached
    BY <1>3, GuardsPin DEF DropGuard
  <2>2. frames[p] \in Frame
    BY <1>1, <2>1 DEF IsFrames, Cached
  <2>3. frames' = [frames EXCEPT ![p] = [frames[p] EXCEPT !.pin = frames[p].pin - 1]]
    BY <1>3 DEF DropGuard
  <2> HIDE DEF p
  <2>4. /\ DOMAIN frames' = DOMAIN frames
        /\ frames'[p].data = frames[p].data /\ frames'[p].dirty = frames[p].dirty
        /\ \A q \in DOMAIN frames : q # p => frames'[q] = frames[q]
    BY <2>1, <2>2, <2>3 DEF Frame, Cached
  <2>5. QED
    BY <2>4 DEF SameContents
<1>4. QED
  BY <1>2, <1>3

LEMMA GuardContents ==
    ASSUME Books, Contents, NEW g \in Guards,
           BorrowRead(g) \/ BorrowWrite(g) \/ EndBorrow(g) \/ DropGuard(g)
    PROVE  Contents'
<1>1. TypeOK /\ loan \in [Guards -> {"none", "read", "write"}]
  BY DEF Books, TypeOK
<1>2. mgr' = mgr /\ file' = file /\ unsynced' = unsynced /\ committed' = committed
  BY DEF BorrowRead, BorrowWrite, EndBorrow, DropGuard
<1>3. \A h \in Guards : loan'[h] = "write" => Writable(mgr)
  BY <1>1 DEF BorrowRead, BorrowWrite, EndBorrow, DropGuard, FrameWritable, Contents
<1>4. Agree(frames', file')
  BY <1>2, GuardSame, SameAgrees DEF Contents
<1>5. QED
  BY <1>2, <1>3, <1>4, ContentsKept DEF Contents

LEMMA WritePageContents ==
    ASSUME Books, Contents, NEW g \in Guards, NEW bytes \in Content, WritePage(g, bytes)
    PROVE  Contents'
<1> DEFINE p == held[g]
<1>1. TypeOK /\ PoolState /\ IsFrames(frames) /\ committed \in [DataPages -> Bytes \cup {NoBytes}]
  BY CachedFrames DEF Books, TypeOK
<1>2. p # NoPage /\ Writable(mgr)
  BY <1>1 DEF WritePage, PoolState, Contents
<1>3. p \in Cached /\ p \in DataPages /\ frames[p] \in Frame
  BY <1>1, <1>2, GuardsPin, CachedFrames
<1>4. /\ mgr' = mgr /\ file' = file /\ loan' = loan /\ unsynced' = unsynced
      /\ committed' = [committed EXCEPT ![p] = NoBytes]
      /\ frames' = [frames EXCEPT ![p] = [frames[p] EXCEPT !.data = bytes, !.dirty = TRUE]]
  BY DEF WritePage
<1> HIDE DEF p
<1>5. /\ DOMAIN frames' = Cached
      /\ frames'[p].dirty = TRUE
      /\ \A q \in Cached : q # p => frames'[q] = frames[q]
  BY <1>1, <1>3, <1>4 DEF IsFrames, Cached, Frame
<1>6. \A q \in DataPages : committed'[q] # NoBytes => q # p /\ committed[q] = committed'[q]
  BY <1>1, <1>4
<1>7. Agree(frames, file)
  BY DEF Contents
<1>8. ASSUME NEW q \in DOMAIN frames'
      PROVE  /\ frames'[q].dirty \/ frames'[q].data = file.pages[q]
             /\ frames'[q].dirty => Writable(mgr)
  BY <1>2, <1>5, <1>7 DEF Agree, Cached
<1>9. ASSUME NEW q \in DataPages, committed'[q] # NoBytes
      PROVE  /\ file.pages[q] = committed'[q]
             /\ q < file.next
             /\ q \in DOMAIN frames' => ~frames'[q].dirty
  BY <1>5, <1>6, <1>7, <1>9 DEF Agree, Cached
<1>10. Agree(frames, file)'
  BY <1>4, <1>8, <1>9 DEF Agree
<1>11. QED
  BY <1>4, <1>6, <1>10 DEF Contents

LEMMA FlushContents ==
    ASSUME Books, Contents, NEW S \in SUBSET Cached, Flush(S)
    PROVE  Contents'
<1>1. mgr # Closed
  BY DEF Flush
<1>2. mgr \in Manager /\ file \in File /\ Backed(mgr, file) /\ IsFrames(frames)
  BY <1>1, OpenPool
<1>3. PICK o \in FlushOutcomes(frames, file, S) : frames' = o.frames /\ FileBecomes(o.file)
  BY DEF Flush
<1>4. WritesBack(frames, file, frames', file')
  BY <1>2, <1>3, FlushEffect DEF FileBecomes, Cached
<1>5. Agree(frames', file')
  BY <1>2, <1>4, WritingBackAgrees DEF Contents
<1>6. mgr' = mgr /\ loan' = loan /\ committed' = committed
  BY DEF Flush
<1>7. QED
  BY <1>3, <1>5, <1>6, ContentsKept DEF Contents, FileBecomes

LEMMA SyncContents ==
    ASSUME Books, Contents, Sync
    PROVE  Contents'
<1>1. mgr # Closed
  BY DEF Sync
<1>2. mgr \in Manager /\ file \in File /\ Backed(mgr, file) /\ IsFrames(frames)
  BY <1>1, OpenPool
<1>3. PICK o \in FlushOutcomes(frames, file, Cached) :
        /\ o.res = "Ok" /\ frames' = o.frames /\ file' = o.file
        /\ committed' = SyncedPages(o.file)
  BY DEF Sync
<1>4. /\ WritesBack(frames, file, frames', file')
      /\ DOMAIN frames' = Cached
      /\ \A p \in Cached : ~frames'[p].dirty
  BY <1>2, <1>3, FlushEffect DEF Cached
<1>5. Agree(frames', file')
  BY <1>2, <1>4, WritingBackAgrees DEF Contents
<1>6. mgr' = mgr /\ loan' = loan /\ unsynced' = {} /\ committed' = SyncedPages(file')
  BY <1>3 DEF Sync
<1>7. ASSUME NEW p \in DataPages, committed'[p] # NoBytes
      PROVE  /\ file'.pages[p] = committed'[p]
             /\ p < file'.next
  BY <1>6, <1>7 DEF SyncedPages
<1>8. Agree(frames, file)'
  BY <1>4, <1>5, <1>6, <1>7 DEF Agree
<1>9. QED
  BY <1>6, <1>8 DEF Contents

LEMMA SetCatalogRootContents ==
    ASSUME Books, Contents, NEW p \in DataPages, SetCatalogRoot(p)
    PROVE  Contents'
<1>1. mgr # Closed
  BY DEF SetCatalogRoot
<1>2. /\ PoolState /\ mgr \in Manager /\ file \in File /\ Backed(mgr, file)
      /\ IsFrames(frames) /\ mgr.next \in Nat
  BY <1>1, OpenPool
<1>3. PICK o \in SetCatalogRootOutcomes(mgr, file, p) : mgr' = o.mgr /\ file' = o.file
  BY DEF SetCatalogRoot
<1>4. /\ file' \in File /\ mgr'.readOnly = mgr.readOnly
      /\ file'.pages = file.pages /\ file'.next >= file.next
  BY <1>2, <1>3, SetCatalogRootEffect
<1>5. /\ frames' = frames /\ loan' = loan /\ unsynced' = unsynced /\ committed' = committed
  BY DEF SetCatalogRoot
<1>6. mgr.next \notin Cached
  BY <1>2 DEF PoolState, Allocated
<1>7. Agree(frames', file')
  BY <1>2, <1>4, <1>5, <1>6, ExtendingAgrees DEF Contents, Cached, Backed
<1>8. Writable(mgr)' = Writable(mgr)
  BY <1>4 DEF Writable
<1>9. QED
  BY <1>5, <1>7, <1>8, ContentsKept DEF Contents

\* No frame and no guard is left; what is promised stands in the file.
LEMMA EmptiedContents ==
    ASSUME Emptied,
           \A p \in DataPages : committed'[p] # NoBytes =>
             file'.pages[p] = committed'[p] /\ p < file'.next /\ p \notin unsynced'
    PROVE  Contents'
<1>1. DOMAIN frames' = {} /\ \A g \in Guards : loan'[g] = "none"
  BY DEF Emptied, NoFrames
<1>2. QED
  BY <1>1 DEF Contents, Agree

LEMMA CloseContents ==
    ASSUME Books, Contents, Close
    PROVE  Contents'
<1>1. mgr # Closed /\ Emptied
  BY DEF Close
<1>2. mgr \in Manager /\ file \in File /\ Backed(mgr, file) /\ IsFrames(frames)
  BY <1>1, OpenPool
<1>3. PICK o \in FlushOutcomes(frames, file, Cached) :
        \/ file' = o.file /\ committed' = SyncedPages(o.file) /\ unsynced' = {}
        \/ FileBecomes(o.file) /\ committed' = committed
  BY DEF Close
<1>4. Agree(o.frames, o.file)
  BY <1>2, <1>3, FlushEffect, WritingBackAgrees DEF Contents, Cached
<1>5. ASSUME NEW p \in DataPages, committed'[p] # NoBytes
      PROVE  file'.pages[p] = committed'[p] /\ p < file'.next /\ p \notin unsynced'
  <2>1. CASE file' = o.file /\ committed' = SyncedPages(o.file) /\ unsynced' = {}
    BY <1>5, <2>1 DEF SyncedPages
  <2>2. CASE FileBecomes(o.file) /\ committed' = committed
    <3>1. o.file.pages[p] = committed[p] /\ p < o.file.next /\ p \notin unsynced
      BY <1>4, <1>5, <2>2 DEF Agree, Contents
    <3>2. file.pages[p] = committed[p]
      BY <1>5, <2>2 DEF Agree, Contents
    <3>3. QED
      BY <2>2, <3>1, <3>2 DEF FileBecomes
  <2>3. QED
    BY <1>3, <2>1, <2>2
<1>6. QED
  BY <1>1, <1>5, EmptiedContents

LEMMA StopContents ==
    ASSUME Contents, Stop
    PROVE  Contents'
<1>1. Emptied /\ file' = file /\ unsynced' = unsynced /\ committed' = committed
  BY DEF Stop
<1>2. \A p \in DataPages : committed[p] # NoBytes =>
        file.pages[p] = committed[p] /\ p < file.next /\ p \notin unsynced
  BY DEF Contents, Agree
<1>3. QED
  BY <1>1, <1>2, EmptiedContents

LEMMA OpenContents ==
    ASSUME Books, Contents, NEW readOnly \in BOOLEAN, Open(readOnly)
    PROVE  Contents'
<1>1. /\ mgr = Closed /\ file' = file /\ frames' = frames /\ loan' = loan
      /\ unsynced' = unsynced /\ committed' = committed
  BY DEF Open
<1>2. DOMAIN frames = {} /\ \A g \in Guards : held[g] = NoPage
  BY <1>1 DEF Books, PoolState, Cached
<1>3. \A g \in Guards : loan[g] = "none"
  BY <1>2 DEF Books, PoolState
<1>4. Agree(frames, file)'
  BY <1>1, <1>2 DEF Contents, Agree
<1>5. QED
  BY <1>1, <1>3, <1>4 DEF Contents

LEMMA ContentsStep == Books /\ Contents /\ [Next]_vars => Contents'
<1> SUFFICES ASSUME Books, Contents, [Next]_vars PROVE Contents'
  OBVIOUS
<1>1. CASE UNCHANGED vars
  BY <1>1 DEF vars, Contents, Agree
<1>2. ASSUME NEW g \in Guards, NEW p \in DataPages, PinHit(g, p) \/ PinMiss(g, p)
      PROVE  Contents'
  BY <1>2, PinHitContents, PinMissContents
<1>3. CASE PinMissFails
  BY <1>3, PinMissFailsContents
<1>4. ASSUME NEW g \in Guards, AllocatePage(g)
      PROVE  Contents'
  BY <1>4, AllocatePageContents
<1>5. CASE AllocatePageFails
  BY <1>5, AllocatePageFailsContents
<1>6. ASSUME NEW g \in Guards, BorrowRead(g) \/ BorrowWrite(g) \/ EndBorrow(g) \/ DropGuard(g)
      PROVE  Contents'
  BY <1>6, GuardContents
<1>7. ASSUME NEW g \in Guards, NEW bytes \in Content, WritePage(g, bytes)
      PROVE  Contents'
  BY <1>7, WritePageContents
<1>8. ASSUME NEW p \in DataPages, FlushPage(p) \/ SetCatalogRoot(p)
      PROVE  Contents'
  BY <1>8, FlushContents, SetCatalogRootContents DEF FlushPage
<1>9. CASE FlushAll
  BY <1>9, FlushContents DEF FlushAll
<1>10. CASE Sync
  BY <1>10, SyncContents
<1>11. CASE Close
  BY <1>11, CloseContents
<1>12. CASE Stop
  BY <1>12, StopContents
<1>13. ASSUME NEW readOnly \in BOOLEAN, Open(readOnly)
       PROVE  Contents'
  BY <1>13, OpenContents
<1>14. QED
  BY <1>1, <1>2, <1>3, <1>4, <1>5, <1>6, <1>7, <1>8, <1>9, <1>10, <1>11, <1>12, <1>13 DEF Next

\* Frames, file and promises always agree.
THEOREM ContentsInvariant == Spec => []Contents
BY ContentsInit, BooksInvariant, ContentsStep, PTL DEF Spec

(* A clean frame holds what the file holds, whatever writes failed on the  *)
(* way: treating it as clean loses nothing a caller wrote.                 *)
THEOREM CleanIsClean == Spec => []CleanMatchesFile
<1>1. Contents => CleanMatchesFile
  BY DEF Contents, Agree, CleanMatchesFile, Cached
<1>2. QED
  BY <1>1, ContentsInvariant, PTL

(* Every dirty frame belongs to a writable pool and an allocated page, so  *)
(* write_page never refuses it.                                            *)
THEOREM DirtyCanBeWritten == Spec => []DirtyIsWritable
<1>1. Books /\ Contents => DirtyIsWritable
  BY DEF Books, PoolState, Contents, Agree, DirtyIsWritable, Cached
<1>2. QED
  BY <1>1, BooksInvariant, ContentsInvariant, PTL

(* What sync or close promised stays in the file, and synced, until the    *)
(* page is written through a guard again: through flushes, evictions,      *)
(* failed writes and crashes.                                              *)
THEOREM PromisesKept == Spec => []CommittedStaysPut
<1>1. Contents => CommittedStaysPut
  BY DEF Contents, Agree, CommittedStaysPut
<1>2. QED
  BY <1>1, ContentsInvariant, PTL
-----------------------------------------------------------------------------
(* A read-only pool. *)

\* A step of a read-only pool that is not refused leaves the file alone.
LEMMA ReadOnlyFile ==
    ASSUME Books, mgr # Closed, mgr.readOnly, Next
    PROVE  file' = file
<1>1. /\ mgr \in Manager /\ file \in File /\ Backed(mgr, file) /\ ~Writable(mgr)
      /\ IsFrames(frames) /\ IsFrames(Stamped(frames))
  BY OpenPool DEF Writable
<1>2. ASSUME NEW fr, IsFrames(fr), NEW o \in EnsureSpaceOutcomes(fr, file)
      PROVE  o.file = file
  BY <1>1, <1>2, EnsureSpaceEffect DEF WritesBack
<1>3. ASSUME NEW S \in SUBSET Cached, NEW o \in FlushOutcomes(frames, file, S)
      PROVE  o.file = file
  BY <1>1, <1>3, FlushEffect DEF WritesBack, Cached
<1>4. ASSUME NEW g \in Guards, NEW p \in DataPages, PinHit(g, p) \/ PinMiss(g, p)
      PROVE  file' = file
  BY <1>1, <1>2, <1>4 DEF PinHit, PinMiss, FileBecomes
<1>5. CASE PinMissFails
  BY <1>1, <1>2, <1>5 DEF PinMissFails, FileBecomes
<1>6. CASE AllocatePageFails \/ \E g \in Guards : AllocatePage(g)
  BY <1>1, <1>6 DEF AllocatePageFails, AllocatePage
<1>7. ASSUME NEW g \in Guards, BorrowRead(g) \/ BorrowWrite(g) \/ EndBorrow(g) \/ DropGuard(g)
      PROVE  file' = file
  BY <1>7 DEF BorrowRead, BorrowWrite, EndBorrow, DropGuard
<1>8. ASSUME NEW g \in Guards, NEW bytes \in Content, WritePage(g, bytes)
      PROVE  file' = file
  BY <1>8 DEF WritePage
<1>9. ASSUME NEW S \in SUBSET Cached, Flush(S)
      PROVE  file' = file
  BY <1>3, <1>9 DEF Flush, FileBecomes
<1>10. CASE Sync \/ Close
  BY <1>3, <1>10 DEF Sync, Close, FileBecomes
<1>11. ASSUME NEW p \in DataPages, SetCatalogRoot(p)
       PROVE  file' = file
  <2>1. PICK o \in SetCatalogRootOutcomes(mgr, file, p) : file' = o.file
    BY <1>11 DEF SetCatalogRoot
  <2>2. QED
    BY <1>1, <2>1, SetCatalogRootEffect
<1>12. CASE Stop
  BY <1>12 DEF Stop
<1>13. QED
  BY <1>4, <1>5, <1>6, <1>7, <1>8, <1>9, <1>10, <1>11, <1>12 DEF Next, FlushPage, FlushAll, Open

\* The manager of a step from a read-only pool is read-only, or the cache is empty.
LEMMA ReadOnlyManager ==
    ASSUME Books, mgr # Closed, mgr.readOnly, Next
    PROVE  ~Writable(mgr') \/ DOMAIN frames' = {}
<1>1. mgr \in Manager /\ file \in File /\ Backed(mgr, file) /\ ~Writable(mgr)
  BY OpenPool DEF Writable
<1>2. CASE mgr' = mgr
  BY <1>1, <1>2
<1>3. CASE Close \/ Stop
  BY <1>3 DEF Close, Stop, Emptied, NoFrames
<1>4. ASSUME NEW p \in DataPages, SetCatalogRoot(p)
      PROVE  ~Writable(mgr')
  <2>1. PICK o \in SetCatalogRootOutcomes(mgr, file, p) : mgr' = o.mgr
    BY <1>4 DEF SetCatalogRoot
  <2>2. QED
    BY <1>1, <2>1, SetCatalogRootEffect DEF Writable
<1>5. mgr' = mgr \/ Close \/ Stop \/ \E p \in DataPages : SetCatalogRoot(p)
  BY <1>1 DEF Next, PinHit, PinMiss, PinMissFails, AllocatePage, AllocatePageFails, BorrowRead,
              BorrowWrite, EndBorrow, DropGuard, WritePage, FlushPage, FlushAll, Flush, Sync, Open
<1>6. QED
  BY <1>2, <1>3, <1>4, <1>5

(* A pool over a read-only manager writes nothing and dirties nothing.     *)
THEOREM ReadOnlyPoolHarmless == Spec => ReadOnlyNeverWrites
<1>1. ASSUME Books, Contents, Contents', [Next]_vars, mgr # Closed, mgr.readOnly
      PROVE  file' = file /\ \A p \in DOMAIN frames' : ~frames'[p].dirty
  <2>1. CASE Next
    <3>1. \A p \in DOMAIN frames' : frames'[p].dirty => Writable(mgr')
      BY <1>1 DEF Contents, Agree
    <3>2. QED
      BY <1>1, <2>1, <3>1, ReadOnlyFile, ReadOnlyManager
  <2>2. CASE UNCHANGED vars
    BY <1>1, <2>2 DEF vars, Contents, Agree, Writable
  <2>3. QED
    BY <1>1, <2>1, <2>2
<1>2. Books /\ Contents /\ Contents' /\ [Next]_vars =>
        [mgr # Closed /\ mgr.readOnly =>
           file' = file /\ \A p \in DOMAIN frames' : ~frames'[p].dirty]_vars
  BY <1>1
<1>3. QED
  BY <1>2, BooksInvariant, ContentsInvariant, PTL DEF Spec, ReadOnlyNeverWrites

-----------------------------------------------------------------------------
(* The replacement policy: the stamps order the cached pages by their last *)
(* use, also across a wrap of the clock, and the page that makes room is   *)
(* the one unused for longest.                                             *)

\* The stamps of frames fr, at most c, follow the order R of their last uses.
Ordered(fr, c, R) ==
    /\ \A e \in R : e[1] \in DOMAIN fr /\ e[2] \in DOMAIN fr
    /\ \A p \in DOMAIN fr : fr[p].used <= c
    /\ \A e \in R : \/ fr[e[1]].used < fr[e[2]].used
                    \/ fr[e[1]].used = 0 /\ fr[e[2]].used = 0

Recency == Ordered(frames, clock, older)

\* Some of the frames, with the stamps they had.
SameStamps(fr, fr2) ==
    /\ DOMAIN fr2 \subseteq DOMAIN fr
    /\ \A p \in DOMAIN fr2 : fr2[p].used = fr[p].used

LEMMA FewerOrdered ==
    ASSUME NEW fr, NEW fr2, NEW c, NEW R, NEW R2 \in SUBSET R,
           Ordered(fr, c, R), SameStamps(fr, fr2),
           \A e \in R2 : e[1] \in DOMAIN fr2 /\ e[2] \in DOMAIN fr2
    PROVE  Ordered(fr2, c, R2)
BY DEF Ordered, SameStamps

LEMMA RemainingOrdered ==
    ASSUME NEW fr, NEW fr2, NEW c, Ordered(fr, c, older), SameStamps(fr, fr2)
    PROVE  Ordered(fr2, c, Remaining(DOMAIN fr2))
<1>1. Remaining(DOMAIN fr2) \in SUBSET older
  BY DEF Remaining
<1>2. \A e \in Remaining(DOMAIN fr2) : e[1] \in DOMAIN fr2 /\ e[2] \in DOMAIN fr2
  BY DEF Remaining
<1>3. QED
  BY <1>1, <1>2, FewerOrdered

\* A tick: every stamp is older than the new clock.
LEMMA StampedOrdered ==
    ASSUME NEW fr, IsFrames(fr), clock \in 0 .. ClockLimit, NEW R, Ordered(fr, clock, R)
    PROVE  /\ Ordered(Stamped(fr), NextClock, R)
           /\ \A p \in DOMAIN fr : Stamped(fr)[p].used < NextClock
<1>1. \A p \in DOMAIN fr : fr[p].used \in 0 .. ClockLimit
  BY DEF IsFrames, Frame
<1>2. /\ DOMAIN Stamped(fr) = DOMAIN fr
      /\ \A p \in DOMAIN fr :
           Stamped(fr)[p].used = IF clock = ClockLimit THEN 0 ELSE fr[p].used
  BY StampedType
<1>3. CASE clock = ClockLimit
  <2>1. NextClock = 1
    BY <1>3 DEF NextClock
  <2>2. QED
    BY <1>2, <1>3, <2>1 DEF Ordered
<1>4. CASE clock # ClockLimit
  <2>1. NextClock = clock + 1 /\ clock \in Nat
    BY <1>4, PoolConstants DEF NextClock
  <2>2. \A p \in DOMAIN fr : Stamped(fr)[p].used = fr[p].used /\ fr[p].used <= clock
    BY <1>2, <1>4 DEF Ordered
  <2>3. QED
    BY <1>1, <1>2, <2>1, <2>2, PoolConstants DEF Ordered
<1>5. QED
  BY <1>3, <1>4

\* A use of p stamps it with the new clock, above all others.
LEMMA TouchedOrdered ==
    ASSUME older \subseteq DataPages \X DataPages,
           NEW fr, NEW c \in Nat, Ordered(fr, c, Remaining(DOMAIN fr)),
           \A q \in DOMAIN fr : fr[q].used < c,
           NEW p, NEW fr2, DOMAIN fr2 = DOMAIN fr \cup {p}, fr2[p].used = c,
           \A q \in DOMAIN fr : q # p => fr2[q].used = fr[q].used
    PROVE  Ordered(fr2, c, Touched(p, DOMAIN fr2))
<1> DEFINE C == DOMAIN fr2 \ {p}
<1>1. C \subseteq DOMAIN fr /\ \A q \in C : fr2[q].used = fr[q].used /\ fr2[q].used < c
  OBVIOUS
<1>2. ASSUME NEW e \in older, e[1] \in C, e[2] \in C
      PROVE  \/ fr2[e[1]].used < fr2[e[2]].used
             \/ fr2[e[1]].used = 0 /\ fr2[e[2]].used = 0
  <2>1. e \in Remaining(DOMAIN fr)
    BY <1>1, <1>2 DEF Remaining
  <2>2. QED
    BY <1>1, <1>2, <2>1 DEF Ordered
<1>3. ASSUME NEW e \in Touched(p, DOMAIN fr2)
      PROVE  /\ e[1] \in DOMAIN fr2 /\ e[2] \in DOMAIN fr2
             /\ \/ fr2[e[1]].used < fr2[e[2]].used
                \/ fr2[e[1]].used = 0 /\ fr2[e[2]].used = 0
  <2>1. CASE e \in older /\ e[1] \in C /\ e[2] \in C
    BY <1>2, <2>1
  <2>2. CASE e \in C \X {p}
    <3>1. e[1] \in C /\ e[2] = p
      BY <2>2
    <3>2. QED
      BY <1>1, <3>1
  <2>3. QED
    BY <1>3, <2>1, <2>2 DEF Touched
<1>4. \A q \in DOMAIN fr2 : fr2[q].used <= c
  <2>1. \A q \in C : fr2[q].used <= c
    BY <1>1 DEF Ordered
  <2>2. QED
    BY <2>1
<1>5. QED
  BY <1>3, <1>4 DEF Ordered

LEMMA WritingBackStamps ==
    ASSUME NEW fr, NEW f, NEW fr2, NEW f2, WritesBack(fr, f, fr2, f2)
    PROVE  SameStamps(fr, fr2)
BY DEF WritesBack, SameStamps

\* A step that uses no page and evicts none.
LEMMA UnusedRecency ==
    ASSUME Recency, clock' = clock, older' = older,
           DOMAIN frames' = Cached, \A p \in Cached : frames'[p].used = frames[p].used
    PROVE  Recency'
BY DEF Recency, Ordered, Cached

\* A step that uses page p, among the frames fr or new to them.
LEMMA UsingRecency ==
    ASSUME TypeOK, NEW fr, IsFrames(fr), Ordered(fr, clock, Remaining(DOMAIN fr)),
           NEW p, DOMAIN frames' = DOMAIN fr \cup {p}, frames'[p].used = NextClock,
           \A q \in DOMAIN fr : q # p => frames'[q].used = Stamped(fr)[q].used,
           clock' = NextClock, older' = Touched(p, DOMAIN frames')
    PROVE  Recency'
<1> DEFINE st == Stamped(fr)
<1>1. clock \in 0 .. ClockLimit /\ older \subseteq DataPages \X DataPages
  BY DEF TypeOK
<1>2. DOMAIN st = DOMAIN fr /\ NextClock \in Nat
  BY <1>1, StampedType, PoolConstants
<1>3. /\ Ordered(st, NextClock, Remaining(DOMAIN st))
      /\ \A q \in DOMAIN st : st[q].used < NextClock
  BY <1>1, <1>2, StampedOrdered
<1> HIDE DEF st
<1>4. DOMAIN frames' = DOMAIN st \cup {p} /\ \A q \in DOMAIN st : q # p => frames'[q].used = st[q].used
  BY <1>2 DEF st
<1>5. Ordered(frames', NextClock, Touched(p, DOMAIN frames'))
  BY <1>1, <1>2, <1>3, <1>4, TouchedOrdered
<1>6. QED
  BY <1>5 DEF Recency

LEMMA PinHitRecency ==
    ASSUME Books, Recency, NEW g \in Guards, NEW p \in DataPages, PinHit(g, p)
    PROVE  Recency'
<1>1. TypeOK /\ IsFrames(frames) /\ clock \in 0 .. ClockLimit /\ p \in Cached
  BY CachedFrames DEF Books, TypeOK, PinHit
<1>2. /\ IsFrames(Stamped(frames)) /\ DOMAIN Stamped(frames) = Cached /\ NextClock \in Nat
  BY <1>1, StampedType, PoolConstants DEF Cached
<1>3. Ordered(Stamped(frames), NextClock, older)
  BY <1>1, StampedOrdered DEF Recency
<1>4. clock' = NextClock /\ DOMAIN frames' = Cached
  BY PinHitDomain DEF PinHit
<1>5. CASE PinExhausted(p)
  BY <1>3, <1>4, <1>5 DEF PinHit, Recency
<1>6. CASE ~PinExhausted(p)
  <2> DEFINE st == Stamped(frames)
  <2>1. /\ frames' = [st EXCEPT ![p] = [st[p] EXCEPT !.pin = @ + 1, !.used = NextClock]]
        /\ older' = Touched(p, Cached)
    BY <1>6 DEF PinHit
  <2>2. st[p] \in Frame
    BY <1>1, <1>2 DEF IsFrames
  <2> HIDE DEF st
  <2>3. frames'[p].used = NextClock /\ \A q \in Cached : q # p => frames'[q] = st[q]
    BY <1>1, <1>2, <2>1, <2>2 DEF Frame, st
  <2>4. Ordered(frames, clock, Remaining(DOMAIN frames))
    BY RemainingOrdered DEF Recency, SameStamps
  <2>5. DOMAIN frames' = DOMAIN frames \cup {p}
    BY <1>1, <1>4 DEF Cached
  <2>6. QED
    BY <1>1, <1>4, <2>1, <2>3, <2>4, <2>5, UsingRecency DEF Cached, st
<1>7. QED
  BY <1>5, <1>6

LEMMA PinMissRecency ==
    ASSUME Books, Recency, NEW g \in Guards, NEW p \in DataPages, PinMiss(g, p)
    PROVE  Recency'
<1> DEFINE st == Stamped(frames)
<1>1. mgr # Closed
  BY DEF PinMiss
<1>2. /\ TypeOK /\ mgr \in Manager /\ file \in File /\ Backed(mgr, file)
      /\ IsFrames(frames) /\ IsFrames(st) /\ DOMAIN st = Cached
      /\ clock \in 0 .. ClockLimit /\ NextClock \in Nat
      /\ older \subseteq DataPages \X DataPages
  BY <1>1, OpenPool, StampedType, PoolConstants DEF TypeOK, Cached
<1>3. PICK o \in EnsureSpaceOutcomes(st, file) :
        frames' = With(o.frames, p, NewFrame(o.file.pages[p]))
  BY DEF PinMiss
<1>4. Ordered(st, NextClock, older) /\ \A q \in Cached : st[q].used < NextClock
  BY <1>2, StampedOrdered DEF Recency, Cached
<1> HIDE DEF st
<1>5. WritesBack(st, file, o.frames, o.file)
  BY <1>2, <1>3, EnsureSpaceEffect
<1> DEFINE fr == o.frames
<1>6. SameStamps(st, fr)
  BY <1>5, WritingBackStamps
<1>7. /\ Ordered(fr, NextClock, Remaining(DOMAIN fr))
      /\ \A q \in DOMAIN fr : fr[q].used < NextClock
  BY <1>2, <1>4, <1>6, RemainingOrdered DEF SameStamps
<1>8. NewFrame(o.file.pages[p]).used = NextClock
  BY DEF NewFrame
<1> HIDE DEF fr
<1>9. /\ DOMAIN frames' = DOMAIN fr \cup {p} /\ frames'[p].used = NextClock
      /\ \A q \in DOMAIN fr : q # p => frames'[q].used = fr[q].used
  BY <1>3, <1>8 DEF With, fr
<1>10. Ordered(frames', NextClock, Touched(p, DOMAIN frames'))
  BY <1>2, <1>7, <1>9, TouchedOrdered
<1>11. clock' = NextClock /\ older' = Touched(p, DOMAIN frames')
  BY DEF PinMiss
<1>12. QED
  BY <1>10, <1>11 DEF Recency

LEMMA PinMissFailsRecency ==
    ASSUME Books, Recency, PinMissFails
    PROVE  Recency'
<1> DEFINE st == Stamped(frames)
<1>1. mgr # Closed
  BY DEF PinMissFails
<1>2. /\ mgr \in Manager /\ file \in File /\ Backed(mgr, file)
      /\ IsFrames(frames) /\ IsFrames(st) /\ clock \in 0 .. ClockLimit
  BY <1>1, OpenPool
<1>3. PICK o \in EnsureSpaceOutcomes(st, file) : frames' = o.frames
  BY DEF PinMissFails
<1>4. Ordered(st, NextClock, older)
  BY <1>2, StampedOrdered DEF Recency
<1> HIDE DEF st
<1>5. SameStamps(st, frames')
  BY <1>2, <1>3, EnsureSpaceEffect, WritingBackStamps
<1>6. Ordered(frames', NextClock, Remaining(DOMAIN frames'))
  BY <1>4, <1>5, RemainingOrdered
<1>7. QED
  BY <1>6 DEF PinMissFails, Recency

LEMMA AllocatePageRecency ==
    ASSUME Books, Recency, NEW g \in Guards, AllocatePage(g)
    PROVE  Recency'
<1> DEFINE n == mgr.next
<1>1. mgr # Closed
  BY DEF AllocatePage
<1>2. /\ TypeOK /\ PoolState /\ mgr \in Manager /\ file \in File /\ Backed(mgr, file)
      /\ IsFrames(frames) /\ clock \in 0 .. ClockLimit /\ n \in Nat
  BY <1>1, OpenPool
<1>3. PICK o \in EnsureSpaceOutcomes(frames, file) :
        frames' = With(Stamped(o.frames), n, NewFrame(Zero))
  BY DEF AllocatePage
<1> DEFINE fr == o.frames
<1>4. WritesBack(frames, file, fr, o.file)
  BY <1>2, EnsureSpaceEffect
<1>5. IsFrames(fr) /\ DOMAIN fr \subseteq Cached /\ SameStamps(frames, fr)
  <2>1. IsFrames(fr) /\ DOMAIN fr \subseteq Cached
    BY <1>4 DEF WritesBack, Cached
  <2>2. SameStamps(frames, fr)
    BY <1>4, WritingBackStamps
  <2>3. QED
    BY <2>1, <2>2
<1>6. Ordered(fr, clock, Remaining(DOMAIN fr))
  BY <1>5, RemainingOrdered DEF Recency
<1>7. DOMAIN Stamped(fr) = DOMAIN fr
  BY <1>2, <1>5, StampedType
<1>8. NewFrame(Zero).used = NextClock
  BY DEF NewFrame
<1>9. frames' = With(Stamped(fr), n, NewFrame(Zero))
  BY <1>3
<1> HIDE DEF fr, n
<1>10. /\ DOMAIN frames' = DOMAIN fr \cup {n} /\ frames'[n].used = NextClock
       /\ \A q \in DOMAIN fr : q # n => frames'[q].used = Stamped(fr)[q].used
  BY <1>7, <1>8, <1>9 DEF With
<1>11. clock' = NextClock /\ older' = Touched(n, DOMAIN frames')
  BY DEF AllocatePage, n
<1>12. QED
  BY <1>2, <1>5, <1>6, <1>10, <1>11, UsingRecency

LEMMA AllocatePageFailsRecency ==
    ASSUME Books, Recency, AllocatePageFails
    PROVE  Recency'
<1>1. mgr # Closed
  BY DEF AllocatePageFails
<1>2. mgr \in Manager /\ file \in File /\ Backed(mgr, file) /\ IsFrames(frames)
  BY <1>1, OpenPool
<1>3. PICK o \in EnsureSpaceOutcomes(frames, file) : frames' = o.frames
  BY DEF AllocatePageFails
<1>4. SameStamps(frames, frames')
  BY <1>2, <1>3, EnsureSpaceEffect, WritingBackStamps
<1>5. Ordered(frames', clock, Remaining(DOMAIN frames'))
  BY <1>4, RemainingOrdered DEF Recency
<1>6. QED
  BY <1>5 DEF AllocatePageFails, Recency

LEMMA GuardRecency ==
    ASSUME Books, Recency, NEW g \in Guards,
           \/ BorrowRead(g) \/ BorrowWrite(g) \/ EndBorrow(g) \/ DropGuard(g)
           \/ \E bytes \in Content : WritePage(g, bytes)
    PROVE  Recency' /\ DOMAIN frames' = Cached
<1>1. TypeOK /\ PoolState /\ IsFrames(frames)
  BY CachedFrames DEF Books
<1>2. clock' = clock /\ older' = older
  BY DEF BorrowRead, BorrowWrite, EndBorrow, DropGuard, WritePage
<1>3. CASE BorrowRead(g) \/ BorrowWrite(g) \/ EndBorrow(g)
  BY <1>2, <1>3, UnusedRecency DEF BorrowRead, BorrowWrite, EndBorrow, Cached
<1>4. CASE DropGuard(g) \/ \E bytes \in Content : WritePage(g, bytes)
  <2> DEFINE p == held[g]
  <2>1. p \in Cached
    BY <1>1, <1>4, GuardsPin DEF DropGuard, WritePage, PoolState
  <2>2. frames[p] \in Frame
    BY <1>1, <2>1 DEF IsFrames, Cached
  <2>3. \/ frames' = [frames EXCEPT ![p] = [frames[p] EXCEPT !.pin = frames[p].pin - 1]]
        \/ \E bytes \in Content :
             frames' = [frames EXCEPT ![p] = [frames[p] EXCEPT !.data = bytes, !.dirty = TRUE]]
    BY <1>4 DEF DropGuard, WritePage
  <2> HIDE DEF p
  <2>4. /\ DOMAIN frames' = Cached /\ frames'[p].used = frames[p].used
        /\ \A q \in Cached : q # p => frames'[q] = frames[q]
    BY <2>1, <2>2, <2>3 DEF Frame, Cached
  <2>5. QED
    BY <1>2, <2>4, UnusedRecency
<1>5. QED
  BY <1>3, <1>4

LEMMA FlushRecency ==
    ASSUME Books, Recency, Sync \/ \E S \in SUBSET Cached : Flush(S)
    PROVE  Recency' /\ DOMAIN frames' = Cached
<1>1. mgr # Closed
  BY DEF Flush, Sync
<1>2. mgr \in Manager /\ file \in File /\ Backed(mgr, file) /\ IsFrames(frames)
  BY <1>1, OpenPool
<1>3. \E S \in SUBSET Cached : \E o \in FlushOutcomes(frames, file, S) : frames' = o.frames
  BY DEF Flush, Sync
<1>4. PICK S \in SUBSET Cached : \E o \in FlushOutcomes(frames, file, S) : frames' = o.frames
  BY <1>3
<1>5. PICK o \in FlushOutcomes(frames, file, S) : frames' = o.frames
  BY <1>4
<1>6. WritesBack(frames, file, frames', o.file) /\ DOMAIN frames' = Cached
  BY <1>2, <1>5, FlushEffect DEF Cached
<1>7. clock' = clock /\ older' = older
  BY DEF Flush, Sync
<1>8. QED
  BY <1>6, <1>7, UnusedRecency, WritingBackStamps DEF SameStamps

LEMMA RecencyStep == Books /\ Recency /\ [Next]_vars => Recency'
<1> SUFFICES ASSUME Books, Recency, [Next]_vars PROVE Recency'
  OBVIOUS
<1>1. CASE UNCHANGED vars
  BY <1>1 DEF vars, Recency
<1>2. ASSUME NEW g \in Guards, NEW p \in DataPages, PinHit(g, p) \/ PinMiss(g, p)
      PROVE  Recency'
  BY <1>2, PinHitRecency, PinMissRecency
<1>3. CASE PinMissFails
  BY <1>3, PinMissFailsRecency
<1>4. ASSUME NEW g \in Guards, AllocatePage(g)
      PROVE  Recency'
  BY <1>4, AllocatePageRecency
<1>5. CASE AllocatePageFails
  BY <1>5, AllocatePageFailsRecency
<1>6. ASSUME NEW g \in Guards,
             \/ BorrowRead(g) \/ BorrowWrite(g) \/ EndBorrow(g) \/ DropGuard(g)
             \/ \E bytes \in Content : WritePage(g, bytes)
      PROVE  Recency'
  BY <1>6, GuardRecency
<1>7. CASE Sync \/ \E S \in SUBSET Cached : Flush(S)
  BY <1>7, FlushRecency
<1>8. CASE \E p \in DataPages : SetCatalogRoot(p)
  BY <1>8 DEF SetCatalogRoot, Recency
<1>9. CASE Close \/ Stop
  BY <1>9 DEF Close, Stop, Emptied, NoFrames, Recency, Ordered
<1>10. CASE \E readOnly \in BOOLEAN : Open(readOnly)
  BY <1>10 DEF Open, Recency
<1>11. QED
  BY <1>2, <1>3, <1>4, <1>5, <1>6, <1>7, <1>8, <1>9, <1>10, <1>1 DEF Next, FlushPage, FlushAll

\* Stamps and uses always agree.
THEOREM RecencyInvariant == Spec => []Recency
<1>1. Init => Recency
  BY DEF Init, NoFrames, Recency, Ordered
<1>2. QED
  BY <1>1, BooksInvariant, RecencyStep, PTL DEF Spec

(* The stamps order the cached pages by their last use; only pages unused  *)
(* since the clock wrapped are tied.                                       *)
THEOREM StampsOrderUses == Spec => []StampsFollowUse
<1>1. Recency => StampsFollowUse
  BY DEF Recency, Ordered, StampsFollowUse
<1>2. QED
  BY <1>1, RecencyInvariant, PTL

-----------------------------------------------------------------------------
(* Eviction. *)

\* What v must be to leave an open pool.
LongestUnused(v) ==
    /\ frames[v].pin = 0
    /\ \A q \in Unpinned(frames) : <<q, v>> \in older =>
         PinWraps \/ frames[v].used = 0

\* Frames to choose a victim from: reset by a pin that wraps the clock, or as they are.
ToChooseFrom(fr) ==
    \/ fr = frames
    \/ fr = Stamped(frames) /\ (clock # ClockLimit \/ PinWraps)

\* A victim, before or after the stamps of a wrapped clock are reset.
LEMMA VictimUnused ==
    ASSUME TypeOK, Recency, NEW fr, ToChooseFrom(fr), NEW v \in Victims(fr)
    PROVE  LongestUnused(v)
<1>1. IsFrames(frames) /\ clock \in 0 .. ClockLimit
  BY CachedFrames DEF TypeOK
<1>2. /\ DOMAIN fr = DOMAIN frames
      /\ \A p \in DOMAIN frames :
           /\ fr[p].pin = frames[p].pin
           /\ ~PinWraps => fr[p].used = frames[p].used
  BY <1>1, StampedType DEF ToChooseFrom
<1>3. v \in DOMAIN frames /\ frames[v].pin = 0
  BY <1>2 DEF Victims, Unpinned
<1>4. ASSUME NEW q \in Unpinned(frames), <<q, v>> \in older, ~PinWraps
      PROVE  frames[v].used = 0
  <2>1. q \in DOMAIN frames /\ q \in Unpinned(fr)
    BY <1>2 DEF Unpinned
  <2>2. frames[v].used <= frames[q].used
    BY <1>2, <1>3, <1>4, <2>1 DEF Victims
  <2>3. frames[q].used < frames[v].used \/ frames[v].used = 0
    BY <1>4 DEF Recency, Ordered
  <2>4. frames[v].used \in Nat /\ frames[q].used \in Nat
    BY <1>1, <1>3, <2>1, PoolConstants DEF IsFrames, Frame
  <2>5. QED
    BY <2>2, <2>3, <2>4
<1>5. QED
  BY <1>3, <1>4 DEF LongestUnused

\* What making room takes away is a victim.
LEMMA MakingRoom ==
    ASSUME Books, Recency, mgr # Closed, NEW fr, ToChooseFrom(fr),
           NEW o \in EnsureSpaceOutcomes(fr, file),
           NEW v \in Cached \ DOMAIN o.frames
    PROVE  LongestUnused(v)
<1>1. /\ TypeOK /\ mgr \in Manager /\ file \in File /\ Backed(mgr, file)
      /\ IsFrames(fr) /\ DOMAIN fr = Cached
  BY OpenPool, StampedType DEF Cached, ToChooseFrom
<1>2. \/ DOMAIN o.frames = DOMAIN fr
      \/ \E w \in DOMAIN fr \cap Victims(fr) : DOMAIN o.frames = DOMAIN fr \ {w}
  BY <1>1, EnsureSpaceEffect
<1>3. v \in Victims(fr)
  BY <1>1, <1>2
<1>4. QED
  BY <1>1, <1>3, VictimUnused

LEMMA EvictionStep ==
    ASSUME Books, Recency, Next, ~Stop, ~Close, NEW v \in Cached \ DOMAIN frames'
    PROVE  LongestUnused(v)
<1>1. ASSUME NEW g \in Guards, NEW p \in DataPages, PinHit(g, p)
      PROVE  LongestUnused(v)
  BY <1>1, PinHitDomain
<1>2. ASSUME NEW g \in Guards, NEW p \in DataPages, PinMiss(g, p)
      PROVE  LongestUnused(v)
  <2>1. mgr # Closed
    BY <1>2 DEF PinMiss
  <2>2. PICK o \in EnsureSpaceOutcomes(Stamped(frames), file) :
          DOMAIN frames' = DOMAIN o.frames \cup {p}
    BY <1>2 DEF PinMiss, With
  <2>3. ToChooseFrom(Stamped(frames))
    BY <1>2 DEF PinMiss, ToChooseFrom, PinWraps
  <2>4. QED
    BY <2>1, <2>2, <2>3, MakingRoom
<1>3. CASE PinMissFails
  <2>1. mgr # Closed
    BY <1>3 DEF PinMissFails
  <2>2. PICK o \in EnsureSpaceOutcomes(Stamped(frames), file) : frames' = o.frames
    BY <1>3 DEF PinMissFails
  <2>3. ToChooseFrom(Stamped(frames))
    BY <1>3 DEF PinMissFails, ToChooseFrom, PinWraps
  <2>4. QED
    BY <2>1, <2>2, <2>3, MakingRoom
<1>4. ASSUME NEW g \in Guards, AllocatePage(g)
      PROVE  LongestUnused(v)
  <2>1. mgr # Closed
    BY <1>4 DEF AllocatePage
  <2>2. PICK o \in EnsureSpaceOutcomes(frames, file) :
          frames' = With(Stamped(o.frames), mgr.next, NewFrame(Zero))
    BY <1>4 DEF AllocatePage
  <2>3. IsFrames(o.frames) /\ clock \in 0 .. ClockLimit
    BY <2>1, OpenPool, EnsureSpaceEffect DEF WritesBack
  <2>4. DOMAIN frames' = DOMAIN o.frames \cup {mgr.next}
    BY <2>2, <2>3, StampedType DEF With
  <2>5. ToChooseFrom(frames)
    BY DEF ToChooseFrom
  <2>6. QED
    BY <2>1, <2>4, <2>5, MakingRoom
<1>5. CASE AllocatePageFails
  <2>1. mgr # Closed
    BY <1>5 DEF AllocatePageFails
  <2>2. PICK o \in EnsureSpaceOutcomes(frames, file) : frames' = o.frames
    BY <1>5 DEF AllocatePageFails
  <2>3. ToChooseFrom(frames)
    BY DEF ToChooseFrom
  <2>4. QED
    BY <2>1, <2>2, <2>3, MakingRoom
<1>6. ASSUME NEW g \in Guards,
             \/ BorrowRead(g) \/ BorrowWrite(g) \/ EndBorrow(g) \/ DropGuard(g)
             \/ \E bytes \in Content : WritePage(g, bytes)
      PROVE  LongestUnused(v)
  BY <1>6, GuardRecency
<1>7. CASE Sync \/ \E S \in SUBSET Cached : Flush(S)
  BY <1>7, FlushRecency
<1>8. CASE \/ \E p \in DataPages : SetCatalogRoot(p)
           \/ \E readOnly \in BOOLEAN : Open(readOnly)
  BY <1>8 DEF SetCatalogRoot, Open, Cached
<1>9. QED
  BY <1>1, <1>2, <1>3, <1>4, <1>5, <1>6, <1>7, <1>8 DEF Next, FlushPage, FlushAll

(* The page that leaves an open pool to make room is unpinned, and the one *)
(* unused for longest among the unpinned, ties of a wrapped clock apart.   *)
THEOREM EvictionPolicy == Spec => EvictsLeastRecentlyUsed
<1>1. ASSUME Books, Recency, [Next]_vars, NEW v \in Cached \ DOMAIN frames'
      PROVE  Stop \/ Close \/ LongestUnused(v)
  <2>1. CASE Next
    BY <1>1, <2>1, EvictionStep
  <2>2. CASE UNCHANGED vars
    BY <1>1, <2>2 DEF vars, Cached
  <2>3. QED
    BY <1>1, <2>1, <2>2
<1>2. Books /\ Recency /\ [Next]_vars =>
        [\A v \in Cached \ DOMAIN frames' : Stop \/ Close \/
           /\ frames[v].pin = 0
           /\ \A q \in Unpinned(frames) : <<q, v>> \in older =>
                PinWraps \/ frames[v].used = 0]_vars
  BY <1>1 DEF LongestUnused
<1>3. QED
  BY <1>2, BooksInvariant, RecencyInvariant, PTL DEF Spec, EvictsLeastRecentlyUsed

-----------------------------------------------------------------------------
(* The pool implements PageStore, for every capacity, number of pages,     *)
(* guards and limits: each of its steps is a step of the store or changes  *)
(* nothing the store's clients or its file can tell.                       *)
(*                                                                         *)
(* WritesBack bounds what flushing and evicting may do; LagsBehind says    *)
(* exactly which pages of the file change, and is proved along the same    *)
(* path: flush_frame, ensure_space, actions.                               *)

DirtyPages(fr) == {p \in DOMAIN fr : fr[p].dirty}

\* What a client reads of page p.
ViewIn(fr, f, p) == IF p \in DOMAIN fr THEN fr[p].data ELSE f.pages[p]

\* The file pages once the frames W are written back.
DonePage(fr, f, W, p) == IF p \in W THEN fr[p].data ELSE f.pages[p]

\* One more write failed, on page x: it left the page new or torn.
FailedOn(fr, f, f2, W, x) ==
    /\ x \in DirtyPages(fr) \ W
    /\ f2.pages[x] \in {fr[x].data, Torn}
    /\ \A p \in DataPages : p # x => f2.pages[p] = DonePage(fr, f, W, p)

\* The file catches up with the dirty frames W, at most one write failing.
CatchesUp(fr, f, f2, W) ==
    \/ \A p \in DataPages : f2.pages[p] = DonePage(fr, f, W, p)
    \/ \E x \in DataPages : FailedOn(fr, f, f2, W, x)

LagsBehind(fr, f, fr2, f2, W) ==
    /\ W \subseteq DirtyPages(fr)
    /\ DirtyPages(fr2) = DirtyPages(fr) \ W
    /\ \A p \in DataPages : ViewIn(fr2, f2, p) = ViewIn(fr, f, p)
    /\ CatchesUp(fr, f, f2, W)

CleanAgrees(fr, f) == \A p \in DOMAIN fr : fr[p].dirty \/ fr[p].data = f.pages[p]

AtMostOne(W) == W = {} \/ \E v \in DataPages : W = {v}

-----------------------------------------------------------------------------
(* Flushing, evicting, making room.                                        *)

LEMMA WriteFailure ==
    ASSUME NEW m \in Manager, NEW f \in File, Backed(m, f), NEW p \in DataPages,
           NEW bytes \in Bytes, NEW o \in WritePageOutcomes(m, f, p, bytes), o.res # "Ok"
    PROVE  \/ \A q \in DataPages : o.file.pages[q] = f.pages[q]
           \/ /\ o.file.pages[p] \in {bytes, Torn}
              /\ \A q \in DataPages : q # p => o.file.pages[q] = f.pages[q]
<1>1. \/ o.file = f
      \/ Allocated(m, p) /\ \E g \in FailedPageWrites(f, p, bytes) : o.file = g
  BY DEF WritePageOutcomes, Outcome
<1>2. ASSUME Allocated(m, p), NEW g \in FailedPageWrites(f, p, bytes), o.file = g
      PROVE  \/ o.file = f
             \/ o.file = [f EXCEPT !.pages[p] = Torn]
             \/ o.file = [f EXCEPT !.pages[p] = bytes]
  <2>1. p < f.len
    <3>1. p \in Nat /\ m.next \in Nat /\ f.len \in Nat
      BY ConstantTypes DEF Manager, File
    <3>2. QED
      BY <1>2, <3>1 DEF Allocated, Backed
  <2>2. QED
    BY <1>2, <2>1 DEF FailedPageWrites
<1>3. f.pages \in [DataPages -> Bytes]
  BY DEF File
<1>4. ASSUME NEW b \in {bytes, Torn}, o.file = [f EXCEPT !.pages[p] = b]
      PROVE  /\ o.file.pages[p] \in {bytes, Torn}
             /\ \A q \in DataPages : q # p => o.file.pages[q] = f.pages[q]
  <2>1. o.file.pages = [f.pages EXCEPT ![p] = b]
    BY <1>4 DEF File
  <2>2. QED
    BY <2>1, <1>3, <1>4
<1>5. QED
  BY <1>1, <1>2, <1>4

\* The frames of S written back in full.
LEMMA FlushedLag ==
    ASSUME NEW fr, IsFrames(fr), NEW f \in File, NEW S \in SUBSET DOMAIN fr
    PROVE  LagsBehind(fr, f, Cleaned(fr, S), WrittenTo(f, fr, S), S \cap DirtyPages(fr))
<1> DEFINE fr2 == Cleaned(fr, S)
           f2 == WrittenTo(f, fr, S)
           W == S \cap DirtyPages(fr)
<1>1. /\ DOMAIN fr2 = DOMAIN fr
      /\ \A p \in DOMAIN fr : fr2[p].data = fr[p].data /\ fr2[p].dirty = (fr[p].dirty /\ p \notin S)
  BY CleanedType
<1>2. \A p \in DataPages : f2.pages[p] = IF p \in S /\ fr[p].dirty THEN fr[p].data ELSE f.pages[p]
  BY WrittenToType
<1>3. DOMAIN fr \subseteq DataPages
  BY DEF IsFrames
<1> HIDE DEF fr2, f2
<1>4. DirtyPages(fr2) = DirtyPages(fr) \ W
  BY <1>1 DEF DirtyPages
<1>5. \A p \in DataPages : f2.pages[p] = DonePage(fr, f, W, p)
  BY <1>2 DEF DonePage, DirtyPages
<1>6. \A p \in DataPages : ViewIn(fr2, f2, p) = ViewIn(fr, f, p)
  BY <1>1, <1>2 DEF ViewIn
<1>7. LagsBehind(fr, f, fr2, f2, W)
  BY <1>4, <1>5, <1>6 DEF LagsBehind, CatchesUp
<1>8. QED
  BY <1>7 DEF fr2, f2

LEMMA FlushLag ==
    ASSUME mgr \in Manager, NEW fr, IsFrames(fr), NEW f \in File, Backed(mgr, f),
           NEW S \in SUBSET DOMAIN fr, NEW o \in FlushOutcomes(fr, f, S)
    PROVE  \E W \in SUBSET S : LagsBehind(fr, f, o.frames, o.file, W)
<1>1. CASE o = Flushed("Ok", Cleaned(fr, S), WrittenTo(f, fr, S))
  <2>1. o.frames = Cleaned(fr, S) /\ o.file = WrittenTo(f, fr, S)
    BY <1>1 DEF Flushed
  <2>2. LagsBehind(fr, f, o.frames, o.file, S \cap DirtyPages(fr))
    BY <2>1, FlushedLag
  <2>3. S \cap DirtyPages(fr) \in SUBSET S
    OBVIOUS
  <2>4. QED
    BY <2>2, <2>3
<1>2. ASSUME NEW V \in SUBSET S, NEW p \in S \ V,
             \A q \in V : CanFlush(fr, q),
             o \in FlushFailures(Cleaned(fr, V), WrittenTo(f, fr, V), p)
      PROVE  \E W \in SUBSET S : LagsBehind(fr, f, o.frames, o.file, W)
  <2> DEFINE fr1 == Cleaned(fr, V)
             f1 == WrittenTo(f, fr, V)
             W == V \cap DirtyPages(fr)
  <2>1. LagsBehind(fr, f, fr1, f1, W)
    BY FlushedLag
  <2>2. /\ DOMAIN fr1 = DOMAIN fr /\ IsFrames(fr1)
        /\ \A q \in DOMAIN fr : fr1[q].data = fr[q].data
        /\ fr1[p].dirty => fr[p].dirty
    BY CleanedType
  <2>3. f1 \in File /\ Backed(mgr, f1)
    BY WrittenToType DEF Backed
  <2>4. \A q \in DataPages : f1.pages[q] = DonePage(fr, f, W, q)
    BY WrittenToType DEF DonePage, DirtyPages
  <2>5. W \in SUBSET S /\ p \notin W /\ p \in DOMAIN fr /\ p \in DataPages
    BY DEF IsFrames
  <2> HIDE DEF fr1, f1, W
  <2>6. o \in FlushFailures(fr1, f1, p)
    BY <1>2 DEF fr1, f1
  <2>7. CASE o = Flushed("PageBorrowed", fr1, f1)
    BY <2>1, <2>5, <2>7 DEF Flushed
  <2>8. CASE o # Flushed("PageBorrowed", fr1, f1)
    <3>1. fr1[p].dirty
      BY <2>6, <2>8 DEF FlushFailures, NeedsWrite
    <3>2. PICK w \in WritePageOutcomes(mgr, f1, p, fr1[p].data) :
            w.res # "Ok" /\ o = Flushed(w.res, fr1, w.file)
      BY <2>6, <2>8 DEF FlushFailures, NeedsWrite, AfterFailedWrite
    <3>3. o.frames = fr1 /\ o.file = w.file
      BY <3>2 DEF Flushed
    <3>4. fr1[p].data \in Bytes /\ fr1[p].data = fr[p].data
      BY <2>2, <2>5 DEF IsFrames, Frame
    <3>5. \/ \A q \in DataPages : w.file.pages[q] = f1.pages[q]
          \/ /\ w.file.pages[p] \in {fr[p].data, Torn}
             /\ \A q \in DataPages : q # p => w.file.pages[q] = f1.pages[q]
      BY <2>3, <2>5, <3>2, <3>4, WriteFailure
    <3>6. p \in DirtyPages(fr) \ W
      BY <2>2, <2>5, <3>1 DEF DirtyPages
    <3>7. CatchesUp(fr, f, w.file, W)
      BY <2>4, <2>5, <3>5, <3>6 DEF CatchesUp, FailedOn
    <3>8. \A q \in DataPages : ViewIn(fr1, w.file, q) = ViewIn(fr1, f1, q)
      BY <2>2, <2>5, <3>5 DEF ViewIn
    <3>9. LagsBehind(fr, f, fr1, w.file, W)
      BY <2>1, <3>7, <3>8 DEF LagsBehind
    <3>10. QED
      BY <2>5, <3>3, <3>9
  <2>9. QED
    BY <2>7, <2>8
<1>3. QED
  BY <1>1, <1>2 DEF FlushOutcomes

\* Evicting v costs at most the write-back of v.
LEMMA EvictionLag ==
    ASSUME mgr \in Manager, NEW fr, IsFrames(fr), NEW f \in File, Backed(mgr, f),
           CleanAgrees(fr, f), NEW v \in DOMAIN fr, NEW o \in EvictionOutcomes(fr, f, v)
    PROVE  \E W \in SUBSET {v} : LagsBehind(fr, f, o.frames, o.file, W)
<1>1. PICK w \in FlushOutcomes(fr, f, {v}) :
        o = IF w.res = "Ok" THEN Flushed("Ok", Without(w.frames, v), w.file) ELSE w
  BY DEF EvictionOutcomes
<1>2. /\ DOMAIN w.frames = DOMAIN fr
      /\ w.res = "Ok" => ~w.frames[v].dirty
  BY FlushEffect
<1>3. PICK W \in SUBSET {v} : LagsBehind(fr, f, w.frames, w.file, W)
  BY FlushLag
<1>4. CASE w.res # "Ok"
  BY <1>1, <1>3, <1>4
<1>5. CASE w.res = "Ok"
  <2> DEFINE fr2 == Without(w.frames, v)
  <2>1. o.frames = fr2 /\ o.file = w.file
    BY <1>1, <1>5 DEF Flushed
  <2>2. /\ DOMAIN fr2 = DOMAIN fr \ {v}
        /\ \A p \in DOMAIN fr \ {v} : fr2[p] = w.frames[p]
    BY <1>2 DEF Without
  <2> HIDE DEF fr2
  <2>3. DirtyPages(fr2) = DirtyPages(fr) \ W
    <3>1. DirtyPages(fr2) = DirtyPages(w.frames)
      BY <1>2, <1>5, <2>2 DEF DirtyPages
    <3>2. QED
      BY <1>3, <3>1 DEF LagsBehind
  <2>4. w.file.pages[v] = fr[v].data /\ v \in DataPages
    <3>1. v \in DataPages
      BY DEF IsFrames
    <3>2. v \in DirtyPages(fr) => v \in W
      BY <1>2, <1>3, <1>5 DEF LagsBehind, DirtyPages
    <3>3. v \notin DirtyPages(fr) => v \notin W /\ fr[v].data = f.pages[v]
      BY <1>3 DEF LagsBehind, DirtyPages, CleanAgrees
    <3>4. w.file.pages[v] = DonePage(fr, f, W, v)
      BY <1>3, <3>1, <3>2 DEF LagsBehind, CatchesUp, FailedOn
    <3>5. QED
      BY <3>1, <3>2, <3>3, <3>4 DEF DonePage
  <2>5. \A p \in DataPages : ViewIn(fr2, w.file, p) = ViewIn(fr, f, p)
    <3>1. \A p \in DataPages : ViewIn(w.frames, w.file, p) = ViewIn(fr, f, p)
      BY <1>3 DEF LagsBehind
    <3>2. QED
      BY <1>2, <2>2, <2>4, <3>1 DEF ViewIn
  <2>6. LagsBehind(fr, f, fr2, w.file, W)
    BY <1>3, <2>3, <2>5 DEF LagsBehind
  <2>7. QED
    BY <2>1, <2>6
<1>6. QED
  BY <1>4, <1>5

LEMMA NothingLags ==
    ASSUME NEW fr, NEW f
    PROVE  LagsBehind(fr, f, fr, f, {})
BY DEF LagsBehind, CatchesUp, DonePage

LEMMA EnsureSpaceLag ==
    ASSUME mgr \in Manager, NEW fr, IsFrames(fr), NEW f \in File, Backed(mgr, f),
           CleanAgrees(fr, f), NEW o \in EnsureSpaceOutcomes(fr, f)
    PROVE  \E W : AtMostOne(W) /\ LagsBehind(fr, f, o.frames, o.file, W)
<1>1. CASE o.frames = fr /\ o.file = f
  BY <1>1, NothingLags DEF AtMostOne
<1>2. ASSUME NEW v \in Victims(fr), o \in EvictionOutcomes(fr, f, v)
      PROVE  \E W : AtMostOne(W) /\ LagsBehind(fr, f, o.frames, o.file, W)
  <2>1. v \in DOMAIN fr /\ v \in DataPages
    BY DEF Victims, Unpinned, IsFrames
  <2>2. PICK W \in SUBSET {v} : LagsBehind(fr, f, o.frames, o.file, W)
    BY <1>2, <2>1, EvictionLag
  <2>3. AtMostOne(W)
    BY <2>1, <2>2 DEF AtMostOne
  <2>4. QED
    BY <2>2, <2>3
<1>3. QED
  BY <1>1, <1>2 DEF EnsureSpaceOutcomes, Flushed

\* Frames that a client and a flush cannot tell apart.
LEMMA SameLag ==
    ASSUME NEW fr0, NEW fr, SameContents(fr0, fr), NEW f,
           NEW fr2, NEW f2, NEW W, LagsBehind(fr, f, fr2, f2, W)
    PROVE  LagsBehind(fr0, f, fr2, f2, W)
<1>1. DirtyPages(fr) = DirtyPages(fr0)
  BY DEF DirtyPages, SameContents
<1>2. \A p \in DataPages : ViewIn(fr, f, p) = ViewIn(fr0, f, p)
  BY DEF ViewIn, SameContents
<1>3. \A p \in DataPages : DonePage(fr, f, W, p) = DonePage(fr0, f, W, p)
  BY DEF DonePage, LagsBehind, DirtyPages, SameContents
<1>4. CatchesUp(fr0, f, f2, W)
  BY <1>1, <1>3 DEF CatchesUp, FailedOn, LagsBehind, DirtyPages, SameContents
<1>5. QED
  BY <1>1, <1>2, <1>4 DEF LagsBehind

\* A page read into a new frame.
LEMMA ReadLag ==
    ASSUME NEW fr, NEW f, NEW fr2, NEW f2, NEW W, LagsBehind(fr, f, fr2, f2, W),
           NEW p \in DataPages, p \notin DOMAIN fr2,
           NEW fr3, DOMAIN fr3 = DOMAIN fr2 \cup {p},
           \A q \in DOMAIN fr2 : fr3[q] = fr2[q],
           fr3[p].data = f2.pages[p], ~fr3[p].dirty
    PROVE  LagsBehind(fr, f, fr3, f2, W)
<1>1. DirtyPages(fr3) = DirtyPages(fr2)
  BY DEF DirtyPages
<1>2. \A q \in DataPages : ViewIn(fr3, f2, q) = ViewIn(fr2, f2, q)
  BY DEF ViewIn
<1>3. QED
  BY <1>1, <1>2 DEF LagsBehind

\* allocate_page adds a page of zeros or leaves what was there.
LEMMA AllocateLag ==
    ASSUME NEW m \in Manager, NEW f \in File, NEW o \in AllocatePageOutcomes(m, f)
    PROVE  \/ /\ o.mgr = m
              /\ o.res # "Ok"
              /\ o.file.next = f.next
              /\ \A q \in DataPages : q # m.next => o.file.pages[q] = f.pages[q]
           \/ /\ m.next \in DataPages
              /\ o.mgr \in Manager
              /\ o.mgr.next = m.next + 1
              /\ o.file.next \in {f.next, m.next + 1}
              /\ \A q \in DataPages : o.file.pages[q] = IF q = m.next THEN Zero ELSE f.pages[q]
<1> DEFINE p == m.next
           raised == [m EXCEPT !.next = @ + 1]
           extended == PutPage(f, p, Zero)
<1>1. CASE m.readOnly \/ m.next = PageIdLimit
  BY <1>1 DEF AllocatePageOutcomes, Writable, PageIdsExhausted, Outcome
<1>2. CASE ~m.readOnly /\ m.next # PageIdLimit
  <2>1. p \in DataPages /\ Zero \in Bytes
    BY <1>2, ConstantTypes DEF Manager, Bytes
  <2>2. raised \in Manager /\ raised.next = p + 1
    BY <1>2, <2>1, ConstantTypes DEF Manager
  <2>3. /\ extended \in File
        /\ extended.next = f.next
        /\ extended.pages = [f.pages EXCEPT ![p] = Zero]
    BY <2>1, PutPageType
  <2>4. \A q \in DataPages : extended.pages[q] = IF q = p THEN Zero ELSE f.pages[q]
    BY <2>1, <2>3 DEF File
  <2>5. \/ o \in {Outcome("Io", m, g) : g \in FailedPageWrites(f, p, Zero)}
        \/ o \in {Outcome("Io", raised, g) : g \in FailedHeaderWrites(extended, raised)}
        \/ o = Outcome("Ok", raised, PutHeader(extended, raised))
    BY <1>2 DEF AllocatePageOutcomes, Writable, PageIdsExhausted, Extended
  <2> HIDE DEF raised, extended
  <2>6. CASE o \in {Outcome("Io", m, g) : g \in FailedPageWrites(f, p, Zero)}
    <3>1. PICK g \in FailedPageWrites(f, p, Zero) : o = Outcome("Io", m, g)
      BY <2>6
    <3>2. g.next = f.next /\ \A q \in DataPages : q # p => g.pages[q] = f.pages[q]
      BY <2>1, FailedPageWriteType
    <3>3. QED
      BY <3>1, <3>2 DEF Outcome
  <2>7. CASE \/ o \in {Outcome("Io", raised, g) : g \in FailedHeaderWrites(extended, raised)}
             \/ o = Outcome("Ok", raised, PutHeader(extended, raised))
    <3>1. PICK g \in FailedHeaderWrites(extended, raised) \cup {PutHeader(extended, raised)} :
            o.mgr = raised /\ o.file = g
      BY <2>7 DEF Outcome
    <3>2. g.pages = extended.pages /\ g.next \in {f.next, p + 1}
      BY <2>2, <2>3, HeaderWriteType
    <3>3. QED
      BY <2>1, <2>2, <2>4, <3>1, <3>2
  <2>8. QED
    BY <2>5, <2>6, <2>7
<1>3. QED
  BY <1>1, <1>2 DEF Manager

LEMMA SetCatalogRootLag ==
    ASSUME NEW m \in Manager, NEW f \in File, NEW p \in DataPages,
           NEW o \in SetCatalogRootOutcomes(m, f, p)
    PROVE  /\ o.mgr \in Manager
           /\ o.mgr.next = m.next
           /\ o.file.pages = f.pages
           /\ o.file.next \in {f.next, m.next}
<1> DEFINE rooted == [m EXCEPT !.root = p]
<1>1. rooted \in Manager /\ rooted.next = m.next
  BY DEF Manager
<1>2. \/ o.mgr = m /\ o.file = f
      \/ \E g \in FailedHeaderWrites(f, rooted) \cup {PutHeader(f, rooted)} :
           o.mgr = rooted /\ o.file = g
  BY DEF SetCatalogRootOutcomes, Outcome
<1> HIDE DEF rooted
<1>3. ASSUME NEW g \in FailedHeaderWrites(f, rooted) \cup {PutHeader(f, rooted)}
      PROVE  g.pages = f.pages /\ g.next \in {f.next, m.next}
  BY <1>1, <1>3, HeaderWriteType
<1>4. QED
  BY <1>1, <1>2, <1>3

-----------------------------------------------------------------------------
(* From the pool's state to the store's.                                   *)

LEMMA AppendOf ==
    ASSUME NEW S, NEW n \in Nat, NEW s \in [1 .. n -> S], NEW z \in S,
           NEW t \in [1 .. (n + 1) -> S], t[n + 1] = z, \A i \in 1 .. n : t[i] = s[i]
    PROVE  t = Append(s, z) /\ Len(t) = n + 1
<1>1. s \in Seq(S) /\ Len(s) = n
  OBVIOUS
<1>2. t \in Seq(S) /\ Len(t) = n + 1
  OBVIOUS
<1>3. /\ Append(s, z) \in Seq(S)
      /\ Len(Append(s, z)) = n + 1
      /\ \A i \in 1 .. n : Append(s, z)[i] = s[i]
      /\ Append(s, z)[n + 1] = z
  BY <1>1, AppendProperties
<1>4. \A i \in 1 .. Len(t) : t[i] = Append(s, z)[i]
  BY <1>2, <1>3
<1>5. QED
  BY <1>2, <1>3, <1>4, SeqEqual

LEMMA PrefixOf ==
    ASSUME NEW S, NEW n \in Nat, NEW s \in [1 .. n -> S], NEW k \in Int, k <= n,
           NEW t \in [1 .. k -> S], \A i \in 1 .. k : t[i] = s[i]
    PROVE  t = SubSeq(s, 1, k)
<1>1. CASE k < 1
  <2>1. SubSeq(s, 1, k) = <<>>
    BY <1>1, SubSeqEmpty
  <2>2. t = <<>>
    BY <1>1
  <2>3. QED
    BY <2>1, <2>2
<1>2. CASE k >= 1
  <2>1. t \in Seq(S) /\ Len(t) = k
    BY <1>2
  <2>2. \A i \in 1 .. k : s[i] \in S
    OBVIOUS
  <2>3. /\ SubSeq(s, 1, k) \in Seq(S)
        /\ Len(SubSeq(s, 1, k)) = k
        /\ \A i \in 1 .. k : SubSeq(s, 1, k)[i] = s[i]
    BY <1>2, <2>2, SubSeqProperties
  <2>4. \A i \in 1 .. Len(t) : t[i] = SubSeq(s, 1, k)[i]
    BY <2>1, <2>3
  <2>5. QED
    BY <2>1, <2>3, <2>4, SeqEqual
<1>3. QED
  BY <1>1, <1>2

\* The range of the pages the store has, and their bytes.
LEMMA StorePages ==
    ASSUME Books, Contents, mgr # Closed
    PROVE  /\ PageCount = mgr.next - 1 /\ PageCount \in Nat
           /\ 1 .. PageCount \subseteq DataPages
           /\ mgr.next \notin Cached
           /\ DirtyPages(frames) \subseteq 1 .. PageCount
           /\ file.next - 1 \in Int /\ file.next - 1 <= PageCount
           /\ CleanAgrees(frames, file)
           /\ CleanAgrees(Stamped(frames), file)
           /\ \A p \in DataPages : View(p) \in Bytes /\ View(p) = ViewIn(frames, file, p)
<1>1. /\ TypeOK /\ PoolState /\ mgr \in Manager /\ file \in File /\ Backed(mgr, file)
      /\ IsFrames(frames) /\ mgr.next \in Nat /\ mgr.next >= 1 /\ clock \in 0 .. ClockLimit
  BY OpenPool
<1>2. PageCount = mgr.next - 1 /\ PageCount \in Nat
  BY <1>1 DEF PageCount
<1>3. 1 .. PageCount \subseteq DataPages
  BY <1>1, <1>2, ConstantTypes DEF Manager
<1>4. \A p \in Cached : p \in 1 .. PageCount
  <2>1. \A p \in Cached : p >= 1 /\ p < mgr.next /\ p \in Nat
    BY <1>1, ConstantTypes DEF PoolState, Allocated, FirstDataPageId, TypeOK
  <2>2. QED
    BY <2>1, <1>1, <1>2
<1>5. mgr.next \notin Cached
  BY <1>1, <1>2, <1>4
<1>6. file.next - 1 \in Int /\ file.next - 1 <= PageCount
  <2>1. file.next \in Nat /\ file.next <= mgr.next
    BY <1>1, ConstantTypes DEF File, Backed
  <2>2. QED
    BY <2>1, <1>1, <1>2
<1>7. CleanAgrees(frames, file)
  BY DEF Contents, Agree, CleanAgrees
<1>8. CleanAgrees(Stamped(frames), file)
  BY <1>1, <1>7, StampedType DEF CleanAgrees
<1>9. \A p \in DataPages : View(p) \in Bytes /\ View(p) = ViewIn(frames, file, p)
  BY <1>1 DEF View, ViewIn, Cached, IsFrames, Frame, File
<1>10. QED
  BY <1>2, <1>3, <1>4, <1>5, <1>6, <1>7, <1>8, <1>9 DEF DirtyPages, Cached

\* What the file holds once it caught up is one of the store's outcomes.
LEMMA DiskCatchesUp ==
    ASSUME Books, Contents, mgr # Closed,
           NEW fr, NEW f, NEW W, LagsBehind(frames, file, fr, f, W)
    PROVE  /\ [p \in 1 .. PageCount |-> f.pages[p]] \in Store!WrittenBack(W)
           /\ W \in SUBSET {p \in Cached : frames[p].dirty}
<1> DEFINE n == PageCount
           d == [p \in 1 .. n |-> f.pages[p]]
           disk == [p \in 1 .. n |-> file.pages[p]]
           view == [p \in 1 .. n |-> View(p)]
           pending == {p \in Cached : frames[p].dirty}
           done == [p \in DOMAIN disk |-> IF p \in W THEN view[p] ELSE disk[p]]
<1>1. /\ 1 .. n \subseteq DataPages
      /\ pending \subseteq 1 .. n
      /\ pending = DirtyPages(frames)
      /\ W \subseteq pending
  BY StorePages DEF DirtyPages, Cached, LagsBehind
<1>2. \A p \in pending : view[p] = frames[p].data
  BY <1>1 DEF View
<1>3. done = [p \in 1 .. n |-> DonePage(frames, file, W, p)]
  BY <1>1, <1>2 DEF DonePage
<1>4. Store!WrittenBack(W) = {done} \cup {[done EXCEPT ![p] = view[p]] : p \in pending \ W}
                                    \cup {[done EXCEPT ![p] = Torn] : p \in pending \ W}
  BY DEF Store!WrittenBack
<1> HIDE DEF disk, view, pending, done, n
<1>5. ASSUME \A p \in DataPages : f.pages[p] = DonePage(frames, file, W, p)
      PROVE  d \in Store!WrittenBack(W)
  <2>1. d = done
    BY <1>1, <1>3, <1>5
  <2>2. QED
    BY <1>4, <2>1
<1>6. ASSUME NEW x \in DataPages, FailedOn(frames, file, f, W, x)
      PROVE  d \in Store!WrittenBack(W)
  <2>1. x \in pending \ W /\ x \in 1 .. n
    BY <1>1, <1>6 DEF FailedOn
  <2>2. \A b : f.pages[x] = b => d = [done EXCEPT ![x] = b]
    BY <1>1, <1>3, <1>6, <2>1 DEF FailedOn
  <2>3. f.pages[x] \in {view[x], Torn}
    BY <1>2, <1>6, <2>1 DEF FailedOn
  <2>4. d = [done EXCEPT ![x] = view[x]] \/ d = [done EXCEPT ![x] = Torn]
    BY <2>2, <2>3
  <2>5. QED
    BY <1>4, <2>1, <2>4
<1>7. d \in Store!WrittenBack(W)
  BY <1>5, <1>6 DEF LagsBehind, CatchesUp
<1>8. QED
  BY <1>1, <1>7 DEF n, pending

\* Frames fr and file f after a flush or an eviction, seen through a step.
Shows(fr, f) ==
    /\ DirtyPages(frames') = DirtyPages(fr)
    /\ \A p \in 1 .. PageCount : /\ file'.pages[p] = f.pages[p]
                                 /\ ViewIn(frames', file', p) = ViewIn(fr, f, p)

LEMMA MapsWriteBack ==
    ASSUME Books, Contents, mgr # Closed,
           NEW fr, NEW f, NEW W, LagsBehind(frames, file, fr, f, W), Shows(fr, f),
           mgr' \in Manager, mgr'.next = mgr.next, file'.next = file.next
    PROVE  Store!WriteBack
<1> DEFINE n == PageCount
           pending == {p \in Cached : frames[p].dirty}
<1>1. /\ n = mgr.next - 1
      /\ 1 .. n \subseteq DataPages
      /\ \A p \in DataPages : View(p) = ViewIn(frames, file, p)
  BY StorePages
<1>2. PageCount' = n
  BY <1>1, PoolConstants DEF PageCount
<1>3. \A p \in 1 .. n : View(p)' = View(p)
  BY <1>1 DEF Shows, LagsBehind, View, ViewIn, Cached
<1>4. pending' = pending \ W
  BY DEF Shows, LagsBehind, DirtyPages, Cached
<1>5. [p \in 1 .. n |-> f.pages[p]] \in Store!WrittenBack(W) /\ W \in SUBSET pending
  BY DiskCatchesUp
<1>6. [p \in 1 .. PageCount |-> file.pages[p]]' = [p \in 1 .. n |-> f.pages[p]]
  BY <1>2 DEF Shows
<1>7. [p \in 1 .. PageCount |-> View(p)]' = [p \in 1 .. PageCount |-> View(p)]
  BY <1>2, <1>3
<1>8. Store!WritesBack(W)
  BY <1>4, <1>5, <1>6, <1>7 DEF Store!WritesBack
<1>9. QED
  BY <1>5, <1>8 DEF Store!WriteBack

\* The store's Cardinality is ours.
LEMMA StoreCardinality == \A W : Store!Cardinality(W) = Cardinality(W)
BY DEF Store!Cardinality, Cardinality

LEMMA MapsGrow ==
    ASSUME Books, Contents, mgr # Closed,
           NEW fr, NEW f, NEW W, LagsBehind(frames, file, fr, f, W), Shows(fr, f), AtMostOne(W),
           mgr.next \in DataPages, mgr' \in Manager, mgr'.next = mgr.next + 1,
           file'.next \in {file.next, mgr.next + 1},
           file' \in File, file'.pages[mgr.next] = Zero,
           ViewIn(frames', file', mgr.next) = Zero
    PROVE  Store!Grow
<1>1. PICK n \in Nat :
         /\ n = PageCount /\ n = mgr.next - 1 /\ mgr.next = n + 1
         /\ 1 .. n \subseteq DataPages
         /\ \A p \in DataPages : View(p) \in Bytes /\ View(p) = ViewIn(frames, file, p)
  BY StorePages, OpenPool
<1> DEFINE pending == {p \in Cached : frames[p].dirty}
           view == [p \in 1 .. n |-> View(p)]
           view2 == [p \in 1 .. (n + 1) |-> View(p)']
           d == [p \in 1 .. n |-> f.pages[p]]
           disk2 == [p \in 1 .. (n + 1) |-> file'.pages[p]]
<1>2. PageCount' = n + 1
  BY <1>1, PoolConstants DEF PageCount
<1>3. \A p \in 1 .. n : View(p)' = View(p)
  <2>1. \A p \in 1 .. n : ViewIn(frames', file', p) = ViewIn(frames, file, p)
    BY <1>1 DEF Shows, LagsBehind
  <2>2. QED
    BY <2>1 DEF View, ViewIn, Cached
<1>4. pending' = pending \ W
  BY DEF Shows, LagsBehind, DirtyPages, Cached
<1>5. d \in Store!WrittenBack(W) /\ W \in SUBSET pending
  BY <1>1, DiskCatchesUp
<1>6. Cardinality(W) <= 1
  <2>1. ASSUME NEW v, W = {v} PROVE Cardinality(W) = 1
    BY <2>1, FS_Singleton
  <2>2. ASSUME W = {} PROVE Cardinality(W) = 0
    BY <2>2, FS_EmptySet
  <2>3. QED
    BY <2>1, <2>2 DEF AtMostOne
<1>7. Zero \in Bytes
  BY ConstantTypes DEF Bytes
<1>8. view2 = Append(view, Zero) /\ Len(view2) = n + 1
  <2>1. view \in [1 .. n -> Bytes]
    BY <1>1
  <2>2. View(n + 1)' = Zero
    <3>1. ViewIn(frames', file', n + 1) = Zero
      BY <1>1
    <3>2. QED
      BY <3>1 DEF View, ViewIn, Cached
  <2>3. \A p \in 1 .. n : view2[p] = view[p]
    BY <1>1, <1>3
  <2>4. view2[n + 1] = Zero
    BY <1>1, <2>2
  <2>5. \A p \in 1 .. (n + 1) : view2[p] \in Bytes
    BY <1>1, <1>3, <1>7, <2>2
  <2>6. view2 \in [1 .. (n + 1) -> Bytes]
    BY <2>5
  <2> HIDE DEF view, view2
  <2>7. QED
    BY <1>1, <1>7, <2>1, <2>3, <2>4, <2>6, AppendOf
<1>9. disk2 = Append(d, Zero)
  <2>1. \A p \in DataPages : file'.pages[p] \in Bytes
    BY DEF File
  <2>2. \A p \in 1 .. n : d[p] = file'.pages[p]
    BY <1>1 DEF Shows
  <2>3. d \in [1 .. n -> Bytes]
    BY <1>1, <2>1, <2>2
  <2>4. \A p \in 1 .. (n + 1) : p \in DataPages
    BY <1>1
  <2>5. disk2 \in [1 .. (n + 1) -> Bytes]
    BY <2>1, <2>4
  <2>6. disk2[n + 1] = Zero /\ \A p \in 1 .. n : disk2[p] = d[p]
    <3>1. n + 1 \in 1 .. (n + 1) /\ \A p \in 1 .. n : p \in 1 .. (n + 1)
      OBVIOUS
    <3>2. file'.pages[n + 1] = Zero
      BY <1>1
    <3>3. QED
      BY <2>2, <3>1, <3>2
  <2> HIDE DEF disk2, d
  <2>7. QED
    BY <1>1, <1>7, <2>3, <2>5, <2>6, AppendOf
<1>10. (file.next - 1)' \in {file.next - 1, Len(view2)}
  BY <1>1, <1>8
<1>11. /\ [p \in 1 .. PageCount |-> View(p)] = view
       /\ [p \in 1 .. PageCount |-> View(p)]' = view2
       /\ [p \in 1 .. PageCount |-> file.pages[p]]' = disk2
  BY <1>1, <1>2
<1> HIDE DEF view, view2, disk2, d
<1>12. (file.next - 1)' \in {file.next - 1, Len([p \in 1 .. PageCount |-> View(p)]')}
  BY <1>10, <1>11
<1>13. /\ [p \in 1 .. PageCount |-> View(p)]'
            = Append([p \in 1 .. PageCount |-> View(p)], Zero)
       /\ [p \in 1 .. PageCount |-> file.pages[p]]' = Append(d, Zero)
  BY <1>8, <1>9, <1>11
<1>14. QED
  BY <1>4, <1>5, <1>6, <1>12, <1>13, StoreCardinality DEF Store!Grow

\* A pool that is closed or lost.
LEMMA MapsLose ==
    ASSUME Books, Contents, mgr # Closed,
           NEW fr, NEW W, LagsBehind(frames, file, fr, file', W),
           mgr' = Closed, frames' = NoFrames, file' \in File, file'.next = file.next
    PROVE  Store!Lose
<1> DEFINE n == PageCount
           k == file.next - 1
           pending == {p \in Cached : frames[p].dirty}
           d == [p \in 1 .. n |-> file'.pages[p]]
           disk2 == [p \in 1 .. k |-> file'.pages[p]]
<1>1. /\ n \in Nat /\ k \in Int /\ k <= n
      /\ 1 .. n \subseteq DataPages
  BY StorePages
<1>2. PageCount' = k /\ (file.next - 1)' = k
  BY DEF PageCount
<1>3. Cached' = {} /\ pending' = {}
  BY DEF Cached, NoFrames
<1>4. \A p : View(p)' = file'.pages[p]
  BY <1>3 DEF View
<1>5. d \in Store!WrittenBack(W) /\ W \in SUBSET pending
  BY DiskCatchesUp
<1>6. disk2 = SubSeq(d, 1, k)
  <2>1. \A p \in DataPages : file'.pages[p] \in Bytes
    BY DEF File
  <2>2. d \in [1 .. n -> Bytes]
    BY <1>1, <2>1
  <2>3. \A p \in 1 .. k : p \in 1 .. n
    BY <1>1
  <2>4. disk2 \in [1 .. k -> Bytes] /\ \A p \in 1 .. k : disk2[p] = d[p]
    BY <1>1, <2>1, <2>3
  <2> HIDE DEF d, disk2, n, k
  <2>5. QED
    BY <1>1, <2>2, <2>4, PrefixOf
<1>7. /\ [p \in 1 .. PageCount |-> View(p)]' = disk2
      /\ [p \in 1 .. PageCount |-> file.pages[p]]' = disk2
  BY <1>2, <1>4
<1> HIDE DEF d, disk2, n
<1>8. Store!LosesAfter(W)
  BY <1>2, <1>3, <1>5, <1>6, <1>7 DEF Store!LosesAfter
<1>9. QED
  BY <1>5, <1>8 DEF Store!Lose

-----------------------------------------------------------------------------
(* One lemma per kind of action.                                           *)

LEMMA MapsStutter ==
    ASSUME SameContents(frames, frames'), file' = file, PageCount' = PageCount
    PROVE  UNCHANGED Store!vars
<1>1. \A p : View(p)' = View(p)
  BY DEF View, Cached, SameContents
<1>2. {p \in Cached : frames[p].dirty}' = {p \in Cached : frames[p].dirty}
  BY DEF Cached, SameContents
<1>3. QED
  BY <1>1, <1>2 DEF Store!vars

\* An open pool that keeps its frames' contents, its manager and its file.
LEMMA MapsNothing ==
    ASSUME SameContents(frames, frames'), file' = file, mgr' = mgr
    PROVE  UNCHANGED Store!vars
<1>1. PageCount' = PageCount
  BY DEF PageCount
<1>2. QED
  BY <1>1, MapsStutter

\* The frames and the file become the outcome of what was written back.
LEMMA ShowsItself ==
    ASSUME NEW fr, NEW f, frames' = fr, file' = f
    PROVE  Shows(fr, f)
BY DEF Shows

LEMMA PinMissMaps ==
    ASSUME Books, Contents, NEW g \in Guards, NEW p \in DataPages, PinMiss(g, p)
    PROVE  Store!WriteBack
<1> DEFINE st == Stamped(frames)
<1>1. mgr # Closed
  BY DEF PinMiss
<1>2. /\ TypeOK /\ mgr \in Manager /\ file \in File /\ Backed(mgr, file)
      /\ IsFrames(frames) /\ IsFrames(st) /\ clock \in 0 .. ClockLimit
  BY <1>1, OpenPool
<1>3. PICK o \in EnsureSpaceOutcomes(st, file) :
        /\ frames' = With(o.frames, p, NewFrame(o.file.pages[p]))
        /\ FileBecomes(o.file)
  BY DEF PinMiss
<1>4. SameContents(frames, st)
  BY <1>2, StampedContents
<1>5. CleanAgrees(st, file)
  BY <1>1, StorePages
<1> HIDE DEF st
<1>6. PICK W : LagsBehind(st, file, o.frames, o.file, W)
  BY <1>2, <1>3, <1>5, EnsureSpaceLag
<1>7. LagsBehind(frames, file, o.frames, o.file, W)
  BY <1>4, <1>6, SameLag
<1>8. WritesBack(st, file, o.frames, o.file)
  BY <1>2, <1>3, EnsureSpaceEffect
<1>9. /\ IsFrames(o.frames) /\ p \notin DOMAIN o.frames
      /\ o.file \in File /\ o.file.next = file.next
  BY <1>4, <1>8 DEF WritesBack, PinMiss, SameContents, Cached
<1>10. o.file.pages[p] \in Bytes
  BY <1>9 DEF File
<1> DEFINE frame == NewFrame(o.file.pages[p])
<1>11. frame \in Frame /\ frame.data = o.file.pages[p] /\ ~frame.dirty
  BY <1>2, <1>10, NewFrameType
<1>12. frames' = With(o.frames, p, frame) /\ file' = o.file
  BY <1>3 DEF FileBecomes
<1> HIDE DEF frame
<1>13. /\ DOMAIN frames' = DOMAIN o.frames \cup {p}
       /\ \A q \in DOMAIN o.frames : frames'[q] = o.frames[q]
       /\ frames'[p].data = o.file.pages[p] /\ ~frames'[p].dirty
  <2>1. /\ DOMAIN With(o.frames, p, frame) = DOMAIN o.frames \cup {p}
        /\ With(o.frames, p, frame)[p] = frame
        /\ \A q \in DOMAIN o.frames : q # p => With(o.frames, p, frame)[q] = o.frames[q]
    BY DEF With
  <2>2. QED
    BY <1>9, <1>11, <1>12, <2>1
<1>14. LagsBehind(frames, file, frames', file', W)
  BY <1>7, <1>9, <1>12, <1>13, ReadLag
<1>15. Shows(frames', file')
  BY ShowsItself
<1>16. mgr' = mgr
  BY DEF PinMiss
<1>17. QED
  BY <1>1, <1>2, <1>9, <1>12, <1>14, <1>15, <1>16, MapsWriteBack

LEMMA PinMissFailsMaps ==
    ASSUME Books, Contents, PinMissFails
    PROVE  Store!WriteBack
<1> DEFINE st == Stamped(frames)
<1>1. mgr # Closed /\ mgr' = mgr
  BY DEF PinMissFails
<1>2. /\ TypeOK /\ mgr \in Manager /\ file \in File /\ Backed(mgr, file)
      /\ IsFrames(frames) /\ IsFrames(st)
  BY <1>1, OpenPool
<1>3. PICK o \in EnsureSpaceOutcomes(st, file) : frames' = o.frames /\ file' = o.file
  BY DEF PinMissFails, FileBecomes
<1>4. SameContents(frames, st)
  BY <1>2, StampedContents
<1>5. CleanAgrees(st, file)
  BY <1>1, StorePages
<1> HIDE DEF st
<1>6. PICK W : LagsBehind(st, file, frames', file', W)
  BY <1>2, <1>3, <1>5, EnsureSpaceLag
<1>7. LagsBehind(frames, file, frames', file', W)
  BY <1>4, <1>6, SameLag
<1>8. file'.next = file.next
  BY <1>2, <1>3, EnsureSpaceEffect DEF WritesBack
<1>9. QED
  BY <1>1, <1>2, <1>7, <1>8, ShowsItself, MapsWriteBack

\* Room is made, then a page is added to the file and the header written.
LEMMA AllocatePageMaps ==
    ASSUME Books, Contents, NEW g \in Guards, AllocatePage(g)
    PROVE  Store!Grow
<1> DEFINE n == mgr.next
<1>1. mgr # Closed
  BY DEF AllocatePage
<1>2. /\ TypeOK /\ mgr \in Manager /\ file \in File /\ Backed(mgr, file)
      /\ IsFrames(frames) /\ clock \in 0 .. ClockLimit /\ n \in Nat
  BY <1>1, OpenPool
<1>3. PICK o \in EnsureSpaceOutcomes(frames, file) :
        /\ \E a \in AllocatePageOutcomes(mgr, o.file) :
             a.res = "Ok" /\ mgr' = a.mgr /\ FileBecomes(a.file)
        /\ frames' = With(Stamped(o.frames), n, NewFrame(Zero))
  BY DEF AllocatePage
<1>4. PICK a \in AllocatePageOutcomes(mgr, o.file) :
        a.res = "Ok" /\ mgr' = a.mgr /\ file' = a.file
  BY <1>3 DEF FileBecomes
<1>5. CleanAgrees(frames, file) /\ n \notin Cached /\ PageCount = n - 1
  BY <1>1, StorePages
<1>6. PICK W : AtMostOne(W) /\ LagsBehind(frames, file, o.frames, o.file, W)
  BY <1>2, <1>3, <1>5, EnsureSpaceLag
<1>7. WritesBack(frames, file, o.frames, o.file)
  BY <1>2, <1>3, EnsureSpaceEffect
<1>8. /\ IsFrames(o.frames) /\ DOMAIN o.frames \subseteq Cached
      /\ o.file \in File /\ o.file.next = file.next /\ Backed(mgr, o.file)
  BY <1>2, <1>7 DEF WritesBack, Cached, Backed
<1>9. file' \in File
  BY <1>2, <1>4, <1>8, AllocateEffect
<1>10. /\ n \in DataPages /\ mgr' \in Manager /\ mgr'.next = n + 1
       /\ file'.next \in {file.next, n + 1}
       /\ \A q \in DataPages : file'.pages[q] = IF q = n THEN Zero ELSE o.file.pages[q]
  BY <1>2, <1>4, <1>8, AllocateLag
<1> DEFINE st == Stamped(o.frames)
           frame == NewFrame(Zero)
<1>11. IsFrames(st) /\ DOMAIN st = DOMAIN o.frames /\ SameContents(o.frames, st)
  BY <1>2, <1>8, StampedType, StampedContents
<1>12. frame \in Frame /\ frame.data = Zero /\ ~frame.dirty
  BY <1>2, NewFrameType, ConstantTypes DEF Bytes
<1>13. frames' = With(st, n, frame)
  BY <1>3
<1> HIDE DEF st, frame
<1>14. /\ DOMAIN frames' = DOMAIN o.frames \cup {n}
       /\ \A q \in DOMAIN o.frames : frames'[q] = st[q]
       /\ frames'[n].data = Zero /\ ~frames'[n].dirty
  BY <1>5, <1>8, <1>10, <1>11, <1>12, <1>13, WithType
<1>15. Shows(o.frames, o.file)
  <2>1. DirtyPages(frames') = DirtyPages(o.frames)
    BY <1>5, <1>8, <1>11, <1>14 DEF DirtyPages, SameContents
  <2>2. \A p \in 1 .. PageCount : p \in DataPages /\ p # n
    BY <1>1, <1>2, <1>5, StorePages
  <2>3. ASSUME NEW p \in 1 .. PageCount
        PROVE  /\ file'.pages[p] = o.file.pages[p]
               /\ ViewIn(frames', file', p) = ViewIn(o.frames, o.file, p)
    BY <1>10, <1>11, <1>14, <2>2 DEF ViewIn, SameContents
  <2>4. QED
    BY <2>1, <2>3 DEF Shows
<1>16. file'.pages[n] = Zero /\ ViewIn(frames', file', n) = Zero
  BY <1>10, <1>14 DEF ViewIn
<1>17. QED
  BY <1>1, <1>6, <1>9, <1>10, <1>15, <1>16, MapsGrow

LEMMA AllocatePageFailsMaps ==
    ASSUME Books, Contents, AllocatePageFails
    PROVE  Store!WriteBack \/ Store!Grow
<1> DEFINE n == mgr.next
<1>1. mgr # Closed
  BY DEF AllocatePageFails
<1>2. /\ TypeOK /\ mgr \in Manager /\ file \in File /\ Backed(mgr, file)
      /\ IsFrames(frames) /\ n \in Nat
  BY <1>1, OpenPool
<1>3. PICK o \in EnsureSpaceOutcomes(frames, file) :
        /\ frames' = o.frames
        /\ \/ mgr' = mgr /\ file' = o.file
           \/ \E a \in AllocatePageOutcomes(mgr, o.file) : mgr' = a.mgr /\ file' = a.file
  BY DEF AllocatePageFails, FileBecomes
<1>4. CleanAgrees(frames, file) /\ n \notin Cached /\ PageCount = n - 1
  BY <1>1, StorePages
<1>5. PICK W : AtMostOne(W) /\ LagsBehind(frames, file, frames', o.file, W)
  BY <1>2, <1>3, <1>4, EnsureSpaceLag
<1>6. WritesBack(frames, file, frames', o.file)
  BY <1>2, <1>3, EnsureSpaceEffect
<1>7. /\ DOMAIN frames' \subseteq Cached
      /\ o.file \in File /\ o.file.next = file.next /\ Backed(mgr, o.file)
  BY <1>2, <1>6 DEF WritesBack, Cached, Backed
<1>8. \A p \in 1 .. PageCount : p \in DataPages /\ p # n
  BY <1>1, <1>2, <1>4, StorePages
<1>9. ASSUME \A p \in DataPages : p # n => file'.pages[p] = o.file.pages[p]
      PROVE  Shows(frames', o.file)
  <2>1. ASSUME NEW p \in 1 .. PageCount
        PROVE  /\ file'.pages[p] = o.file.pages[p]
               /\ ViewIn(frames', file', p) = ViewIn(frames', o.file, p)
    BY <1>8, <1>9 DEF ViewIn
  <2>2. QED
    BY <2>1 DEF Shows
<1>10. CASE mgr' = mgr /\ file' = o.file
  BY <1>1, <1>2, <1>5, <1>7, <1>9, <1>10, MapsWriteBack
<1>11. ASSUME NEW a \in AllocatePageOutcomes(mgr, o.file), mgr' = a.mgr, file' = a.file
       PROVE  Store!WriteBack \/ Store!Grow
  <2>1. file' \in File
    BY <1>2, <1>7, <1>11, AllocateEffect
  <2>2. CASE /\ mgr' = mgr /\ file'.next = o.file.next
             /\ \A q \in DataPages : q # n => file'.pages[q] = o.file.pages[q]
    BY <1>1, <1>2, <1>5, <1>7, <1>9, <2>2, MapsWriteBack
  <2>3. CASE /\ n \in DataPages /\ mgr' \in Manager /\ mgr'.next = n + 1
             /\ file'.next \in {file.next, n + 1}
             /\ \A q \in DataPages : file'.pages[q] = IF q = n THEN Zero ELSE o.file.pages[q]
    <3>1. Shows(frames', o.file)
      BY <1>9, <2>3
    <3>2. file'.pages[n] = Zero /\ ViewIn(frames', file', n) = Zero
      BY <1>4, <1>7, <2>3 DEF ViewIn
    <3>3. QED
      BY <1>1, <1>5, <2>1, <2>3, <3>1, <3>2, MapsGrow
  <2>4. QED
    BY <1>2, <1>7, <1>11, <2>2, <2>3, AllocateLag
<1>12. QED
  BY <1>3, <1>10, <1>11

LEMMA WritePageMaps ==
    ASSUME Books, Contents, NEW g \in Guards, NEW bytes \in Content, WritePage(g, bytes)
    PROVE  \E p \in 1 .. PageCount : Store!Write(p, bytes)
<1> DEFINE p == held[g]
           pending == {q \in Cached : frames[q].dirty}
<1>1. TypeOK /\ PoolState /\ IsFrames(frames)
  BY CachedFrames DEF Books
<1>2. p # NoPage
  BY <1>1 DEF WritePage, PoolState
<1>3. p \in Cached /\ p \in DataPages /\ frames[p] \in Frame
  BY <1>1, <1>2, GuardsPin, CachedFrames
<1>4. mgr # Closed
  BY <1>1, <1>3 DEF PoolState
<1>5. p \in 1 .. PageCount
  <2>1. p >= 1 /\ p < mgr.next /\ p \in Nat
    BY <1>1, <1>3, ConstantTypes DEF PoolState, Allocated, FirstDataPageId
  <2>2. PageCount = mgr.next - 1 /\ mgr.next \in Nat
    BY <1>4, StorePages, OpenPool
  <2> HIDE DEF p
  <2>3. QED
    BY <2>1, <2>2
<1>6. /\ mgr' = mgr /\ file' = file
      /\ frames' = [frames EXCEPT ![p] = [frames[p] EXCEPT !.data = bytes, !.dirty = TRUE]]
  BY DEF WritePage
<1> HIDE DEF p
<1>7. /\ DOMAIN frames' = Cached
      /\ frames'[p].dirty = TRUE /\ frames'[p].data = bytes
      /\ \A q \in Cached : q # p => frames'[q] = frames[q]
  BY <1>3, <1>6 DEF Cached, Frame
<1>8. PageCount' = PageCount
  BY <1>6 DEF PageCount
<1>9. \A q : View(q)' = IF q = p THEN bytes ELSE View(q)
  BY <1>3, <1>6, <1>7 DEF View, Cached
<1>10. [q \in 1 .. PageCount |-> View(q)]'
          = [[q \in 1 .. PageCount |-> View(q)] EXCEPT ![p] = bytes]
  BY <1>5, <1>8, <1>9
<1>11. pending' = pending \cup {p}
  BY <1>3, <1>7 DEF Cached
<1>12. Store!Write(p, bytes)
  BY <1>6, <1>8, <1>10, <1>11 DEF Store!Write
<1>13. QED
  BY <1>5, <1>12

LEMMA FlushMaps ==
    ASSUME Books, Contents, mgr # Closed, NEW S \in SUBSET Cached,
           NEW o \in FlushOutcomes(frames, file, S),
           frames' = o.frames, file' = o.file, mgr' = mgr
    PROVE  Store!WriteBack
<1>1. mgr \in Manager /\ file \in File /\ Backed(mgr, file) /\ IsFrames(frames)
  BY OpenPool
<1>2. PICK W : LagsBehind(frames, file, frames', file', W)
  BY <1>1, FlushLag DEF Cached
<1>3. file'.next = file.next
  BY <1>1, FlushEffect DEF WritesBack, Cached
<1>4. QED
  BY <1>1, <1>2, <1>3, ShowsItself, MapsWriteBack

LEMMA SetCatalogRootMaps ==
    ASSUME Books, Contents, NEW p \in DataPages, SetCatalogRoot(p)
    PROVE  UNCHANGED Store!vars \/ Store!Persist
<1> DEFINE view == [q \in 1 .. PageCount |-> View(q)]
           disk == [q \in 1 .. PageCount |-> file.pages[q]]
<1>1. mgr # Closed /\ frames' = frames
  BY DEF SetCatalogRoot
<1>2. mgr \in Manager /\ file \in File /\ mgr.next \in Nat
  BY <1>1, OpenPool
<1>3. PICK o \in SetCatalogRootOutcomes(mgr, file, p) : mgr' = o.mgr /\ file' = o.file
  BY DEF SetCatalogRoot
<1>4. /\ mgr' \in Manager /\ mgr'.next = mgr.next
      /\ file'.pages = file.pages /\ file'.next \in {file.next, mgr.next}
  BY <1>2, <1>3, SetCatalogRootLag
<1>5. PageCount = mgr.next - 1 /\ PageCount' = PageCount /\ PageCount \in Nat
  BY <1>1, <1>4, StorePages, PoolConstants DEF PageCount
<1>6. \A q : View(q)' = View(q)
  BY <1>1, <1>4 DEF View, Cached
<1>7. /\ view' = view /\ disk' = disk
      /\ {q \in Cached : frames[q].dirty}' = {q \in Cached : frames[q].dirty}
  BY <1>1, <1>4, <1>5, <1>6 DEF Cached
<1>8. Len(view) = PageCount
  <2>1. view \in [1 .. PageCount -> Bytes]
    BY <1>1, StorePages
  <2> HIDE DEF view
  <2>2. QED
    BY <1>5, <2>1
<1>9. CASE file'.next = file.next
  BY <1>7, <1>9 DEF Store!vars
<1>10. CASE file'.next = mgr.next
  BY <1>5, <1>7, <1>8, <1>10 DEF Store!Persist
<1>11. QED
  BY <1>4, <1>9, <1>10

LEMMA CloseMaps ==
    ASSUME Books, Contents, Close
    PROVE  Store!WriteBack \/ Store!Lose
<1>1. mgr # Closed /\ frames' = NoFrames
  BY DEF Close, Emptied
<1>2. mgr \in Manager /\ file \in File /\ Backed(mgr, file) /\ IsFrames(frames)
  BY <1>1, OpenPool
<1>3. PICK o \in FlushOutcomes(frames, file, Cached) :
        /\ file' = o.file
        /\ \/ o.res = "Ok" /\ mgr' = mgr
           \/ mgr' = Closed
  BY DEF Close, FileBecomes
<1>4. PICK W : LagsBehind(frames, file, o.frames, file', W)
  BY <1>2, <1>3, FlushLag DEF Cached
<1>5. /\ WritesBack(frames, file, o.frames, file')
      /\ o.res = "Ok" => \A p \in Cached : ~o.frames[p].dirty
  BY <1>2, <1>3, FlushEffect DEF Cached
<1>6. file' \in File /\ file'.next = file.next
  BY <1>5 DEF WritesBack
<1>7. CASE mgr' = Closed
  BY <1>1, <1>4, <1>6, <1>7, MapsLose
<1>8. CASE o.res = "Ok" /\ mgr' = mgr
  <2>1. DirtyPages(o.frames) = {}
    BY <1>5, <1>8 DEF DirtyPages, WritesBack, Cached
  <2>2. \A p \in DirtyPages(frames) : p \in W
    BY <1>4, <2>1 DEF LagsBehind
  <2>3. \A p \in DataPages : file'.pages[p] = ViewIn(frames, file, p)
    <3>1. \A p \in DataPages : file'.pages[p] = DonePage(frames, file, W, p)
      BY <1>4, <2>2 DEF LagsBehind, CatchesUp, FailedOn
    <3>2. CleanAgrees(frames, file)
      BY <1>1, StorePages
    <3>3. \A p \in W : p \in DOMAIN frames
      BY <1>4 DEF LagsBehind, DirtyPages
    <3>4. QED
      BY <2>2, <3>1, <3>2, <3>3 DEF DonePage, ViewIn, CleanAgrees, DirtyPages
  <2>4. DirtyPages(frames') = {} /\ \A p : ViewIn(frames', file', p) = file'.pages[p]
    BY <1>1 DEF DirtyPages, NoFrames, ViewIn
  <2>5. LagsBehind(frames, file, frames', file', W)
    BY <1>4, <2>1, <2>3, <2>4 DEF LagsBehind
  <2>6. QED
    BY <1>1, <1>2, <1>6, <1>8, <2>5, ShowsItself, MapsWriteBack
<1>9. QED
  BY <1>3, <1>7, <1>8

LEMMA StopMaps ==
    ASSUME Books, Contents, Stop
    PROVE  Store!Lose
<1>1. mgr # Closed /\ mgr' = Closed /\ frames' = NoFrames /\ file' = file
  BY DEF Stop, Emptied
<1>2. file' \in File
  BY <1>1, OpenPool
<1>3. LagsBehind(frames, file, frames, file', {})
  BY <1>1, NothingLags
<1>4. QED
  BY <1>1, <1>2, <1>3, MapsLose

LEMMA OpenMaps ==
    ASSUME Books, NEW readOnly \in BOOLEAN, Open(readOnly)
    PROVE  UNCHANGED Store!vars
<1>1. /\ mgr = Closed /\ file \in File /\ Openable(file)
      /\ frames' = frames /\ file' = file /\ mgr' = OpenManager(file, readOnly)
  BY DEF Open, Books, TypeOK
<1>2. mgr' # Closed /\ mgr'.next = file.next
  BY <1>1, OpenedManager, PoolConstants DEF Books, PoolState
<1>3. PageCount' = PageCount
  BY <1>1, <1>2 DEF PageCount
<1>4. QED
  BY <1>1, <1>3, MapsStutter DEF SameContents

LEMMA InitMaps == Init => Store!Init
<1> SUFFICES ASSUME Init PROVE Store!Init
  OBVIOUS
<1>1. frames = NoFrames /\ file.next = 1 /\ mgr.next = 1
  BY DEF Init, CreatedFile, FirstDataPageId, OpenManager
<1>2. PageCount = 0
  BY <1>1 DEF PageCount
<1>3. Cached = {}
  BY <1>1 DEF Cached, NoFrames
<1>4. QED
  BY <1>1, <1>2, <1>3 DEF Store!Init

-----------------------------------------------------------------------------
(* The pool is a page store: what is written is read back until the pool   *)
(* is lost, however pages come and go, and what is lost then are pages     *)
(* that were still pending or that the header does not count.              *)
THEOREM PoolRefinesPageStore == Spec => ImplementsPageStore
<1>1. ASSUME Books, Contents, Next
      PROVE  [Store!Next]_(Store!vars)
  <2>1. ASSUME NEW g \in Guards, NEW p \in DataPages, PinHit(g, p)
        PROVE  UNCHANGED Store!vars
    BY <1>1, <2>1, PinHitSame, MapsNothing DEF PinHit
  <2>2. ASSUME NEW g \in Guards, NEW p \in DataPages, PinMiss(g, p)
        PROVE  Store!WriteBack
    BY <1>1, <2>2, PinMissMaps
  <2>3. CASE PinMissFails
    BY <1>1, <2>3, PinMissFailsMaps DEF Store!Next
  <2>4. ASSUME NEW g \in Guards, AllocatePage(g)
        PROVE  Store!Grow
    BY <1>1, <2>4, AllocatePageMaps
  <2>5. CASE AllocatePageFails
    BY <1>1, <2>5, AllocatePageFailsMaps DEF Store!Next
  <2>6. ASSUME NEW g \in Guards, BorrowRead(g) \/ BorrowWrite(g) \/ EndBorrow(g) \/ DropGuard(g)
        PROVE  UNCHANGED Store!vars
    <3>1. mgr' = mgr /\ file' = file
      BY <2>6 DEF BorrowRead, BorrowWrite, EndBorrow, DropGuard
    <3>2. QED
      BY <1>1, <2>6, <3>1, GuardSame, MapsNothing
  <2>7. ASSUME NEW g \in Guards, NEW bytes \in Content, WritePage(g, bytes)
        PROVE  Store!Next
    <3>1. PICK p \in 1 .. PageCount : Store!Write(p, bytes)
      BY <1>1, <2>7, WritePageMaps
    <3>2. QED
      BY <3>1 DEF Store!Next
  <2>8. ASSUME NEW S \in SUBSET Cached, Flush(S)
        PROVE  Store!WriteBack
    BY <1>1, <2>8, FlushMaps DEF Flush, FileBecomes
  <2>9. ASSUME NEW p \in DataPages, FlushPage(p) \/ SetCatalogRoot(p)
        PROVE  [Store!Next]_(Store!vars)
    <3>1. CASE FlushPage(p)
      BY <2>8, <3>1 DEF FlushPage, Store!Next
    <3>2. CASE SetCatalogRoot(p)
      BY <1>1, <3>2, SetCatalogRootMaps DEF Store!Next
    <3>3. QED
      BY <2>9, <3>1, <3>2
  <2>10. CASE FlushAll
    BY <2>8, <2>10 DEF FlushAll, Store!Next
  <2>11. CASE Sync
    <3>1. Store!WriteBack
      BY <1>1, <2>11, FlushMaps DEF Sync
    <3>2. QED
      BY <3>1 DEF Store!Next
  <2>12. CASE Close
    BY <1>1, <2>12, CloseMaps DEF Store!Next
  <2>13. CASE Stop
    BY <1>1, <2>13, StopMaps DEF Store!Next
  <2>14. ASSUME NEW readOnly \in BOOLEAN, Open(readOnly)
         PROVE  UNCHANGED Store!vars
    BY <1>1, <2>14, OpenMaps
  <2>15. Store!WriteBack \/ Store!Grow => Store!Next
    BY DEF Store!Next
  <2>16. QED
    BY <1>1, <2>1, <2>2, <2>3, <2>4, <2>5, <2>6, <2>7, <2>9, <2>10, <2>11, <2>12, <2>13,
       <2>14, <2>15 DEF Next
<1>2. Books /\ Contents /\ [Next]_vars => [Store!Next]_(Store!vars)
  <2>1. UNCHANGED vars => UNCHANGED Store!vars
    BY MapsNothing DEF vars, SameContents
  <2>2. QED
    BY <1>1, <2>1
<1>3. QED
  BY <1>2, InitMaps, BooksInvariant, ContentsInvariant, PTL
     DEF Spec, ImplementsPageStore, Store!Spec
=============================================================================
