--------------------------- MODULE FreeListProofs ---------------------------
(***************************************************************************)
(* Proofs about FreeList, for memories and memory maps of every size.      *)
(*                                                                         *)
(* TypeCorrect needs nothing but the assumptions on the constants.  The    *)
(* other theorems assume WellFormedMap: memory_detect is wrong about maps  *)
(* that are not (run high_memory shows one).  They follow from one         *)
(* inductive invariant, IInv, which names the set H of block heads and     *)
(* says where memory_detect and memory_free_page stand in the list.        *)
(***************************************************************************)
EXTENDS FreeList, OrderLemmas, TLAPS

\* A number that is in range survives the truncation to 32 bits.
LEMMA ModSmall ==
  ASSUME NEW n \in Nat, n > 0, NEW a \in 0 .. n - 1
  PROVE  a % n = a
  OBVIOUS

\* MEMORY_PAGE_ALIGN rounds down: page p ends at or before the aligned
\* address exactly if it ends at or before the address.
LEMMA AlignDown ==
  ASSUME NEW a \in Nat, NEW p \in Nat, NEW s \in Nat \ {0}
  PROVE  p + 1 <= a \div s <=> (p + 1) * s <= a
  OBVIOUS

\* memory_detect's alignment of start_address rounds up.
LEMMA AlignUp ==
  ASSUME NEW a \in Nat, NEW p \in Nat
  PROVE  NextAligned(a) <= p <=> a <= p * PageSize
  BY SizeAssumption DEF NextAligned, PageAlign

\* What follows block x in the list; NULL stands for the list head.
Successor(x) == IF x = NULL THEN free_list ELSE next[x]

\* Every block is pointed to by the greatest block before it.
LEMMA Predecessor ==
  ASSUME NEW H \in SUBSET Pages, IsFreeList(H), NEW d \in H
  PROVE  \E x \in H \union {NULL} : x < d /\ Successor(x) = d /\ \A h \in H : h < d => h <= x
<1> DEFINE T == {h \in H \union {NULL} : h < d}
<1>1. NumFrames - 1 \in Nat /\ T \in SUBSET (0 .. NumFrames - 1) /\ NULL \in T
  <2>1. NumFrames - 1 \in Nat
    BY SizeAssumption
  <2>2. H \subseteq 1 .. NumFrames - 1
    BY <2>1 DEF Pages, Frames, NULL
  <2> QED
    <3>1. T \subseteq 0 .. NumFrames - 1
      <4> SUFFICES ASSUME NEW t \in T
                   PROVE  t \in 0 .. NumFrames - 1
        OBVIOUS
      <4>1. t = 0 \/ t \in 1 .. NumFrames - 1
        BY <2>2 DEF NULL
      <4> QED
        BY <2>1, <4>1
    <3>2. NULL < d
      BY <2>2 DEF NULL
    <3> QED
      BY <2>1, <3>1, <3>2
<1>2. PICK x \in T : \A y \in T : y <= x
  BY <1>1, GreatestElement
<1>3. Follows(H, x, Successor(x))
  BY <1>2 DEF IsFreeList, Successor
<1>4. x \in Nat /\ H \subseteq Nat
  BY <1>2 DEF Pages, Frames, NULL
<1>5. ~ (\A h \in H : h <= x)
  BY <1>2, <1>4
<1>6. PICK y \in H : y = Successor(x) /\ x < y /\ \A h \in H : h <= x \/ y <= h
  BY <1>3, <1>5 DEF Follows
<1>7. y <= d
  BY <1>2, <1>4, <1>6
<1>8. ~ (y < d)
  BY <1>2, <1>4, <1>6
<1>9. Successor(x) = d
  BY <1>4, <1>6, <1>7, <1>8
<1> QED
  BY <1>2, <1>9

\* The headers in memory describe one free list, not two.
LEMMA OneList ==
  ASSUME NEW H \in SUBSET Pages, IsFreeList(H),
         NEW K \in SUBSET Pages, IsFreeList(K)
  PROVE  H = K
<1> DEFINE T == (H \ K) \union (K \ H)
<1> SUFFICES ASSUME T # {}
             PROVE  FALSE
  OBVIOUS
<1>1. T \in SUBSET Nat
  BY DEF Pages, Frames, NULL
<1>2. PICK d \in T : \A y \in T : d <= y
  BY <1>1, LeastElement
<1>3. ASSUME NEW A \in SUBSET Pages, IsFreeList(A),
             NEW B \in SUBSET Pages, IsFreeList(B),
             d \in A, d \notin B,
             \A y \in A : y < d => y \in B
      PROVE  FALSE
  <2>1. PICK x \in A \union {NULL} : x < d /\ Successor(x) = d
    BY <1>3, Predecessor
  <2>2. x \in B \union {NULL}
    BY <1>3, <2>1
  <2>3. Follows(B, x, d)
    BY <1>3, <2>1, <2>2 DEF IsFreeList, Successor
  <2> QED
    BY <1>3, <2>3 DEF Follows, Pages
<1>4. \A y \in Nat : y < d => ~(y \in T)
  BY <1>1, <1>2
<1>5. \A y \in H \union K : y < d => y \in H /\ y \in K
  BY <1>4 DEF Pages, Frames, NULL
<1> QED
  BY <1>2, <1>3, <1>5

-----------------------------------------------------------------------------

\* The pages of the blocks headed by H.
BlockPages(H) == UNION {Block(h) : h \in H}

\* The usable pages of the chunks memory_detect has been through.
EarlierPages ==
  {p \in UsablePages : \E i \in 1 .. chunk - 1 : InChunk(p, MemoryMap[i])}

\* H is the set of heads of a free list of disjoint blocks.
ListInv(H) == IsFreeList(H) /\ BlocksDisjoint(H)

\* A merge is half done where its second write is due, and after a fault
\* there; the list is whole everywhere else.
OrderInv(H) ==
  /\ IsFreeList(H)
  /\ pc \notin {"unlink_next", "unlink_previous", "page_fault"} => BlocksDisjoint(H)
  /\ pc = "page_fault" =>
       BlocksDisjoint(H) \/ \E f, g \in H : UnlinkDue(f, g) /\ HalfMerged(H, f, g)

\* Every usable page is free or owned, none is both.
AccountInv(H) ==
  /\ BlockPages(H) \intersect owned = {}
  /\ BlockPages(H) \subseteq UsablePages
  /\ pc # "detect" => BlockPages(H) \union owned = UsablePages

\* memory_detect appends behind the last block.
DetectInv(H) ==
  pc = "detect" =>
    /\ owned = {}
    /\ BlockPages(H) = EarlierPages
    /\ tail = AtListHead  => H = {}
    /\ tail # AtListHead => tail \in H /\ \A h \in H : h <= tail

\* The loop invariant of memory_free_page: the page belongs between
\* previous_node, or something after it, and what follows.  Behind the loop
\* its header is written while it is still nobody's block.
WalkInv(H) ==
  /\ pc \in {"walk", "set_next", "link"} =>
       /\ new_node \in owned
       /\ previous_node \in H \union {NULL}
       /\ previous_node < new_node
       /\ next_node = Successor(previous_node)
  /\ pc \in {"set_next", "link"} => ~Walking /\ num_pages[new_node] = 1
  /\ pc = "link" => next[new_node] = next_node

\* Between the insertion and the merges, the neighbours are linked.
MergeInv(H) ==
  /\ pc \in {"merge_next", "unlink_next", "merge_previous", "unlink_previous"} =>
       /\ new_node \in H
       /\ previous_node \in H \union {NULL}
       /\ previous_node < new_node
       /\ Successor(previous_node) = new_node
  /\ pc = "merge_next" => next[new_node] = next_node
  /\ pc = "unlink_next" => HalfMerged(H, new_node, next_node)
  /\ pc = "unlink_previous" => HalfMerged(H, previous_node, new_node)

\* The inductive invariant, for a given set of heads.
Consistent(H) ==
  OrderInv(H) /\ AccountInv(H) /\ DetectInv(H) /\ WalkInv(H) /\ MergeInv(H)

IInv == TypeOK /\ \E H \in SUBSET Pages : Consistent(H)

-----------------------------------------------------------------------------
\* The initial state is well typed.
LEMMA TypeInit ==
  ASSUME Init
  PROVE  TypeOK
<1>1. PICK h \in Scribbles : /\ num_pages = [p \in Frames |-> h.num_pages]
                             /\ next      = [p \in Frames |-> h.next]
  BY DEF Init
<1>2. h.num_pages \in Int /\ h.next \in Frames
  BY MemoryAssumption DEF Header
<1>3. chunk \in 1 .. Len(MemoryMap) + 1
  BY MemoryAssumption DEF Init
<1>4. NULL \in Frames
  BY SizeAssumption DEF Frames, NULL
<1> QED
  BY <1>1, <1>2, <1>3, <1>4 DEF Init, TypeOK

\* A truncated page number is a frame.
LEMMA ModRange ==
  ASSUME NEW a \in Int
  PROVE  a % NumFrames \in Frames
  BY SizeAssumption DEF Frames

\* Facts about page numbers that most steps need.
LEMMA FrameTypes ==
  /\ NumFrames \in Nat \ {0}
  /\ NULL \in Frames
  /\ Frames \subseteq Nat
  /\ Pages = {p \in Frames : p # NULL}
  BY SizeAssumption DEF Frames, NULL, Pages

\* The block memory_detect makes of a chunk is well typed, whatever the map.
LEMMA ChunkTypes ==
  ASSUME NEW c \in Chunk
  PROVE  /\ StartPage(c) \in Frames
         /\ NumPages(c) \in Int
<1>1. PageSize \in Nat \ {0} /\ NumFrames \in Nat \ {0} /\ KernelEnd \in Nat
      /\ AddressSpace \in Nat \ {0}
  BY SizeAssumption DEF AddressSpace
<1>2. StartAddress(c) \in Nat /\ EndAddress(c) \in Nat
  BY <1>1 DEF StartAddress, EndAddress, Chunk
<1>3. NextAligned(StartAddress(c)) \in Int /\ EndPage(c) \in Int
  BY <1>1, <1>2 DEF NextAligned, PageAlign, EndPage
<1>4. StartPage(c) \in Frames
  BY <1>3, ModRange DEF StartPage
<1> QED
  <2> DEFINE gap == EndPage(c) - StartPage(c) + NumFrames \div 2
  <2>1. gap \in Int /\ NumFrames \div 2 \in Int
    <3>1. StartPage(c) \in Int
      <4>1. Frames \subseteq Int
        BY FrameTypes
      <4> QED  BY <1>4, <4>1
    <3>2. NumFrames \div 2 \in Int
      BY <1>1
    <3> QED
      BY <1>3, <3>1, <3>2
  <2>2. gap % NumFrames \in Int
    BY <1>1, <2>1
  <2> QED
    BY <1>4, <2>1, <2>2 DEF NumPages, PagesBetween

\* A fault, wherever it strikes, changes nothing.
LEMMA FaultStops ==
  ASSUME FreeFault
  PROVE  /\ pc \in {"walk", "set_next", "link", "merge_next", "unlink_next",
                    "merge_previous", "unlink_previous"}
         /\ pc' = "page_fault"
         /\ UNCHANGED <<free_list, num_pages, next, mapped, owned, chunk, tail,
                        new_node, next_node, previous_node>>
BY DEF FreeFault, FreeWalkFault, FreeSetPagesFault, FreeSetNextFault, FreeLinkFault,
       FreeMergeNextFault, FreeUnlinkNextFault, FreeMergePreviousFault,
       FreeUnlinkPreviousFault, Fault, header, detectVars, freeVars

\* Every step keeps the variables well typed.
LEMMA TypeStep ==
  ASSUME TypeOK, [Next]_vars
  PROVE  TypeOK'
<1> USE DEF TypeOK, header, detectVars, freeVars
<1>1. CASE DetectSkip
  BY <1>1 DEF DetectSkip
<1>2. CASE DetectChunk
  <2>1. MemoryMap[chunk] \in Chunk
    BY <1>2, MemoryAssumption DEF DetectChunk
  <2>2. StartPage(MemoryMap[chunk]) \in Frames /\ NumPages(MemoryMap[chunk]) \in Int
    BY <2>1, ChunkTypes
  <2>3. num_pages' \in [Frames -> Int]
    BY <1>2, <2>2 DEF DetectChunk
  <2>4. next' \in [Frames -> Frames]
    BY <1>2, <2>2, FrameTypes DEF DetectChunk
  <2> QED
    BY <1>2, <2>2, <2>3, <2>4 DEF DetectChunk
<1>3. CASE DetectDone
  BY <1>3 DEF DetectDone
<1>4. CASE AllocateOutOfMemory
  BY <1>4 DEF AllocateOutOfMemory
<1>5. CASE AllocateLastOfBlock
  BY <1>5, FrameTypes DEF AllocateLastOfBlock
<1>6. CASE AllocateSplit
  <2>1. NextFrame(free_list) \in Frames
    <3>1. free_list + 1 \in Int
      BY FrameTypes
    <3> QED
      BY <3>1, ModRange DEF NextFrame
  <2>2. num_pages' \in [Frames -> Int] /\ next' \in [Frames -> Frames]
    BY <1>6, <2>1, FrameTypes DEF AllocateSplit
  <2> QED
    BY <1>6, <2>1, <2>2, FrameTypes, SMTT(20) DEF AllocateSplit
<1>7. CASE \E p \in Pages : FreeBegin(p)
  BY <1>7, FrameTypes DEF FreeBegin
<1>8. CASE \E p \in Pages, h \in Scribbles : Scribble(p, h)
  <2>1. PICK p \in Pages, h \in Scribbles : Scribble(p, h)
    BY <1>8
  <2>2. h.num_pages \in Int /\ h.next \in Frames
    BY MemoryAssumption DEF Header
  <2> QED
    BY <2>1, <2>2 DEF Scribble
<1>9. CASE FreeWalk
  BY <1>9 DEF FreeWalk
<1>10. CASE FreeFault
  BY <1>10, FaultStops
<1>11. CASE FreeSetPages \/ FreeSetNext \/ FreeLink
  <2>1. num_pages' \in [Frames -> Int] /\ next' \in [Frames -> Frames]
    BY <1>11 DEF FreeSetPages, FreeSetNext, FreeLink
  <2> QED
    BY <1>11, <2>1 DEF FreeSetPages, FreeSetNext, FreeLink
<1>12. CASE FreeMergeNext \/ FreeUnlinkNext
  <2>1. num_pages' \in [Frames -> Int] /\ next' \in [Frames -> Frames]
    BY <1>12 DEF FreeMergeNext, FreeUnlinkNext, AddPages, Unlink
  <2>2. mapped' \in SUBSET IdentityMapped
    BY <1>12 DEF FreeMergeNext, FreeUnlinkNext, Unlink, RemoveIdentityMap
  <2> QED
    BY <1>12, <2>1, <2>2 DEF FreeMergeNext, FreeUnlinkNext
<1>13. CASE FreeMergePrevious \/ FreeUnlinkPrevious
  <2>1. num_pages' \in [Frames -> Int] /\ next' \in [Frames -> Frames]
    BY <1>13, SMTT(20) DEF FreeMergePrevious, FreeUnlinkPrevious, AddPages, Unlink
  <2>2. mapped' \in SUBSET IdentityMapped
    BY <1>13 DEF FreeMergePrevious, FreeUnlinkPrevious, Unlink, RemoveIdentityMap
  <2> QED
    BY <1>13, <2>1, <2>2, FrameTypes DEF FreeMergePrevious, FreeUnlinkPrevious, Return
<1>14. CASE UNCHANGED vars
  BY <1>14 DEF vars
<1> QED
  BY <1>1, <1>2, <1>3, <1>4, <1>5, <1>6, <1>7, <1>8, <1>9, <1>10, <1>11, <1>12,
     <1>13, <1>14 DEF Next, MemoryDetect, MemoryAllocatePage, FreeStep

-----------------------------------------------------------------------------
\* The types of what makes up the list.
ListTypeOK ==
  free_list \in Frames /\ num_pages \in [Frames -> Int] /\ next \in [Frames -> Frames]

\* free_list is NULL or the lowest head.
LEMMA ListHeads ==
  ASSUME ListTypeOK, NEW H \in SUBSET Pages, ListInv(H)
  PROVE  /\ H \subseteq Frames /\ H \subseteq Nat
         /\ NULL \notin H
         /\ free_list = NULL => H = {}
         /\ free_list # NULL => free_list \in H /\ \A h \in H : free_list <= h
         /\ \A h \in H : num_pages[h] \in Nat \ {0} /\ next[h] \in Frames
<1>1. H \subseteq Frames /\ H \subseteq Nat /\ NULL \notin H
  BY FrameTypes
<1>2. Follows(H, NULL, free_list)
  BY DEF ListInv, IsFreeList
<1>3. \A h \in H : h > 0
  BY <1>1 DEF NULL
<1>4. free_list = NULL => H = {}
  BY <1>1, <1>2, <1>3 DEF Follows, NULL
<1>5. free_list # NULL => free_list \in H /\ \A h \in H : free_list <= h
  BY <1>1, <1>2, <1>3 DEF Follows, NULL
<1>6. \A h \in H : num_pages[h] \in Nat \ {0} /\ next[h] \in Frames
  BY <1>1 DEF ListInv, BlocksDisjoint, ListTypeOK
<1> QED
  BY <1>1, <1>4, <1>5, <1>6

\* The same of a state of this module.
LEMMA HeadFacts ==
  ASSUME TypeOK, NEW H \in SUBSET Pages, ListInv(H)
  PROVE  /\ H \subseteq Frames /\ H \subseteq Nat
         /\ NULL \notin H
         /\ free_list = NULL => H = {}
         /\ free_list # NULL => free_list \in H /\ \A h \in H : free_list <= h
         /\ \A h \in H : num_pages[h] \in Nat \ {0} /\ next[h] \in Frames
BY ListHeads DEF ListTypeOK, TypeOK

\* Taking the first block, of one page, out of the list.
LEMMA RemoveFirstBlock ==
  ASSUME ListTypeOK, NEW H \in SUBSET Pages, ListInv(H),
         free_list # NULL, num_pages[free_list] = 1, free_list' = next[free_list],
         NEW K, K = H \ {free_list},
         \A h \in K : num_pages'[h] = num_pages[h] /\ next'[h] = next[h]
  PROVE  /\ ListInv(K)'
         /\ free_list \in BlockPages(H)
         /\ BlockPages(K)' = BlockPages(H) \ {free_list}
<1> USE ListHeads
<1>1. free_list \in H /\ num_pages[free_list] = 1
  OBVIOUS
<1>2. /\ \A h \in K : num_pages'[h] = num_pages[h] /\ next'[h] = next[h]
      /\ free_list' = next[free_list]
  OBVIOUS
<1>3. Follows(K, NULL, next[free_list])
  <2>1. Follows(H, free_list, next[free_list])
    BY <1>1 DEF ListInv, IsFreeList
  <2> QED
    BY <1>1, <2>1 DEF Follows, NULL
<1>4. \A h \in K : Follows(K, h, next[h])
  <2> SUFFICES ASSUME NEW h \in K
               PROVE  Follows(K, h, next[h])
    OBVIOUS
  <2>1. Follows(H, h, next[h]) /\ free_list < h
    BY <1>1 DEF ListInv, IsFreeList
  <2> QED
    BY <1>1, <2>1 DEF Follows
<1>5. ListInv(K)'
  BY <1>2, <1>3, <1>4 DEF ListInv, IsFreeList, BlocksDisjoint, Follows
<1>6. \A h \in K : Block(h)' = Block(h)
  BY <1>2 DEF Block
<1>7. Block(free_list) = {free_list}
  BY <1>1 DEF Block
<1>8. \A h \in K : free_list \notin Block(h)
  <2>1. \A h \in K : h \in Int /\ free_list \in Int /\ free_list < h
    BY <1>1
  <2> QED  BY <2>1 DEF Block
<1>9. BlockPages(K)' = BlockPages(H) \ {free_list}
  <2>1. H = K \union {free_list}
    BY <1>1
  <2> QED  BY <1>6, <1>7, <1>8, <2>1 DEF BlockPages
<1>10. free_list \in BlockPages(H)
  BY <1>1, <1>7 DEF BlockPages
<1> QED
  BY <1>5, <1>9, <1>10

\* memory_allocate_page on a block of one page removes the block.
LEMMA TakeLastPage ==
  ASSUME TypeOK, NEW H \in SUBSET Pages, ListInv(H), AllocateLastOfBlock,
         NEW K, K = H \ {free_list}
  PROVE  /\ ListInv(K)'
         /\ free_list \in BlockPages(H)
         /\ BlockPages(K)' = BlockPages(H) \ {free_list}
<1>1. /\ free_list # NULL /\ num_pages[free_list] = 1 /\ free_list' = next[free_list]
      /\ UNCHANGED <<num_pages, next>>
  BY DEF AllocateLastOfBlock, header
<1>2. \A h \in K : num_pages'[h] = num_pages[h] /\ next'[h] = next[h]
  BY <1>1
<1>3. ListTypeOK
  BY DEF ListTypeOK, TypeOK
<1> QED  BY <1>1, <1>2, <1>3, RemoveFirstBlock

\* Taking the first page off the first block, which has more.
LEMMA ShortenFirstBlock ==
  ASSUME ListTypeOK, NEW H \in SUBSET Pages, ListInv(H),
         free_list # NULL, num_pages[free_list] # 1,
         NEW f, f = free_list,
         free_list' = NextFrame(f),
         NEW K, K = (H \ {f}) \union {f + 1},
         num_pages'[NextFrame(f)] = num_pages[f] - 1, next'[NextFrame(f)] = next[f],
         \A h \in H \ {f, NextFrame(f)} : num_pages'[h] = num_pages[h] /\ next'[h] = next[h]
  PROVE  /\ K \in SUBSET Pages
         /\ ListInv(K)'
         /\ f \in BlockPages(H)
         /\ BlockPages(K)' = BlockPages(H) \ {f}
<1> DEFINE n == num_pages[f]
<1>1. f \in H /\ f \in Nat /\ f > 0 /\ n \in Nat /\ n >= 2 /\ \A h \in H : f <= h
  BY ListHeads DEF NULL
<1>2. f + n <= NumFrames /\ \A h \in H \ {f} : h \in Nat /\ f + n <= h
  BY <1>1, ListHeads DEF ListInv, BlocksDisjoint
<1>3. f + 1 \in Pages /\ f + 1 \notin H /\ NextFrame(f) = f + 1
  <2>1. f + 1 \in 1 .. NumFrames - 1
    BY <1>1, <1>2, FrameTypes
  <2>2. NextFrame(f) = f + 1
    BY <2>1, FrameTypes, ModSmall DEF NextFrame
  <2>3. f + 1 \notin H
    BY <1>1, <1>2
  <2> QED
    BY <2>1, <2>2, <2>3 DEF Pages, Frames, NULL
<1>4. K \in SUBSET Pages
  BY <1>3
<1>5. /\ free_list' = f + 1
      /\ num_pages'[f + 1] = n - 1 /\ next'[f + 1] = next[f]
      /\ \A h \in H \ {f} : num_pages'[h] = num_pages[h] /\ next'[h] = next[h]
  BY <1>1, <1>3
<1>6. Follows(K, NULL, f + 1)
  BY <1>1, <1>2 DEF Follows, NULL
<1>7. Follows(K, f + 1, next[f])
  <2>1. Follows(H, f, next[f])
    BY <1>1 DEF ListInv, IsFreeList
  <2>2. CASE next[f] = NULL
    <3>1. \A h \in H : h <= f
      BY <2>1, <2>2, ListHeads DEF Follows
    <3> QED
      BY <1>1, <2>2, <3>1, ListHeads DEF Follows
  <2>3. CASE next[f] # NULL
    <3>1. next[f] \in H \ {f} /\ \A h \in H : h <= f \/ next[f] <= h
      BY <1>1, <2>1, <2>3 DEF Follows
    <3>2. f + 1 < next[f]
      <4>1. next[f] \in Nat /\ f + n <= next[f]
        BY <1>2, <3>1
      <4> QED
        BY <1>1, <4>1
    <3> QED
      BY <1>1, <3>1, <3>2 DEF Follows
  <2> QED
    BY <2>2, <2>3
<1>8. \A h \in H \ {f} : Follows(K, h, next[h])
  <2> SUFFICES ASSUME NEW h \in H \ {f}
               PROVE  Follows(K, h, next[h])
    OBVIOUS
  <2>1. Follows(H, h, next[h])
    BY DEF ListInv, IsFreeList
  <2>2. h \in Nat /\ f + 1 <= h /\ f < h /\ H \subseteq Nat
    BY <1>1, <1>2, ListHeads
  <2>3. CASE next[h] = NULL
    BY <1>1, <2>1, <2>2, <2>3 DEF Follows
  <2>4. CASE next[h] # NULL
    <3>1. next[h] \in H \ {f}
      BY <1>1, <2>1, <2>2, <2>4 DEF Follows
    <3> QED
      BY <1>1, <2>1, <2>2, <2>4, <3>1 DEF Follows
  <2> QED
    BY <2>3, <2>4
<1>9. IsFreeList(K)'
  BY <1>5, <1>6, <1>7, <1>8 DEF IsFreeList, Follows
<1>10. BlocksDisjoint(K)'
  <2>1. \A h \in K : num_pages'[h] >= 1 /\ h + num_pages'[h] <= NumFrames
    BY <1>1, <1>2, <1>5 DEF ListInv, BlocksDisjoint
  <2>2. ASSUME NEW g \in K, NEW h \in K, g < h
        PROVE  g + num_pages'[g] <= h
    <3>1. CASE g = f + 1
      <4>1. h \in H \ {f}
        BY <1>1, <2>2, <3>1
      <4> QED  BY <1>1, <1>2, <1>5, <3>1, <4>1
    <3>2. CASE g \in H \ {f} /\ h = f + 1
      BY <1>1, <1>2, <2>2, <3>2
    <3>3. CASE g \in H \ {f} /\ h \in H \ {f}
      BY <1>5, <2>2, <3>3 DEF ListInv, BlocksDisjoint
    <3> QED
      BY <3>1, <3>2, <3>3
  <2> QED
    BY <2>1, <2>2 DEF BlocksDisjoint
<1>11. \A h \in H \ {f} : Block(h)' = Block(h) /\ f \notin Block(h)
  BY <1>1, <1>2, <1>5 DEF Block
<1>12. Block(f + 1)' = Block(f) \ {f} /\ f \in Block(f)
  <2>1. Block(f + 1)' = f + 1 .. f + n - 1
    BY <1>1, <1>5 DEF Block
  <2>2. Block(f) = f .. f + n - 1
    BY DEF Block
  <2> QED
    BY <1>1, <2>1, <2>2
<1>13. BlockPages(K)' = BlockPages(H) \ {f} /\ f \in BlockPages(H)
  BY <1>1, <1>11, <1>12 DEF BlockPages
<1> QED
  BY <1>4, <1>9, <1>10, <1>13 DEF ListInv

\* memory_allocate_page on a longer block moves its head one page up.
LEMMA SplitFirstBlock ==
  ASSUME TypeOK, NEW H \in SUBSET Pages, ListInv(H), AllocateSplit,
         NEW f, f = free_list,
         NEW K, K = (H \ {f}) \union {f + 1}
  PROVE  /\ K \in SUBSET Pages
         /\ ListInv(K)'
         /\ f \in BlockPages(H)
         /\ BlockPages(K)' = BlockPages(H) \ {f}
<1>1. ListTypeOK /\ NextFrame(f) \in Frames /\ H \subseteq Frames
  <2>1. f + 1 \in Int
    BY FrameTypes DEF TypeOK
  <2> QED  BY <2>1, ModRange, HeadFacts DEF ListTypeOK, TypeOK, NextFrame
<1>2. /\ free_list # NULL /\ num_pages[free_list] # 1 /\ free_list' = NextFrame(f)
      /\ num_pages'[NextFrame(f)] = num_pages[f] - 1 /\ next'[NextFrame(f)] = next[f]
      /\ \A h \in H \ {f, NextFrame(f)} : num_pages'[h] = num_pages[h] /\ next'[h] = next[h]
  BY <1>1 DEF AllocateSplit, TypeOK
<1> QED  BY <1>1, <1>2, ShortenFirstBlock

\* memory_free_page's insertion adds a block of one page, in order.
LEMMA LinkPage ==
  ASSUME TypeOK, NEW H \in SUBSET Pages, ListInv(H), AccountInv(H), WalkInv(H),
         FreeLink,
         NEW n, n = new_node, NEW K, K = H \union {n}
  PROVE  /\ K \in SUBSET Pages
         /\ ListInv(K)'
         /\ BlockPages(K)' = BlockPages(H) \union {n}
         /\ MergeInv(K)'
<1> DEFINE p == previous_node
           y == next_node
<1>1. /\ n \in owned /\ n \in Pages /\ n \in Nat /\ n > 0 /\ n < NumFrames
      /\ p \in H \union {NULL} /\ p < n /\ y = Successor(p)
      /\ H \subseteq Nat /\ p \in Nat /\ \A h \in H : h > 0
  <2>1. n \in owned /\ p \in H \union {NULL} /\ p < n /\ y = Successor(p)
    BY DEF FreeLink, WalkInv
  <2>2. n \in Pages
    BY <2>1 DEF TypeOK
  <2>3. Pages \subseteq 1 .. NumFrames - 1
    BY FrameTypes DEF Frames, NULL
  <2> QED
    BY <2>1, <2>2, <2>3, FrameTypes DEF NULL
<1>2. \A h \in H : n \notin Block(h)
  BY <1>1 DEF AccountInv, BlockPages
<1>3. /\ n \notin H
      /\ \A h \in H : h < n => h + num_pages[h] <= n
      /\ \A h \in H : num_pages[h] \in Nat \ {0}
  BY <1>1, <1>2, HeadFacts DEF Block
<1>4. Follows(H, p, y)
  BY <1>1 DEF ListInv, IsFreeList, Successor
<1>5. \/ y = NULL /\ \A h \in H : h <= p
      \/ y \in H /\ n < y /\ \A h \in H : h <= p \/ y <= h
  <2>1. CASE y = NULL
    BY <1>4, <2>1, HeadFacts DEF Follows
  <2>2. CASE y # NULL
    <3>1. ~ (y < n)
      BY <2>2 DEF FreeLink, WalkInv, Walking
    <3>2. y \in H /\ \A h \in H : h <= p \/ y <= h
      BY <1>4, <2>2 DEF Follows
    <3> QED
      BY <1>1, <1>3, <3>1, <3>2
  <2> QED
    BY <2>1, <2>2
<1>gap. \A k \in H : p < k => n < k
  <2>1. CASE \A k \in H : k <= p
    BY <1>1, <2>1
  <2>2. CASE y \in H /\ n < y /\ \A k \in H : k <= p \/ y <= k
    BY <1>1, <2>2
  <2> QED
    BY <1>5, <2>1, <2>2
<1>6. /\ num_pages'[n] = 1 /\ next'[n] = y
      /\ \A h \in H : num_pages'[h] = num_pages[h]
      /\ \A h \in H : next'[h] = IF h = p THEN n ELSE next[h]
      /\ free_list' = IF p = NULL THEN n ELSE free_list
  <2>1. n \in Frames /\ H \subseteq Frames /\ n # p /\ n \notin H /\ NULL \notin H
    BY <1>1, <1>3, FrameTypes DEF NULL
  <2>2. num_pages[n] = 1 /\ next[n] = y
    BY DEF FreeLink, WalkInv
  <2> QED
    BY <2>1, <2>2 DEF FreeLink, TypeOK
<1>7. K \in SUBSET Pages
  BY <1>1
<1>8. Follows(K, n, y)
  BY <1>1, <1>5 DEF Follows
<1>9. Follows(K, p, n)
  <2>1. \A h \in H : h <= p \/ n <= h
    BY <1>1, <1>gap
  <2> QED
    BY <1>1, <2>1 DEF Follows
<1>10. ASSUME NEW h \in H \union {NULL}, h # p, NEW z, Follows(H, h, z)
       PROVE  Follows(K, h, z)
  <2>1. h \in Nat
    BY <1>1 DEF NULL
  <2>2. CASE z = NULL
    <3>1. h \in H /\ p < h
      BY <1>1, <1>10, <2>1, <2>2 DEF Follows, NULL
    <3>2. n <= h
      BY <1>1, <2>1, <1>gap, <3>1
    <3> QED
      BY <1>10, <2>2, <3>2 DEF Follows, NULL
  <2>3. CASE z # NULL
    <3>1. z \in H /\ h < z /\ \A k \in H : k <= h \/ z <= k
      BY <1>10, <2>3 DEF Follows
    <3>2. n <= h \/ z <= n
      <4>1. CASE h < p
        BY <1>1, <2>1, <3>1, <4>1 DEF NULL
      <4>2. CASE p < h
        <5>1. h \in H
          BY <1>1, <1>10, <4>2 DEF NULL
        <5> QED
          BY <1>1, <1>gap, <2>1, <4>2, <5>1
      <4> QED
        BY <1>1, <1>10, <2>1, <4>1, <4>2
    <3>3. n <= h \/ z <= n => \A k \in K : k <= h \/ z <= k
      BY <1>1, <2>1, <3>1
    <3> QED
      BY <3>1, <3>2, <3>3 DEF Follows
  <2> QED
    BY <2>2, <2>3
<1>11. IsFreeList(K)'
  <2>1. Follows(K, NULL, free_list')
    <3>1. CASE p = NULL
      BY <1>6, <1>9, <3>1
    <3>2. CASE p # NULL
      BY <1>6, <1>10, <3>2 DEF ListInv, IsFreeList
    <3> QED
      BY <3>1, <3>2
  <2>2. \A h \in H : Follows(K, h, next'[h])
    BY <1>6, <1>9, <1>10 DEF ListInv, IsFreeList
  <2> QED
    BY <1>6, <1>8, <2>1, <2>2 DEF IsFreeList, Follows
<1>12. BlocksDisjoint(K)'
  <2>1. \A h \in K : num_pages'[h] >= 1 /\ h + num_pages'[h] <= NumFrames
    BY <1>1, <1>6, FrameTypes DEF ListInv, BlocksDisjoint
  <2>2. ASSUME NEW g \in K, NEW h \in K, g < h
        PROVE  g + num_pages'[g] <= h
    <3>1. CASE g = n
      BY <1>1, <1>6, <2>2, <3>1
    <3>2. CASE g \in H /\ h = n
      BY <1>3, <1>6, <2>2, <3>2
    <3>3. CASE g \in H /\ h \in H
      BY <1>6, <2>2, <3>3 DEF ListInv, BlocksDisjoint
    <3> QED
      BY <3>1, <3>2, <3>3
  <2> QED
    BY <2>1, <2>2 DEF BlocksDisjoint
<1>13. BlockPages(K)' = BlockPages(H) \union {n}
  <2>1. \A h \in H : Block(h)' = Block(h)
    BY <1>6 DEF Block
  <2>2. Block(n)' = {n}
    BY <1>1, <1>6 DEF Block
  <2> QED
    BY <2>1, <2>2 DEF BlockPages
<1>14. MergeInv(K)'
  <2>1. new_node' = n /\ previous_node' = p /\ next_node' = y
    BY DEF FreeLink, freeVars
  <2>2. Successor(p)' = n
    <3>1. CASE p = NULL
      BY <1>6, <2>1, <3>1 DEF Successor
    <3>2. CASE p # NULL
      BY <1>1, <1>6, <2>1, <3>2 DEF Successor
    <3> QED
      BY <3>1, <3>2
  <2>3. pc' = "merge_next"
    BY DEF FreeLink
  <2> QED
    BY <1>1, <1>6, <2>1, <2>2, <2>3 DEF MergeInv
<1> QED
  BY <1>7, <1>11, <1>12, <1>13, <1>14 DEF ListInv

\* free_page_blocks_are_adjacent means what it says: nothing wraps around.
LEMMA AdjacentBlocks ==
  ASSUME TypeOK, NEW H \in SUBSET Pages, ListInv(H),
         NEW a \in H, NEW b \in H, a < b, Adjacent(a, b)
  PROVE  a + num_pages[a] = b
<1>1. a \in Nat /\ b \in Nat /\ b > 0 /\ num_pages[a] \in Nat
  BY HeadFacts DEF NULL
<1>2. a + num_pages[a] <= b /\ b < NumFrames
  <2>1. b \in 0 .. NumFrames - 1
    BY FrameTypes DEF Frames
  <2> QED
    BY <2>1, FrameTypes DEF ListInv, BlocksDisjoint
<1>3. (a + num_pages[a]) % NumFrames = b
  BY <1>1 DEF Adjacent
<1>4. (a + num_pages[a]) % NumFrames = a + num_pages[a]
  BY <1>1, <1>2, FrameTypes, ModSmall
<1> QED
  BY <1>3, <1>4

\* The first write of free_page_blocks_merge: the blocks overlap, and no page
\* is lost.
LEMMA PagesAdded ==
  ASSUME TypeOK, NEW H \in SUBSET Pages, ListInv(H),
         NEW a \in H, NEW b, b # NULL, next[a] = b, Adjacent(a, b),
         AddPages(a, b), UNCHANGED <<free_list, next>>
  PROVE  /\ a < b
         /\ IsFreeList(H)'
         /\ HalfMerged(H, a, b)'
         /\ BlockPages(H)' = BlockPages(H)
<1>1. b \in H /\ a < b
  BY DEF ListInv, IsFreeList, Follows
<1>2. /\ a \in Nat /\ b \in Nat /\ H \subseteq Nat
      /\ \A h \in H : num_pages[h] \in Nat \ {0}
  BY <1>1, HeadFacts
<1>3. a + num_pages[a] = b
  BY <1>1, AdjacentBlocks
<1>4. /\ num_pages'[a] = num_pages[a] + num_pages[b]
      /\ \A h \in H \ {a} : num_pages'[h] = num_pages[h]
  BY <1>1, HeadFacts DEF AddPages, TypeOK
<1>5. IsFreeList(H)'
  BY DEF ListInv, IsFreeList, Follows
<1>6. BlocksDisjoint(H \ {b})'
  <2> DEFINE K == H \ {b}
  <2>1. b + num_pages[b] <= NumFrames
    BY <1>1 DEF ListInv, BlocksDisjoint
  <2>2. \A h \in K : num_pages'[h] >= 1 /\ h + num_pages'[h] <= NumFrames
    BY <1>1, <1>2, <1>3, <1>4, <2>1 DEF ListInv, BlocksDisjoint
  <2>3. ASSUME NEW g \in K, NEW h \in K, g < h
        PROVE  g + num_pages'[g] <= h
    <3>1. CASE g = a
      <4>0. \A k \in H : k <= a \/ b <= k
        BY DEF ListInv, IsFreeList, Follows
      <4>1. b < h
        BY <1>1, <1>2, <2>3, <3>1, <4>0
      <4>2. b + num_pages[b] <= h
        BY <1>1, <4>1 DEF ListInv, BlocksDisjoint
      <4> QED
        BY <1>1, <1>2, <1>3, <1>4, <3>1, <4>2
    <3>2. CASE g # a
      BY <1>4, <2>3, <3>2 DEF ListInv, BlocksDisjoint
    <3> QED
      BY <3>1, <3>2
  <2> QED
    BY <2>2, <2>3 DEF BlocksDisjoint
<1>7. HalfMerged(H, a, b)'
  <2>1. num_pages'[b] = num_pages[b] /\ a + num_pages'[a] = b + num_pages[b]
    BY <1>1, <1>2, <1>3, <1>4
  <2> QED
    BY <1>1, <1>2, <1>6, <2>1 DEF HalfMerged
<1>8. BlockPages(H)' = BlockPages(H)
  <2>1. \A h \in H \ {a} : Block(h)' = Block(h)
    BY <1>4 DEF Block
  <2>2. Block(a)' = Block(a) \union Block(b)
    <3>1. Block(a)' = a .. a + num_pages[a] + num_pages[b] - 1
      BY <1>1, <1>2, <1>4 DEF Block
    <3>2. Block(a) = a .. a + num_pages[a] - 1
      BY DEF Block
    <3>3. Block(b) = b .. b + num_pages[b] - 1
      BY DEF Block
    <3>4. num_pages[a] \in Nat /\ num_pages[a] >= 1 /\ num_pages[b] \in Nat /\ num_pages[b] >= 1
      BY <1>1, <1>2
    <3> QED
      BY <1>2, <1>3, <3>1, <3>2, <3>3, <3>4, SMTT(20)
  <2> QED
    BY <1>1, <2>1, <2>2 DEF BlockPages
<1> QED
  BY <1>1, <1>5, <1>7, <1>8

\* What is half merged, in terms of one block and the next.
LEMMA HalfMergedFacts ==
  ASSUME TypeOK, NEW H \in SUBSET Pages, IsFreeList(H), NEW a, NEW b, HalfMerged(H, a, b)
  PROVE  /\ H \subseteq Nat /\ a \in Nat /\ b \in Nat /\ a < b /\ b # NULL
         /\ a \in H /\ b \in H /\ next[a] = b
         /\ num_pages[a] \in Nat /\ num_pages[b] \in Nat
         /\ num_pages[b] >= 1 /\ num_pages[a] > num_pages[b]
         /\ a + num_pages[a] = b + num_pages[b]
         /\ \A h \in H : h <= a \/ b <= h
         /\ \A h \in H : num_pages[h] \in Int
<1>1. a \in H /\ b \in H /\ next[a] = b /\ a + num_pages[a] = b + num_pages[b] /\ num_pages[b] >= 1
  BY DEF HalfMerged
<1>2. H \subseteq Nat /\ H \subseteq Frames /\ NULL \notin H
  BY FrameTypes
<1>3. Follows(H, a, b)
  BY <1>1 DEF IsFreeList
<1>4. a < b /\ \A h \in H : h <= a \/ b <= h
  BY <1>1, <1>2, <1>3 DEF Follows
<1>5. \A h \in H : num_pages[h] \in Int
  BY <1>2 DEF TypeOK
<1>6. num_pages[a] \in Nat /\ num_pages[b] \in Nat /\ num_pages[a] > num_pages[b]
  BY <1>1, <1>2, <1>4, <1>5
<1> QED
  BY <1>1, <1>2, <1>4, <1>5, <1>6

\* The second write makes the list whole: it removes a head and loses no
\* page.
LEMMA BlockUnlinked ==
  ASSUME TypeOK, NEW H \in SUBSET Pages, IsFreeList(H), NEW a, NEW b, HalfMerged(H, a, b),
         Unlink(a, b), UNCHANGED <<free_list, num_pages>>,
         NEW K, K = H \ {b}
  PROVE  /\ a < b
         /\ a \in K
         /\ ListInv(K)'
         /\ BlockPages(K)' = BlockPages(H)
<1>1. /\ H \subseteq Nat /\ a \in Nat /\ b \in Nat /\ a < b /\ b # NULL
      /\ a \in H /\ b \in H /\ next[a] = b
      /\ num_pages[a] \in Nat /\ num_pages[b] \in Nat
      /\ num_pages[b] >= 1 /\ num_pages[a] > num_pages[b]
      /\ a + num_pages[a] = b + num_pages[b]
      /\ \A h \in H : h <= a \/ b <= h
  BY HalfMergedFacts
<1>2. next'[a] = next[b] /\ \A h \in H \ {a} : next'[h] = next[h]
  <2>1. H \subseteq Frames
    BY FrameTypes
  <2> QED
    BY <1>1, <2>1 DEF Unlink, TypeOK
<1>3. Follows(H, b, next[b]) /\ NULL \notin H
  BY <1>1, FrameTypes DEF IsFreeList
<1>4. Follows(K, a, next[b])
  <2>1. CASE next[b] = NULL
    <3>1. \A h \in H : h <= b
      BY <1>1, <1>3, <2>1 DEF Follows
    <3>2. \A h \in K : h <= a
      BY <1>1, <3>1
    <3> QED
      BY <2>1, <3>2 DEF Follows
  <2>2. CASE next[b] # NULL
    <3>1. next[b] \in H /\ b < next[b] /\ \A h \in H : h <= b \/ next[b] <= h
      BY <1>3, <2>2 DEF Follows
    <3>2. next[b] \in K /\ a < next[b]
      <4>1. next[b] \in Nat
        BY <1>1, <3>1
      <4> QED
        BY <1>1, <3>1, <4>1
    <3>3. \A h \in K : h <= a \/ next[b] <= h
      BY <1>1, <3>1
    <3> QED
      BY <3>2, <3>3 DEF Follows
  <2> QED
    BY <2>1, <2>2
<1>5. ASSUME NEW h \in H \union {NULL}, h # a, h # b, NEW z, Follows(H, h, z)
      PROVE  Follows(K, h, z)
  <2>1. h \in Nat
    BY <1>1 DEF NULL
  <2>2. z # b
    <3>1. SUFFICES ASSUME z = b
                   PROVE  FALSE
      OBVIOUS
    <3>2. h < b /\ a <= h
      BY <1>1, <1>5, <2>1, <3>1 DEF Follows
    <3>3. h \in H
      BY <1>1, <1>3, <3>2 DEF NULL
    <3> QED
      BY <1>1, <1>5, <2>1, <3>2, <3>3
  <2> QED
    BY <1>5, <2>2 DEF Follows
<1>6. IsFreeList(K)'
  <2>1. Follows(K, NULL, free_list)
    BY <1>1, <1>3, <1>5 DEF IsFreeList
  <2>2. \A h \in K \ {a} : Follows(K, h, next'[h])
    BY <1>2, <1>5 DEF IsFreeList
  <2>3. Follows(K, a, next'[a])
    BY <1>2, <1>4
  <2> QED
    BY <2>1, <2>2, <2>3 DEF IsFreeList, Follows
<1>7. BlocksDisjoint(K)'
  BY DEF HalfMerged, BlocksDisjoint
<1>8. BlockPages(K)' = BlockPages(H)
  <2>1. \A h \in H : Block(h)' = Block(h)
    BY DEF Block
  <2>2. Block(b) \subseteq Block(a)
    BY <1>1 DEF Block
  <2> QED
    BY <1>1, <2>1, <2>2 DEF BlockPages
<1> QED
  BY <1>1, <1>6, <1>7, <1>8 DEF ListInv

-----------------------------------------------------------------------------
\* For a well-formed map the start address and page count memory_detect
\* computes are exactly the whole pages of the chunk above the kernel.
LEMMA ChunkRange ==
  ASSUME WellFormedMap, NEW i \in FreeChunks, NEW c, c = MemoryMap[i]
  PROVE  /\ StartPage(c) \in Pages
         /\ NumPages(c) \in Nat \ {0}
         /\ StartPage(c) + NumPages(c) <= NumFrames
         /\ \A p \in Nat : p \in StartPage(c) .. StartPage(c) + NumPages(c) - 1
                           <=> KernelEnd <= p * PageSize /\ InChunk(p, c)
<1> DEFINE a == StartAddress(c)
           b == c.base_addr + c.length
           u == NextAligned(a)
           e == b \div PageSize
           half == NumFrames \div 2
<1>1. PageSize \in Nat \ {0} /\ NumFrames \in Nat \ {0} /\ KernelEnd \in Nat \ {0}
      /\ AddressSpace = NumFrames * PageSize /\ AddressSpace \in Nat \ {0}
  BY SizeAssumption DEF AddressSpace
<1>2. c.base_addr \in Nat /\ c.length \in Nat /\ IsFree(c)
  <2>1. i \in 1 .. Len(MemoryMap) /\ IsFree(c)
    BY DEF FreeChunks
  <2>2. c \in Chunk
    BY <2>1, MemoryAssumption
  <2> QED
    BY <2>1, <2>2 DEF Chunk
<1>3. b \in Nat /\ b < AddressSpace /\ EndPage(c) - NextAligned(StartAddress(c)) \in 1 .. half - 1
  BY <1>2 DEF WellFormedMap
<1>4. c.base_addr % AddressSpace = c.base_addr /\ b % AddressSpace = b
  BY <1>1, <1>2, <1>3, ModSmall
<1>5. a \in Nat /\ a > 0 /\ \A q \in Nat : a <= q <=> KernelEnd <= q /\ c.base_addr <= q
  BY <1>1, <1>2, <1>4 DEF StartAddress
<1>6. EndPage(c) = e
  BY <1>4 DEF EndPage, EndAddress, PageAlign
<1>7. u \in Nat /\ \A p \in Nat : u <= p <=> a <= p * PageSize
  <2>1. u \in Nat
    BY <1>1, <1>5 DEF NextAligned, PageAlign
  <2> QED
    BY <1>5, <2>1, AlignUp
<1>8. e \in Nat /\ \A p \in Nat : p + 1 <= e <=> (p + 1) * PageSize <= b
  <2>1. e \in Nat
    BY <1>1, <1>3
  <2> QED
    BY <1>1, <1>3, <2>1, AlignDown
<1>9. e < NumFrames /\ u > 0
  <2>1. NumFrames - 1 \in Nat /\ (NumFrames - 1) + 1 = NumFrames
    BY <1>1
  <2>2. ~ (NumFrames <= e)
    BY <1>1, <1>3, <1>8, <2>1
  <2>3. ~ (u <= 0)
    BY <1>1, <1>5, <1>7
  <2> QED
    BY <1>1, <1>7, <1>8, <2>2, <2>3
<1>10. half \in Nat /\ half + half <= NumFrames /\ e - u \in 1 .. half - 1
  BY <1>1, <1>3, <1>6
<1>11. StartPage(c) = u
  BY <1>1, <1>7, <1>8, <1>9, <1>10, ModSmall DEF StartPage
<1>12. NumPages(c) = e - u
  <2>1. e - u + half \in 0 .. NumFrames - 1
    BY <1>1, <1>7, <1>8, <1>10
  <2>2. (e - u + half) % NumFrames = e - u + half
    BY <1>1, <2>1, ModSmall
  <2> QED
    BY <1>6, <1>7, <1>8, <1>10, <1>11, <2>2 DEF NumPages, PagesBetween
<1>13. StartPage(c) \in Pages
  BY <1>1, <1>7, <1>8, <1>9, <1>10, <1>11 DEF Pages, Frames, NULL
<1>14. NumPages(c) \in Nat \ {0} /\ StartPage(c) + NumPages(c) <= NumFrames
  BY <1>1, <1>7, <1>8, <1>9, <1>10, <1>11, <1>12
<1>15. ASSUME NEW p \in Nat
       PROVE  p \in StartPage(c) .. StartPage(c) + NumPages(c) - 1
              <=> KernelEnd <= p * PageSize /\ InChunk(p, c)
  <2>1. p \in StartPage(c) .. StartPage(c) + NumPages(c) - 1 <=> u <= p /\ p + 1 <= e
    BY <1>7, <1>8, <1>11, <1>12
  <2>2. p * PageSize \in Nat
    BY <1>1
  <2>3. u <= p <=> KernelEnd <= p * PageSize /\ c.base_addr <= p * PageSize
    BY <1>5, <1>7, <2>2
  <2>4. p + 1 <= e <=> (p + 1) * PageSize <= b
    BY <1>8
  <2> QED
    BY <1>2, <2>1, <2>3, <2>4 DEF InChunk
<1> QED
  BY <1>13, <1>14, <1>15

\* A chunk of a well-formed map becomes a new last block.
LEMMA AppendChunk ==
  ASSUME WellFormedMap, TypeOK, NEW H \in SUBSET Pages, ListInv(H), DetectInv(H),
         DetectChunk,
         NEW c, c = MemoryMap[chunk],
         NEW s, s = StartPage(c),
         NEW K, K = H \union {s}
  PROVE  /\ K \in SUBSET Pages
         /\ ListInv(K)'
         /\ AccountInv(K)'
         /\ DetectInv(K)'
<1> DEFINE n == NumPages(c)
<1>1. /\ chunk \in FreeChunks /\ chunk \in Nat /\ chunk' = chunk + 1
      /\ pc = "detect" /\ pc' = "detect" /\ owned = {} /\ owned' = {}
      /\ BlockPages(H) = EarlierPages
      /\ tail' = s
  BY DEF DetectChunk, FreeChunks, TypeOK, DetectInv
<1>2. /\ s \in Pages /\ n \in Nat \ {0} /\ s + n <= NumFrames
      /\ \A p \in Nat : p \in s .. s + n - 1 <=> KernelEnd <= p * PageSize /\ InChunk(p, c)
  BY <1>1, ChunkRange
<1>3. /\ s \in Nat /\ s > 0 /\ s \in Frames
      /\ H \subseteq Nat /\ H \subseteq Frames /\ NULL \notin H
      /\ \A h \in H : num_pages[h] \in Nat \ {0}
  BY <1>2, FrameTypes, HeadFacts DEF NULL
<1>4. PageSize \in Nat \ {0} /\ KernelEnd \in Nat
  BY SizeAssumption DEF AddressSpace
<1>5. \A h \in H : h + num_pages[h] <= s
  <2> SUFFICES ASSUME NEW h \in H
               PROVE  h + num_pages[h] <= s
    OBVIOUS
  <2> DEFINE p == h + num_pages[h] - 1
  <2>1. p \in Nat /\ p \in Block(h)
    BY <1>3 DEF Block
  <2>2. PICK i \in 1 .. chunk - 1 : InChunk(p, MemoryMap[i])
    BY <1>1, <2>1 DEF BlockPages, EarlierPages
  <2>3. i \in FreeChunks /\ i < chunk
    BY <1>1, <2>2 DEF FreeChunks, InChunk
  <2>4. (p + 1) * PageSize <= MemoryMap[i].base_addr + MemoryMap[i].length
    BY <2>2 DEF InChunk
  <2>5. MemoryMap[i].base_addr + MemoryMap[i].length <= c.base_addr
    BY <1>1, <2>3 DEF WellFormedMap
  <2>6. c.base_addr <= s * PageSize
    <3>1. s \in s .. s + n - 1
      BY <1>2, <1>3
    <3> QED
      BY <1>2, <1>3, <3>1 DEF InChunk
  <2>7. /\ MemoryMap[i].base_addr \in Nat /\ MemoryMap[i].length \in Nat
        /\ c.base_addr \in Nat
    <3>1. MemoryMap[i] \in Chunk /\ c \in Chunk
      BY <1>1, <2>3, MemoryAssumption DEF FreeChunks
    <3> QED
      BY <3>1 DEF Chunk
  <2>8. (p + 1) * PageSize <= s * PageSize
    BY <1>3, <1>4, <2>1, <2>4, <2>5, <2>6, <2>7
  <2>9. p + 1 <= s
    BY <1>3, <1>4, <2>1, <2>8
  <2> QED
    BY <1>3, <2>9
<1>6. \A h \in H : h < s
  BY <1>3, <1>5
<1>7. s \notin H
  BY <1>3, <1>6
<1>8. /\ tail = AtListHead  => H = {}
      /\ tail # AtListHead => tail \in H /\ \A h \in H : h <= tail
  BY <1>1 DEF DetectInv
<1>9. /\ num_pages'[s] = n /\ next'[s] = NULL
      /\ \A h \in H : num_pages'[h] = num_pages[h]
      /\ \A h \in H : next'[h] = IF h = tail THEN s ELSE next[h]
      /\ free_list' = IF tail = AtListHead THEN s ELSE free_list
  <2>1. tail # AtListHead => tail \in Frames
    BY DEF TypeOK
  <2> QED
    BY <1>3, <1>7, <1>8, <2>1 DEF DetectChunk, TypeOK
<1>10. K \in SUBSET Pages
  BY <1>2
<1>11. IsFreeList(K)'
  <2>1. Follows(K, s, NULL)
    BY <1>3, <1>6 DEF Follows
  <2>2. CASE tail = AtListHead
    <3>1. Follows(K, NULL, s)
      BY <1>3, <1>8, <2>2 DEF Follows, NULL
    <3> QED
      BY <1>8, <1>9, <2>1, <2>2, <3>1 DEF IsFreeList, Follows
  <2>3. CASE tail # AtListHead
    <3>0. tail \in Nat /\ tail > 0 /\ tail \in H /\ \A h \in H : h \in Nat /\ h <= tail
      <4>1. tail \in H /\ \A h \in H : h <= tail
        BY <1>8, <2>3
      <4>2. tail # 0
        BY <1>3, <4>1 DEF NULL
      <4> QED
        BY <1>3, <4>1, <4>2
    <3>1. Follows(K, tail, s)
      BY <1>3, <1>6, <3>0 DEF Follows
    <3>2. ASSUME NEW h \in H \union {NULL}, h # tail, NEW z, Follows(H, h, z)
          PROVE  Follows(K, h, z)
      <4>1. h < tail /\ h \in Nat /\ tail \in Nat
        BY <3>0, <3>2 DEF NULL
      <4>2. z # NULL
        BY <1>3, <1>8, <2>3, <3>2, <4>1 DEF Follows
      <4>3. z \in H /\ h < z /\ \A k \in H : k <= h \/ z <= k
        BY <3>2, <4>2 DEF Follows
      <4>4. z <= s
        BY <1>3, <1>6, <4>3
      <4> QED
        BY <4>3, <4>4 DEF Follows
    <3>3. Follows(K, NULL, free_list')
      BY <1>3, <1>8, <1>9, <2>3, <3>2 DEF ListInv, IsFreeList
    <3>4. \A h \in H : Follows(K, h, next'[h])
      BY <1>9, <3>1, <3>2 DEF ListInv, IsFreeList
    <3> QED
      BY <1>9, <2>1, <3>3, <3>4 DEF IsFreeList, Follows
  <2> QED
    BY <2>2, <2>3
<1>12. BlocksDisjoint(K)'
  <2>1. \A h \in K : num_pages'[h] >= 1 /\ h + num_pages'[h] <= NumFrames
    BY <1>2, <1>9 DEF ListInv, BlocksDisjoint
  <2>2. ASSUME NEW g \in K, NEW h \in K, g < h
        PROVE  g + num_pages'[g] <= h
    <3>1. g \in H
      BY <1>3, <1>6, <2>2
    <3>2. CASE h = s
      BY <1>5, <1>9, <3>1, <3>2
    <3>3. CASE h \in H
      BY <1>9, <2>2, <3>1, <3>3 DEF ListInv, BlocksDisjoint
    <3> QED
      BY <3>2, <3>3
  <2> QED
    BY <2>1, <2>2 DEF BlocksDisjoint
<1>13. BlockPages(K)' = BlockPages(H) \union (s .. s + n - 1)
  <2>1. \A h \in H : Block(h)' = Block(h)
    BY <1>9 DEF Block
  <2>2. Block(s)' = s .. s + n - 1
    BY <1>9 DEF Block
  <2> QED
    BY <2>1, <2>2, ZenonT(30) DEF BlockPages
<1>14. \A p : p \in s .. s + n - 1 <=> p \in UsablePages /\ InChunk(p, c)
  <2>1. \A p : p \in s .. s + n - 1 => p \in Pages
    <3>1. NumFrames \in Nat
      BY FrameTypes
    <3> QED
      BY <1>2, <1>3, <3>1 DEF Pages, Frames, NULL
  <2>2. Pages \subseteq Nat
    BY FrameTypes
  <2>3. c = MemoryMap[chunk] /\ chunk \in 1 .. Len(MemoryMap)
    BY <1>1 DEF FreeChunks
  <2> QED
    BY <1>2, <2>1, <2>2, <2>3 DEF UsablePages
<1>15. EarlierPages' = EarlierPages \union (s .. s + n - 1)
  <2>1. 1 .. chunk' - 1 = (1 .. chunk - 1) \union {chunk}
    BY <1>1 DEF FreeChunks
  <2> HIDE DEF n
  <2> QED
    BY <1>14, <2>1 DEF EarlierPages
<1>16. AccountInv(K)'
  BY <1>1, <1>13, <1>15 DEF AccountInv, EarlierPages
<1>17. DetectInv(K)'
  <2>1. s # AtListHead
    BY <1>3 DEF AtListHead
  <2>2. \A h \in K : h <= s
    BY <1>3, <1>6
  <2> QED
    BY <1>1, <1>13, <1>15, <2>1, <2>2 DEF DetectInv
<1> QED
  BY <1>10, <1>11, <1>12, <1>16, <1>17 DEF ListInv

-----------------------------------------------------------------------------
\* The list is empty at first.
LEMMA ConsistentInit ==
  ASSUME Init
  PROVE  Consistent({})
<1>1. IsFreeList({}) /\ BlocksDisjoint({})
  BY DEF Init, IsFreeList, Follows, BlocksDisjoint
<1>2. BlockPages({}) = {} /\ EarlierPages = {}
  <2>1. 1 .. chunk - 1 = {}
    BY DEF Init
  <2> QED
    BY <2>1 DEF BlockPages, EarlierPages
<1> QED
  BY <1>1, <1>2
     DEF Init, Consistent, OrderInv, AccountInv, DetectInv, WalkInv, MergeInv

\* The list is determined by the head pointer and the headers.
LEMMA ListUnchanged ==
  ASSUME NEW H, UNCHANGED <<free_list, num_pages, next>>
  PROVE  /\ ListInv(H)' <=> ListInv(H)
         /\ BlockPages(H)' = BlockPages(H)
  BY DEF ListInv, IsFreeList, Follows, BlocksDisjoint, BlockPages, Block

\* Writing to pages that head no block leaves the list alone.
LEMMA WrittenElsewhere ==
  ASSUME NEW H \in SUBSET Pages, ListInv(H), UNCHANGED free_list,
         \A h \in H : num_pages'[h] = num_pages[h] /\ next'[h] = next[h]
  PROVE  /\ ListInv(H)'
         /\ BlockPages(H)' = BlockPages(H)
  BY DEF ListInv, IsFreeList, Follows, BlocksDisjoint, BlockPages, Block

\* A page that is handed out heads no block.
LEMMA OwnedIsNoHead ==
  ASSUME TypeOK, NEW H \in SUBSET Pages, ListInv(H), AccountInv(H), NEW p \in owned
  PROVE  p \notin H
<1>1. \A h \in H : h \in Block(h)
  BY HeadFacts DEF Block
<1> QED
  BY <1>1 DEF AccountInv, BlockPages

\* Every step leaves a consistent list, with another set of heads perhaps.
LEMMA ConsistentStep ==
  ASSUME WellFormedMap, TypeOK, NEW H \in SUBSET Pages, Consistent(H), [Next]_vars
  PROVE  \E K \in SUBSET Pages : Consistent(K)'
<1> USE DEF header, detectVars, freeVars
<1>0. /\ OrderInv(H) /\ AccountInv(H) /\ DetectInv(H) /\ WalkInv(H) /\ MergeInv(H)
      /\ pc \notin {"unlink_next", "unlink_previous", "page_fault"} => ListInv(H)
  BY DEF Consistent, OrderInv, ListInv
<1>1. CASE DetectSkip
  <2>1. ListInv(H)' /\ BlockPages(H)' = BlockPages(H)
    BY <1>0, <1>1, ListUnchanged DEF DetectSkip
  <2>2. EarlierPages' = EarlierPages
    <3>1. chunk \in Nat /\ chunk >= 1 /\ chunk' = chunk + 1 /\ ~IsFree(MemoryMap[chunk])
      BY <1>1 DEF DetectSkip, TypeOK
    <3>2. 1 .. chunk' - 1 = (1 .. chunk - 1) \union {chunk}
      BY <3>1
    <3> QED
      BY <3>1, <3>2 DEF EarlierPages, InChunk
  <2>3. AccountInv(H)' /\ DetectInv(H)' /\ WalkInv(H)' /\ MergeInv(H)'
    BY <1>0, <1>1, <2>1, <2>2 DEF DetectSkip, AccountInv, DetectInv, WalkInv, MergeInv
  <2> QED
    BY <2>1, <2>3 DEF Consistent, OrderInv, ListInv
<1>2. CASE DetectChunk
  <2>1. PICK K \in SUBSET Pages : ListInv(K)' /\ AccountInv(K)' /\ DetectInv(K)'
    <3>1. ListInv(H)
      BY <1>0, <1>2 DEF DetectChunk
    <3> QED
      BY <1>0, <1>2, <3>1, AppendChunk
  <2>2. WalkInv(K)' /\ MergeInv(K)'
    BY <1>2 DEF DetectChunk, WalkInv, MergeInv
  <2> QED
    BY <2>1, <2>2 DEF Consistent, OrderInv, ListInv
<1>3. CASE DetectDone
  <2>1. ListInv(H)' /\ BlockPages(H)' = BlockPages(H)
    BY <1>0, <1>3, ListUnchanged DEF DetectDone
  <2>2. EarlierPages = UsablePages
    <3>1. 1 .. chunk - 1 = 1 .. Len(MemoryMap)
      BY <1>3, MemoryAssumption DEF DetectDone, TypeOK
    <3> QED
      BY <3>1 DEF EarlierPages, UsablePages
  <2>3. AccountInv(H)' /\ DetectInv(H)' /\ WalkInv(H)' /\ MergeInv(H)'
    BY <1>0, <1>3, <2>1, <2>2 DEF DetectDone, AccountInv, DetectInv, WalkInv, MergeInv
  <2> QED
    BY <2>1, <2>3 DEF Consistent, OrderInv, ListInv
<1>4. CASE AllocateOutOfMemory
  <2>1. ListInv(H)' /\ BlockPages(H)' = BlockPages(H)
    BY <1>0, <1>4, ListUnchanged DEF AllocateOutOfMemory
  <2>2. AccountInv(H)' /\ DetectInv(H)' /\ WalkInv(H)' /\ MergeInv(H)'
    BY <1>0, <1>4, <2>1 DEF AllocateOutOfMemory, AccountInv, DetectInv, WalkInv, MergeInv
  <2> QED
    BY <2>1, <2>2 DEF Consistent, OrderInv, ListInv
<1>5. CASE AllocateLastOfBlock
  <2> DEFINE f == free_list
  <2>1. PICK K \in SUBSET Pages :
          ListInv(K)' /\ f \in BlockPages(H) /\ BlockPages(K)' = BlockPages(H) \ {f}
    <3>1. ListInv(H)
      BY <1>0, <1>5 DEF AllocateLastOfBlock
    <3> QED
      BY <1>5, <3>1, TakeLastPage
  <2>2. owned' = owned \union {f} /\ pc = "idle" /\ pc' = "idle"
    BY <1>5 DEF AllocateLastOfBlock
  <2>3. AccountInv(K)' /\ DetectInv(K)' /\ WalkInv(K)' /\ MergeInv(K)'
    BY <1>0, <2>1, <2>2 DEF AccountInv, DetectInv, WalkInv, MergeInv
  <2> QED
    BY <2>1, <2>3 DEF Consistent, OrderInv, ListInv
<1>6. CASE AllocateSplit
  <2> DEFINE f == free_list
  <2>1. PICK K \in SUBSET Pages :
          ListInv(K)' /\ f \in BlockPages(H) /\ BlockPages(K)' = BlockPages(H) \ {f}
    <3>1. ListInv(H)
      BY <1>0, <1>6 DEF AllocateSplit
    <3> QED
      BY <1>6, <3>1, SplitFirstBlock
  <2>2. owned' = owned \union {f} /\ pc = "idle" /\ pc' = "idle"
    BY <1>6 DEF AllocateSplit
  <2>3. AccountInv(K)' /\ DetectInv(K)' /\ WalkInv(K)' /\ MergeInv(K)'
    BY <1>0, <2>1, <2>2 DEF AccountInv, DetectInv, WalkInv, MergeInv
  <2> QED
    BY <2>1, <2>3 DEF Consistent, OrderInv, ListInv
<1>7. CASE \E p \in Pages : FreeBegin(p)
  <2>1. PICK p \in Pages : FreeBegin(p)
    BY <1>7
  <2>2. ListInv(H)' /\ BlockPages(H)' = BlockPages(H)
    BY <1>0, <2>1, ListUnchanged DEF FreeBegin
  <2>3. AccountInv(H)' /\ DetectInv(H)' /\ MergeInv(H)'
    BY <1>0, <2>1, <2>2 DEF FreeBegin, AccountInv, DetectInv, MergeInv
  <2>4. WalkInv(H)'
    <3>1. NULL < p
      BY FrameTypes DEF NULL
    <3> QED
      BY <2>1, <3>1 DEF FreeBegin, WalkInv, Successor
  <2> QED
    BY <2>2, <2>3, <2>4 DEF Consistent, OrderInv, ListInv
<1>8. CASE \E p \in Pages, h \in Scribbles : Scribble(p, h)
  <2>1. PICK p \in Pages, h \in Scribbles : Scribble(p, h)
    BY <1>8
  <2>2. ListInv(H) /\ p \in owned
    BY <1>0, <2>1 DEF Scribble
  <2>3. p \notin H
    BY <1>0, <2>2, OwnedIsNoHead
  <2>4. /\ free_list' = free_list
        /\ \A g \in H : num_pages'[g] = num_pages[g] /\ next'[g] = next[g]
    BY <2>1, <2>3, FrameTypes DEF Scribble, TypeOK
  <2>5. ListInv(H)' /\ BlockPages(H)' = BlockPages(H)
    BY <2>2, <2>4, WrittenElsewhere
  <2>6. AccountInv(H)' /\ DetectInv(H)' /\ WalkInv(H)' /\ MergeInv(H)'
    BY <1>0, <2>1, <2>5 DEF Scribble, AccountInv, DetectInv, WalkInv, MergeInv
  <2> QED
    BY <2>5, <2>6 DEF Consistent, OrderInv, ListInv
<1>9. CASE FreeWalk
  <2>1. ListInv(H)' /\ BlockPages(H)' = BlockPages(H)
    BY <1>0, <1>9, ListUnchanged DEF FreeWalk
  <2>2. AccountInv(H)' /\ DetectInv(H)' /\ MergeInv(H)'
    BY <1>0, <1>9, <2>1 DEF FreeWalk, AccountInv, DetectInv, MergeInv
  <2>3. WalkInv(H)'
    <3>1. next_node \in H
      <4>1. Follows(H, previous_node, next_node)
        BY <1>0, <1>9 DEF FreeWalk, WalkInv, ListInv, IsFreeList, Successor
      <4> QED
        BY <1>9, <4>1 DEF FreeWalk, Walking, Follows
    <3>2. next_node # NULL /\ next_node < new_node
      BY <1>9 DEF FreeWalk, Walking
    <3> QED
      BY <1>0, <1>9, <3>1, <3>2 DEF FreeWalk, WalkInv, Successor
  <2> QED
    BY <2>1, <2>2, <2>3 DEF Consistent, OrderInv, ListInv
<1>10. CASE FreeFault
  <2>1. /\ pc # "detect" /\ pc' = "page_fault" /\ owned' = owned
        /\ UNCHANGED <<free_list, num_pages, next, new_node, next_node, previous_node>>
    BY <1>10, FaultStops
  <2>2. (IsFreeList(H)' <=> IsFreeList(H)) /\ BlockPages(H)' = BlockPages(H)
    BY <2>1 DEF IsFreeList, Follows, BlockPages, Block
  <2>3. BlocksDisjoint(H)' <=> BlocksDisjoint(H)
    BY <2>1 DEF BlocksDisjoint
  <2>4. \A f, g \in H : HalfMerged(H, f, g)' <=> HalfMerged(H, f, g)
    BY <2>1 DEF HalfMerged, BlocksDisjoint
  <2>5. BlocksDisjoint(H) \/ \E f, g \in H : UnlinkDue(f, g)' /\ HalfMerged(H, f, g)
    <3>1. CASE pc = "unlink_next"
      <4>1. PICK f, g : f = new_node /\ g = next_node
        OBVIOUS
      <4>2. HalfMerged(H, f, g) /\ UnlinkDue(f, g)'
        BY <1>0, <2>1, <3>1, <4>1 DEF MergeInv, UnlinkDue
      <4> QED  BY <4>2 DEF HalfMerged
    <3>2. CASE pc = "unlink_previous"
      <4>1. PICK f, g : f = previous_node /\ g = new_node
        OBVIOUS
      <4>2. HalfMerged(H, f, g) /\ UnlinkDue(f, g)'
        BY <1>0, <2>1, <3>2, <4>1 DEF MergeInv, UnlinkDue
      <4> QED  BY <4>2 DEF HalfMerged
    <3>3. CASE pc \notin {"unlink_next", "unlink_previous"}
      <4>1. pc # "page_fault"
        BY <1>10, FaultStops
      <4> QED  BY <1>0, <3>3, <4>1 DEF ListInv
    <3> QED  BY <3>1, <3>2, <3>3
  <2>6. OrderInv(H)'
    BY <1>0, <2>1, <2>2, <2>3, <2>4, <2>5 DEF OrderInv
  <2>7. AccountInv(H)' /\ DetectInv(H)' /\ WalkInv(H)' /\ MergeInv(H)'
    BY <1>0, <2>1, <2>2 DEF AccountInv, DetectInv, WalkInv, MergeInv
  <2> QED
    BY <2>6, <2>7 DEF Consistent
<1>11. CASE FreeSetPages \/ FreeSetNext
  <2>1. /\ pc \in {"walk", "set_next"} /\ pc' \in {"set_next", "link"} /\ owned' = owned
        /\ UNCHANGED <<free_list, new_node, next_node, previous_node>>
        /\ \A g \in Frames \ {new_node} : num_pages'[g] = num_pages[g] /\ next'[g] = next[g]
    BY <1>11 DEF FreeSetPages, FreeSetNext, TypeOK
  <2>2. /\ ListInv(H) /\ new_node \in owned /\ previous_node \in H \union {NULL}
        /\ previous_node < new_node /\ next_node = Successor(previous_node)
    BY <1>0, <2>1 DEF WalkInv
  <2>3. new_node \notin H /\ H \subseteq Frames /\ NULL \notin H
    BY <1>0, <2>2, OwnedIsNoHead, FrameTypes
  <2>4. ListInv(H)' /\ BlockPages(H)' = BlockPages(H)
    BY <2>1, <2>2, <2>3, WrittenElsewhere
  <2>5. Successor(previous_node)' = next_node
    BY <2>1, <2>2, <2>3 DEF Successor
  <2>6. /\ ~Walking /\ num_pages'[new_node] = 1
        /\ pc' = "link" => next'[new_node] = next_node
    <3>1. new_node \in Frames
      BY DEF TypeOK
    <3>2. CASE FreeSetPages
      BY <3>1, <3>2 DEF FreeSetPages, TypeOK
    <3>3. CASE FreeSetNext
      BY <1>0, <3>1, <3>3 DEF FreeSetNext, WalkInv, TypeOK
    <3> QED  BY <1>11, <3>2, <3>3
  <2>7. WalkInv(H)'
    BY <2>1, <2>2, <2>5, <2>6 DEF WalkInv, Walking
  <2>8. AccountInv(H)' /\ DetectInv(H)' /\ MergeInv(H)'
    BY <1>0, <2>1, <2>4 DEF AccountInv, DetectInv, MergeInv
  <2> QED
    BY <2>1, <2>4, <2>7, <2>8 DEF Consistent, OrderInv, ListInv
<1>12. CASE FreeLink
  <2> DEFINE n == new_node
  <2>1. PICK K \in SUBSET Pages :
          ListInv(K)' /\ MergeInv(K)' /\ BlockPages(K)' = BlockPages(H) \union {n}
    <3>1. ListInv(H)
      BY <1>0, <1>12 DEF FreeLink
    <3> QED  BY <1>0, <1>12, <3>1, LinkPage
  <2>2. n \in owned /\ owned' = owned \ {n} /\ pc = "link" /\ pc' = "merge_next"
    BY <1>0, <1>12 DEF FreeLink, WalkInv
  <2>3. AccountInv(K)'
    BY <1>0, <2>1, <2>2 DEF AccountInv, TypeOK
  <2>4. DetectInv(K)' /\ WalkInv(K)'
    BY <2>2 DEF DetectInv, WalkInv
  <2> QED
    BY <2>1, <2>2, <2>3, <2>4 DEF Consistent, OrderInv, ListInv
<1>13. CASE FreeMergeNext
  <2>1. /\ pc = "merge_next" /\ pc' \in {"unlink_next", "merge_previous"} /\ owned' = owned
        /\ UNCHANGED <<free_list, next, new_node, next_node, previous_node>>
    BY <1>13 DEF FreeMergeNext
  <2>2. /\ new_node \in H /\ previous_node \in H \union {NULL}
        /\ previous_node < new_node /\ Successor(previous_node) = new_node
        /\ next[new_node] = next_node /\ ListInv(H)
    BY <1>0, <2>1 DEF MergeInv
  <2>3. Successor(previous_node)' = new_node
    BY <2>1, <2>2 DEF Successor
  <2>4. CASE ~MergesNext
    <3>1. UNCHANGED num_pages /\ pc' = "merge_previous"
      BY <1>13, <2>4 DEF FreeMergeNext
    <3>2. ListInv(H)' /\ BlockPages(H)' = BlockPages(H)
      BY <2>1, <2>2, <3>1, ListUnchanged
    <3>3. AccountInv(H)' /\ DetectInv(H)' /\ WalkInv(H)' /\ MergeInv(H)'
      BY <1>0, <2>1, <2>2, <2>3, <3>1, <3>2
         DEF AccountInv, DetectInv, WalkInv, MergeInv
    <3> QED
      BY <3>1, <3>2, <3>3 DEF Consistent, OrderInv, ListInv
  <2>5. CASE MergesNext
    <3>0. PICK a, b : a = new_node /\ b = next_node
      OBVIOUS
    <3>1. /\ b # NULL /\ Adjacent(a, b) /\ AddPages(a, b) /\ a \in H /\ next[a] = b
          /\ pc' = "unlink_next"
      BY <1>13, <2>2, <2>5, <3>0 DEF FreeMergeNext, MergesNext
    <3>2. IsFreeList(H)' /\ HalfMerged(H, a, b)' /\ BlockPages(H)' = BlockPages(H)
      BY <2>1, <2>2, <3>1, PagesAdded
    <3>3. HalfMerged(H, new_node, next_node)'
      <4>1. new_node' = a /\ next_node' = b
        BY <2>1, <3>0
      <4> QED  BY <3>2, <4>1 DEF HalfMerged, BlocksDisjoint
    <3>4. AccountInv(H)' /\ DetectInv(H)' /\ WalkInv(H)'
      BY <1>0, <2>1, <3>1, <3>2 DEF AccountInv, DetectInv, WalkInv
    <3>5. MergeInv(H)'
      BY <2>1, <2>2, <2>3, <3>1, <3>3 DEF MergeInv
    <3> QED
      BY <3>1, <3>2, <3>4, <3>5 DEF Consistent, OrderInv
  <2> QED
    BY <2>4, <2>5
<1>14. CASE FreeUnlinkNext
  <2>1. /\ pc = "unlink_next" /\ pc' = "merge_previous" /\ owned' = owned
        /\ UNCHANGED <<free_list, num_pages, new_node, next_node, previous_node>>
    BY <1>14 DEF FreeUnlinkNext
  <2>2. /\ previous_node \in H \union {NULL}
        /\ previous_node < new_node /\ Successor(previous_node) = new_node
        /\ HalfMerged(H, new_node, next_node) /\ IsFreeList(H)
    BY <1>0, <2>1 DEF MergeInv, OrderInv
  <2>3. PICK a, b, K : a = new_node /\ b = next_node /\ K = H \ {b}
    OBVIOUS
  <2>4. Unlink(a, b) /\ HalfMerged(H, a, b)
    BY <1>14, <2>2, <2>3 DEF FreeUnlinkNext
  <2>5. a < b /\ a \in K /\ ListInv(K)' /\ BlockPages(K)' = BlockPages(H)
    BY <2>1, <2>2, <2>3, <2>4, BlockUnlinked
  <2>6. K \in SUBSET Pages
    BY <2>3
  <2>7. previous_node \in K \union {NULL} /\ Successor(previous_node)' = new_node
    <3>1. previous_node # b /\ previous_node # a
      <4>1. a \in Nat /\ b \in Nat /\ previous_node \in Nat
        BY <2>3, FrameTypes DEF TypeOK
      <4> QED
        BY <2>2, <2>3, <2>5, <4>1
    <3>2. next'[previous_node] = next[previous_node]
      BY <2>4, <3>1 DEF Unlink, TypeOK
    <3> QED
      BY <2>1, <2>2, <2>3, <3>1, <3>2 DEF Successor
  <2>8. AccountInv(K)' /\ DetectInv(K)' /\ WalkInv(K)'
    BY <1>0, <2>1, <2>5 DEF AccountInv, DetectInv, WalkInv
  <2>9. MergeInv(K)'
    BY <2>1, <2>2, <2>3, <2>5, <2>7 DEF MergeInv
  <2> QED
    BY <2>1, <2>5, <2>6, <2>8, <2>9 DEF Consistent, OrderInv, ListInv
<1>15. CASE FreeMergePrevious
  <2>1. /\ pc = "merge_previous" /\ pc' \in {"unlink_previous", "idle"} /\ owned' = owned
        /\ UNCHANGED <<free_list, next>>
    BY <1>15 DEF FreeMergePrevious, Return
  <2>2. /\ new_node \in H /\ previous_node \in H \union {NULL}
        /\ previous_node < new_node /\ Successor(previous_node) = new_node
        /\ ListInv(H)
    BY <1>0, <2>1 DEF MergeInv
  <2>3. CASE ~MergesPrevious
    <3>1. UNCHANGED num_pages /\ pc' = "idle"
      BY <1>15, <2>3 DEF FreeMergePrevious, Return
    <3>2. ListInv(H)' /\ BlockPages(H)' = BlockPages(H)
      BY <2>1, <2>2, <3>1, ListUnchanged
    <3>3. AccountInv(H)' /\ DetectInv(H)' /\ WalkInv(H)' /\ MergeInv(H)'
      BY <1>0, <2>1, <3>1, <3>2 DEF AccountInv, DetectInv, WalkInv, MergeInv
    <3> QED
      BY <3>1, <3>2, <3>3 DEF Consistent, OrderInv, ListInv
  <2>4. CASE MergesPrevious
    <3>0. PICK a, b : a = previous_node /\ b = new_node
      OBVIOUS
    <3>1. /\ AddPages(a, b) /\ Adjacent(a, b) /\ a # NULL /\ pc' = "unlink_previous"
          /\ UNCHANGED <<new_node, next_node, previous_node>>
      BY <1>15, <2>4, <3>0 DEF FreeMergePrevious, MergesPrevious
    <3>2. a \in H /\ next[a] = b /\ b # NULL
      BY <2>2, <3>0, <3>1, HeadFacts DEF Successor
    <3>3. IsFreeList(H)' /\ HalfMerged(H, a, b)' /\ BlockPages(H)' = BlockPages(H)
      BY <2>1, <2>2, <3>1, <3>2, PagesAdded
    <3>4. HalfMerged(H, previous_node, new_node)'
      <4>1. previous_node' = a /\ new_node' = b
        BY <3>0, <3>1
      <4> QED  BY <3>3, <4>1 DEF HalfMerged, BlocksDisjoint
    <3>5. AccountInv(H)' /\ DetectInv(H)' /\ WalkInv(H)'
      BY <1>0, <2>1, <3>1, <3>3 DEF AccountInv, DetectInv, WalkInv
    <3>6. Successor(previous_node)' = new_node
      BY <2>1, <2>2, <3>1 DEF Successor
    <3>7. MergeInv(H)'
      BY <2>1, <2>2, <3>1, <3>4, <3>6 DEF MergeInv
    <3> QED
      BY <3>1, <3>3, <3>5, <3>7 DEF Consistent, OrderInv
  <2> QED
    BY <2>3, <2>4
<1>16. CASE FreeUnlinkPrevious
  <2>1. /\ pc = "unlink_previous" /\ pc' = "idle" /\ owned' = owned
        /\ UNCHANGED <<free_list, num_pages>>
    BY <1>16 DEF FreeUnlinkPrevious, Return
  <2>2. PICK a, b, K : a = previous_node /\ b = new_node /\ K = H \ {b}
    OBVIOUS
  <2>3. Unlink(a, b) /\ HalfMerged(H, a, b) /\ IsFreeList(H)
    BY <1>0, <1>16, <2>1, <2>2 DEF FreeUnlinkPrevious, MergeInv, OrderInv
  <2>4. ListInv(K)' /\ BlockPages(K)' = BlockPages(H) /\ K \in SUBSET Pages
    BY <2>1, <2>2, <2>3, BlockUnlinked
  <2>5. AccountInv(K)' /\ DetectInv(K)' /\ WalkInv(K)' /\ MergeInv(K)'
    BY <1>0, <2>1, <2>4 DEF AccountInv, DetectInv, WalkInv, MergeInv
  <2> QED
    BY <2>1, <2>4, <2>5 DEF Consistent, OrderInv, ListInv
<1>17. CASE UNCHANGED vars
  <2>1. UNCHANGED <<free_list, num_pages, next, owned, pc, chunk, tail,
                    new_node, next_node, previous_node>>
    BY <1>17 DEF vars
  <2>2. BlockPages(H)' = BlockPages(H) /\ OrderInv(H)'
    BY <1>0, <2>1 DEF OrderInv, IsFreeList, Follows, BlocksDisjoint, HalfMerged, UnlinkDue,
                      BlockPages, Block
  <2>3. AccountInv(H)' /\ DetectInv(H)' /\ WalkInv(H)'
    BY <1>0, <2>1, <2>2
       DEF AccountInv, DetectInv, WalkInv, Walking, EarlierPages, Successor
  <2>4. MergeInv(H)'
    BY <1>0, <2>1 DEF MergeInv, HalfMerged, BlocksDisjoint, Successor
  <2> QED
    BY <2>2, <2>3, <2>4 DEF Consistent
<1> QED
  BY <1>1, <1>2, <1>3, <1>4, <1>5, <1>6, <1>7, <1>8, <1>9, <1>10, <1>11, <1>12,
     <1>13, <1>14, <1>15, <1>16, <1>17 DEF Next, MemoryDetect, MemoryAllocatePage, FreeStep

-----------------------------------------------------------------------------
\* The variables keep their types, whatever the memory map.
THEOREM TypeCorrect == Spec => []TypeOK
<1>1. Init => TypeOK
  BY TypeInit
<1>2. TypeOK /\ [Next]_vars => TypeOK'
  BY TypeStep
<1> QED
  BY <1>1, <1>2, PTL DEF Spec

\* IInv is an invariant: the induction the next theorems rest on.
THEOREM Invariance ==
  ASSUME WellFormedMap
  PROVE  Spec => []IInv
<1>1. Init => IInv
  BY TypeInit, ConsistentInit DEF IInv
<1>2. IInv /\ [Next]_vars => IInv'
  <2> SUFFICES ASSUME IInv, [Next]_vars
               PROVE  IInv'
    OBVIOUS
  <2>1. TypeOK'
    BY TypeStep DEF IInv
  <2>2. PICK H \in SUBSET Pages : Consistent(H)
    BY DEF IInv
  <2>3. \E K \in SUBSET Pages : Consistent(K)'
    BY <2>2, ConsistentStep DEF IInv
  <2> QED
    BY <2>1, <2>3 DEF IInv
<1> QED
  BY <1>1, <1>2, PTL DEF Spec

\* FreePages, which chooses among all sets, is the pages of the heads.
LEMMA FreePagesAre ==
  ASSUME NEW H \in SUBSET Pages, IsFreeList(H)
  PROVE  FreePages = BlockPages(H)
<1>1. Lists = {H}
  BY OneList DEF Lists
<1> QED
  BY <1>1 DEF FreePages, BlockPages

\* The free list of memory.c is always acyclic and in address order, after
\* every write and wherever memory_free_page faults; its blocks are disjoint,
\* except where a merge is half done, and there one is contained in another.
THEOREM ListStaysSorted ==
  ASSUME WellFormedMap
  PROVE  Spec => []SortedDisjointList
<1>1. IInv => SortedDisjointList
  <2> SUFFICES ASSUME IInv
               PROVE  SortedDisjointList
    OBVIOUS
  <2>1. PICK H \in SUBSET Pages : OrderInv(H) /\ MergeInv(H)
    BY DEF IInv, Consistent
  <2>2. IsFreeList(H)
    BY <2>1 DEF OrderInv
  <2>3. CASE pc = "unlink_next"
    <3>1. HalfMerged(H, new_node, next_node)
      BY <2>1, <2>3 DEF MergeInv
    <3>2. UnlinkDue(new_node, next_node) /\ new_node \in H /\ next_node \in H
      BY <2>3, <3>1 DEF UnlinkDue, HalfMerged
    <3> QED  BY <2>2, <3>1, <3>2 DEF SortedDisjointList
  <2>4. CASE pc = "unlink_previous"
    <3>1. HalfMerged(H, previous_node, new_node)
      BY <2>1, <2>4 DEF MergeInv
    <3>2. UnlinkDue(previous_node, new_node) /\ previous_node \in H /\ new_node \in H
      BY <2>4, <3>1 DEF UnlinkDue, HalfMerged
    <3> QED  BY <2>2, <3>1, <3>2 DEF SortedDisjointList
  <2>5. CASE pc \notin {"unlink_next", "unlink_previous"}
    <3>1. BlocksDisjoint(H) \/ \E f, g \in H : UnlinkDue(f, g) /\ HalfMerged(H, f, g)
      BY <2>1, <2>5 DEF OrderInv
    <3> QED  BY <2>2, <3>1 DEF SortedDisjointList
  <2> QED
    BY <2>3, <2>4, <2>5
<1> QED
  BY <1>1, Invariance, PTL

\* memory_allocate_page and memory_free_page neither lose a page nor hand
\* one out twice, and only usable memory enters the pool.
THEOREM PagesAreConserved ==
  ASSUME WellFormedMap
  PROVE  Spec => []Conservation
<1>1. IInv => Conservation
  <2> SUFFICES ASSUME IInv
               PROVE  Conservation
    OBVIOUS
  <2>1. PICK H \in SUBSET Pages : IsFreeList(H) /\ AccountInv(H)
    BY DEF IInv, Consistent, OrderInv
  <2>2. FreePages = BlockPages(H)
    BY <2>1, FreePagesAre
  <2> QED
    BY <2>1, <2>2 DEF Conservation, AccountInv
<1> QED
  BY <1>1, Invariance, PTL

\* The ROSE_ASSERTs of free_page_blocks_merge never stop the kernel.
THEOREM MergeAssertsNeverFire ==
  ASSUME WellFormedMap
  PROVE  Spec => []MergeAssertsHold
<1>1. IInv => MergeAssertsHold
  <2> SUFFICES ASSUME IInv
               PROVE  MergeAssertsHold
    OBVIOUS
  <2>1. PICK H \in SUBSET Pages : IsFreeList(H) /\ MergeInv(H)
    BY DEF IInv, Consistent, OrderInv
  <2>2. ASSUME pc = "merge_next", MergesNext
        PROVE  new_node < next_node /\ next[new_node] = next_node
    <3>1. next[new_node] = next_node /\ Follows(H, new_node, next_node)
      BY <2>1, <2>2 DEF MergeInv, IsFreeList
    <3> QED
      BY <2>2, <3>1 DEF MergesNext, Follows
  <2>3. ASSUME pc = "merge_previous", MergesPrevious
        PROVE  previous_node < new_node /\ next[previous_node] = new_node
    BY <2>1, <2>3 DEF MergeInv, MergesPrevious, Successor
  <2> QED
    BY <2>2, <2>3 DEF MergeAssertsHold
<1> QED
  BY <1>1, Invariance, PTL

-----------------------------------------------------------------------------
\* What the refinement needs to know about a state.
PoolView ==
  /\ TypeOK
  /\ Conservation
  /\ pc = "detect" => owned = {} /\ FreePages = EarlierPages
  /\ pc = "link"   => new_node \in owned
  /\ pc = "idle"   => IF free_list = NULL THEN FreePages = {} ELSE free_list \in FreePages

\* ... and it follows from the inductive invariant.
LEMMA PoolViewFollows ==
  ASSUME IInv
  PROVE  PoolView
<1>1. PICK H \in SUBSET Pages : Consistent(H)
  BY DEF IInv
<1>2. /\ TypeOK /\ IsFreeList(H) /\ AccountInv(H) /\ DetectInv(H) /\ WalkInv(H)
      /\ pc = "idle" => ListInv(H)
  BY <1>1 DEF IInv, Consistent, OrderInv, ListInv
<1>3. FreePages = BlockPages(H)
  BY <1>2, FreePagesAre
<1>4. CASE pc # "idle"
  BY <1>2, <1>3, <1>4 DEF PoolView, Conservation, AccountInv, DetectInv, WalkInv
<1>5. CASE pc = "idle" /\ free_list = NULL
  <2>1. FreePages = {}
    BY <1>2, <1>3, <1>5, HeadFacts DEF BlockPages
  <2> QED
    BY <1>2, <1>3, <1>5, <2>1 DEF PoolView, Conservation, AccountInv, DetectInv, WalkInv
<1>6. CASE pc = "idle" /\ free_list # NULL
  <2>1. free_list \in H /\ free_list \in Block(free_list)
    BY <1>2, <1>6, HeadFacts DEF Block
  <2>2. free_list \in FreePages
    BY <1>3, <2>1 DEF BlockPages
  <2> QED
    BY <1>2, <1>3, <1>6, <2>2 DEF PoolView, Conservation, AccountInv, DetectInv, WalkInv
<1> QED
  BY <1>4, <1>5, <1>6

\* Every step of the free list is a step of the pool, or stutters.
LEMMA PoolStep ==
  ASSUME PoolView, PoolView', [Next]_vars
  PROVE  [Pool!PoolNext]_(Pool!poolVars)
<1> USE DEF header, detectVars, freeVars
<1>0. /\ owned \subseteq UsablePages \union owned
      /\ pc # "detect"  => FreePages = UsablePages \ owned /\ owned \subseteq UsablePages
      /\ pc' # "detect" => FreePages' = UsablePages \ owned'
      /\ pc = "detect"  => FreePages = EarlierPages /\ owned = {}
      /\ pc' = "detect" => FreePages' = EarlierPages' /\ owned' = {}
  BY DEF PoolView, Conservation
<1> DEFINE Stutter == /\ FreePages' = FreePages /\ owned' = owned
                      /\ (pc' = "out_of_memory") = (pc = "out_of_memory")
<1>1. ASSUME Stutter
      PROVE  UNCHANGED Pool!poolVars
  BY <1>1 DEF Pool!poolVars
<1>2. CASE DetectSkip
  <2>1. EarlierPages' = EarlierPages
    <3>1. chunk \in Nat /\ chunk >= 1 /\ chunk' = chunk + 1 /\ ~IsFree(MemoryMap[chunk])
      BY <1>2 DEF DetectSkip, TypeOK, PoolView
    <3>2. 1 .. chunk' - 1 = (1 .. chunk - 1) \union {chunk}
      BY <3>1
    <3> QED
      BY <3>1, <3>2 DEF EarlierPages, InChunk
  <2>2. Stutter
    BY <1>0, <1>2, <2>1 DEF DetectSkip
  <2> QED
    BY <1>1, <2>2
<1>3. CASE DetectChunk
  <2>1. pc = "detect" /\ pc' = "detect"
    BY <1>3 DEF DetectChunk
  <2>2. EarlierPages \subseteq EarlierPages' /\ EarlierPages' \subseteq UsablePages
    <3>1. chunk \in Nat /\ chunk >= 1 /\ chunk' = chunk + 1
      BY <1>3 DEF DetectChunk, TypeOK, PoolView
    <3>2. 1 .. chunk' - 1 = (1 .. chunk - 1) \union {chunk}
      BY <3>1
    <3> QED
      BY <3>2 DEF EarlierPages
  <2> DEFINE S == EarlierPages' \ EarlierPages
  <2>3. Pool!Donate(S)
    BY <1>0, <2>1, <2>2 DEF Pool!Donate
  <2> QED
    BY <2>2, <2>3 DEF Pool!PoolNext
<1>4. CASE DetectDone
  <2>1. EarlierPages = UsablePages
    <3>1. 1 .. chunk - 1 = 1 .. Len(MemoryMap)
      BY <1>4, MemoryAssumption DEF DetectDone, TypeOK, PoolView
    <3> QED
      BY <3>1 DEF EarlierPages, UsablePages
  <2>2. Stutter
    BY <1>0, <1>4, <2>1 DEF DetectDone
  <2> QED
    BY <1>1, <2>2
<1>5. CASE AllocateOutOfMemory
  <2>1. Pool!OutOfMemory
    BY <1>0, <1>5 DEF AllocateOutOfMemory, Pool!OutOfMemory, PoolView
  <2> QED
    BY <2>1 DEF Pool!PoolNext
<1>6. CASE AllocateLastOfBlock \/ AllocateSplit
  <2>1. /\ pc = "idle" /\ pc' = "idle" /\ owned' = owned \union {free_list}
        /\ free_list \in FreePages
    BY <1>6 DEF AllocateLastOfBlock, AllocateSplit, PoolView
  <2>2. Pool!AllocatePage(free_list)
    BY <1>0, <2>1 DEF Pool!AllocatePage
  <2> QED
    BY <1>0, <2>1, <2>2 DEF Pool!PoolNext
<1>7. CASE FreeLink
  <2>1. /\ pc = "link" /\ pc' = "merge_next" /\ owned' = owned \ {new_node}
        /\ new_node \in owned
    BY <1>7 DEF FreeLink, PoolView
  <2>2. Pool!FreePage(new_node)
    BY <1>0, <2>1 DEF Pool!FreePage
  <2> QED
    BY <1>0, <2>1, <2>2 DEF Pool!PoolNext
<1>8. CASE \/ \E p \in Pages : FreeBegin(p)
           \/ \E p \in Pages, h \in Scribbles : Scribble(p, h)
           \/ FreeWalk \/ FreeSetPages \/ FreeSetNext
           \/ FreeMergeNext \/ FreeUnlinkNext
           \/ FreeMergePrevious \/ FreeUnlinkPrevious \/ FreeFault
  <2>1. /\ owned' = owned /\ pc \notin {"detect", "out_of_memory"}
        /\ pc' \notin {"detect", "out_of_memory"}
    BY <1>8, FaultStops
       DEF FreeBegin, Scribble, FreeWalk, FreeSetPages, FreeSetNext, FreeMergeNext,
           FreeUnlinkNext, FreeMergePrevious, FreeUnlinkPrevious, Return
  <2>2. Stutter
    BY <1>0, <2>1
  <2> QED
    BY <1>1, <2>2
<1>9. CASE UNCHANGED vars
  <2>1. Stutter
    BY <1>9 DEF vars, FreePages, Lists, IsFreeList, Follows, Block
  <2> QED
    BY <1>1, <2>1
<1> QED
  BY <1>2, <1>3, <1>4, <1>5, <1>6, <1>7, <1>8, <1>9
     DEF Next, MemoryDetect, MemoryAllocatePage, FreeStep

\* The free list implements PagePool: memory_allocate_page returns a free
\* page whenever there is one and panics only if there is none.
THEOREM FreeListImplementsPagePool ==
  ASSUME WellFormedMap
  PROVE  Spec => ImplementsPagePool
<1>1. IInv => PoolView
  BY PoolViewFollows
<1>2. Init /\ PoolView => Pool!PoolInit
  <2> SUFFICES ASSUME Init, PoolView
               PROVE  Pool!PoolInit
    OBVIOUS
  <2>1. FreePages = EarlierPages /\ owned = {} /\ pc = "detect" /\ 1 .. chunk - 1 = {}
    BY DEF Init, PoolView
  <2>2. FreePages = {}
    BY <2>1 DEF EarlierPages
  <2> QED
    BY <2>1, <2>2 DEF Pool!PoolInit
<1>3. PoolView /\ PoolView' /\ [Next]_vars => [Pool!PoolNext]_(Pool!poolVars)
  BY PoolStep
<1> QED
  BY <1>1, <1>2, <1>3, Invariance, PTL DEF Spec, ImplementsPagePool, Pool!PoolSpec

-----------------------------------------------------------------------------
\* The list in a state, as the properties read it.
ListView(H) == OrderInv(H) /\ MergeInv(H) /\ Lists = {H} /\ FreePages = BlockPages(H)

\* Memory reads as one list.
OneListView == TypeOK /\ \E H \in SUBSET Pages : ListView(H)

\* The invariant says so of every state.
LEMMA OneListViewFollows ==
  ASSUME IInv
  PROVE  OneListView
<1>1. PICK H \in SUBSET Pages : OrderInv(H) /\ MergeInv(H)
  BY DEF IInv, Consistent
<1>2. Lists = {H} /\ FreePages = BlockPages(H)
  BY <1>1, OneList, FreePagesAre DEF Lists, OrderInv
<1> QED
  BY <1>1, <1>2 DEF IInv, OneListView, ListView

\* Behind the freed page nothing is left to merge when the merge with the
\* block before it is due.
MergedNext ==
  /\ pc \in {"set_next", "link", "merge_next"} => num_pages[new_node] = 1
  /\ pc = "unlink_next" => new_node + 1 \in Block(new_node)
  /\ pc \in {"merge_previous", "unlink_previous"} =>
       (new_node + 1 \in FreePages => new_node + 1 \in Block(new_node))

\* A free page behind a block of one page starts the block that follows.
LEMMA NextIsMerged ==
  ASSUME TypeOK, NEW H \in SUBSET Pages, ListInv(H), new_node \in H,
         num_pages[new_node] = 1, next[new_node] = next_node,
         new_node + 1 \in BlockPages(H)
  PROVE  MergesNext
<1> DEFINE n == new_node
<1>1. PICK h \in H : n + 1 \in Block(h)
  BY DEF BlockPages
<1>2. /\ n \in Nat /\ h \in Nat /\ H \subseteq Nat /\ NULL \notin H
      /\ num_pages[h] \in Nat /\ n + 1 >= h /\ n + 1 < h + num_pages[h]
      /\ h + num_pages[h] <= NumFrames /\ NumFrames \in Nat
  BY <1>1, HeadFacts, FrameTypes DEF Block, NULL, ListInv, BlocksDisjoint
<1>3. h = n + 1
  <2>1. h # n
    BY <1>2
  <2>2. ~ (h < n)
    BY <1>2 DEF ListInv, BlocksDisjoint
  <2> QED  BY <1>2, <2>1, <2>2
<1>4. Follows(H, n, next_node)
  BY DEF ListInv, IsFreeList
<1>5. next_node \in H /\ n < next_node /\ next_node <= h
  BY <1>2, <1>3, <1>4 DEF Follows
<1>6. next_node = n + 1
  BY <1>2, <1>3, <1>5
<1>7. (n + num_pages[n]) % NumFrames = next_node
  <2>1. n + num_pages[n] = n + 1 /\ n + 1 \in 0 .. NumFrames - 1
    BY <1>2, <1>3
  <2> QED  BY <1>2, <1>6, <2>1, ModSmall
<1>8. Adjacent(n, next_node)
  BY <1>2, <1>6, <1>7 DEF Adjacent
<1> QED  BY <1>2, <1>5, <1>8 DEF MergesNext

\* A free page before the freed one ends the block before it.
LEMMA PreviousIsMerged ==
  ASSUME TypeOK, NEW H \in SUBSET Pages, ListInv(H), new_node \in H,
         previous_node \in H \union {NULL}, previous_node < new_node,
         Successor(previous_node) = new_node,
         new_node - 1 \in BlockPages(H)
  PROVE  MergesPrevious
<1> DEFINE n == new_node
           m == previous_node
<1>1. PICK h \in H : n - 1 \in Block(h)
  BY DEF BlockPages
<1>2. /\ n \in Nat /\ h \in Nat /\ h > 0 /\ H \subseteq Nat /\ NULL = 0 /\ NULL \notin H
      /\ num_pages[h] \in Nat /\ h <= n - 1 /\ n - 1 < h + num_pages[h]
      /\ NumFrames \in Nat /\ n < NumFrames /\ m \in Nat
  <2>1. H \subseteq Nat /\ NULL \notin H /\ num_pages[h] \in Nat /\ NULL = 0
    BY HeadFacts DEF NULL
  <2>2. n \in 0 .. NumFrames - 1 /\ NumFrames \in Nat
    BY FrameTypes DEF TypeOK, Frames
  <2>3. h > 0 /\ m \in Nat
    BY <2>1
  <2> QED  BY <1>1, <2>1, <2>2, <2>3 DEF Block
<1>3. Follows(H, m, n)
  BY DEF ListInv, IsFreeList, Successor
<1>4. h <= m
  BY <1>2, <1>3 DEF Follows
<1>5. m \in H
  BY <1>2, <1>4
<1>6. h = m
  <2>1. ~ (h < m)
    BY <1>2, <1>5 DEF ListInv, BlocksDisjoint
  <2> QED  BY <1>2, <1>4, <2>1
<1>7. m + num_pages[m] = n
  <2>1. m + num_pages[m] <= n
    BY <1>5 DEF ListInv, BlocksDisjoint
  <2> QED  BY <1>2, <1>6, <2>1
<1>8. Adjacent(m, n)
  <2>1. n % NumFrames = n
    BY <1>2, ModSmall
  <2> QED  BY <1>2, <1>7, <2>1 DEF Adjacent
<1> QED  BY <1>2, <1>5, <1>8 DEF MergesPrevious

\* The first merge leaves no free neighbour behind, and the second hides
\* none.
LEMMA MergedNextStep ==
  ASSUME OneListView, MergedNext, OneListView', [Next]_vars
  PROVE  MergedNext'
<1> USE DEF detectVars, freeVars, header
<1>1. CASE UNCHANGED vars
  <2>1. UNCHANGED <<pc, free_list, num_pages, next, new_node>>
    BY <1>1 DEF vars
  <2>2. FreePages' = FreePages /\ Block(new_node)' = Block(new_node)
    BY <2>1 DEF FreePages, Lists, IsFreeList, Follows, Block
  <2> QED  BY <2>1, <2>2 DEF MergedNext
<1>2. CASE FreeSetPages
  <2>1. pc' = "set_next" /\ num_pages'[new_node] = 1 /\ new_node' = new_node
    BY <1>2 DEF FreeSetPages, OneListView, TypeOK
  <2> QED  BY <2>1 DEF MergedNext
<1>3. CASE FreeSetNext \/ FreeLink
  <2>1. /\ pc \in {"set_next", "link"} /\ pc' \in {"link", "merge_next"}
        /\ UNCHANGED <<num_pages, new_node>>
    BY <1>3 DEF FreeSetNext, FreeLink
  <2> QED  BY <2>1 DEF MergedNext
<1>4. CASE FreeMergeNext
  <2>1. /\ pc = "merge_next" /\ free_list' = free_list /\ next' = next
        /\ new_node' = new_node /\ next_node' = next_node
    BY <1>4 DEF FreeMergeNext
  <2>2. PICK H \in SUBSET Pages : ListView(H)
    BY DEF OneListView
  <2>3. /\ TypeOK /\ ListInv(H) /\ new_node \in H /\ num_pages[new_node] = 1
        /\ next[new_node] = next_node
    BY <2>1, <2>2 DEF OneListView, ListView, OrderInv, ListInv, MergeInv, MergedNext
  <2>4. CASE MergesNext
    <3>1. /\ AddPages(new_node, next_node) /\ next_node # NULL /\ pc' = "unlink_next"
      BY <1>4, <2>4 DEF FreeMergeNext, MergesNext
    <3>2. next_node \in H
      BY <2>3, <3>1 DEF ListInv, IsFreeList, Follows
    <3>3. num_pages[next_node] \in Nat /\ num_pages[next_node] >= 1 /\ new_node \in Nat
      BY <2>3, <3>2, HeadFacts DEF ListInv, BlocksDisjoint
    <3>4. num_pages'[new_node] = 1 + num_pages[next_node]
      BY <2>3, <3>1 DEF AddPages, TypeOK
    <3>5. new_node + 1 \in Block(new_node)'
      BY <2>1, <3>3, <3>4 DEF Block
    <3> QED  BY <2>1, <3>1, <3>5 DEF MergedNext
  <2>5. CASE ~MergesNext
    <3>1. UNCHANGED <<free_list, num_pages, next>> /\ pc' = "merge_previous"
      BY <1>4, <2>1, <2>5 DEF FreeMergeNext
    <3>2. FreePages' = FreePages
      BY <3>1 DEF FreePages, Lists, IsFreeList, Follows, Block
    <3>3. new_node + 1 \notin FreePages
      BY <2>2, <2>3, <2>5, NextIsMerged DEF ListView
    <3> QED  BY <2>1, <3>1, <3>2, <3>3 DEF MergedNext
  <2> QED  BY <2>4, <2>5
<1>5. CASE FreeUnlinkNext
  <2>1. /\ pc = "unlink_next" /\ pc' = "merge_previous"
        /\ UNCHANGED <<num_pages, new_node>>
    BY <1>5 DEF FreeUnlinkNext
  <2>2. new_node + 1 \in Block(new_node)'
    BY <2>1 DEF MergedNext, Block
  <2> QED  BY <2>1, <2>2 DEF MergedNext
<1>6. CASE FreeMergePrevious /\ MergesPrevious
  <2>0. PICK m, n : m = previous_node /\ n = new_node
    OBVIOUS
  <2>1. /\ pc = "merge_previous" /\ pc' = "unlink_previous"
        /\ UNCHANGED <<free_list, next, new_node>>
        /\ AddPages(m, n) /\ m # NULL /\ Adjacent(m, n)
    BY <1>6, <2>0 DEF FreeMergePrevious, MergesPrevious
  <2>2. PICK H \in SUBSET Pages : ListView(H)
    BY DEF OneListView
  <2>3. /\ TypeOK /\ ListInv(H) /\ n \in H /\ m \in H /\ next[m] = n
        /\ FreePages = BlockPages(H)
    BY <2>0, <2>1, <2>2 DEF OneListView, ListView, OrderInv, ListInv, MergeInv, Successor
  <2>4. n # NULL
    BY <2>3, HeadFacts
  <2>5. m < n /\ IsFreeList(H)' /\ BlockPages(H)' = BlockPages(H)
    BY <2>1, <2>3, <2>4, PagesAdded
  <2>6. FreePages' = FreePages
    <3>1. PICK K \in SUBSET Pages : Lists' = {K} /\ FreePages' = BlockPages(K)'
      BY DEF OneListView, ListView
    <3>2. H \in Lists'
      BY <2>5 DEF Lists
    <3> QED  BY <2>3, <2>5, <3>1, <3>2
  <2>7. num_pages'[n] = num_pages[n]
    <3>1. m # n /\ n \in Frames
      <4>1. m \in Nat /\ n \in Nat
        BY <2>3, HeadFacts
      <4> QED  BY <2>3, <2>5, <4>1, FrameTypes
    <3> QED  BY <2>1, <2>3, <3>1 DEF AddPages, TypeOK
  <2>8. Block(new_node)' = Block(new_node)
    BY <2>0, <2>1, <2>7 DEF Block
  <2> QED  BY <2>1, <2>6, <2>8 DEF MergedNext
<1>7. ASSUME ~ UNCHANGED vars, ~ FreeSetPages, ~ (FreeSetNext \/ FreeLink),
             ~ FreeMergeNext, ~ FreeUnlinkNext, ~ (FreeMergePrevious /\ MergesPrevious)
      PROVE  pc' \notin {"set_next", "link", "merge_next", "unlink_next",
                         "merge_previous", "unlink_previous"}
  BY <1>7, FaultStops
     DEF Next, MemoryDetect, MemoryAllocatePage, FreeStep, DetectSkip, DetectChunk,
         DetectDone, AllocateOutOfMemory, AllocateLastOfBlock, AllocateSplit, FreeBegin,
         Scribble, FreeWalk, FreeMergePrevious, FreeUnlinkPrevious, Return
<1> QED  BY <1>1, <1>2, <1>3, <1>4, <1>5, <1>6, <1>7 DEF MergedNext

\* memory_free_page returns with every free neighbour in the page's block,
\* whether it has merged that block with the one before ...
LEMMA FreedPageMerged ==
  ASSUME OneListView, MergedNext, OneListView', FreeUnlinkPrevious,
         NEW n, n = new_node, NEW q \in {n - 1, n + 1}, q \in FreePages'
  PROVE  InOneBlock(n, q)'
<1>0. PICK m : m = previous_node
  OBVIOUS
<1>1. PICK H \in SUBSET Pages : ListView(H)
  BY DEF OneListView
<1>2. PICK K \in SUBSET Pages : Lists' = {K} /\ FreePages' = BlockPages(K)'
  BY DEF OneListView, ListView
<1>3. /\ pc = "unlink_previous" /\ Unlink(m, n)
      /\ UNCHANGED <<free_list, num_pages>>
  BY <1>0 DEF FreeUnlinkPrevious
<1>4. /\ TypeOK /\ IsFreeList(H) /\ HalfMerged(H, m, n) /\ FreePages = BlockPages(H)
  BY <1>0, <1>1, <1>3 DEF OneListView, ListView, OrderInv, MergeInv
<1>5. /\ m \in Nat /\ n \in Nat /\ m < n /\ num_pages[m] \in Nat /\ num_pages[n] \in Nat
      /\ num_pages[n] >= 1 /\ m + num_pages[m] = n + num_pages[n]
  BY <1>4, HalfMergedFacts
<1>6. PICK K0 : K0 = H \ {n}
  OBVIOUS
<1>7. m \in K0 /\ ListInv(K0)' /\ BlockPages(K0)' = BlockPages(H)
  BY <1>3, <1>4, <1>6, BlockUnlinked
<1>8. K0 = K
  <2>1. K0 \in Lists'
    BY <1>6, <1>7 DEF Lists, ListInv
  <2> QED  BY <1>2, <2>1
<1>9. FreePages' = FreePages
  BY <1>2, <1>4, <1>7, <1>8
<1>10. Block(m)' = m .. n + num_pages[n] - 1
  <2>1. Block(m)' = m .. m + num_pages[m] - 1
    BY <1>3 DEF Block
  <2>2. m + num_pages[m] - 1 = n + num_pages[n] - 1
    BY <1>5
  <2> QED  BY <2>1, <2>2
<1>11. n \in Block(m)' /\ q \in Block(m)'
  <2>1. CASE q = n - 1
    BY <1>5, <1>10, <2>1
  <2>2. CASE q = n + 1
    <3>1. n + 1 \in Block(n)
      BY <1>3, <1>9, <2>2 DEF MergedNext
    <3>2. n + 1 <= n + num_pages[n] - 1
      BY <1>5, <3>1 DEF Block
    <3> QED  BY <1>5, <1>10, <2>2, <3>2
  <2> QED  BY <2>1, <2>2
<1> QED  BY <1>2, <1>7, <1>8, <1>11 DEF InOneBlock

\* ... or has nothing to merge it with.
LEMMA FreedPageAlone ==
  ASSUME OneListView, MergedNext, OneListView', FreeMergePrevious, ~MergesPrevious,
         NEW n, n = new_node, NEW q \in {n - 1, n + 1}, q \in FreePages'
  PROVE  InOneBlock(n, q)'
<1>1. PICK H \in SUBSET Pages : ListView(H)
  BY DEF OneListView
<1>2. pc = "merge_previous" /\ UNCHANGED <<free_list, num_pages, next>>
  BY DEF FreeMergePrevious
<1>3. /\ TypeOK /\ ListInv(H) /\ n \in H /\ previous_node \in H \union {NULL}
      /\ previous_node < n /\ Successor(previous_node) = n
      /\ Lists = {H} /\ FreePages = BlockPages(H)
  BY <1>1, <1>2 DEF OneListView, ListView, OrderInv, ListInv, MergeInv
<1>4. /\ n \in Nat /\ num_pages[n] \in Nat /\ num_pages[n] >= 1
      /\ n + 1 \in FreePages => n + 1 \in Block(n)
  BY <1>2, <1>3, HeadFacts DEF MergedNext
<1>5. Lists' = Lists /\ FreePages' = FreePages /\ Block(n)' = Block(n)
  BY <1>2 DEF FreePages, Lists, IsFreeList, Follows, Block
<1>6. n - 1 \notin BlockPages(H)
  BY <1>3, PreviousIsMerged
<1>7. q = n + 1 /\ q \in Block(n)
  BY <1>3, <1>4, <1>5, <1>6
<1>8. n \in Block(n)
  BY <1>4 DEF Block
<1> QED  BY <1>3, <1>5, <1>7, <1>8 DEF InOneBlock

\* A page given back is in one block with each of its neighbours that is
\* free, whatever was allocated and freed before: no merge is missed.
THEOREM FreedPagesCoalesce ==
  ASSUME WellFormedMap
  PROVE  Spec => FreedPageCoalesced
<1>1. Init => MergedNext
  BY DEF Init, MergedNext
<1>2. IInv => OneListView
  BY OneListViewFollows
<1>3. OneListView /\ MergedNext /\ OneListView' /\ [Next]_vars => MergedNext'
  BY MergedNextStep
<1>4. OneListView /\ MergedNext /\ OneListView' /\ [Next]_vars =>
        [pc' = "idle" /\ pc \in {"merge_previous", "unlink_previous"} =>
           \A p \in {new_node} : \A q \in {p - 1, p + 1} \intersect FreePages' :
             InOneBlock(p, q)']_vars
  <2> SUFFICES ASSUME OneListView, MergedNext, OneListView', Next,
                      pc' = "idle", pc \in {"merge_previous", "unlink_previous"},
                      NEW p \in {new_node}, NEW q \in {p - 1, p + 1} \intersect FreePages'
               PROVE  InOneBlock(p, q)'
    OBVIOUS
  <2>1. FreeUnlinkPrevious \/ (FreeMergePrevious /\ ~MergesPrevious)
    BY FaultStops
       DEF Next, MemoryDetect, MemoryAllocatePage, FreeStep, DetectSkip, DetectChunk,
           DetectDone, AllocateOutOfMemory, AllocateLastOfBlock, AllocateSplit, FreeBegin,
           Scribble, FreeWalk, FreeSetPages, FreeSetNext, FreeLink, FreeMergeNext,
           FreeUnlinkNext, FreeMergePrevious
  <2> QED  BY <2>1, FreedPageMerged, FreedPageAlone, Zenon
<1> QED  BY <1>1, <1>2, <1>3, <1>4, Invariance, PTL DEF Spec, FreedPageCoalesced
=============================================================================
