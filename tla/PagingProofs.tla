---------------------------- MODULE PagingProofs ----------------------------
(***************************************************************************)
(* memory_init_paging on every memory and from every free list: pages are  *)
(* kept, every page table is mapped and maps pages at their own address,   *)
(* and when CR3 is loaded the kernel and the heads of the blocks that are  *)
(* not the first are mapped.                                               *)
(*                                                                         *)
(* The inductive invariant, PInv, names the set H of block heads, and says *)
(* of each loop that what is before its cursor is mapped, but for the page *)
(* the identity_map in progress is about to map.                           *)
(***************************************************************************)
EXTENDS Paging, FreeListProofs

\* Mapped, once the call in progress has returned
Covered(p) == Maps(p) \/ p = page

\* Before the loops, and after them, no call is in progress; before, nothing
\* has been taken.
StartInv ==
  /\ pc \in {"start", "paged"} => page = Absent
  /\ pc = "start" =>
       free_list # NULL /\ owned = {} /\ \A r \in Regions : kernel_pages[r] = Absent
  /\ pc # "start" => dummy_page_table \in owned

\* Every page table: two regions share none, an entry has one possible page,
\* and memset has cleared next.
TablesInv ==
  /\ \A r \in Regions : kernel_pages[r] # Absent =>
       /\ Covered(kernel_pages[r])
       /\ kernel_pages[r] \in owned
       /\ kernel_pages[r] # dummy_page_table
       /\ next[kernel_pages[r]] = NULL
       /\ \A s \in Regions : kernel_pages[r] = kernel_pages[s] => r = s
       /\ \A e \in Entries : entries[kernel_pages[r]][e] \in {Absent, r * NumEntries + e}

\* The loop over the kernel's pages, and what is left of it.
KernelInv ==
  /\ pc = "map_kernel" =>
       /\ KernelStart <= cursor /\ cursor <= AllocEnd
       /\ \A p \in KernelStart .. cursor - 1 : Covered(p)
  /\ pc \in {"map_dummy", "map_list", "wild", "paged"} =>
       /\ Covered(dummy_page_table)
       /\ \A p \in KernelStart .. AllocEnd - 1 : Covered(p)

\* The loop over the free list.  Its cursor is on a block that is still there
\* or on a page table, where the walk may go astray.
WalkedInv(H) ==
  /\ pc = "map_list" =>
       /\ cursor # NULL /\ cursor \in H \union Tables
       /\ \A h \in H \ {free_list} : h <= cursor => Covered(h)
  /\ pc = "wild" => cursor \in Tables
  /\ pc = "paged" /\ cursor \notin Tables => \A h \in H \ {free_list} : Maps(h)

HeadsInv(H) == ListInv(H) /\ BlockPages(H) \intersect owned = {} /\ WalkedInv(H)

PInv ==
  /\ PagingTypeOK /\ StartInv /\ TablesInv /\ KernelInv
  /\ \E H \in SUBSET Pages : HeadsInv(H)

-----------------------------------------------------------------------------
(***************************************************************************)
(* Regions and entries                                                     *)
(***************************************************************************)

\* A page has one region and one index in it.
LEMMA RegionAndIndex ==
  ASSUME NEW p \in Frames
  PROVE  /\ Region(p) \in Regions /\ Index(p) \in Entries
         /\ p = Region(p) * NumEntries + Index(p)
<1>1. NumEntries \in Nat /\ NumEntries > 1 /\ NumFrames \in Nat /\ p \in 0 .. NumFrames - 1
  BY PagingAssumption, SizeAssumption DEF Frames
<1>2. /\ Region(p) \in Nat /\ Index(p) \in 0 .. NumEntries - 1
      /\ p = Region(p) * NumEntries + Index(p)
  BY <1>1, SMT DEF Region, Index
<1>3. Region(p) < NumRegions
  <2> DEFINE q == NumFrames + NumEntries - 1
  <2>1. q \in Nat /\ q >= p + NumEntries
    BY <1>1
  <2>2. q \div NumEntries \in Nat /\ q < (q \div NumEntries) * NumEntries + NumEntries
    BY <1>1, <2>1, SMT
  <2>3. CASE Region(p) >= q \div NumEntries
    <3>1. Region(p) * NumEntries >= (q \div NumEntries) * NumEntries
      <4>1. (Region(p) - (q \div NumEntries)) * NumEntries >= 0
        BY <1>1, <1>2, <2>2, <2>3, SMT
      <4> QED  BY <1>1, <1>2, <2>2, <4>1, SMT
    <3> QED  BY <1>1, <1>2, <2>1, <2>2, <3>1, SMT
  <2>4. CASE ~ (Region(p) >= q \div NumEntries)
    BY <1>2, <2>2, <2>4 DEF NumRegions
  <2> QED  BY <2>3, <2>4
<1>4. NumRegions \in Int
  BY <1>1, SMT DEF NumRegions
<1> QED  BY <1>2, <1>3, <1>4 DEF Regions, Entries

\* The kernel's pages are frames below the allocator's.
LEMMA KernelFrames ==
  /\ KernelStart \in Nat /\ AllocEnd \in Nat /\ NumFrames \in Nat /\ NULL = 0
  /\ KernelStart < AllocEnd /\ AllocEnd < NumFrames
  /\ Absent \notin Frames
  /\ \A p \in Nat : p < AllocEnd => p \in Frames
<1>1. KernelStart \in Nat /\ PageSize \in Nat \ {0} /\ NumFrames \in Nat /\ KernelEnd \in Nat
  BY PagingAssumption, SizeAssumption, FrameTypes DEF Frames
<1>2. AllocEnd \in Nat
  BY <1>1, SMT DEF AllocEnd, NextAligned, PageAlign
<1>3. ~ (KernelEnd <= KernelStart * PageSize)
  BY <1>1, PagingAssumption
<1>4. ~ (AllocEnd <= KernelStart)
  BY <1>1, <1>3, AlignUp DEF AllocEnd
<1>5. AllocEnd < NumFrames
  BY PagingAssumption DEF AllocEnd
<1> QED  BY <1>1, <1>2, <1>4, <1>5 DEF Frames, NULL, Absent

-----------------------------------------------------------------------------
(***************************************************************************)
(* The list memory_detect leaves                                           *)
(***************************************************************************)

\* A least element there is, with a lower bound of its own.
LEMMA HeadAfterFollows ==
  ASSUME NEW H \in SUBSET Pages, NEW x \in Nat
  PROVE  Follows(H, x, HeadAfter(H, x))
<1>1. H \subseteq Nat
  BY FrameTypes
<1>2. CASE \E h \in H : h > x
  <2> DEFINE T == {h \in H : h > x}
  <2>1. T # {} /\ T \in SUBSET Nat
    BY <1>1, <1>2
  <2>2. \E h \in T : \A g \in T : h <= g
    BY <2>1, LeastElement
  <2>3. \E h \in H : h > x /\ \A g \in H : g > x => h <= g
    BY <2>2
  <2>4. /\ HeadAfter(H, x) \in H /\ HeadAfter(H, x) > x
        /\ \A g \in H : g > x => HeadAfter(H, x) <= g
    BY <1>2, <2>3 DEF HeadAfter
  <2> QED  BY <1>1, <2>4 DEF Follows
<1>3. CASE ~ \E h \in H : h > x
  BY <1>1, <1>3 DEF Follows, HeadAfter
<1> QED  BY <1>2, <1>3

\* A block is not empty, and goes on no further than the next one.
LEMMA LengthOfBlock ==
  ASSUME NEW F \in SUBSET (AllocEnd .. NumFrames - 1), NEW H \in SUBSET F, NEW h \in H
  PROVE  /\ Length(F, H, h) \in 1 .. NumFrames - h
         /\ \A g \in H : h < g => h + Length(F, H, h) <= g
<1> DEFINE T == {n \in 1 .. NumFrames - h : BlockEnds(F, H, h + n)}
<1>1. h \in Nat /\ h < NumFrames /\ NumFrames \in Nat /\ H \subseteq Nat /\ NumFrames \notin F
  BY KernelFrames
<1>2. NumFrames - h \in T
  <2>1. h + (NumFrames - h) = NumFrames /\ NumFrames - h \in 1 .. NumFrames - h
    BY <1>1
  <2> QED  BY <1>1, <2>1 DEF BlockEnds
<1>3. T \in SUBSET Nat
  BY <1>1
<1>4. PICK n \in T : \A m \in T : n <= m
  BY <1>2, <1>3, LeastElement
<1>5. \A m \in 1 .. n - 1 : ~ BlockEnds(F, H, h + m)
  BY <1>1, <1>4
<1> DEFINE L == Length(F, H, h)
<1>6. /\ L \in 1 .. NumFrames - h /\ BlockEnds(F, H, h + L)
      /\ \A m \in 1 .. L - 1 : ~ BlockEnds(F, H, h + m)
  BY <1>4, <1>5 DEF Length
<1> HIDE DEF L
<1>7. ASSUME NEW g \in H, h < g, ~ (h + L <= g)
      PROVE  FALSE
  <2>1. g - h \in 1 .. L - 1 /\ h + (g - h) = g
    BY <1>1, <1>6, <1>7
  <2> QED  BY <1>6, <1>7, <2>1 DEF BlockEnds
<1> QED  BY <1>6, <1>7 DEF L

\* The initial list is a list, and not empty.
LEMMA InitialList ==
  ASSUME NEW F \in SUBSET (AllocEnd .. NumFrames - 1), F # {},
         NEW H \in SUBSET F, BlockStarts(F) \subseteq H,
         NEW leftover, ListOf(F, H, leftover)
  PROVE  H \in SUBSET Pages /\ ListInv(H) /\ free_list # NULL
<1>1. /\ F \subseteq Nat /\ NumFrames \in Nat /\ NULL = 0 /\ 0 \notin F
      /\ \A p \in F : p \in Frames
  BY KernelFrames DEF Frames
<1>2. H \in SUBSET Pages
  BY <1>1 DEF Pages
<1>3. IsFreeList(H)
  <2>1. Follows(H, NULL, free_list)
    BY <1>1, <1>2, HeadAfterFollows DEF ListOf
  <2>2. \A h \in H : Follows(H, h, next[h])
    BY <1>1, <1>2, HeadAfterFollows DEF ListOf
  <2> QED  BY <2>1, <2>2 DEF IsFreeList
<1>4. BlocksDisjoint(H)
  <2>1. \A h \in H : num_pages[h] = Length(F, H, h) /\ h \in Nat
    BY <1>1 DEF ListOf
  <2>2. \A h \in H : num_pages[h] >= 1 /\ h + num_pages[h] <= NumFrames
    BY <1>1, <2>1, LengthOfBlock
  <2>3. \A g, h \in H : g < h => g + num_pages[g] <= h
    BY <2>1, LengthOfBlock
  <2> QED  BY <2>2, <2>3 DEF BlocksDisjoint
<1>5. free_list # NULL
  <2>1. PICK f \in F : \A p \in F : f <= p
    BY <1>1, LeastElement
  <2>2. f - 1 \notin F
    BY <1>1, <2>1
  <2>3. f \in H /\ f > NULL
    BY <1>1, <2>1, <2>2 DEF BlockStarts
  <2>4. Follows(H, NULL, free_list)
    BY <1>3 DEF IsFreeList
  <2> QED  BY <1>1, <2>3, <2>4 DEF Follows
<1> QED  BY <1>2, <1>3, <1>4, <1>5 DEF ListInv

LEMMA PagingInitInv ==
  ASSUME PagingInit
  PROVE  PInv
<1>0. PICK F \in (SUBSET (AllocEnd .. NumFrames - 1)) \ {{}} :
        \E H \in SUBSET F, leftover \in Scribbles :
          BlockStarts(F) \subseteq H /\ ListOf(F, H, leftover)
  BY DEF PagingInit
<1>a. PICK H \in SUBSET F :
        \E leftover \in Scribbles : BlockStarts(F) \subseteq H /\ ListOf(F, H, leftover)
  BY <1>0
<1>1. PICK leftover \in Scribbles : BlockStarts(F) \subseteq H /\ ListOf(F, H, leftover)
  BY <1>a
<1>2. H \in SUBSET Pages /\ ListInv(H) /\ free_list # NULL
  BY <1>1, InitialList
<1>3. /\ owned = {} /\ pc = "start" /\ page = Absent /\ cursor = NULL /\ dummy_page_table = NULL
      /\ kernel_pages = [r \in Regions |-> Absent] /\ entries = [p \in Frames |-> EmptyTable]
  BY DEF PagingInit
<1>4. HeadsInv(H)
  BY <1>2, <1>3 DEF HeadsInv, WalkedInv
<1>5. StartInv /\ TablesInv /\ KernelInv
  BY <1>2, <1>3 DEF StartInv, TablesInv, KernelInv
<1>6. PagingTypeOK
  <2>1. free_list \in Frames /\ next \in [Frames -> Frames] /\ num_pages \in [Frames -> Int]
    <3>1. leftover.num_pages \in Int /\ leftover.next \in Frames
      BY MemoryAssumption DEF Header
    <3>2. \A h \in Nat : HeadAfter(H, h) \in Frames
      BY <1>2, HeadAfterFollows, FrameTypes DEF Follows
    <3>3. \A h \in H : Length(F, H, h) \in Int /\ h \in Nat
      BY <1>1, <1>2, LengthOfBlock, FrameTypes, KernelFrames
    <3>4. NULL \in Nat
      BY KernelFrames
    <3> QED  BY <1>1, <3>1, <3>2, <3>3, <3>4 DEF ListOf
  <2>2. NULL \in Frames
    BY FrameTypes
  <2> QED  BY <1>3, <2>1, <2>2 DEF PagingTypeOK, EmptyTable
<1> QED  BY <1>2, <1>4, <1>5, <1>6 DEF PInv

-----------------------------------------------------------------------------
(***************************************************************************)
(* Taking a page                                                           *)
(***************************************************************************)

\* The first page of the list leaves it; only the new first block is new.
LEMMA TakePage ==
  ASSUME ListTypeOK, NEW H \in SUBSET Pages, ListInv(H),
         NEW f, f = free_list, f # NULL, free_list' = Rest,
         \A h \in Frames \ {f} :
           num_pages'[h] = CountsAfter[h] /\ next'[h] = LinksAfter[h]
  PROVE  \E K \in SUBSET Pages :
           /\ ListInv(K)'
           /\ f \in BlockPages(H)
           /\ BlockPages(K)' = BlockPages(H) \ {f}
           /\ H \ {f} \subseteq K
           /\ \A h \in K : h # free_list' => h \in H \ {f}
<1>1. H \subseteq Frames /\ f \in H /\ f \in Frames
  BY ListHeads DEF ListTypeOK
<1>2. CASE num_pages[f] = 1
  <2> DEFINE K == H \ {f}
  <2>1. \A h \in K : num_pages'[h] = num_pages[h] /\ next'[h] = next[h]
    BY <1>1, <1>2 DEF CountsAfter, LinksAfter, Splits
  <2>2. free_list' = next[free_list]
    BY <1>2 DEF Rest, Splits
  <2>3. /\ ListInv(K)' /\ f \in BlockPages(H)
        /\ BlockPages(K)' = BlockPages(H) \ {f}
    <3> HIDE DEF K
    <3>1. K = H \ {free_list}
      BY DEF K
    <3> QED  BY <1>2, <2>1, <2>2, <3>1, RemoveFirstBlock
  <2> QED  BY <2>3
<1>3. CASE num_pages[f] # 1
  <2> DEFINE K == (H \ {f}) \union {f + 1}
  <2>1. free_list' = NextFrame(f)
    BY <1>3 DEF Rest, Splits
  <2>2. NextFrame(f) # f /\ NextFrame(f) \in Frames /\ NextFrame(f) = f + 1
    <3>1. f \in Nat /\ num_pages[f] \in Nat \ {0} /\ f + num_pages[f] <= NumFrames
      BY <1>1, ListHeads DEF ListInv, BlocksDisjoint
    <3>2. f + 1 \in 0 .. NumFrames - 1
      BY <1>3, <3>1, FrameTypes, SMTT(20)
    <3>3. NextFrame(f) = f + 1
      BY <3>2, FrameTypes, ModSmall DEF NextFrame
    <3> QED  BY <3>1, <3>2, <3>3 DEF Frames
  <2>3. num_pages'[NextFrame(f)] = num_pages[f] - 1 /\ next'[NextFrame(f)] = next[f]
    BY <1>3, <2>2 DEF CountsAfter, LinksAfter, Splits, Rest, ListTypeOK
  <2>4. \A h \in H \ {f, NextFrame(f)} : num_pages'[h] = num_pages[h] /\ next'[h] = next[h]
    BY <1>1, <1>3 DEF CountsAfter, LinksAfter, Splits, Rest, ListTypeOK
  <2>5. /\ K \in SUBSET Pages /\ ListInv(K)' /\ f \in BlockPages(H)
        /\ BlockPages(K)' = BlockPages(H) \ {f}
    <3> HIDE DEF K
    <3>1. K = (H \ {f}) \union {f + 1}
      BY DEF K
    <3> QED  BY <1>3, <2>1, <2>3, <2>4, <3>1, ShortenFirstBlock
  <2>6. \A h \in K : h # free_list' => h \in H \ {f}
    BY <2>1, <2>2
  <2> QED  BY <2>5, <2>6
<1> QED  BY <1>2, <1>3

\* Behind the first page of a block of several lies the second.
LEMMA SecondPage ==
  ASSUME ListTypeOK, NEW H \in SUBSET Pages, ListInv(H), NEW f, f = free_list, f # NULL, Splits
  PROVE  Rest = f + 1 /\ f + 1 \in BlockPages(H) /\ f + 1 \in Frames
<1>1. /\ f \in H /\ f \in Nat /\ num_pages[f] \in Nat \ {0, 1}
      /\ f + num_pages[f] <= NumFrames /\ NumFrames \in Nat
  BY ListHeads, FrameTypes DEF Splits, ListInv, BlocksDisjoint
<1>2. f + 1 \in 0 .. NumFrames - 1 /\ f + 1 \in Block(f)
  BY <1>1 DEF Block
<1>3. NextFrame(f) = f + 1
  BY <1>1, <1>2, FrameTypes, ModSmall DEF NextFrame
<1> QED  BY <1>1, <1>2, <1>3 DEF Rest, BlockPages, Frames

\* ... and keeps the types.
LEMMA TakePageTypes ==
  ASSUME ListTypeOK, NEW H \in SUBSET Pages, ListInv(H), free_list # NULL
  PROVE  /\ Rest \in Frames
         /\ CountsAfter \in [Frames -> Int] /\ LinksAfter \in [Frames -> Frames]
         /\ free_list \in Pages
<1>1. free_list \in H /\ num_pages[free_list] \in Nat /\ next[free_list] \in Frames
  BY ListHeads
<1>2. NextFrame(free_list) \in Frames
  <2>1. free_list + 1 \in Int
    BY <1>1, FrameTypes
  <2> QED  BY <2>1, FrameTypes, ModRange DEF NextFrame, Frames
<1> QED
  BY <1>1, <1>2 DEF Rest, CountsAfter, LinksAfter, ListTypeOK

-----------------------------------------------------------------------------
(***************************************************************************)
(* identity_map                                                            *)
(***************************************************************************)

\* A call of identity_map maps its page, and unmaps none.
LEMMA CoveredKept ==
  ASSUME PagingTypeOK, TablesInv, NEW H \in SUBSET Pages, HeadsInv(H),
         MapPage \/ MapPageInNewTable, NEW p \in Frames, Covered(p)
  PROVE  Maps(p)'
<1>1. page \in Frames
  BY DEF PagingTypeOK, MapPage, MapPageInNewTable, Mapping
<1> DEFINE r == Region(page)
<1>2. r \in Regions /\ Index(page) \in Entries /\ Region(p) \in Regions /\ Index(p) \in Entries
  BY <1>1, RegionAndIndex
<1>3. Region(p) = r /\ Index(p) = Index(page) => p = page
  BY <1>1, RegionAndIndex
<1>4. CASE MapPage
  <2>1. kernel_pages' = kernel_pages /\ kernel_pages[r] # Absent /\ kernel_pages[r] \in Frames
        /\ entries' = [entries EXCEPT ![kernel_pages[r]][Index(page)] = page]
    BY <1>2, <1>4, FrameTypes DEF MapPage, WithEntry, PagingTypeOK
  <2>2. CASE p = page
    BY <1>2, <2>1, <2>2 DEF Maps, PagingTypeOK
  <2>3. CASE p # page /\ Maps(p)
    <3>1. kernel_pages[Region(p)] \in Frames
      BY <1>2, <2>3, FrameTypes DEF Maps, PagingTypeOK
    <3>2. kernel_pages[Region(p)] = kernel_pages[r] => Region(p) = r
      BY <1>2, <2>1, <2>3 DEF TablesInv, Maps
    <3>3. entries'[kernel_pages[Region(p)]][Index(p)] = entries[kernel_pages[Region(p)]][Index(p)]
      BY <1>2, <1>3, <2>1, <2>3, <3>1, <3>2 DEF PagingTypeOK
    <3> QED  BY <2>1, <2>3, <3>3 DEF Maps
  <2> QED  BY <2>2, <2>3 DEF Covered
<1>5. CASE MapPageInNewTable
  <2> DEFINE f == free_list
  <2>1. /\ kernel_pages[r] = Absent /\ f # NULL /\ f \in Frames
        /\ kernel_pages' = [kernel_pages EXCEPT ![r] = f]
        /\ entries' = [[entries EXCEPT ![f] = EmptyTable] EXCEPT ![f][Index(page)] = page]
    BY <1>5 DEF MapPageInNewTable, WithEntry, PagingTypeOK
  <2>2. f \notin owned
    <3>1. ListTypeOK /\ ListInv(H) /\ BlockPages(H) \intersect owned = {}
      BY DEF PagingTypeOK, ListTypeOK, HeadsInv
    <3>2. f \in H /\ num_pages[f] \in Nat \ {0} /\ f \in Nat
      BY <2>1, <3>1, ListHeads
    <3>3. f \in Block(f)
      BY <3>2 DEF Block
    <3> QED  BY <3>1, <3>2, <3>3 DEF BlockPages
  <2>3. EmptyTable \in [Entries -> Frames \union {Absent}]
    BY DEF EmptyTable
  <2>4. CASE p = page
    <3>1. kernel_pages'[r] = f /\ entries'[f][Index(page)] = page
      BY <1>2, <2>1, <2>3 DEF PagingTypeOK
    <3>2. f # Absent
      BY <2>1, KernelFrames
    <3> QED  BY <2>4, <3>1, <3>2 DEF Maps
  <2>5. CASE p # page /\ Maps(p)
    <3>1. kernel_pages[Region(p)] # Absent /\ kernel_pages[Region(p)] # f
      BY <1>2, <2>2, <2>5 DEF Maps, TablesInv
    <3>2. Region(p) # r
      BY <2>1, <3>1
    <3>3. kernel_pages'[Region(p)] = kernel_pages[Region(p)]
      BY <1>2, <2>1, <3>2 DEF PagingTypeOK
    <3>4. entries'[kernel_pages[Region(p)]] = entries[kernel_pages[Region(p)]]
      <4>1. kernel_pages[Region(p)] \in Frames
        BY <1>2, <3>1, FrameTypes DEF PagingTypeOK
      <4> QED  BY <2>1, <3>1, <4>1 DEF PagingTypeOK
    <3>5. entries[kernel_pages[Region(p)]][Index(p)] = p
      BY <2>5 DEF Maps
    <3>6. kernel_pages'[Region(p)] # Absent
      BY <3>1, <3>3
    <3>7. entries'[kernel_pages'[Region(p)]][Index(p)] = p
      BY <3>3, <3>4, <3>5
    <3> QED  BY <3>6, <3>7 DEF Maps
  <2> QED  BY <2>4, <2>5 DEF Covered
<1> QED  BY <1>4, <1>5

\* What the loop over the kernel's pages has done stays done.
LEMMA KernelKept ==
  ASSUME PagingTypeOK, KernelInv,
         UNCHANGED <<pc, cursor, dummy_page_table>>,
         \A p \in Frames : Covered(p) => Covered(p)'
  PROVE  KernelInv'
<1>1. /\ KernelStart \in Nat /\ AllocEnd \in Nat /\ cursor \in Nat
      /\ \A p \in Nat : p < AllocEnd => p \in Frames
  BY KernelFrames, FrameTypes DEF PagingTypeOK
<1>2. dummy_page_table \in Frames
  BY DEF PagingTypeOK
<1>3. Covered(dummy_page_table) => Covered(dummy_page_table)'
  <2>1. ASSUME NEW d, d = dummy_page_table, Covered(d)
        PROVE  Covered(d)'
    BY <1>2, <2>1
  <2> QED  BY <2>1 DEF Covered, Maps
<1>4. \A p \in KernelStart .. AllocEnd - 1 : p \in Frames
  BY <1>1
<1>5. cursor <= AllocEnd => \A p \in KernelStart .. cursor - 1 : p \in Frames
  BY <1>1
<1> QED  BY <1>3, <1>4, <1>5 DEF KernelInv

\* An entry is written in an existing table.
LEMMA MapPageKeepsInv ==
  ASSUME PInv, MapPage
  PROVE  PInv'
<1>1. PICK H \in SUBSET Pages : HeadsInv(H)
  BY DEF PInv
<1>2. PagingTypeOK /\ StartInv /\ TablesInv /\ KernelInv
  BY DEF PInv
<1> DEFINE r == Region(page)
           t == kernel_pages[r]
<1>3. /\ page \in Frames /\ page # Absent /\ pc # "out_of_memory"
      /\ t # Absent /\ page' = Absent
      /\ entries' = [entries EXCEPT ![t][Index(page)] = page]
      /\ UNCHANGED <<free_list, num_pages, next, owned, pc, kernel_pages, dummy_page_table, cursor>>
  BY <1>2 DEF MapPage, WithEntry, PagingTypeOK, Mapping, header
<1>4. r \in Regions /\ Index(page) \in Entries /\ page = r * NumEntries + Index(page)
  BY <1>3, RegionAndIndex
<1>5. t \in Frames
  BY <1>2, <1>3, <1>4, FrameTypes DEF PagingTypeOK
<1>6. \A p \in Frames : Covered(p) => Maps(p)'
  BY <1>1, <1>2, CoveredKept
<1>7. \A p \in Frames : Covered(p) => Covered(p)'
  BY <1>6 DEF Covered
<1>8. Tables' = Tables
  BY <1>3 DEF Tables
<1>9. PagingTypeOK'
  BY <1>2, <1>3, <1>4, <1>5 DEF PagingTypeOK
<1>10. StartInv'
  BY <1>2, <1>3 DEF StartInv
<1>11. TablesInv'
  <2> SUFFICES ASSUME NEW q \in Regions, kernel_pages[q] # Absent
               PROVE  /\ Covered(kernel_pages[q])'
                      /\ kernel_pages[q] \in owned
                      /\ kernel_pages[q] # dummy_page_table
                      /\ next[kernel_pages[q]] = NULL
                      /\ \A u \in Regions : kernel_pages[q] = kernel_pages[u] => q = u
                      /\ \A e \in Entries :
                           entries'[kernel_pages[q]][e] \in {Absent, q * NumEntries + e}
    BY <1>3 DEF TablesInv, Covered, Maps
  <2>1. kernel_pages[q] \in Frames
    BY <1>2, FrameTypes DEF PagingTypeOK
  <2>2. Covered(kernel_pages[q])'
    <3>1. Covered(kernel_pages[q])
      BY <1>2 DEF TablesInv
    <3>2. ASSUME NEW k, k = kernel_pages[q]
          PROVE  Covered(k)'
      BY <1>7, <2>1, <3>1, <3>2
    <3>3. kernel_pages'[q] = kernel_pages[q]
      BY <1>3
    <3> QED  BY <3>2, <3>3 DEF Covered, Maps
  <2>3. ASSUME NEW e \in Entries
        PROVE  entries'[kernel_pages[q]][e] \in {Absent, q * NumEntries + e}
    <3>1. entries[kernel_pages[q]][e] \in {Absent, q * NumEntries + e}
      BY <1>2 DEF TablesInv
    <3>2. CASE kernel_pages[q] = t /\ e = Index(page)
      <4>1. q = r
        BY <1>2, <1>3, <1>4, <3>2 DEF TablesInv
      <4>2. entries'[kernel_pages[q]][e] = page
        BY <1>2, <1>3, <1>4, <1>5, <3>2 DEF PagingTypeOK
      <4> QED  BY <1>4, <3>2, <4>1, <4>2
    <3>3. CASE ~ (kernel_pages[q] = t /\ e = Index(page))
      <4>1. entries'[kernel_pages[q]][e] = entries[kernel_pages[q]][e]
        BY <1>2, <1>3, <1>5, <2>1, <3>3 DEF PagingTypeOK
      <4> QED  BY <3>1, <4>1
    <3> QED  BY <3>2, <3>3
  <2> QED  BY <1>2, <2>2, <2>3 DEF TablesInv
<1>12. KernelInv'
  <2>1. \A p \in Frames : Covered(p) => Covered(p)'
    BY <1>7
  <2> QED  BY <1>2, <1>3, <2>1, KernelKept
<1>13. HeadsInv(H)'
  <2>1. ListInv(H)' /\ BlockPages(H)' = BlockPages(H)
    BY <1>1, <1>3 DEF HeadsInv, ListInv, IsFreeList, BlocksDisjoint, Follows, BlockPages, Block
  <2>2. \A h \in H : h \in Frames
    BY FrameTypes
  <2>3. WalkedInv(H)'
    BY <1>1, <1>2, <1>3, <1>7, <1>8, <2>2 DEF HeadsInv, WalkedInv, StartInv, Covered
  <2> QED  BY <1>1, <1>3, <2>1, <2>3 DEF HeadsInv
<1> QED  BY <1>9, <1>10, <1>11, <1>12, <1>13 DEF PInv

\* A page of the list becomes a table: it was nobody's.
LEMMA MapPageInNewTableKeepsInv ==
  ASSUME PInv, MapPageInNewTable
  PROVE  PInv'
<1>1. PICK H \in SUBSET Pages : HeadsInv(H)
  BY DEF PInv
<1>2. PagingTypeOK /\ StartInv /\ TablesInv /\ KernelInv /\ ListTypeOK /\ ListInv(H)
  BY <1>1 DEF PInv, HeadsInv, PagingTypeOK, ListTypeOK
<1>0. PICK r \in Regions : r = Region(page)
  BY <1>2, RegionAndIndex DEF MapPageInNewTable, Mapping, PagingTypeOK
<1>3. PICK f \in Frames : f = free_list
  BY <1>2 DEF PagingTypeOK
<1>4. /\ page \in Frames /\ page # Absent /\ pc # "out_of_memory" /\ pc # "start"
      /\ kernel_pages[r] = Absent /\ f # NULL
      /\ kernel_pages' = [kernel_pages EXCEPT ![r] = f]
      /\ entries' = [[entries EXCEPT ![f] = EmptyTable] EXCEPT ![f][Index(page)] = page]
      /\ owned' = owned \union {f}
      /\ num_pages' = [CountsAfter EXCEPT ![f] = 0]
      /\ next' = [LinksAfter EXCEPT ![f] = NULL]
      /\ free_list' = Rest
      /\ page' = f
      /\ UNCHANGED <<pc, dummy_page_table, cursor>>
  BY <1>0, <1>2, <1>3 DEF MapPageInNewTable, WithEntry, PagingTypeOK, Mapping, NextToMap, StartInv
<1>5. Index(page) \in Entries /\ page = r * NumEntries + Index(page)
  BY <1>0, <1>4, RegionAndIndex
<1>6. /\ Rest \in Frames /\ CountsAfter \in [Frames -> Int]
      /\ LinksAfter \in [Frames -> Frames] /\ f \in Pages
  BY <1>2, <1>3, <1>4, TakePageTypes
<1>7. PICK K \in SUBSET Pages :
        /\ ListInv(K)' /\ f \in BlockPages(H)
        /\ BlockPages(K)' = BlockPages(H) \ {f}
        /\ H \ {f} \subseteq K
        /\ \A h \in K : h # free_list' => h \in H \ {f}
  <2>1. \A h \in Frames \ {f} : num_pages'[h] = CountsAfter[h] /\ next'[h] = LinksAfter[h]
    BY <1>4, <1>6
  <2>2. free_list' = Rest
    BY <1>4
  <2> QED  BY <1>2, <1>3, <1>4, <2>1, <2>2, TakePage
<1>8. f \notin owned /\ BlockPages(H) \intersect owned = {}
  BY <1>1, <1>7 DEF HeadsInv
<1>9. \A p \in Frames : Covered(p) => Maps(p)'
  BY <1>1, <1>2, CoveredKept
<1>10. \A p \in Frames : Covered(p) => Covered(p)'
  BY <1>9 DEF Covered
<1>11. /\ \A q \in Regions \ {r} : kernel_pages'[q] = kernel_pages[q]
       /\ kernel_pages'[r] = f /\ f # Absent
  BY <1>2, <1>4, <1>5, KernelFrames DEF PagingTypeOK
<1>12. PagingTypeOK'
  <2>1. EmptyTable \in [Entries -> Frames \union {Absent}]
    BY DEF EmptyTable
  <2>2. entries' \in [Frames -> [Entries -> Frames \union {Absent}]]
    BY <1>2, <1>4, <1>5, <2>1 DEF PagingTypeOK
  <2>3. num_pages' \in [Frames -> Int] /\ next' \in [Frames -> Frames]
    BY <1>4, <1>6, FrameTypes
  <2> QED  BY <1>2, <1>4, <1>6, <2>2, <2>3 DEF PagingTypeOK
<1>13. StartInv'
  BY <1>2, <1>4 DEF StartInv
<1>14. TablesInv'
  <2>1. ASSUME NEW q \in Regions, q # r, kernel_pages'[q] # Absent
        PROVE  /\ Covered(kernel_pages[q])'
               /\ kernel_pages[q] \in owned
               /\ kernel_pages[q] # dummy_page_table
               /\ next'[kernel_pages[q]] = NULL
               /\ \A u \in Regions : kernel_pages'[q] = kernel_pages'[u] => q = u
               /\ \A e \in Entries :
                    entries'[kernel_pages[q]][e] \in {Absent, q * NumEntries + e}
    <3>1. PICK k \in Frames : k = kernel_pages[q]
      BY <1>2, <1>11, <2>1, FrameTypes DEF PagingTypeOK
    <3>2. /\ Covered(k) /\ k \in owned /\ k # dummy_page_table /\ next[k] = NULL
          /\ \A u \in Regions : k = kernel_pages[u] => q = u
          /\ \A e \in Entries : entries[k][e] \in {Absent, q * NumEntries + e}
      BY <1>2, <1>11, <2>1, <3>1 DEF TablesInv
    <3>3. k # f /\ k = kernel_pages'[q]
      BY <1>8, <1>11, <2>1, <3>1, <3>2
    <3>4. Covered(k)'
      BY <1>10, <3>2
    <3>5. Covered(kernel_pages[q])'
      BY <3>3, <3>4 DEF Covered, Maps
    <3>6. next'[k] = NULL
      <4>1. LinksAfter[k] = next[k]
        <5>1. CASE Splits
          <6>1. Rest = f + 1 /\ f + 1 \in BlockPages(H)
            BY <1>2, <1>3, <1>4, <5>1, SecondPage
          <6>2. k # Rest
            BY <1>8, <3>2, <6>1
          <6> QED  BY <1>2, <3>1, <5>1, <6>2 DEF LinksAfter, PagingTypeOK
        <5>2. CASE ~Splits
          BY <5>2 DEF LinksAfter
        <5> QED  BY <5>1, <5>2
      <4> QED  BY <1>4, <1>6, <3>1, <3>2, <3>3, <4>1
    <3>7. \A u \in Regions : k = kernel_pages'[u] => q = u
      BY <1>11, <3>2, <3>3
    <3>8. entries'[k] = entries[k]
      BY <1>2, <1>4, <3>1, <3>3 DEF PagingTypeOK
    <3> QED  BY <3>1, <3>2, <3>3, <3>5, <3>6, <3>7, <3>8
  <2>2. /\ Covered(f)'
        /\ f \in owned' /\ f # dummy_page_table /\ next'[f] = NULL
        /\ \A u \in Regions : f = kernel_pages'[u] => r = u
        /\ \A e \in Entries : entries'[f][e] \in {Absent, r * NumEntries + e}
    <3>1. Covered(f)'
      BY <1>4, <1>11 DEF Covered
    <3>2. f \in owned' /\ f # dummy_page_table
      BY <1>2, <1>4, <1>8 DEF StartInv
    <3>3. next'[f] = NULL
      BY <1>4, <1>6
    <3>4. \A u \in Regions : f = kernel_pages'[u] => r = u
      <4>1. \A u \in Regions : kernel_pages[u] # f
        BY <1>2, <1>8, <1>11 DEF TablesInv
      <4> QED  BY <1>11, <4>1
    <3>5. \A e \in Entries : entries'[f][e] \in {Absent, r * NumEntries + e}
      <4>1. entries'[f] = [EmptyTable EXCEPT ![Index(page)] = page]
        BY <1>2, <1>4 DEF PagingTypeOK
      <4> QED  BY <1>5, <4>1 DEF EmptyTable
    <3> QED  BY <3>1, <3>2, <3>3, <3>4, <3>5
  <2>3. \A q \in Regions : q # r => kernel_pages'[q] = kernel_pages[q]
    BY <1>11
  <2>4. ASSUME NEW q \in Regions, kernel_pages'[q] # Absent
        PROVE  /\ Covered(kernel_pages[q])'
               /\ kernel_pages'[q] \in owned'
               /\ kernel_pages'[q] # dummy_page_table'
               /\ next'[kernel_pages'[q]] = NULL
               /\ \A u \in Regions : kernel_pages'[q] = kernel_pages'[u] => q = u
               /\ \A e \in Entries :
                    entries'[kernel_pages'[q]][e] \in {Absent, q * NumEntries + e}
    <3>1. CASE q = r
      <4>1. Covered(kernel_pages[q])'
        BY <1>11, <2>2, <3>1 DEF Covered, Maps
      <4> QED  BY <1>4, <1>11, <2>2, <3>1, <4>1
    <3>2. CASE q # r
      <4>1. /\ Covered(kernel_pages[q])'
            /\ kernel_pages[q] \in owned
            /\ kernel_pages[q] # dummy_page_table
            /\ next'[kernel_pages[q]] = NULL
            /\ \A u \in Regions : kernel_pages'[q] = kernel_pages'[u] => q = u
            /\ \A e \in Entries :
                 entries'[kernel_pages[q]][e] \in {Absent, q * NumEntries + e}
        BY <2>1, <2>4, <3>2
      <4>2. /\ kernel_pages'[q] = kernel_pages[q] /\ dummy_page_table' = dummy_page_table
            /\ owned \subseteq owned'
        BY <1>4, <2>3, <3>2
      <4>3. /\ kernel_pages'[q] \in owned' /\ kernel_pages'[q] # dummy_page_table'
            /\ next'[kernel_pages'[q]] = NULL
        BY <4>1, <4>2
      <4>4. \A e \in Entries :
              entries'[kernel_pages'[q]][e] \in {Absent, q * NumEntries + e}
        BY <4>1, <4>2
      <4> QED  BY <4>1, <4>3, <4>4
    <3> QED  BY <3>1, <3>2
  <2> QED  BY <2>4 DEF TablesInv
<1>15. KernelInv'
  BY <1>2, <1>4, <1>10, KernelKept
<1>16. HeadsInv(K)'
  <2>1. BlockPages(K)' \intersect owned' = {}
    BY <1>4, <1>7, <1>8
  <2>2. pc = "map_list" =>
          /\ cursor # NULL /\ cursor \in K \union Tables'
          /\ \A h \in K \ {free_list'} : h <= cursor => Covered(h)'
    <3> SUFFICES ASSUME pc = "map_list"
                 PROVE  /\ cursor # NULL /\ cursor \in K \union Tables'
                        /\ \A h \in K \ {free_list'} : h <= cursor => Covered(h)'
      OBVIOUS
    <3>1. /\ cursor # NULL /\ cursor \in H \union Tables
          /\ \A h \in H \ {f} : h <= cursor => Covered(h)
      BY <1>1, <1>3 DEF HeadsInv, WalkedInv
    <3>2. f \in Tables' /\ Tables \subseteq Tables'
      BY <1>4, <1>5, <1>11 DEF Tables
    <3>3. \A h \in K \ {free_list'} : h \in H \ {f} /\ h \in Frames
      BY <1>7, FrameTypes
    <3> QED  BY <1>7, <1>10, <3>1, <3>2, <3>3
  <2>3. pc # "paged"
    BY <1>2, <1>4 DEF StartInv
  <2>4. pc = "wild" => cursor \in Tables'
    <3>1. pc = "wild" => cursor \in Tables
      BY <1>1 DEF HeadsInv, WalkedInv
    <3>2. Tables \subseteq Tables'
      BY <1>4, <1>5, <1>11 DEF Tables
    <3> QED  BY <3>1, <3>2
  <2>5. WalkedInv(K)'
    BY <1>4, <2>2, <2>3, <2>4 DEF WalkedInv
  <2> QED  BY <1>7, <2>1, <2>5 DEF HeadsInv
<1> QED  BY <1>7, <1>12, <1>13, <1>14, <1>15, <1>16 DEF PInv

-----------------------------------------------------------------------------
(***************************************************************************)
(* memory_init_paging                                                      *)
(***************************************************************************)

\* A step that leaves list, directory and owned pages alone keeps what is
\* said of them; a page is no longer in progress only if it was none.
LEMMA DirectoryUnchanged ==
  ASSUME PInv, page = Absent,
         UNCHANGED <<free_list, num_pages, next, owned, kernel_pages, entries,
                     dummy_page_table>>
  PROVE  /\ TablesInv'
         /\ \A p \in Frames : Covered(p) => Covered(p)' /\ Maps(p)'
         /\ Tables' = Tables
         /\ \A H \in SUBSET Pages : HeadsInv(H) =>
              ListInv(H)' /\ BlockPages(H)' \intersect owned' = {}
<1>1. \A p \in Frames : Covered(p) => Maps(p)
  BY KernelFrames DEF Covered
<1>2. TablesInv /\ PagingTypeOK
  BY DEF PInv
<1>3. \A q \in Regions : kernel_pages[q] # Absent => Maps(kernel_pages[q])
  BY <1>1, <1>2, FrameTypes DEF TablesInv, PagingTypeOK
<1>4. TablesInv'
  BY <1>2, <1>3 DEF TablesInv, Covered, Maps
<1>5. \A p \in Frames : Covered(p) => Covered(p)' /\ Maps(p)'
  BY <1>1 DEF Covered, Maps
<1>6. Tables' = Tables
  BY DEF Tables
<1>7. \A H \in SUBSET Pages : HeadsInv(H) =>
        ListInv(H)' /\ BlockPages(H)' \intersect owned' = {}
  BY DEF HeadsInv, ListInv, IsFreeList, BlocksDisjoint, Follows, BlockPages, Block
<1> QED  BY <1>4, <1>5, <1>6, <1>7

\* The dummy table is taken before there are tables.
LEMMA TakeDummyKeepsInv ==
  ASSUME PInv, TakeDummy
  PROVE  PInv'
<1>1. PICK H \in SUBSET Pages : HeadsInv(H)
  BY DEF PInv
<1>2. PagingTypeOK /\ StartInv /\ TablesInv /\ KernelInv /\ ListTypeOK /\ ListInv(H)
  BY <1>1 DEF PInv, HeadsInv, PagingTypeOK, ListTypeOK
<1>3. PICK f \in Frames : f = free_list
  BY <1>2 DEF PagingTypeOK
<1>4. /\ pc = "start" /\ page = Absent /\ f # NULL
      /\ \A r \in Regions : kernel_pages[r] = Absent
      /\ dummy_page_table' = f /\ owned' = owned \union {f} /\ free_list' = Rest
      /\ num_pages' = CountsAfter /\ next' = LinksAfter
      /\ cursor' = KernelStart /\ pc' = "map_kernel"
      /\ UNCHANGED <<page, kernel_pages, entries>>
  BY <1>2, <1>3 DEF TakeDummy, StartInv, directory
<1>5. /\ Rest \in Frames /\ CountsAfter \in [Frames -> Int]
      /\ LinksAfter \in [Frames -> Frames] /\ f \in Pages
  BY <1>2, <1>3, <1>4, TakePageTypes
<1>6. PICK K \in SUBSET Pages :
        /\ ListInv(K)' /\ f \in BlockPages(H) /\ BlockPages(K)' = BlockPages(H) \ {f}
  <2>1. \A h \in Frames \ {f} : num_pages'[h] = CountsAfter[h] /\ next'[h] = LinksAfter[h]
    BY <1>4
  <2>2. free_list' = Rest
    BY <1>4
  <2> QED  BY <1>2, <1>3, <1>4, <2>1, <2>2, TakePage
<1>7. PagingTypeOK'
  BY <1>2, <1>3, <1>4, <1>5, PagingAssumption DEF PagingTypeOK
<1>8. StartInv' /\ TablesInv'
  BY <1>4 DEF StartInv, TablesInv
<1>9. KernelInv'
  BY <1>4, KernelFrames DEF KernelInv
<1>10. HeadsInv(K)'
  BY <1>1, <1>4, <1>6 DEF HeadsInv, WalkedInv
<1> QED  BY <1>6, <1>7, <1>8, <1>9, <1>10 DEF PInv

\* The loop over the kernel's pages.
LEMMA MapKernelPageKeepsInv ==
  ASSUME PInv, MapKernelPage
  PROVE  PInv'
<1>1. PICK H \in SUBSET Pages : HeadsInv(H)
  BY DEF PInv
<1>2. PagingTypeOK /\ StartInv /\ TablesInv /\ KernelInv
  BY DEF PInv
<1>3. /\ pc = "map_kernel" /\ page = Absent /\ cursor < AllocEnd /\ cursor \in Nat
      /\ page' = cursor /\ cursor' = cursor + 1
      /\ UNCHANGED <<free_list, num_pages, next, owned, pc, kernel_pages, entries,
                      dummy_page_table>>
  BY <1>2, FrameTypes DEF MapKernelPage, KernelEndsAt, PagingTypeOK, header, directory
<1>4. /\ TablesInv' /\ Tables' = Tables
      /\ \A p \in Frames : Covered(p) => Covered(p)'
      /\ ListInv(H)' /\ BlockPages(H)' \intersect owned' = {}
  BY <1>1, <1>3, DirectoryUnchanged
<1>5. cursor \in Frames /\ cursor + 1 \in Frames
  BY <1>3, KernelFrames DEF Frames
<1>6. PagingTypeOK'
  BY <1>2, <1>3, <1>5 DEF PagingTypeOK
<1>7. StartInv'
  BY <1>2, <1>3 DEF StartInv
<1>8. KernelInv'
  <2>1. /\ KernelStart <= cursor /\ cursor <= AllocEnd
        /\ \A p \in KernelStart .. cursor - 1 : Covered(p)
    BY <1>2, <1>3 DEF KernelInv
  <2>2. \A p \in KernelStart .. cursor : p \in Frames
    BY <1>3, KernelFrames
  <2>3. ASSUME NEW p \in KernelStart .. cursor
        PROVE  Covered(p)'
    <3>1. CASE p = cursor
      BY <1>3, <3>1 DEF Covered
    <3>2. CASE p # cursor
      <4>1. p \in KernelStart .. cursor - 1
        BY <1>3, <3>2, KernelFrames
      <4> QED  BY <1>4, <2>1, <2>2, <4>1
    <3> QED  BY <3>1, <3>2
  <2>4. cursor' - 1 = cursor /\ KernelStart <= cursor' /\ cursor' <= AllocEnd
    BY <1>3, <2>1, KernelFrames
  <2> QED  BY <1>3, <2>3, <2>4 DEF KernelInv
<1>9. HeadsInv(H)'
  BY <1>3, <1>4 DEF HeadsInv, WalkedInv
<1> QED  BY <1>4, <1>6, <1>7, <1>8, <1>9 DEF PInv

\* ... and after it.
LEMMA MapDummyKeepsInv ==
  ASSUME PInv, MapDummy
  PROVE  PInv'
<1>1. PICK H \in SUBSET Pages : HeadsInv(H)
  BY DEF PInv
<1>2. PagingTypeOK /\ StartInv /\ TablesInv /\ KernelInv
  BY DEF PInv
<1>3. /\ pc = "map_kernel" /\ page = Absent /\ cursor >= AllocEnd /\ cursor \in Nat
      /\ page' = dummy_page_table /\ pc' = "map_dummy"
      /\ UNCHANGED <<free_list, num_pages, next, owned, cursor, kernel_pages, entries,
                      dummy_page_table>>
  BY <1>2, FrameTypes DEF MapDummy, KernelEndsAt, PagingTypeOK, header, directory
<1>4. /\ TablesInv' /\ Tables' = Tables
      /\ \A p \in Frames : Covered(p) => Covered(p)'
      /\ ListInv(H)' /\ BlockPages(H)' \intersect owned' = {}
  BY <1>1, <1>3, DirectoryUnchanged
<1>5. PagingTypeOK'
  BY <1>2, <1>3 DEF PagingTypeOK
<1>6. StartInv'
  BY <1>2, <1>3 DEF StartInv
<1>7. KernelInv'
  <2>1. cursor = AllocEnd /\ \A p \in KernelStart .. AllocEnd - 1 : Covered(p) /\ p \in Frames
    BY <1>2, <1>3, KernelFrames DEF KernelInv
  <2>2. \A p \in KernelStart .. AllocEnd - 1 : Covered(p)'
    BY <1>4, <2>1
  <2>3. Covered(dummy_page_table)'
    BY <1>3 DEF Covered
  <2> QED  BY <1>3, <2>2, <2>3 DEF KernelInv
<1>8. HeadsInv(H)'
  BY <1>3, <1>4 DEF HeadsInv, WalkedInv
<1> QED  BY <1>4, <1>5, <1>6, <1>7, <1>8 DEF PInv

\* What a step of the walk leaves to show: where the cursor is now.
LEMMA ListStepKeepsInv ==
  ASSUME PInv, NEW pages \in Frames, ListStep(pages), pc \in {"map_dummy", "map_list"},
         NEW H \in SUBSET Pages, HeadsInv(H),
         pages # NULL => pages \in H /\ \A h \in H \ {free_list} : h < pages => Covered(h),
         pages = NULL /\ cursor \notin Tables => \A h \in H \ {free_list} : Covered(h)
  PROVE  PInv'
<1>1. PagingTypeOK /\ StartInv /\ TablesInv /\ KernelInv
  BY DEF PInv
<1>2. /\ page = Absent
      /\ UNCHANGED <<free_list, num_pages, next, owned, kernel_pages, entries,
                      dummy_page_table>>
  BY DEF ListStep, header, directory
<1>3. \/ pages = NULL /\ pc' = "paged" /\ page' = page /\ cursor' = cursor
      \/ pages # NULL /\ pc' = "map_list" /\ page' = pages /\ cursor' = pages
  BY DEF ListStep
<1>4. /\ TablesInv' /\ Tables' = Tables
      /\ \A p \in Frames : Covered(p) => Covered(p)' /\ Maps(p)'
      /\ ListInv(H)' /\ BlockPages(H)' \intersect owned' = {}
  BY <1>2, DirectoryUnchanged
<1>5. PagingTypeOK'
  BY <1>1, <1>2, <1>3 DEF PagingTypeOK
<1>6. StartInv'
  BY <1>1, <1>2, <1>3 DEF StartInv
<1>7. KernelInv'
  <2>1. PICK d \in Frames : d = dummy_page_table
    BY <1>1 DEF PagingTypeOK
  <2>2. Covered(d) /\ \A p \in KernelStart .. AllocEnd - 1 : Covered(p) /\ p \in Frames
    BY <1>1, <2>1, KernelFrames DEF KernelInv
  <2>3. Covered(d)' /\ \A p \in KernelStart .. AllocEnd - 1 : Covered(p)'
    BY <1>4, <2>2
  <2>4. Covered(dummy_page_table)'
    BY <1>2, <2>1, <2>3 DEF Covered, Maps
  <2> QED  BY <1>3, <2>3, <2>4 DEF KernelInv
<1>8. WalkedInv(H)'
  <2>1. H \subseteq Frames /\ H \subseteq Nat /\ pages \in Nat
    BY FrameTypes
  <2>2. CASE pages = NULL
    BY <1>2, <1>3, <1>4, <2>1, <2>2 DEF WalkedInv
  <2>3. CASE pages # NULL
    <3>1. ASSUME NEW h \in H \ {free_list}, h <= pages
          PROVE  Covered(h)'
      <4>1. CASE h = pages
        BY <1>3, <2>3, <4>1 DEF Covered
      <4>2. CASE h # pages
        BY <1>4, <2>1, <2>3, <3>1, <4>2
      <4> QED  BY <4>1, <4>2
    <3> QED  BY <1>2, <1>3, <2>3, <3>1 DEF WalkedInv
  <2> QED  BY <2>2, <2>3
<1> QED  BY <1>4, <1>5, <1>6, <1>7, <1>8 DEF PInv, HeadsInv

\* The walk begins at the first block, before which there is none.
LEMMA MapFirstBlockKeepsInv ==
  ASSUME PInv, MapFirstBlock
  PROVE  PInv'
<1>1. PICK H \in SUBSET Pages : HeadsInv(H)
  BY DEF PInv
<1>2. PagingTypeOK /\ ListTypeOK /\ ListInv(H)
  BY <1>1 DEF PInv, PagingTypeOK, ListTypeOK, HeadsInv
<1>3. /\ H \subseteq Nat
      /\ free_list = NULL => H = {}
      /\ free_list # NULL => free_list \in H /\ \A h \in H : free_list <= h
  BY <1>2, ListHeads
<1>4. PICK pages \in Frames : pages = free_list
  BY <1>2 DEF PagingTypeOK
<1>5. pages \in Nat /\ pc \in {"map_dummy", "map_list"} /\ ListStep(pages)
  BY <1>4, FrameTypes DEF MapFirstBlock
<1>6. pages # NULL => pages \in H /\ \A h \in H \ {free_list} : h < pages => Covered(h)
  BY <1>3, <1>4, <1>5
<1>7. pages = NULL /\ cursor \notin Tables => \A h \in H \ {free_list} : Covered(h)
  BY <1>3, <1>4
<1> QED  BY <1>1, <1>5, <1>6, <1>7, ListStepKeepsInv

\* It goes on at the block that follows, or ends on a page table.
LEMMA MapNextBlockKeepsInv ==
  ASSUME PInv, MapNextBlock
  PROVE  PInv'
<1>1. PICK H \in SUBSET Pages : HeadsInv(H)
  BY DEF PInv
<1>2. PagingTypeOK /\ TablesInv /\ ListInv(H)
  BY <1>1 DEF PInv, HeadsInv
<1>3. PICK pages \in Frames : pages = next[cursor]
  BY <1>2 DEF PagingTypeOK
<1>4. pc \in {"map_dummy", "map_list"} /\ pc = "map_list" /\ ListStep(pages)
  BY <1>3 DEF MapNextBlock
<1>5. cursor \in H \union Tables /\ \A h \in H \ {free_list} : h <= cursor => Covered(h)
  BY <1>1, <1>4 DEF HeadsInv, WalkedInv
<1>6. CASE cursor \in Tables
  <2>1. pages = NULL
    BY <1>2, <1>3, <1>6 DEF TablesInv, Tables
  <2> QED  BY <1>1, <1>4, <1>6, <2>1, ListStepKeepsInv
<1>7. CASE cursor \in H
  <2>1. Follows(H, cursor, pages)
    BY <1>2, <1>3, <1>7 DEF ListInv, IsFreeList
  <2>2. H \subseteq Nat /\ NULL \notin H /\ cursor \in Nat /\ pages \in Nat
    BY <1>7, FrameTypes
  <2>3. pages = NULL => \A h \in H : h <= cursor
    BY <2>1, <2>2 DEF Follows
  <2>4. pages # NULL => pages \in H /\ \A h \in H : h < pages => h <= cursor
    BY <2>1, <2>2 DEF Follows
  <2>5. pages # NULL => pages \in H /\ \A h \in H \ {free_list} : h < pages => Covered(h)
    BY <1>5, <2>4
  <2>6. pages = NULL /\ cursor \notin Tables => \A h \in H \ {free_list} : Covered(h)
    BY <1>5, <2>3
  <2> QED  BY <1>1, <1>4, <2>5, <2>6, ListStepKeepsInv
<1> QED  BY <1>5, <1>6, <1>7

\* The walk that has gone astray keeps what there is, wherever it goes.
LEMMA WildKeepsInv ==
  ASSUME PInv, WildPointer \/ WildStep \/ WildEnd
  PROVE  PInv'
<1>1. PICK H \in SUBSET Pages : HeadsInv(H)
  BY DEF PInv
<1>2. PagingTypeOK /\ StartInv /\ TablesInv /\ KernelInv
  BY DEF PInv
<1>3. /\ pc \in {"map_list", "wild"} /\ pc' \in {"wild", "paged"} /\ page = Absent
      /\ cursor \in Tables
      /\ UNCHANGED <<free_list, num_pages, next, owned, cursor, kernel_pages, entries,
                      dummy_page_table>>
  BY <1>1 DEF WildPointer, WildStep, WildEnd, Overwritten, HeadsInv, WalkedInv, header,
              directory
<1>4. page' \in Frames \union {Absent} /\ (pc' = "paged" => page' = Absent)
  <2>1. CASE WildPointer
    <3>1. 1 \in Entries /\ cursor \in Frames
      BY <1>2, PagingAssumption DEF Entries, PagingTypeOK
    <3> QED  BY <1>2, <2>1, <3>1 DEF WildPointer, PagingTypeOK
  <2>2. CASE WildStep \/ WildEnd
    BY <2>2, PagingAssumption DEF WildStep, WildEnd
  <2> QED  BY <2>1, <2>2
<1>5. /\ TablesInv' /\ Tables' = Tables
      /\ \A p \in Frames : Covered(p) => Covered(p)'
      /\ ListInv(H)' /\ BlockPages(H)' \intersect owned' = {}
  BY <1>1, <1>3, DirectoryUnchanged
<1>6. PagingTypeOK'
  BY <1>2, <1>3, <1>4 DEF PagingTypeOK
<1>7. StartInv'
  BY <1>2, <1>3, <1>4 DEF StartInv
<1>8. KernelInv'
  <2>1. PICK d \in Frames : d = dummy_page_table
    BY <1>2 DEF PagingTypeOK
  <2>2. Covered(d) /\ \A p \in KernelStart .. AllocEnd - 1 : Covered(p) /\ p \in Frames
    BY <1>2, <1>3, <2>1, KernelFrames DEF KernelInv
  <2>3. Covered(d)' /\ \A p \in KernelStart .. AllocEnd - 1 : Covered(p)'
    BY <1>5, <2>2
  <2>4. Covered(dummy_page_table)'
    BY <1>3, <2>1, <2>3 DEF Covered, Maps
  <2> QED  BY <1>3, <2>3, <2>4 DEF KernelInv
<1>9. HeadsInv(H)'
  BY <1>3, <1>5 DEF HeadsInv, WalkedInv
<1> QED  BY <1>5, <1>6, <1>7, <1>8, <1>9 DEF PInv

-----------------------------------------------------------------------------
(***************************************************************************)
(* Theorems                                                                *)
(***************************************************************************)

\* Every step preserves the invariant.
LEMMA PagingStepKeepsInv ==
  ASSUME PInv, [PagingNext]_pagingVars
  PROVE  PInv'
<1>1. CASE MapOutOfMemory
  <2>1. PICK H \in SUBSET Pages : HeadsInv(H)
    BY DEF PInv
  <2>2. /\ page # Absent /\ pc' = "out_of_memory"
        /\ UNCHANGED <<free_list, num_pages, next, owned, kernel_pages, entries,
                        dummy_page_table, page, cursor>>
    BY <1>1 DEF MapOutOfMemory, Mapping, header, directory
  <2>3. PagingTypeOK' /\ TablesInv' /\ KernelInv'
    BY <2>2 DEF PInv, PagingTypeOK, TablesInv, KernelInv, Covered, Maps
  <2>4. StartInv'
    BY <2>2 DEF PInv, StartInv, Mapping
  <2>5. HeadsInv(H)'
    BY <2>1, <2>2 DEF HeadsInv, ListInv, IsFreeList, BlocksDisjoint, Follows, BlockPages,
                      Block, WalkedInv
  <2> QED  BY <2>3, <2>4, <2>5 DEF PInv
<1>2. CASE UNCHANGED pagingVars
  <2>1. PICK H \in SUBSET Pages : HeadsInv(H)
    BY DEF PInv
  <2>2. UNCHANGED <<free_list, num_pages, next, owned, pc, kernel_pages, entries,
                    dummy_page_table, page, cursor>>
    BY <1>2 DEF pagingVars, vars, header, directory
  <2>3. PagingTypeOK' /\ TablesInv' /\ KernelInv' /\ StartInv'
    BY <2>2 DEF PInv, PagingTypeOK, TablesInv, KernelInv, StartInv, Covered, Maps
  <2>4. HeadsInv(H)'
    BY <2>1, <2>2 DEF HeadsInv, ListInv, IsFreeList, BlocksDisjoint, Follows, BlockPages,
                      Block, WalkedInv, Covered, Maps, Tables
  <2> QED  BY <2>3, <2>4 DEF PInv
<1> QED
  BY <1>1, <1>2, MapPageKeepsInv, MapPageInNewTableKeepsInv, TakeDummyKeepsInv,
     MapKernelPageKeepsInv, MapDummyKeepsInv, MapFirstBlockKeepsInv, MapNextBlockKeepsInv,
     WildKeepsInv
     DEF PagingNext, IdentityMap, MemoryInitPaging

\* The invariant holds of memory_init_paging, from every free list.
THEOREM PagingInvariant == PagingSpec => []PInv
<1>1. PagingInit => PInv
  BY PagingInitInv
<1>2. PInv /\ [PagingNext]_pagingVars => PInv'
  BY PagingStepKeepsInv
<1> QED
  BY <1>1, <1>2, PTL DEF PagingSpec

\* Every variable of memory_init_paging keeps its type: no page number leaves
\* the memory, whatever the list.
THEOREM PagingTypeCorrect == PagingSpec => []PagingTypeOK
<1>1. PInv => PagingTypeOK
  BY DEF PInv
<1> QED
  BY <1>1, PagingInvariant, PTL

\* identity_map's page tables are mapped or about to be, are nobody else's,
\* and map pages at their own address.
THEOREM TablesAreMapped == PagingSpec => []TablesMapped
<1>1. PInv => TablesMapped
  <2> SUFFICES ASSUME PInv
               PROVE  TablesMapped
    OBVIOUS
  <2>1. TablesInv
    BY DEF PInv
  <2>2. \A t \in Tables : Maps(t) \/ t = page
    BY <2>1 DEF TablesInv, Tables, Covered
  <2>3. Tables \subseteq owned \ {dummy_page_table}
    BY <2>1 DEF TablesInv, Tables
  <2> QED  BY <2>1, <2>2, <2>3 DEF TablesMapped, TablesInv
<1> QED
  BY <1>1, PagingInvariant, PTL

\* When memory_init_paging loads CR3, the kernel's image and the dummy page
\* table are mapped.
THEOREM KernelIsMapped == PagingSpec => []KernelMapped
<1>1. PInv => KernelMapped
  <2> SUFFICES ASSUME PInv, pc = "paged"
               PROVE  Maps(dummy_page_table) /\ \A p \in KernelStart .. AllocEnd - 1 : Maps(p)
    BY DEF KernelMapped
  <2>1. page = Absent /\ KernelInv /\ dummy_page_table \in Frames
    BY DEF PInv, StartInv, PagingTypeOK
  <2>2. \A p \in Frames : Covered(p) => Maps(p)
    BY <2>1, KernelFrames DEF Covered
  <2>3. \A p \in KernelStart .. AllocEnd - 1 : p \in Frames
    BY KernelFrames
  <2> QED  BY <2>1, <2>2, <2>3 DEF KernelInv
<1> QED
  BY <1>1, PagingInvariant, PTL

\* ... and so are the heads of the free list behind the first, unless the
\* walk ended or went astray in a page table.
THEOREM BlocksAreMapped == PagingSpec => []BlocksMapped
<1>1. PInv => BlocksMapped
  BY DEF PInv, HeadsInv, ListInv, WalkedInv, BlocksMapped
<1> QED
  BY <1>1, PagingInvariant, PTL

\* What PagesKept reads of a state.
PagesView ==
  /\ SortedDisjointList /\ FreePages \intersect owned = {}
  /\ \A H \in SUBSET Pages : ListInv(H) => FreePages = BlockPages(H)

\* The invariant determines it.
LEMMA PagesViewFollows ==
  ASSUME PInv
  PROVE  PagesView
<1>1. PICK H \in SUBSET Pages : HeadsInv(H)
  BY DEF PInv
<1>2. ListInv(H) /\ FreePages = BlockPages(H) /\ BlockPages(H) \intersect owned = {}
  BY <1>1, FreePagesAre DEF HeadsInv, ListInv
<1>3. \A K \in SUBSET Pages : ListInv(K) => FreePages = BlockPages(K)
  BY FreePagesAre DEF ListInv
<1> QED  BY <1>2, <1>3 DEF PagesView, SortedDisjointList, ListInv

\* Taking a page moves it from the list to its owner.
LEMMA TakingKeepsPages ==
  ASSUME PInv, PagesView, PagesView', NEW f, f = free_list, f # NULL, free_list' = Rest,
         \A h \in Frames \ {f} :
           num_pages'[h] = CountsAfter[h] /\ next'[h] = LinksAfter[h],
         owned' = owned \union {f}
  PROVE  FreePages' \union owned' = FreePages \union owned
<1>1. PICK H \in SUBSET Pages : HeadsInv(H)
  BY DEF PInv
<1>2. ListTypeOK /\ ListInv(H)
  BY <1>1 DEF PInv, PagingTypeOK, ListTypeOK, HeadsInv
<1>3. PICK K \in SUBSET Pages :
        ListInv(K)' /\ f \in BlockPages(H) /\ BlockPages(K)' = BlockPages(H) \ {f}
  BY <1>2, TakePage
<1>4. FreePages = BlockPages(H) /\ FreePages' = BlockPages(K)'
  BY <1>2, <1>3 DEF PagesView
<1> QED  BY <1>3, <1>4

\* memory_init_paging and identity_map lose no page and take none but from the
\* free list, which they keep sorted and disjoint while they walk it.
THEOREM PagingKeepsPages == PagingSpec => PagesKept
<1>1. PInv /\ PagesView /\ PagesView' /\ [PagingNext]_pagingVars =>
        [/\ SortedDisjointList'
         /\ FreePages' \union owned' = FreePages \union owned
         /\ FreePages' \intersect owned' = {}]_pagingVars
  <2> SUFFICES ASSUME PInv, PagesView, PagesView', PagingNext
               PROVE  FreePages' \union owned' = FreePages \union owned
    BY DEF PagesView
  <2>1. ListTypeOK /\ PagingTypeOK /\ StartInv
    BY DEF PInv, PagingTypeOK, ListTypeOK
  <2>2. CASE TakeDummy
    <3>1. free_list # NULL
      BY <2>1, <2>2 DEF TakeDummy, StartInv
    <3> QED  BY <2>2, <3>1, TakingKeepsPages DEF TakeDummy
  <2>3. CASE MapPageInNewTable
    <3>1. PICK H \in SUBSET Pages : ListInv(H)
      BY DEF PInv, HeadsInv
    <3>2. free_list # NULL
      BY <2>3 DEF MapPageInNewTable
    <3>3. CountsAfter \in [Frames -> Int] /\ LinksAfter \in [Frames -> Frames]
      BY <2>1, <3>1, <3>2, TakePageTypes
    <3>4. \A h \in Frames \ {free_list} :
            num_pages'[h] = CountsAfter[h] /\ next'[h] = LinksAfter[h]
      BY <2>3, <3>3 DEF MapPageInNewTable
    <3> QED  BY <2>3, <3>2, <3>4, TakingKeepsPages DEF MapPageInNewTable
  <2>4. CASE UNCHANGED <<free_list, num_pages, next, owned>>
    BY <2>4 DEF FreePages, Lists, IsFreeList, Follows, Block
  <2> QED
    BY <2>2, <2>3, <2>4 DEF PagingNext, IdentityMap, MemoryInitPaging, MapPage, MapOutOfMemory,
       MapKernelPage, MapDummy, MapFirstBlock, MapNextBlock, ListStep, WildPointer, WildStep,
       WildEnd, header
<1>2. PInv => PagesView
  BY PagesViewFollows
<1> QED
  BY <1>1, <1>2, PagingInvariant, PTL DEF PagingSpec, PagesKept
=============================================================================
