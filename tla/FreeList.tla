------------------------------ MODULE FreeList ------------------------------
(***************************************************************************)
(* The physical page allocator of src/memory.c: memory_detect builds the   *)
(* free list from the boot loader's memory map, memory_allocate_page takes *)
(* the first page of the first block, memory_free_page puts a page back in *)
(* address order and merges it with its neighbours.                        *)
(*                                                                         *)
(* Every free block is headed by a struct free_pages stored in the block's *)
(* own first page; num_pages and next are its two fields, in every frame.  *)
(* Addresses appear as page numbers: every pointer the list holds is page  *)
(* aligned, so pointer order, equality and differences are those of page   *)
(* numbers.  Byte addresses are kept where the code rounds them.           *)
(*                                                                         *)
(* The kernel is single core and is never preempted, so a call is atomic   *)
(* except memory_free_page, which is followed write by write: it is the    *)
(* one that dereferences physical addresses and can fault half way.        *)
(* Module Windows looks inside memory_detect and memory_allocate_page.     *)
(***************************************************************************)
EXTENDS Integers, Sequences

CONSTANTS
  PageSize,         \* MEMORY_PAGE_SIZE, in bytes
  NumFrames,        \* page frames a 32-bit address reaches
  KernelEnd,        \* physical address of the end of the kernel image
  MemoryMap,        \* the boot loader's map: [type, base_addr, length] chunks
  IdentityMapped,   \* pages the running page tables map at their own address
  KernelPagesLive,  \* CR3 holds kernel_pages: remove_identity_map unmaps
  Scribbles         \* what a page's owner may leave where a header was

NULL   == 0
Frames == 0 .. NumFrames - 1
Pages  == Frames \ {NULL}

AddressSpace == NumFrames * PageSize

\* struct free_pages, as its owner may leave it
Header == [num_pages : Int, next : Frames]

\* struct multiboot_memory: 64-bit fields
Chunk == [type : Nat, base_addr : Nat, length : Nat]

ASSUME SizeAssumption ==
  /\ PageSize  \in Nat \ {0}
  /\ NumFrames \in Nat \ {0} /\ NumFrames % 2 = 0
  /\ KernelEnd \in 1 .. AddressSpace - 1

ASSUME MemoryAssumption ==
  /\ MemoryMap \in Seq(Chunk)
  /\ IdentityMapped \in SUBSET Pages
  /\ KernelPagesLive \in BOOLEAN
  /\ Scribbles \in SUBSET Header
  /\ Scribbles # {}

VARIABLES
  free_list,        \* page number of the first block, or NULL
  num_pages, next,  \* frame -> the struct free_pages at its start
  mapped,           \* pages whose identity mapping is present
  owned,            \* pages handed out by memory_allocate_page
  pc,               \* where the kernel is
  chunk,            \* memory_detect: index of the next chunk
  tail,             \* memory_detect: the block `previous` points into
  new_node, next_node, previous_node       \* locals of memory_free_page

detectVars == <<chunk, tail>>
freeVars   == <<new_node, next_node, previous_node>>
header     == <<num_pages, next>>
vars       == <<free_list, num_pages, next, mapped, owned, pc, detectVars, freeVars>>

\* `previous` still holds &free_list
AtListHead == -1

TypeOK ==
  /\ free_list \in Frames
  /\ num_pages \in [Frames -> Int]
  /\ next      \in [Frames -> Frames]
  /\ mapped    \in SUBSET IdentityMapped
  /\ owned     \in SUBSET Pages
  /\ pc        \in {"detect", "idle", "walk", "set_next", "link",
                    "merge_next", "unlink_next", "merge_previous", "unlink_previous",
                    "out_of_memory", "page_fault"}
  /\ chunk     \in 1 .. Len(MemoryMap) + 1
  /\ tail      \in Frames \union {AtListHead}
  /\ new_node      \in Frames
  /\ next_node     \in Frames
  /\ previous_node \in Frames

-----------------------------------------------------------------------------
(***************************************************************************)
(* memory_detect: which pages a chunk contributes                          *)
(***************************************************************************)

\* MEMORY_PAGE_ALIGN, and the alignment of start_address: a page number
PageAlign(addr)  == addr \div PageSize
NextAligned(addr) ==
  IF addr % PageSize = 0 THEN PageAlign(addr) ELSE PageAlign(addr) + 1

IsFree(c) == c.type = 1 /\ c.base_addr # 0

\* The casts to uint32_t drop the upper half of the 64-bit fields.
StartAddress(c) ==
  LET start == c.base_addr % AddressSpace
  IN  IF start < KernelEnd THEN KernelEnd ELSE start

EndAddress(c) == (c.base_addr + c.length) % AddressSpace

\* Mutant of StartPage: the kernel image is not cut off.
UnclippedStartPage(c) == NextAligned(c.base_addr % AddressSpace) % NumFrames

StartPage(c) == NextAligned(StartAddress(c)) % NumFrames
EndPage(c)   == PageAlign(EndAddress(c))

\* Subtracting pointers gives a signed 32-bit number.
PagesBetween(from, to) ==
  LET half == NumFrames \div 2
  IN  ((to - from + half) % NumFrames) - half

NumPages(c) == PagesBetween(StartPage(c), EndPage(c))

-----------------------------------------------------------------------------
(***************************************************************************)
(* Writing and merging blocks                                              *)
(***************************************************************************)

NextFrame(p) == (p + 1) % NumFrames

\* free_page_blocks_are_adjacent
Adjacent(x, y) ==
  LET first  == IF x > y THEN y ELSE x
      second == IF x > y THEN x ELSE y
  IN  (first + num_pages[first]) % NumFrames = second

\* Without kernel_pages in CR3 its directory is empty, and the entry that is
\* cleared is one of frame 0, where no block lies.
RemoveIdentityMap(p) == mapped' = IF KernelPagesLive THEN mapped \ {p} ELSE mapped

\* free_page_blocks_merge: the first block takes the pages of the second ...
AddPages(first, second) ==
  num_pages' = [num_pages EXCEPT ![first] = @ + num_pages[second]]

\* Mutant of Unlink: the second block stays in the list.
UnlinkNothing(first, second) ==
  /\ UNCHANGED next
  /\ RemoveIdentityMap(second)

\* ... then the second leaves the list and the identity map.
Unlink(first, second) ==
  /\ next' = [next EXCEPT ![first] = next[second]]
  /\ RemoveIdentityMap(second)

\* A present entry never faults.  An entry that was present may still be
\* served from the TLB, which remove_identity_map does not flush.
Accessible(P) == P \subseteq IdentityMapped
MayFault(P)   == ~(P \subseteq mapped)

-----------------------------------------------------------------------------
Init ==
  /\ free_list = NULL
  /\ \E leftover \in Scribbles :
       /\ num_pages = [p \in Frames |-> leftover.num_pages]
       /\ next      = [p \in Frames |-> leftover.next]
  /\ mapped = IdentityMapped
  /\ owned  = {}
  /\ pc     = "detect"
  /\ chunk  = 1
  /\ tail   = AtListHead
  /\ new_node = NULL /\ next_node = NULL /\ previous_node = NULL

-----------------------------------------------------------------------------
(***************************************************************************)
(* memory_detect                                                           *)
(***************************************************************************)

DetectSkip ==
  /\ pc = "detect"
  /\ chunk <= Len(MemoryMap)
  /\ ~IsFree(MemoryMap[chunk])
  /\ chunk' = chunk + 1
  /\ UNCHANGED <<free_list, header, mapped, owned, pc, tail, freeVars>>

\* *previous = pages; then the header is written through the other window.
DetectChunk ==
  /\ pc = "detect"
  /\ chunk <= Len(MemoryMap)
  /\ IsFree(MemoryMap[chunk])
  /\ LET c    == MemoryMap[chunk]
         node == StartPage(c)
     IN  /\ tail' = node
         /\ num_pages' = [num_pages EXCEPT ![node] = NumPages(c)]
         /\ IF tail = AtListHead
            THEN /\ free_list' = node
                 /\ next' = [next EXCEPT ![node] = NULL]
            ELSE /\ UNCHANGED free_list
                 /\ next' = [next EXCEPT ![tail] = node, ![node] = NULL]
  /\ chunk' = chunk + 1
  /\ UNCHANGED <<mapped, owned, pc, freeVars>>

DetectDone ==
  /\ pc = "detect"
  /\ chunk > Len(MemoryMap)
  /\ pc' = "idle"
  /\ UNCHANGED <<free_list, header, mapped, owned, detectVars, freeVars>>

-----------------------------------------------------------------------------
(***************************************************************************)
(* memory_allocate_page                                                    *)
(***************************************************************************)

AllocateOutOfMemory ==
  /\ pc = "idle"
  /\ free_list = NULL
  /\ pc' = "out_of_memory"
  /\ UNCHANGED <<free_list, header, mapped, owned, detectVars, freeVars>>

AllocateLastOfBlock ==
  /\ pc = "idle"
  /\ free_list # NULL
  /\ num_pages[free_list] = 1
  /\ owned'     = owned \union {free_list}
  /\ free_list' = next[free_list]
  /\ UNCHANGED <<header, mapped, pc, detectVars, freeVars>>

\* Mutant of AllocateSplit: the out-of-memory check is missing.
AllocateUnchecked ==
  /\ pc = "idle"
  /\ num_pages[free_list] # 1
  /\ free_list' = NextFrame(free_list)
  /\ num_pages' = [num_pages EXCEPT ![NextFrame(free_list)] = num_pages[free_list] - 1]
  /\ next'      = [next EXCEPT ![NextFrame(free_list)] = next[free_list]]
  /\ owned' = owned \union {free_list}
  /\ UNCHANGED <<mapped, pc, detectVars, freeVars>>

\* Mutant of AllocateSplit: num_pages is copied and not decremented.
AllocateWithoutDecrement ==
  /\ pc = "idle"
  /\ free_list # NULL
  /\ num_pages[free_list] # 1
  /\ free_list' = NextFrame(free_list)
  /\ num_pages' = [num_pages EXCEPT ![NextFrame(free_list)] = num_pages[free_list]]
  /\ next'      = [next EXCEPT ![NextFrame(free_list)] = next[free_list]]
  /\ owned' = owned \union {free_list}
  /\ UNCHANGED <<mapped, pc, detectVars, freeVars>>

\* The rest of the block starts one page further on.
AllocateSplit ==
  /\ pc = "idle"
  /\ free_list # NULL
  /\ num_pages[free_list] # 1
  /\ free_list' = NextFrame(free_list)
  /\ num_pages' = [num_pages EXCEPT ![NextFrame(free_list)] = num_pages[free_list] - 1]
  /\ next'      = [next EXCEPT ![NextFrame(free_list)] = next[free_list]]
  /\ owned' = owned \union {free_list}
  /\ UNCHANGED <<mapped, pc, detectVars, freeVars>>

\* The owner of a page overwrites the start of it.
Scribble(p, h) ==
  /\ pc = "idle"
  /\ p \in owned \intersect mapped
  /\ num_pages' = [num_pages EXCEPT ![p] = h.num_pages]
  /\ next'      = [next EXCEPT ![p] = h.next]
  /\ UNCHANGED <<free_list, mapped, owned, pc, detectVars, freeVars>>

-----------------------------------------------------------------------------
(***************************************************************************)
(* memory_free_page                                                        *)
(*                                                                         *)
(* A step ends with a write to a header; before that it reaches some pages *)
(* and faults at one that is not mapped, or is served from the TLB.  After *)
(* a fault nothing is undone: the kernel stops with what has been written. *)
(* (The panic for an address that is not page aligned is left out: pages   *)
(* are numbers.)                                                           *)
(***************************************************************************)
Fault(P) ==
  /\ MayFault(P)
  /\ pc' = "page_fault"
  /\ UNCHANGED <<free_list, header, mapped, owned, detectVars, freeVars>>

FreeBegin(p) ==
  /\ pc = "idle"
  /\ p \in owned
  /\ new_node'      = p
  /\ next_node'     = free_list
  /\ previous_node' = NULL
  /\ pc' = "walk"
  /\ UNCHANGED <<free_list, header, mapped, owned, detectVars>>

Walking == next_node # NULL /\ next_node < new_node

FreeWalk ==
  /\ pc = "walk"
  /\ Walking
  /\ Accessible({next_node})
  /\ previous_node' = next_node
  /\ next_node'     = next[next_node]
  /\ UNCHANGED <<free_list, header, mapped, owned, pc, detectVars, new_node>>

FreeWalkFault == pc = "walk" /\ Walking /\ Fault({next_node})

FreeSetPages ==
  /\ pc = "walk"
  /\ ~Walking
  /\ Accessible({new_node})
  /\ num_pages' = [num_pages EXCEPT ![new_node] = 1]
  /\ pc' = "set_next"
  /\ UNCHANGED <<free_list, next, mapped, owned, detectVars, freeVars>>

FreeSetPagesFault == pc = "walk" /\ ~Walking /\ Fault({new_node})

FreeSetNext ==
  /\ pc = "set_next"
  /\ Accessible({new_node})
  /\ next' = [next EXCEPT ![new_node] = next_node]
  /\ pc' = "link"
  /\ UNCHANGED <<free_list, num_pages, mapped, owned, detectVars, freeVars>>

FreeSetNextFault == pc = "set_next" /\ Fault({new_node})

Previous == {previous_node} \ {NULL}

\* Mutant of FreeLink: the previous block keeps its old successor.
FreeLinkWithoutPrevious ==
  /\ pc = "link"
  /\ Accessible(Previous)
  /\ free_list' = IF previous_node = NULL THEN new_node ELSE free_list
  /\ owned' = owned \ {new_node}
  /\ pc'    = "merge_next"
  /\ UNCHANGED <<header, mapped, detectVars, freeVars>>

\* Mutant of FreeLink: the link is made before new_node->next is set, which
\* is then read from it.
FreeLinkSwapped ==
  /\ pc = "link"
  /\ Accessible(Previous)
  /\ IF previous_node # NULL
     THEN /\ next' = [next EXCEPT ![previous_node] = new_node, ![new_node] = new_node]
          /\ UNCHANGED free_list
     ELSE /\ UNCHANGED next
          /\ free_list' = new_node
  /\ owned' = owned \ {new_node}
  /\ pc'    = "merge_next"
  /\ UNCHANGED <<num_pages, mapped, detectVars, freeVars>>

\* The page is back in the pool as soon as it is in the list.
FreeLink ==
  /\ pc = "link"
  /\ Accessible(Previous)
  /\ IF previous_node # NULL
     THEN /\ next' = [next EXCEPT ![previous_node] = new_node]
          /\ UNCHANGED free_list
     ELSE /\ free_list' = new_node
          /\ UNCHANGED next
  /\ owned' = owned \ {new_node}
  /\ pc'    = "merge_next"
  /\ UNCHANGED <<num_pages, mapped, detectVars, freeVars>>

FreeLinkFault == pc = "link" /\ Fault(Previous)

MergesNext == next_node # NULL /\ Adjacent(new_node, next_node)

\* new_node's num_pages is read if there is a next_node at all.
NextReached ==
  IF next_node = NULL THEN {} ELSE {new_node} \union (IF MergesNext THEN {next_node} ELSE {})

FreeMergeNext ==
  /\ pc = "merge_next"
  /\ Accessible(NextReached)
  /\ IF MergesNext
     THEN AddPages(new_node, next_node) /\ pc' = "unlink_next"
     ELSE UNCHANGED num_pages /\ pc' = "merge_previous"
  /\ UNCHANGED <<free_list, next, mapped, owned, detectVars, freeVars>>

FreeMergeNextFault == pc = "merge_next" /\ Fault(NextReached)

FreeUnlinkNext ==
  /\ pc = "unlink_next"
  /\ Accessible({new_node, next_node})
  /\ Unlink(new_node, next_node)
  /\ pc' = "merge_previous"
  /\ UNCHANGED <<free_list, num_pages, owned, detectVars, freeVars>>

FreeUnlinkNextFault == pc = "unlink_next" /\ Fault({new_node, next_node})

\* Mutant of MergesPrevious: "else if" instead of a second "if".
MergesPreviousUnlessNext ==
  /\ previous_node # NULL
  /\ Adjacent(previous_node, new_node)
  /\ num_pages[new_node] = 1

MergesPrevious ==
  previous_node # NULL /\ Adjacent(previous_node, new_node)

PreviousReached == Previous \union (IF MergesPrevious THEN {new_node} ELSE {})

\* memory_free_page returns: its locals are gone.
Return ==
  /\ pc' = "idle"
  /\ new_node' = NULL /\ next_node' = NULL /\ previous_node' = NULL

FreeMergePrevious ==
  /\ pc = "merge_previous"
  /\ Accessible(PreviousReached)
  /\ IF MergesPrevious
     THEN /\ AddPages(previous_node, new_node)
          /\ pc' = "unlink_previous"
          /\ UNCHANGED freeVars
     ELSE UNCHANGED num_pages /\ Return
  /\ UNCHANGED <<free_list, next, mapped, owned, detectVars>>

FreeMergePreviousFault == pc = "merge_previous" /\ Fault(PreviousReached)

FreeUnlinkPrevious ==
  /\ pc = "unlink_previous"
  /\ Accessible({previous_node, new_node})
  /\ Unlink(previous_node, new_node)
  /\ Return
  /\ UNCHANGED <<free_list, num_pages, owned, detectVars>>

FreeUnlinkPreviousFault == pc = "unlink_previous" /\ Fault({previous_node, new_node})

-----------------------------------------------------------------------------
MemoryDetect == DetectSkip \/ DetectChunk \/ DetectDone

MemoryAllocatePage ==
  AllocateOutOfMemory \/ AllocateLastOfBlock \/ AllocateSplit

FreeFault ==
  \/ FreeWalkFault \/ FreeSetPagesFault \/ FreeSetNextFault \/ FreeLinkFault
  \/ FreeMergeNextFault \/ FreeUnlinkNextFault
  \/ FreeMergePreviousFault \/ FreeUnlinkPreviousFault

\* What runs to completion once memory_free_page has been called.
FreeStep ==
  \/ FreeWalk \/ FreeSetPages \/ FreeSetNext \/ FreeLink
  \/ FreeMergeNext \/ FreeUnlinkNext
  \/ FreeMergePrevious \/ FreeUnlinkPrevious
  \/ FreeFault

Next ==
  \/ MemoryDetect
  \/ MemoryAllocatePage
  \/ \E p \in Pages : FreeBegin(p)
  \/ \E p \in Pages, h \in Scribbles : Scribble(p, h)
  \/ FreeStep

\* A call the processor executes goes on; nothing obliges anyone to call.
Spec == Init /\ [][Next]_vars /\ WF_vars(MemoryDetect \/ FreeStep)

-----------------------------------------------------------------------------
(***************************************************************************)
(* The list as a set of block heads                                        *)
(***************************************************************************)

\* y is the element of H that follows x in address order; NULL stands for
\* the start of the list as x and for its end as y.
Follows(H, x, y) ==
  \/ y = NULL /\ \A h \in H : h <= x
  \/ y \in H /\ x < y /\ \A h \in H : h <= x \/ y <= h

IsFreeList(H) ==
  /\ Follows(H, NULL, free_list)
  /\ \A h \in H : Follows(H, h, next[h])

Block(h) == h .. h + num_pages[h] - 1

BlocksDisjoint(H) ==
  /\ \A h \in H : num_pages[h] >= 1 /\ h + num_pages[h] <= NumFrames
  /\ \A g, h \in H : g < h => g + num_pages[g] <= h

Lists == {H \in SUBSET Pages : IsFreeList(H)}

FreePages == UNION {UNION {Block(h) : h \in H} : H \in Lists}

(***************************************************************************)
(* Independent of how memory_detect computes it: a page is usable if it    *)
(* lies above the kernel and wholly inside a chunk of free memory that     *)
(* does not start at address 0.                                            *)
(***************************************************************************)
InChunk(p, c) ==
  /\ IsFree(c)
  /\ c.base_addr <= p * PageSize
  /\ (p + 1) * PageSize <= c.base_addr + c.length

UsablePages ==
  {p \in Pages : /\ KernelEnd <= p * PageSize
                 /\ \E i \in 1 .. Len(MemoryMap) : InChunk(p, MemoryMap[i])}

(***************************************************************************)
(* The maps memory_detect is right about: free chunks come in address      *)
(* order without overlap, below 4 GiB, shorter than 2 GiB, and each holds  *)
(* a whole page above the kernel.                                          *)
(***************************************************************************)
FreeChunks == {i \in 1 .. Len(MemoryMap) : IsFree(MemoryMap[i])}

WellFormedMap ==
  /\ \A i \in FreeChunks :
       LET c == MemoryMap[i]
       IN  /\ c.base_addr + c.length < AddressSpace
           /\ EndPage(c) - NextAligned(StartAddress(c)) \in 1 .. (NumFrames \div 2) - 1
  /\ \A i, j \in FreeChunks :
       i < j => MemoryMap[i].base_addr + MemoryMap[i].length <= MemoryMap[j].base_addr

-----------------------------------------------------------------------------
(***************************************************************************)
(* Safety                                                                  *)
(***************************************************************************)

\* Between the two writes of a merge the first block has the pages of the
\* second, which is still in the list: they end at the same page.
HalfMerged(H, first, second) ==
  /\ {first, second} \subseteq H
  /\ next[first] = second
  /\ first + num_pages[first] = second + num_pages[second]
  /\ num_pages[second] >= 1
  /\ BlocksDisjoint(H \ {second})

\* Where memory_free_page is, or has faulted, when a merge is half done.
UnlinkDue(first, second) ==
  \/ first = new_node /\ second = next_node /\ pc \in {"unlink_next", "page_fault"}
  \/ first = previous_node /\ second = new_node /\ pc \in {"unlink_previous", "page_fault"}

\* The free list is acyclic and in ascending address order, after every
\* write of every sequence of allocations and frees and wherever
\* memory_free_page faults.  Its blocks are non-empty, stay inside memory
\* and do not overlap, except between the two writes of a merge
\* (memory.c:568-569): there, and after a fault there, one block overlaps
\* its successor, and without the successor all is well.
SortedDisjointList ==
  \E H \in SUBSET Pages :
    /\ IsFreeList(H)
    /\ \/ BlocksDisjoint(H)
       \/ \E first, second \in H : UnlinkDue(first, second) /\ HalfMerged(H, first, second)

\* No page is lost, none is handed out twice, and no page that is not RAM
\* above the kernel ever enters the pool.
Conservation ==
  /\ FreePages \intersect owned = {}
  /\ FreePages \subseteq UsablePages
  /\ pc # "detect" => FreePages \union owned = UsablePages

\* The three ROSE_ASSERTs of free_page_blocks_merge (memory.c:564-566) hold
\* whenever memory_free_page calls it.
MergeAssertsHold ==
  /\ pc = "merge_next" /\ MergesNext =>
       new_node < next_node /\ next[new_node] = next_node
  /\ pc = "merge_previous" /\ MergesPrevious =>
       previous_node < new_node /\ next[previous_node] = new_node

\* When memory_free_page returns, a free page next to the freed one is in
\* the same block: a merge is never missed.
InOneBlock(p, q) ==
  \E H \in Lists : \E h \in H : p \in Block(h) /\ q \in Block(h)

FreedPageCoalesced ==
  [][pc' = "idle" /\ pc \in {"merge_previous", "unlink_previous"} =>
       \A p \in {new_node} : \A q \in {p - 1, p + 1} \intersect FreePages' :
         InOneBlock(p, q)']_vars

(***************************************************************************)
(* Liveness                                                                *)
(***************************************************************************)

\* memory_free_page returns, or stops the kernel with a page fault: its
\* walk never goes round in a circle.
FreeReturns == pc = "walk" ~> pc \in {"idle", "page_fault"}

(***************************************************************************)
(* The free list implements a set of free pages                            *)
(***************************************************************************)
Pool == INSTANCE PagePool WITH
  Usable <- UsablePages,
  free   <- FreePages,
  owned  <- owned,
  halted <- (pc = "out_of_memory")

ImplementsPagePool == Pool!PoolSpec

-----------------------------------------------------------------------------
(***************************************************************************)
(* memory_free_page's comment (memory.c:586) takes for granted that the    *)
(* page to be freed is identity mapped.                                    *)
(***************************************************************************)

\* A page that memory_free_page is called with, and that was identity
\* mapped at boot, still is.
FreedPageIsMapped ==
  pc = "walk" /\ new_node \in IdentityMapped => new_node \in mapped

\* "free" (memory.c:472): only memory the map calls free is handed out.
OnlyRamHandedOut == owned \subseteq UsablePages
=============================================================================
