------------------------------ MODULE Windows ------------------------------
(***************************************************************************)
(* How memory_detect and memory_allocate_page of src/memory.c reach pages  *)
(* that have no permanent mapping: through two logical addresses of the    *)
(* kernel's 4 MB, the windows, whose page table entries they rewrite, and  *)
(* how memory_map_physical_address gives out the other addresses.          *)
(*                                                                         *)
(* Module FreeList has the two functions as single steps on the pages      *)
(* themselves.  Here each is the sequence of its accesses, and an access   *)
(* reaches the frame the TLB, or else the page table, says.  The kernel    *)
(* runs on the page table src/loader.s built.  memory_free_page, which     *)
(* dereferences physical addresses, is not part of this module.            *)
(***************************************************************************)
EXTENDS FreeList

CONSTANTS
  NumEntries,       \* NUM_PAGE_TABLE_ENTRIES
  Requests,         \* frames memory_map_physical_address is called with
  Speculated        \* entries the processor may cache before they are used

Entries == 0 .. NumEntries - 1
Absent  == -1

ASSUME WindowsAssumption ==
  /\ NumEntries \in Nat /\ NumEntries > 2
  /\ Requests \in SUBSET Frames
  /\ Speculated \in SUBSET Entries

VARIABLES
  has_memory_map,   \* mboot->flags & MBOOT_MEMORY_MAP
  kernel_land,      \* page table of the kernel's 4 MB: entry -> frame, or Absent
  tlb,              \* entry -> cached frame, or Absent
  free_logical_address1, free_logical_address2,    \* the windows: entries
  logical_pages,    \* memory_detect: the window of the next chunk
  next_list,        \* local `next` of memory_allocate_page
  mappings          \* <<entry, frame>> handed out

windows      == <<has_memory_map, free_logical_address1, free_logical_address2>>
locals       == <<logical_pages, next_list>>
windowsVars  == <<vars, kernel_land, tlb, windows, locals, mappings>>
listVars     == <<free_list, num_pages, next, owned>>
frameVars    == <<mapped, freeVars>>

Windows == {free_logical_address1, free_logical_address2}

\* `entry | 3 < end` is map_kernel_loop's condition to write the entry
\* after the first.
LoaderMaps(entry) == entry = 0 \/ entry * PageSize + 3 < KernelEnd

WindowsInit ==
  /\ free_list = NULL
  /\ \E leftover \in Scribbles :
       /\ num_pages = [p \in Frames |-> leftover.num_pages]
       /\ next      = [p \in Frames |-> leftover.next]
  /\ mapped = IdentityMapped /\ owned = {}
  /\ chunk = 1 /\ tail = AtListHead
  /\ new_node = NULL /\ next_node = NULL /\ previous_node = NULL
  /\ has_memory_map \in BOOLEAN
  /\ kernel_land = [e \in Entries |-> IF LoaderMaps(e) THEN e ELSE Absent]
  /\ tlb = [e \in Entries |-> Absent]
  /\ free_logical_address1 = Absent /\ free_logical_address2 = Absent
  /\ logical_pages = Absent
  /\ next_list = NULL
  /\ mappings = {}
  /\ pc = "boot"

-----------------------------------------------------------------------------
(***************************************************************************)
(* The page table and the TLB                                              *)
(***************************************************************************)

\* Mutant of FreeEntries: the windows are not left out.
AbsentEntries(but) == {e \in Entries : kernel_land[e] = Absent}

\* Mutant of FreeEntries: an entry in use is taken for a free one.
AnyEntries(but) == Entries \ but

\* The entries _find_free_logical_address may return; it returns the first.
FreeEntries(but) == {e \in Entries \ but : kernel_land[e] = Absent}

FirstOf(S) == CHOOSE e \in S : \A f \in S : e <= f

\* The frame an access reaches, and what it leaves in the TLB.
Reach(entry) == IF tlb[entry] # Absent THEN tlb[entry] ELSE kernel_land[entry]
Touch(S)     == [e \in Entries |-> IF e \in S THEN Reach(e) ELSE tlb[e]]

\* _map_physical_address(physical, logical) does not flush the TLB.
MapEntry(entry, frame) == kernel_land' = [kernel_land EXCEPT ![entry] = frame]

\* _map_physical_address(0, window) and _flush_tlb(window), of all of S
ParkedTable(S) == [e \in Entries |-> IF e \in S THEN 0 ELSE kernel_land[e]]
FlushedTlb(S)  == [e \in Entries |-> IF e \in S THEN Absent ELSE tlb[e]]
Park(S) == kernel_land' = ParkedTable(S) /\ tlb' = FlushedTlb(S)

\* A present entry may be cached at any time.
Speculate(entry) ==
  /\ kernel_land[entry] # Absent
  /\ tlb[entry] = Absent
  /\ tlb' = [tlb EXCEPT ![entry] = kernel_land[entry]]
  /\ UNCHANGED <<vars, kernel_land, windows, locals, mappings>>

-----------------------------------------------------------------------------
(***************************************************************************)
(* memory_detect                                                           *)
(***************************************************************************)

DetectWindows ==
  /\ pc = "boot"
  /\ LET first  == FirstOf(FreeEntries({Absent}))
         second == FirstOf(FreeEntries({Absent, first}))
     IN  /\ free_logical_address1' = first
         /\ free_logical_address2' = second
         /\ logical_pages' = first
  /\ pc' = IF has_memory_map THEN "detect" ELSE "idle"
  /\ UNCHANGED <<listVars, frameVars, detectVars, has_memory_map, kernel_land, tlb,
                 next_list, mappings>>

DetectSkipChunk ==
  /\ DetectSkip
  /\ UNCHANGED <<kernel_land, tlb, windows, locals, mappings>>

\* The window is mapped to the block's first page, and flushed.
DetectMap ==
  /\ pc = "detect"
  /\ chunk <= Len(MemoryMap)
  /\ IsFree(MemoryMap[chunk])
  /\ MapEntry(logical_pages, StartPage(MemoryMap[chunk]))
  /\ tlb' = FlushedTlb({logical_pages})
  /\ pc' = "detect_write"
  /\ UNCHANGED <<listVars, frameVars, detectVars, windows, locals, mappings>>

OtherWindow(window) ==
  IF window = free_logical_address1
  THEN free_logical_address2
  ELSE free_logical_address1

\* Mutant of NextWindow: one window serves all chunks.
SameWindow == logical_pages

NextWindow == OtherWindow(logical_pages)

\* `previous` points at free_list, or through the other window at the next
\* field of the block before.
DetectWrite ==
  /\ pc = "detect_write"
  /\ LET c     == MemoryMap[chunk]
         block == Reach(logical_pages)
         before == Reach(NextWindow)
     IN  /\ num_pages' = [num_pages EXCEPT ![block] = NumPages(c)]
         /\ IF tail = AtListHead
            THEN /\ free_list' = StartPage(c)
                 /\ next' = [next EXCEPT ![block] = NULL]
                 /\ tlb'  = Touch({logical_pages})
            ELSE /\ next' = [next EXCEPT ![before] = StartPage(c), ![block] = NULL]
                 /\ tlb'  = Touch({logical_pages, NextWindow})
                 /\ UNCHANGED free_list
         /\ tail' = StartPage(c)
  /\ logical_pages' = NextWindow
  /\ chunk' = chunk + 1
  /\ pc' = "detect"
  /\ UNCHANGED <<owned, frameVars, kernel_land, windows, next_list, mappings>>

DetectPark ==
  /\ DetectDone
  /\ Park(Windows)
  /\ UNCHANGED <<windows, locals, mappings>>

-----------------------------------------------------------------------------
(***************************************************************************)
(* memory_allocate_page                                                    *)
(***************************************************************************)

AllocatePanic ==
  /\ AllocateOutOfMemory
  /\ UNCHANGED <<kernel_land, tlb, windows, locals, mappings>>

AllocateMap ==
  /\ pc = "idle"
  /\ free_list # NULL
  /\ MapEntry(free_logical_address1, free_list)
  /\ pc' = "allocate_read"
  /\ UNCHANGED <<listVars, frameVars, detectVars, tlb, windows, locals, mappings>>

\* Is it the block's last page?  If not, its successor gets a window too.
AllocateRead ==
  /\ pc = "allocate_read"
  /\ LET block == Reach(free_logical_address1)
     IN  IF num_pages[block] = 1
         THEN /\ next_list' = next[block]
              /\ pc' = "allocate_done"
              /\ UNCHANGED kernel_land
         ELSE /\ next_list' = NextFrame(free_list)
              /\ MapEntry(free_logical_address2, NextFrame(free_list))
              /\ pc' = "allocate_copy"
  /\ tlb' = Touch({free_logical_address1})
  /\ UNCHANGED <<listVars, frameVars, detectVars, windows, logical_pages, mappings>>

\* Mutant of FlushCopied: the second window is parked without a flush.
KeepCopied == Touch(Windows)

FlushCopied ==
  [e \in Entries |-> IF e = free_logical_address2 THEN Absent
                     ELSE Touch({free_logical_address1})[e]]

\* memcpy and decrement through both windows; the second one is parked.
AllocateCopy ==
  /\ pc = "allocate_copy"
  /\ LET block == Reach(free_logical_address1)
         rest  == Reach(free_logical_address2)
     IN  /\ num_pages' = [num_pages EXCEPT ![rest] = num_pages[block] - 1]
         /\ next'      = [next EXCEPT ![rest] = next[block]]
  /\ kernel_land' = ParkedTable({free_logical_address2})
  /\ tlb' = FlushCopied
  /\ pc' = "allocate_done"
  /\ UNCHANGED <<free_list, owned, frameVars, detectVars, windows, locals, mappings>>

AllocateReturn ==
  /\ pc = "allocate_done"
  /\ owned' = owned \union {free_list}
  /\ free_list' = next_list
  /\ Park({free_logical_address1})
  /\ next_list' = NULL
  /\ pc' = "idle"
  /\ UNCHANGED <<num_pages, next, frameVars, detectVars, windows, logical_pages, mappings>>

-----------------------------------------------------------------------------
(***************************************************************************)
(* memory_map_physical_address                                             *)
(***************************************************************************)

MapPhysicalAddress(frame) ==
  /\ pc = "idle"
  /\ FreeEntries(Windows) # {}
  /\ LET entry == FirstOf(FreeEntries(Windows))
     IN  /\ MapEntry(entry, frame)
         /\ mappings' = mappings \union {<<entry, frame>>}
  /\ UNCHANGED <<vars, tlb, windows, locals>>

\* ROSE_ASSERT(0): every address is taken.
MapNoAddress ==
  /\ pc = "idle"
  /\ FreeEntries(Windows) = {}
  /\ pc' = "no_address"
  /\ UNCHANGED <<listVars, frameVars, detectVars, kernel_land, tlb, windows, locals, mappings>>

-----------------------------------------------------------------------------
WindowsStep ==
  \/ DetectWindows \/ DetectSkipChunk \/ DetectMap \/ DetectWrite \/ DetectPark
  \/ AllocatePanic \/ AllocateMap \/ AllocateRead \/ AllocateCopy \/ AllocateReturn
  \/ \E frame \in Requests : MapPhysicalAddress(frame)
  \/ MapNoAddress

WindowsNext == WindowsStep \/ \E entry \in Speculated : Speculate(entry)

WindowsSpec == WindowsInit /\ [][WindowsNext]_windowsVars

-----------------------------------------------------------------------------
(***************************************************************************)
(* What memory_detect takes for granted of the loader and the processor.   *)
(***************************************************************************)

UnmappedAtBoot == {e \in Entries : ~LoaderMaps(e)}

\* The kernel image leaves two entries of its page table (if it does not,
\* memory_detect panics: module Kernel).
RoomForWindows == \E d, e \in UnmappedAtBoot : d # e

BootWindows ==
  LET first == FirstOf(UnmappedAtBoot)
  IN  {first, FirstOf(UnmappedAtBoot \ {first})}

\* The processor caches the entries of the windows only when they are used.
WindowsNotCached == BootWindows \intersect Speculated = {}

-----------------------------------------------------------------------------
(***************************************************************************)
(* Properties                                                              *)
(***************************************************************************)

\* The accesses through the windows do to the pages what FreeList's single
\* steps do: no access goes to a page the window showed before.  An
\* allocation takes effect once the rest of the block has its header.  Without
\* a memory map there is nothing to do, ever.
Taken == pc = "allocate_done"

ListHead   == IF Taken THEN next_list ELSE free_list
OwnedPages == IF Taken THEN owned \union {free_list} ELSE owned
ListPc ==
  IF ~has_memory_map \/ pc \in {"boot", "detect_write"} THEN "detect"
  ELSE IF pc \in {"detect", "out_of_memory"} THEN pc
  ELSE "idle"

Pages0 == INSTANCE FreeList WITH
  free_list <- ListHead,
  owned     <- OwnedPages,
  pc        <- ListPc

ImplementsFreeList == Pages0!Init /\ [][Pages0!Next]_Pages0!vars

\* An address memory_map_physical_address has returned goes on reaching its
\* frame, whatever is allocated: it is not a window, nor given out twice.
MappingsStand ==
  \A m \in mappings :
    /\ m[1] \notin Windows
    /\ kernel_land[m[1]] = m[2]
    /\ tlb[m[1]] \in {Absent, m[2]}

(***************************************************************************)
(* Comments of src/memory.c                                                *)
(***************************************************************************)

\* "The PHYSICAL address of the beginning of the free list" (memory.c:243)
ListBeginsAtFreePage ==
  pc = "idle" => free_list \in {NULL} \union (UsablePages \ owned)

\* memory.c:586 assumes that a page to be freed, which was handed out
\* before, is identity mapped.  The loader's one page table serves the low
\* 4 MB as well (loader.s:92): there the page's own entry decides.
OwnedPageIsIdentityMapped ==
  pc = "idle" =>
    \A p \in owned \intersect Entries : kernel_land[p] \in {Absent, p}
=============================================================================
