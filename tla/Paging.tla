------------------------------- MODULE Paging -------------------------------
(***************************************************************************)
(* memory_init_paging and identity_map of src/memory.c: they build         *)
(* kernel_pages, which maps the kernel image and the first page of every   *)
(* free block at its own address, with page tables taken from the free     *)
(* list that is being walked.                                              *)
(*                                                                         *)
(* The free list is FreeList's, as memory_detect may leave it for some     *)
(* memory map.  A page table lies over the header of the page it takes:    *)
(* memset zeroes the header, and entry 1 is where next was.  An allocation *)
(* is a single step; identity_map calls itself last, so the call in        *)
(* progress is known by its argument, page.                                *)
(*                                                                         *)
(* The module takes for granted what memory_init_paging does: that all     *)
(* memory is reached at its own address until CR3 is loaded, which ends    *)
(* it.  loader.s has stopped providing that, and kernel_main's call is     *)
(* commented out (kernel.c:107).                                           *)
(***************************************************************************)
EXTENDS FreeList, FiniteSets

CONSTANTS
  NumEntries,       \* NUM_PAGE_TABLE_ENTRIES
  KernelStart,      \* page number of kernel_start
  Garbage           \* pages that a word which is no pointer may point into

Entries    == 0 .. NumEntries - 1
NumRegions == (NumFrames + NumEntries - 1) \div NumEntries
Regions    == 0 .. NumRegions - 1
Absent     == -1

ASSUME PagingAssumption ==
  /\ NumEntries \in Nat /\ NumEntries > 1
  /\ KernelStart \in Frames
  /\ KernelStart * PageSize < KernelEnd
  /\ NextAligned(KernelEnd) < NumFrames
  /\ Garbage \subseteq Frames

VARIABLES
  kernel_pages,     \* the page directory: region -> its page table's page, or Absent
  entries,          \* page -> the page table in it: entry -> page, or Absent
  dummy_page_table,
  page,             \* argument of the identity_map in progress, or Absent
  cursor            \* the loops' `page` and `pages`, while `pages` is a page
                    \* of the list

directory  == <<kernel_pages, entries>>
pagingVars == <<vars, directory, dummy_page_table, page, cursor>>
otherVars  == <<mapped, detectVars, freeVars>>

EmptyTable == [e \in Entries |-> Absent]
Region(p)  == p \div NumEntries
Index(p)   == p % NumEntries
Tables     == {kernel_pages[r] : r \in Regions} \ {Absent}

PagingTypeOK ==
  /\ free_list \in Frames
  /\ num_pages \in [Frames -> Int]
  /\ next      \in [Frames -> Frames]
  /\ owned     \in SUBSET Pages
  /\ kernel_pages \in [Regions -> Pages \union {Absent}]
  /\ entries   \in [Frames -> [Entries -> Frames \union {Absent}]]
  /\ dummy_page_table \in Frames
  /\ page   \in Frames \union {Absent}
  /\ cursor \in Frames
  /\ pc \in {"start", "map_kernel", "map_dummy", "map_list", "paged", "wild",
             "out_of_memory"}

AllocEnd == NextAligned(KernelEnd)

(***************************************************************************)
(* Any free list memory_detect can leave: the free pages F lie above the   *)
(* kernel, a block starts at each page of H and goes on up to the next     *)
(* page that is in H or not free.                                          *)
(***************************************************************************)
BlockEnds(F, H, p) == p \notin F \/ p \in H

Length(F, H, h) ==
  CHOOSE n \in 1 .. NumFrames - h :
    /\ BlockEnds(F, H, h + n)
    /\ \A m \in 1 .. n - 1 : ~BlockEnds(F, H, h + m)

HeadAfter(H, x) ==
  IF \E h \in H : h > x
  THEN CHOOSE h \in H : h > x /\ \A g \in H : g > x => h <= g
  ELSE NULL

BlockStarts(F) == {p \in F : p - 1 \notin F}

ListOf(F, H, leftover) ==
  /\ free_list = HeadAfter(H, NULL)
  /\ num_pages = [p \in Frames |-> IF p \in H THEN Length(F, H, p) ELSE leftover.num_pages]
  /\ next      = [p \in Frames |-> IF p \in H THEN HeadAfter(H, p) ELSE leftover.next]

PagingInit ==
  /\ \E F \in (SUBSET (AllocEnd .. NumFrames - 1)) \ {{}} :
       \E H \in SUBSET F, leftover \in Scribbles :
         BlockStarts(F) \subseteq H /\ ListOf(F, H, leftover)
  /\ mapped = {} /\ owned = {}
  /\ chunk = 1 /\ tail = AtListHead
  /\ new_node = NULL /\ next_node = NULL /\ previous_node = NULL
  /\ kernel_pages = [r \in Regions |-> Absent]
  /\ entries = [p \in Frames |-> EmptyTable]
  /\ dummy_page_table = NULL
  /\ page = Absent /\ cursor = NULL
  /\ pc = "start"

-----------------------------------------------------------------------------
(***************************************************************************)
(* Taking the first page of the free list                                  *)
(***************************************************************************)
Splits == num_pages[free_list] # 1

Rest == IF Splits THEN NextFrame(free_list) ELSE next[free_list]

\* Mutant of CountsAfter: the header is copied and not decremented.
CountsCopied ==
  IF Splits THEN [num_pages EXCEPT ![Rest] = num_pages[free_list]] ELSE num_pages

CountsAfter ==
  IF Splits THEN [num_pages EXCEPT ![Rest] = num_pages[free_list] - 1] ELSE num_pages

LinksAfter ==
  IF Splits THEN [next EXCEPT ![Rest] = next[free_list]] ELSE next

-----------------------------------------------------------------------------
(***************************************************************************)
(* identity_map                                                            *)
(***************************************************************************)
WithEntry(tables, t, p) == [tables EXCEPT ![t][Index(p)] = p]

\* Is there a call in progress?  panic does not return.
Mapping == page # Absent /\ pc # "out_of_memory"

\* Mutant of MapPage: it calls itself whether or not it took a page.
MapPageAndTable ==
  /\ Mapping
  /\ kernel_pages[Region(page)] # Absent
  /\ entries' = WithEntry(entries, kernel_pages[Region(page)], page)
  /\ page' = kernel_pages[Region(page)]
  /\ UNCHANGED <<free_list, header, owned, pc, otherVars, kernel_pages,
                 dummy_page_table, cursor>>

MapPage ==
  /\ Mapping
  /\ kernel_pages[Region(page)] # Absent
  /\ entries' = WithEntry(entries, kernel_pages[Region(page)], page)
  /\ page' = Absent
  /\ UNCHANGED <<free_list, header, owned, pc, otherVars, kernel_pages,
                 dummy_page_table, cursor>>

\* Mutant of NextToMap: the new table is not mapped itself.
NothingToMap == Absent

\* The recursive call's argument.
NextToMap == free_list

\* Mutant of MapPageInNewTable: memory_allocate_page returns NULL instead of
\* panicking.
MapPageInAnyTable ==
  /\ Mapping
  /\ kernel_pages[Region(page)] = Absent
  /\ kernel_pages' = [kernel_pages EXCEPT ![Region(page)] = free_list]
  /\ page' = NextToMap
  /\ UNCHANGED <<free_list, header, owned, entries, pc, otherVars,
                 dummy_page_table, cursor>>

\* While memory_allocate_page runs the directory shows the dummy table; it
\* does not use it.
MapPageInNewTable ==
  /\ Mapping
  /\ kernel_pages[Region(page)] = Absent
  /\ free_list # NULL
  /\ kernel_pages' = [kernel_pages EXCEPT ![Region(page)] = free_list]
  /\ entries' = WithEntry([entries EXCEPT ![free_list] = EmptyTable], free_list, page)
  /\ owned'     = owned \union {free_list}
  /\ num_pages' = [CountsAfter EXCEPT ![free_list] = 0]
  /\ next'      = [LinksAfter EXCEPT ![free_list] = NULL]
  /\ free_list' = Rest
  /\ page' = NextToMap
  /\ UNCHANGED <<pc, otherVars, dummy_page_table, cursor>>

MapOutOfMemory ==
  /\ Mapping
  /\ kernel_pages[Region(page)] = Absent
  /\ free_list = NULL
  /\ pc' = "out_of_memory"
  /\ UNCHANGED <<free_list, header, owned, otherVars, directory, dummy_page_table,
                 page, cursor>>

-----------------------------------------------------------------------------
(***************************************************************************)
(* memory_init_paging                                                      *)
(***************************************************************************)

\* The dummy table is taken by hand.
TakeDummy ==
  /\ pc = "start"
  /\ dummy_page_table' = free_list
  /\ owned'     = owned \union {free_list}
  /\ free_list' = Rest
  /\ num_pages' = CountsAfter
  /\ next'      = LinksAfter
  /\ cursor' = KernelStart
  /\ pc' = "map_kernel"
  /\ UNCHANGED <<otherVars, directory, page>>

\* Mutant of KernelEndsAt: the end is rounded down.
KernelEndsBelow == PageAlign(KernelEnd)

KernelEndsAt == AllocEnd

MapKernelPage ==
  /\ pc = "map_kernel" /\ page = Absent
  /\ cursor < KernelEndsAt
  /\ page'   = cursor
  /\ cursor' = cursor + 1
  /\ UNCHANGED <<free_list, header, owned, pc, otherVars, directory, dummy_page_table>>

MapDummy ==
  /\ pc = "map_kernel" /\ page = Absent
  /\ cursor >= KernelEndsAt
  /\ page' = dummy_page_table
  /\ pc'   = "map_dummy"
  /\ UNCHANGED <<free_list, header, owned, otherVars, directory, dummy_page_table, cursor>>

\* The list as it is once the kernel's page tables are taken from it.
ListStep(pages) ==
  /\ page = Absent
  /\ IF pages = NULL
     THEN /\ pc' = "paged"
          /\ UNCHANGED <<page, cursor>>
     ELSE /\ page' = pages
          /\ cursor' = pages
          /\ pc' = "map_list"
  /\ UNCHANGED <<free_list, header, owned, otherVars, directory, dummy_page_table>>

MapFirstBlock == pc = "map_dummy" /\ ListStep(free_list)

\* Has the page under the cursor become a page table with an entry where its
\* next field was?
Overwritten == cursor \in Tables /\ entries[cursor][1] # Absent

\* Mutant of MapNextBlock: a page is left out after each block.
MapNextButOne ==
  /\ pc = "map_list"
  /\ ~Overwritten
  /\ ListStep(next[next[cursor]])

MapNextBlock ==
  /\ pc = "map_list"
  /\ ~Overwritten
  /\ ListStep(next[cursor])

\* The entry is taken for a pointer, into the page it maps ...
WildPointer ==
  /\ pc = "map_list" /\ page = Absent
  /\ Overwritten
  /\ page' = entries[cursor][1]
  /\ pc' = "wild"
  /\ UNCHANGED <<free_list, header, owned, otherVars, directory, dummy_page_table, cursor>>

\* ... and what is found there is the next pointer, and so on, until a word
\* happens to be zero.
WildStep ==
  /\ pc = "wild" /\ page = Absent
  /\ page' \in Garbage
  /\ UNCHANGED <<free_list, header, owned, pc, otherVars, directory, dummy_page_table,
                 cursor>>

WildEnd ==
  /\ pc = "wild" /\ page = Absent
  /\ pc' = "paged"
  /\ UNCHANGED <<free_list, header, owned, otherVars, directory, dummy_page_table,
                 page, cursor>>

-----------------------------------------------------------------------------
IdentityMap == MapPage \/ MapPageInNewTable \/ MapOutOfMemory

MemoryInitPaging ==
  \/ TakeDummy \/ MapKernelPage \/ MapDummy \/ MapFirstBlock \/ MapNextBlock
  \/ WildPointer \/ WildStep \/ WildEnd

PagingNext == IdentityMap \/ MemoryInitPaging

\* The processor executes memory_init_paging.
PagingSpec == PagingInit /\ [][PagingNext]_pagingVars /\ WF_pagingVars(PagingNext)

-----------------------------------------------------------------------------
(***************************************************************************)
(* Properties                                                              *)
(***************************************************************************)

\* kernel_pages maps p at its own address.
Maps(p) ==
  /\ kernel_pages[Region(p)] # Absent
  /\ entries[kernel_pages[Region(p)]][Index(p)] = p

\* "the allocated page is identity mapped correctly" (memory.c:265): every
\* page table is mapped, or is about to be; no page is two of them, or free,
\* and every entry of theirs maps a page of their own region at its own
\* address.
TablesMapped ==
  /\ \A t \in Tables : Maps(t) \/ t = page
  /\ Tables \subseteq owned \ {dummy_page_table}
  /\ \A r, s \in Regions :
       kernel_pages[r] # Absent /\ kernel_pages[r] = kernel_pages[s] => r = s
  /\ \A r \in Regions : kernel_pages[r] # Absent =>
       \A e \in Entries : entries[kernel_pages[r]][e] \in {Absent, r * NumEntries + e}

\* When CR3 is loaded, the kernel image is mapped, and so is the dummy table
\* (tests/verify-paging.c checks the former).
KernelMapped ==
  pc = "paged" =>
    Maps(dummy_page_table) /\ \A p \in KernelStart .. AllocEnd - 1 : Maps(p)

\* ... and every block of the free list is mapped by its first page, the
\* first block excepted, which may have given a page to a page table after
\* it was mapped.  This needs that the walk did not end, or go astray, in a
\* page that had just become a page table: blocks behind it are left out.
BlocksMapped ==
  pc = "paged" /\ cursor \notin Tables =>
    \E H \in SUBSET Pages : IsFreeList(H) /\ \A h \in H \ {free_list} : Maps(h)

\* Page tables come out of the free list and nothing else does; the list
\* stays sorted and disjoint at every step.
PagesKept ==
  [][/\ SortedDisjointList'
     /\ FreePages' \union owned' = FreePages \union owned
     /\ FreePages' \intersect owned' = {}]_pagingVars

\* Every call of identity_map comes back or panics: the tables it maps for
\* its tables come to an end.  And the walk over the list ends, although it
\* alters the list - unless it goes astray (memory.c:436-437): from then on
\* nothing bounds it.
PagingEnds ==
  /\ Mapping ~> ~Mapping
  /\ [](pc # "wild") => (pc = "start" ~> pc \in {"paged", "out_of_memory"})
=============================================================================
