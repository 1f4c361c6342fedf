--------------------------- MODULE WindowsProofs ---------------------------
(***************************************************************************)
(* Proofs about Windows: the two windows of memory_detect and              *)
(* memory_allocate_page reach the pages FreeList says they do, and the     *)
(* addresses memory_map_physical_address gives out stay what they are, for *)
(* page tables, memories and memory maps of every size.                    *)
(*                                                                         *)
(* Both theorems assume RoomForWindows.  The second one also assumes       *)
(* WindowsNotCached (run windows_speculation shows what happens without)   *)
(* and no more: that the pages are the right ones, which takes a           *)
(* well-formed memory map, is the business of FreeListProofs.              *)
(***************************************************************************)
EXTENDS Windows, FreeListProofs

-----------------------------------------------------------------------------
(***************************************************************************)
(* The page table                                                          *)
(***************************************************************************)

\* _find_free_logical_address returns a free entry, if there is one.
LEMMA FirstIsIn ==
  ASSUME NEW S \in SUBSET Entries, S # {}
  PROVE  FirstOf(S) \in S
<1>1. S \in SUBSET Nat
  BY WindowsAssumption DEF Entries
<1>2. \E e \in S : \A f \in S : e <= f
  BY <1>1, LeastElement
<1> QED
  BY <1>2 DEF FirstOf

\* Reading or writing through windows never changes where entries lead.
LEMMA TouchKeepsReach ==
  ASSUME NEW S, NEW e \in Entries,
         tlb \in [Entries -> Frames \union {Absent}],
         tlb' = Touch(S), UNCHANGED kernel_land
  PROVE  Reach(e)' = Reach(e)
  BY DEF Reach, Touch

\* What an access leaves in the TLB is what was there or in the page table.
LEMMA Touched ==
  ASSUME NEW S
  PROVE  /\ Touch(S) = [e \in Entries |-> Touch(S)[e]]
         /\ \A e \in Entries : Touch(S)[e] \in {tlb[e], kernel_land[e]}
  BY DEF Touch, Reach

-----------------------------------------------------------------------------
(***************************************************************************)
(* The inductive invariant                                                 *)
(***************************************************************************)

\* Two tables with an entry for each page, and what was handed out.
Tables ==
  /\ kernel_land = [e \in Entries |-> kernel_land[e]]
  /\ tlb = [e \in Entries |-> tlb[e]]
  /\ mappings \in SUBSET (Entries \X Frames)

\* The windows are the first two entries the loader has left, for ever.
WindowsChosen ==
  IF pc = "boot"
  THEN /\ free_logical_address1 = Absent /\ free_logical_address2 = Absent
       /\ mappings = {}
       /\ \A e \in Entries : kernel_land[e] = Absent <=> ~LoaderMaps(e)
  ELSE /\ Windows = BootWindows
       /\ free_logical_address1 \in Entries /\ free_logical_address2 \in Entries
       /\ free_logical_address1 # free_logical_address2
       /\ logical_pages \in Windows

\* Only the windows are ever remapped: any other entry that is absent has
\* never been present, and is not in the TLB.
NothingStale ==
  \A e \in Entries \ Windows : kernel_land[e] = Absent => tlb[e] = Absent

TableInv == Tables /\ WindowsChosen /\ NothingStale /\ MappingsStand

\* Where memory_detect's accesses go: the block it writes, and the one before.
DetectReach ==
  /\ pc \in {"detect", "detect_write"} /\ tail # AtListHead =>
       Reach(NextWindow) = tail
  /\ pc = "detect_write" =>
       /\ chunk <= Len(MemoryMap)
       /\ IsFree(MemoryMap[chunk])
       /\ Reach(logical_pages) = StartPage(MemoryMap[chunk])

\* Where memory_allocate_page's accesses go.  A window that is remapped
\* without a flush is not in the TLB.
AllocateReach ==
  /\ pc = "idle" /\ has_memory_map => tlb[free_logical_address1] = Absent
  /\ pc \in {"idle", "allocate_read", "allocate_done"} /\ has_memory_map =>
       tlb[free_logical_address2] = Absent
  /\ pc \in {"allocate_read", "allocate_copy"} =>
       /\ free_list # NULL
       /\ Reach(free_logical_address1) = free_list
  /\ pc = "allocate_copy" =>
       /\ num_pages[free_list] # 1
       /\ next_list = NextFrame(free_list)
       /\ Reach(free_logical_address2) = next_list

WindowTypes ==
  /\ free_list \in Frames /\ next_list \in Frames
  /\ num_pages \in [Frames -> Int] /\ next \in [Frames -> Frames]
  /\ pc \in {"boot", "detect", "detect_write", "idle", "allocate_read", "allocate_copy",
             "allocate_done", "out_of_memory", "no_address"}
  /\ chunk \in 1 .. Len(MemoryMap) + 1
  /\ has_memory_map \in BOOLEAN

AccessInv ==
  /\ pc = "boot" => tail = AtListHead /\ free_list = NULL
  /\ ~has_memory_map =>
       /\ pc \in {"boot", "idle", "out_of_memory", "no_address"}
       /\ free_list = NULL
  /\ WindowTypes /\ DetectReach /\ AllocateReach

-----------------------------------------------------------------------------
(***************************************************************************)
(* The addresses handed out                                                *)
(***************************************************************************)

\* memory_detect finds two entries, and they are different.
LEMMA BootWindowsAreTwo ==
  ASSUME RoomForWindows
  PROVE  LET first  == FirstOf(UnmappedAtBoot)
             second == FirstOf(UnmappedAtBoot \ {first})
         IN  /\ first \in UnmappedAtBoot /\ second \in UnmappedAtBoot
             /\ first # second
             /\ BootWindows = {first, second}
<1> DEFINE first  == FirstOf(UnmappedAtBoot)
           second == FirstOf(UnmappedAtBoot \ {first})
<1>1. UnmappedAtBoot \in SUBSET Entries
  BY DEF UnmappedAtBoot
<1>2. first \in UnmappedAtBoot
  BY <1>1, FirstIsIn DEF RoomForWindows
<1>3. UnmappedAtBoot \ {first} \in SUBSET Entries /\ UnmappedAtBoot \ {first} # {}
  BY <1>1 DEF RoomForWindows
<1>4. second \in UnmappedAtBoot \ {first}
  <2> HIDE DEF first
  <2> QED  BY <1>3, FirstIsIn
<1> QED
  BY <1>2, <1>4 DEF BootWindows

\* memory_detect's two searches find the first two entries left.
LEMMA DetectWindowsChooses ==
  ASSUME RoomForWindows, WindowsChosen, DetectWindows
  PROVE  /\ Windows' = BootWindows
         /\ free_logical_address1' \in UnmappedAtBoot
         /\ free_logical_address2' \in UnmappedAtBoot
         /\ free_logical_address1' # free_logical_address2'
         /\ logical_pages' = free_logical_address1'
<1> DEFINE first  == FirstOf(UnmappedAtBoot)
<1>1. \A e \in Entries : e # Absent
  BY WindowsAssumption DEF Entries, Absent
<1>2. \A e \in Entries : kernel_land[e] = Absent <=> ~LoaderMaps(e)
  BY DEF WindowsChosen, DetectWindows
<1>3. FreeEntries({Absent}) = UnmappedAtBoot
  BY <1>1, <1>2 DEF FreeEntries, UnmappedAtBoot
<1>4. FreeEntries({Absent, first}) = UnmappedAtBoot \ {first}
  <2> HIDE DEF first
  <2> QED  BY <1>1, <1>2 DEF FreeEntries, UnmappedAtBoot
<1>5. /\ free_logical_address1' = first
      /\ free_logical_address2' = FirstOf(UnmappedAtBoot \ {first})
      /\ logical_pages' = first
  BY <1>3, <1>4 DEF DetectWindows
<1>6. /\ first \in UnmappedAtBoot
      /\ FirstOf(UnmappedAtBoot \ {first}) \in UnmappedAtBoot
      /\ first # FirstOf(UnmappedAtBoot \ {first})
      /\ BootWindows = {first, FirstOf(UnmappedAtBoot \ {first})}
  BY BootWindowsAreTwo
<1>7. Windows' = BootWindows
  <2> HIDE DEF first
  <2> QED  BY <1>5, <1>6 DEF Windows
<1> QED
  BY <1>5, <1>6, <1>7

\* The page table the boot loader leaves satisfies the invariant.
LEMMA TableInit ==
  WindowsInit => TableInv
<1> SUFFICES ASSUME WindowsInit
             PROVE  TableInv
  OBVIOUS
<1>1. Tables
  BY DEF WindowsInit, Tables
<1>2. WindowsChosen
  BY WindowsAssumption DEF WindowsInit, WindowsChosen, Entries, Absent
<1>3. NothingStale /\ MappingsStand
  BY DEF WindowsInit, NothingStale, MappingsStand
<1> QED
  BY <1>1, <1>2, <1>3 DEF TableInv

\* The page that an address below the end of memory lies in is a page.
LEMMA PageNumbers ==
  /\ Absent \notin Frames
  /\ NULL \in Frames
  /\ \A c \in Chunk : StartPage(c) \in Frames /\ NumPages(c) \in Int
  /\ \A p \in Frames : NextFrame(p) \in Frames
<1>1. Absent \notin Frames /\ NULL \in Frames
  BY FrameTypes DEF Absent
<1>2. \A c \in Chunk : StartPage(c) \in Frames /\ NumPages(c) \in Int
  BY ChunkTypes
<1>3. \A p \in Frames : NextFrame(p) \in Frames
  <2>1. \A p \in Frames : p + 1 \in Int
    BY FrameTypes
  <2> QED  BY <2>1, ModRange DEF NextFrame
<1> QED
  BY <1>1, <1>2, <1>3

\* No step changes an entry of the page table that is not a window, but for
\* memory_map_physical_address, which takes one that is absent.
WindowsRemapped ==
  /\ mappings' = mappings
  /\ \A e \in Entries \ Windows : kernel_land'[e] = kernel_land[e]
  /\ \A e \in Entries \ Windows : tlb'[e] \in {tlb[e], kernel_land[e]}

AddressGiven ==
  \E entry \in FreeEntries(Windows), frame \in Requests :
    /\ kernel_land' = [kernel_land EXCEPT ![entry] = frame]
    /\ mappings' = mappings \union {<<entry, frame>>}
    /\ tlb' = tlb

\* No access of the allocator, and no map or unmap, breaks the invariant of the
\* windows, once memory_detect has chosen them.
LEMMA TableStep ==
  ASSUME TableInv, WindowsNext, pc # "boot"
  PROVE  /\ UNCHANGED <<free_logical_address1, free_logical_address2, has_memory_map>>
         /\ logical_pages' \in Windows
         /\ pc' # "boot"
         /\ Tables'
         /\ WindowsRemapped \/ AddressGiven
<1> DEFINE Goal == /\ UNCHANGED <<free_logical_address1, free_logical_address2, has_memory_map>>
                   /\ logical_pages' \in Windows
                   /\ pc' # "boot"
                   /\ Tables'
                   /\ WindowsRemapped \/ AddressGiven
<1> SUFFICES Goal
  OBVIOUS
<1>1. /\ logical_pages \in Windows
      /\ free_logical_address1 \in Entries /\ free_logical_address2 \in Entries
      /\ Tables
  BY DEF TableInv, WindowsChosen
<1>2. CASE DetectSkipChunk
  BY <1>1, <1>2 DEF DetectSkipChunk, DetectSkip, windows, locals, Tables, WindowsRemapped
<1>3. CASE DetectMap
  BY <1>1, <1>3 DEF DetectMap, MapEntry, FlushedTlb, windows, locals, Tables, WindowsRemapped
<1>4. CASE DetectWrite
  <2>1. PICK S : tlb' = Touch(S)
    BY <1>4 DEF DetectWrite
  <2>2. /\ kernel_land' = kernel_land /\ mappings' = mappings
        /\ UNCHANGED windows
        /\ logical_pages' = NextWindow /\ pc' = "detect"
    BY <1>4 DEF DetectWrite
  <2>3. Tables' /\ WindowsRemapped
    BY <1>1, <2>1, <2>2, Touched DEF Tables, WindowsRemapped
  <2> QED
    BY <2>2, <2>3 DEF windows, NextWindow, OtherWindow, Windows
<1>5. CASE DetectPark
  BY <1>1, <1>5 DEF DetectPark, DetectDone, Park, ParkedTable, FlushedTlb, windows, locals,
    Tables, WindowsRemapped
<1>6. CASE AllocatePanic
  BY <1>1, <1>6 DEF AllocatePanic, AllocateOutOfMemory, windows, locals, Tables, WindowsRemapped
<1>7. CASE AllocateMap
  BY <1>1, <1>7 DEF AllocateMap, MapEntry, windows, locals, Windows, Tables, WindowsRemapped
<1>8. CASE AllocateRead
  <2>1. /\ tlb' = Touch({free_logical_address1}) /\ mappings' = mappings
        /\ UNCHANGED <<windows, logical_pages>> /\ pc' # "boot"
    BY <1>8 DEF AllocateRead
  <2>2. \/ kernel_land' = kernel_land
        \/ kernel_land' = [kernel_land EXCEPT ![free_logical_address2] = NextFrame(free_list)]
    BY <1>8 DEF AllocateRead, MapEntry
  <2>3. Tables' /\ WindowsRemapped
    BY <1>1, <2>1, <2>2, Touched DEF Tables, WindowsRemapped, Windows
  <2> QED
    BY <1>1, <2>1, <2>3 DEF windows, Windows
<1>9. CASE AllocateCopy
  BY <1>1, <1>9, Touched DEF AllocateCopy, FlushCopied, ParkedTable, windows, locals, Windows,
    Tables, WindowsRemapped
<1>10. CASE AllocateReturn
  BY <1>1, <1>10 DEF AllocateReturn, Park, ParkedTable, FlushedTlb, windows, Windows,
    Tables, WindowsRemapped
<1>11. ASSUME NEW frame \in Requests, MapPhysicalAddress(frame)
       PROVE  Goal
  <2>1. PICK entry : entry = FirstOf(FreeEntries(Windows))
    OBVIOUS
  <2>2. FreeEntries(Windows) \in SUBSET Entries /\ entry \in FreeEntries(Windows)
    BY <1>11, <2>1, FirstIsIn DEF MapPhysicalAddress, FreeEntries
  <2>3. /\ kernel_land' = [kernel_land EXCEPT ![entry] = frame]
        /\ mappings' = mappings \union {<<entry, frame>>}
        /\ UNCHANGED <<vars, tlb, windows, locals>>
    BY <1>11, <2>1 DEF MapPhysicalAddress, MapEntry
  <2>4. frame \in Frames /\ entry \in Entries
    BY <2>2, WindowsAssumption
  <2>5. Tables'
    BY <1>1, <2>3, <2>4 DEF Tables
  <2>6. AddressGiven
    BY <2>2, <2>3 DEF AddressGiven
  <2> QED
    BY <1>1, <2>3, <2>5, <2>6 DEF vars, windows, locals
<1>12. CASE MapNoAddress
  BY <1>1, <1>12 DEF MapNoAddress, windows, locals, Tables, WindowsRemapped
<1>13. ASSUME NEW e \in Speculated, Speculate(e)
       PROVE  Goal
  BY <1>1, <1>13 DEF Speculate, vars, windows, locals, Tables, WindowsRemapped
<1>14. ~DetectWindows
  BY DEF DetectWindows
<1> HIDE DEF Goal
<1> QED
  BY <1>2, <1>3, <1>4, <1>5, <1>6, <1>7, <1>8, <1>9, <1>10, <1>11, <1>12, <1>13, <1>14
    DEF WindowsNext, WindowsStep

\* The step at which memory_detect chooses the windows, or one before it.
LEMMA TableStepAtBoot ==
  ASSUME RoomForWindows, TableInv, WindowsNext, pc = "boot"
  PROVE  TableInv'
<1>1. Tables /\ WindowsChosen /\ NothingStale /\ mappings = {}
  BY DEF TableInv, WindowsChosen
<1>2. \A e \in Entries : e \notin Windows
  BY <1>1, WindowsAssumption DEF WindowsChosen, Windows, Entries, Absent
<1>3. CASE DetectWindows
  <2>1. WindowsChosen'
    <3>1. pc' # "boot"
      BY <1>3 DEF DetectWindows
    <3> QED
      BY <1>1, <1>3, <3>1, DetectWindowsChooses DEF WindowsChosen, Windows, UnmappedAtBoot
  <2>2. UNCHANGED <<kernel_land, tlb, mappings>>
    BY <1>3 DEF DetectWindows
  <2>3. Tables' /\ NothingStale' /\ MappingsStand'
    BY <1>1, <1>2, <2>2 DEF Tables, NothingStale, MappingsStand
  <2> QED
    BY <2>1, <2>3 DEF TableInv
<1>4. ASSUME NEW e \in Speculated, Speculate(e)
      PROVE  TableInv'
  <2>1. /\ kernel_land[e] # Absent
        /\ tlb' = [tlb EXCEPT ![e] = kernel_land[e]]
        /\ UNCHANGED <<pc, kernel_land, windows, logical_pages, mappings>>
    BY <1>4 DEF Speculate, vars, locals
  <2>2. WindowsChosen'
    BY <1>1, <2>1 DEF WindowsChosen, windows, Windows
  <2>3. Tables' /\ NothingStale' /\ MappingsStand'
    BY <1>1, <2>1 DEF Tables, NothingStale, MappingsStand, windows, Windows
  <2> QED
    BY <2>2, <2>3 DEF TableInv
<1> QED
  BY <1>3, <1>4 DEF WindowsNext, WindowsStep, DetectSkipChunk, DetectSkip, DetectMap,
    DetectWrite, DetectPark, DetectDone, AllocatePanic, AllocateOutOfMemory, AllocateMap,
    AllocateRead, AllocateCopy, AllocateReturn, MapPhysicalAddress, MapNoAddress

\* So those steps keep the first invariant.
LEMMA TableStepLater ==
  ASSUME TableInv, WindowsNext, pc # "boot"
  PROVE  TableInv'
<1>1. /\ Windows' = Windows
      /\ pc' # "boot"
      /\ Tables'
      /\ WindowsRemapped \/ AddressGiven
  BY TableStep DEF Windows
<1>2. Tables /\ WindowsChosen /\ NothingStale /\ MappingsStand
  BY DEF TableInv
<1>3. WindowsChosen'
  BY <1>1, <1>2, TableStep DEF WindowsChosen
<1>4. CASE WindowsRemapped
  <2>1. NothingStale'
    BY <1>1, <1>2, <1>4 DEF NothingStale, WindowsRemapped
  <2>2. MappingsStand'
    <3> SUFFICES ASSUME NEW m \in mappings
                 PROVE  /\ m[1] \notin Windows
                        /\ kernel_land'[m[1]] = m[2]
                        /\ tlb'[m[1]] \in {Absent, m[2]}
      BY <1>1, <1>4 DEF MappingsStand, WindowsRemapped
    <3>1. /\ m[1] \in Entries \ Windows
          /\ kernel_land[m[1]] = m[2] /\ tlb[m[1]] \in {Absent, m[2]}
      BY <1>2 DEF MappingsStand, Tables
    <3> QED
      BY <1>4, <3>1 DEF WindowsRemapped
  <2> QED
    BY <1>1, <1>3, <2>1, <2>2 DEF TableInv
<1>5. CASE AddressGiven
  <2>1. PICK entry \in FreeEntries(Windows), frame \in Requests :
          /\ kernel_land' = [kernel_land EXCEPT ![entry] = frame]
          /\ mappings' = mappings \union {<<entry, frame>>}
          /\ tlb' = tlb
    BY <1>5 DEF AddressGiven
  <2>2. /\ entry \in Entries \ Windows /\ kernel_land[entry] = Absent /\ tlb[entry] = Absent
        /\ frame \in Frames /\ frame # Absent
    BY <1>2, WindowsAssumption, PageNumbers DEF FreeEntries, NothingStale
  <2>3. NothingStale'
    BY <1>1, <1>2, <2>1, <2>2 DEF NothingStale, Tables
  <2>4. MappingsStand'
    <3> SUFFICES ASSUME NEW m \in mappings'
                 PROVE  /\ m[1] \notin Windows
                        /\ kernel_land'[m[1]] = m[2]
                        /\ tlb'[m[1]] \in {Absent, m[2]}
      BY <1>1 DEF MappingsStand
    <3>1. CASE m \in mappings
      <4>1. /\ m[1] \in Entries \ Windows /\ m[2] \in Frames
            /\ kernel_land[m[1]] = m[2] /\ tlb[m[1]] \in {Absent, m[2]}
        BY <1>2, <3>1 DEF MappingsStand, Tables
      <4>2. m[1] # entry
        BY <2>2, <4>1, PageNumbers
      <4> QED
        BY <1>2, <2>1, <2>2, <4>1, <4>2 DEF Tables
    <3>2. CASE m = <<entry, frame>>
      BY <1>2, <2>1, <2>2, <3>2 DEF Tables
    <3> QED
      BY <2>1, <3>1, <3>2
  <2> QED
    BY <1>1, <1>3, <2>3, <2>4 DEF TableInv
<1> QED
  BY <1>1, <1>4, <1>5

\* An address that memory_map_physical_address has returned goes on leading
\* to its frame, however many more it gives out, whatever is allocated and
\* whatever the processor caches.
THEOREM MappingsNeverMove ==
  RoomForWindows => (WindowsSpec => []MappingsStand)
<1> SUFFICES ASSUME RoomForWindows
             PROVE  WindowsSpec => []MappingsStand
  OBVIOUS
<1>1. WindowsInit => TableInv
  BY TableInit
<1>2. TableInv /\ [WindowsNext]_windowsVars => TableInv'
  <2>1. ASSUME TableInv, UNCHANGED windowsVars
        PROVE  TableInv'
    BY <2>1 DEF TableInv, Tables, WindowsChosen, NothingStale, MappingsStand, Windows,
      windowsVars, vars, windows, locals
  <2> QED
    BY <2>1, TableStepAtBoot, TableStepLater
<1>3. TableInv => MappingsStand
  BY DEF TableInv
<1> QED
  BY <1>1, <1>2, <1>3, PTL DEF WindowsSpec

-----------------------------------------------------------------------------
(***************************************************************************)
(* What the windows reach                                                  *)
(***************************************************************************)

\* What the two routines may rely on after memory_detect's first step.
BothWindows ==
  /\ free_logical_address1 \in Entries \ Speculated
  /\ free_logical_address2 \in Entries \ Speculated
  /\ free_logical_address1 # free_logical_address2
  /\ \/ logical_pages = free_logical_address1 /\ NextWindow = free_logical_address2
     \/ logical_pages = free_logical_address2 /\ NextWindow = free_logical_address1

\* The windows are those that memory_detect takes at boot.
LEMMA WindowsKnown ==
  ASSUME WindowsNotCached, TableInv, pc # "boot"
  PROVE  BothWindows
<1>1. /\ Windows = BootWindows /\ logical_pages \in Windows
      /\ free_logical_address1 \in Entries /\ free_logical_address2 \in Entries
      /\ free_logical_address1 # free_logical_address2
  BY DEF TableInv, WindowsChosen
<1> QED
  BY <1>1 DEF BothWindows, Windows, NextWindow, OtherWindow, WindowsNotCached

\* The second invariant holds at boot.
LEMMA AccessInit ==
  WindowsInit => AccessInv
<1> SUFFICES ASSUME WindowsInit
             PROVE  AccessInv
  OBVIOUS
<1>1. PICK h \in Scribbles : /\ num_pages = [p \in Frames |-> h.num_pages]
                             /\ next      = [p \in Frames |-> h.next]
  BY DEF WindowsInit
<1>2. h.num_pages \in Int /\ h.next \in Frames
  BY MemoryAssumption DEF Header
<1>3. chunk \in 1 .. Len(MemoryMap) + 1
  BY MemoryAssumption DEF WindowsInit
<1>4. WindowTypes
  BY <1>1, <1>2, <1>3, PageNumbers DEF WindowsInit, WindowTypes
<1> QED
  BY <1>4 DEF WindowsInit, AccessInv, DetectReach, AllocateReach

\* memory_detect's steps keep the invariant.
LEMMA AccessDetect ==
  ASSUME TableInv, AccessInv, BothWindows, WindowsNotCached, pc # "boot",
         DetectSkipChunk \/ DetectMap \/ DetectWrite \/ DetectPark
  PROVE  AccessInv'
<1>1. Tables /\ WindowTypes /\ DetectReach /\ MemoryMap \in Seq(Chunk)
  BY MemoryAssumption DEF TableInv, AccessInv
<1>2. pc \in {"detect", "detect_write"} => has_memory_map /\ has_memory_map'
  BY DEF AccessInv, DetectSkipChunk, DetectMap, DetectWrite, DetectPark, windows
<1>3. chunk <= Len(MemoryMap) => MemoryMap[chunk] \in Chunk
  BY <1>1 DEF WindowTypes
<1>4. CASE DetectSkipChunk
  <2>1. /\ pc = "detect" /\ pc' = "detect" /\ chunk <= Len(MemoryMap) /\ chunk' = chunk + 1
        /\ UNCHANGED <<free_list, next_list, num_pages, next, tail, kernel_land, tlb, windows,
                       logical_pages>>
    BY <1>4 DEF DetectSkipChunk, DetectSkip, header, locals
  <2>2. WindowTypes'
    BY <1>1, <2>1 DEF WindowTypes, windows
  <2>3. DetectReach'
    BY <1>1, <2>1 DEF DetectReach, Reach, NextWindow, OtherWindow, windows
  <2> QED
    BY <1>2, <2>1, <2>2, <2>3 DEF AccessInv, AllocateReach
<1>5. CASE DetectMap
  <2>1. /\ pc = "detect" /\ pc' = "detect_write"
        /\ chunk <= Len(MemoryMap) /\ IsFree(MemoryMap[chunk])
        /\ kernel_land' = [kernel_land EXCEPT ![logical_pages] = StartPage(MemoryMap[chunk])]
        /\ tlb' = FlushedTlb({logical_pages})
        /\ UNCHANGED <<free_list, next_list, num_pages, next, chunk, tail, windows, logical_pages>>
    BY <1>5 DEF DetectMap, MapEntry, listVars, detectVars, locals
  <2>2. WindowTypes'
    BY <1>1, <2>1 DEF WindowTypes, windows
  <2>3. logical_pages \in Entries /\ NextWindow \in Entries /\ NextWindow # logical_pages
    BY DEF BothWindows
  <2>4. NextWindow' = NextWindow
    BY <2>1 DEF NextWindow, OtherWindow, windows
  <2>5. Reach(NextWindow)' = Reach(NextWindow)
    BY <1>1, <2>1, <2>3, <2>4 DEF Reach, Tables, FlushedTlb
  <2>6. Reach(logical_pages)' = StartPage(MemoryMap[chunk])
    BY <1>1, <2>1, <2>3 DEF Reach, Tables, FlushedTlb
  <2>7. DetectReach'
    BY <1>1, <2>1, <2>5, <2>6 DEF DetectReach
  <2> QED
    BY <1>2, <2>1, <2>2, <2>7 DEF AccessInv, AllocateReach
<1>6. CASE DetectWrite
  <2>1. /\ pc = "detect_write" /\ pc' = "detect"
        /\ chunk <= Len(MemoryMap) /\ chunk' = chunk + 1
        /\ logical_pages' = NextWindow
        /\ tail' = StartPage(MemoryMap[chunk])
        /\ UNCHANGED <<next_list, kernel_land, windows>>
    BY <1>1, <1>6 DEF DetectWrite, DetectReach
  <2>2. PICK S : tlb' = Touch(S)
    BY <1>6 DEF DetectWrite
  <2>3. Reach(logical_pages) = StartPage(MemoryMap[chunk]) /\ StartPage(MemoryMap[chunk]) \in Frames
        /\ NumPages(MemoryMap[chunk]) \in Int
    BY <1>1, <1>3, <2>1, PageNumbers DEF DetectReach
  <2>4. WindowTypes'
    <3>1. free_list' \in Frames
      BY <1>1, <1>6, <2>3 DEF DetectWrite, WindowTypes
    <3>2. num_pages' \in [Frames -> Int]
      BY <1>1, <1>6, <2>3 DEF DetectWrite, WindowTypes
    <3>3. next' \in [Frames -> Frames]
      BY <1>1, <1>6, <2>3, PageNumbers DEF DetectWrite, WindowTypes
    <3> QED
      BY <1>1, <2>1, <3>1, <3>2, <3>3 DEF WindowTypes, windows
  <2>5. Reach(NextWindow)' = Reach(logical_pages)
    <3>1. (NextWindow)' = logical_pages
      BY <2>1 DEF BothWindows, NextWindow, OtherWindow, windows
    <3>2. logical_pages \in Entries
      BY DEF BothWindows
    <3>3. tlb'[logical_pages] \in {tlb[logical_pages], Reach(logical_pages)}
      BY <2>2, <3>2 DEF Touch
    <3>4. kernel_land'[logical_pages] = kernel_land[logical_pages]
      BY <2>1
    <3> QED
      BY <2>2, <3>1, <3>2, <3>3, <3>4 DEF Reach, Touch
  <2>6. DetectReach'
    BY <2>1, <2>3, <2>5 DEF DetectReach
  <2> QED
    BY <1>2, <2>1, <2>4, <2>6 DEF AccessInv, AllocateReach
<1>7. CASE DetectPark
  <2>1. /\ pc = "detect" /\ pc' = "idle"
        /\ tlb' = FlushedTlb(Windows)
        /\ UNCHANGED <<free_list, next_list, num_pages, next, chunk, windows>>
    BY <1>7 DEF DetectPark, DetectDone, header, detectVars, locals, Park
  <2>2. WindowTypes'
    BY <1>1, <2>1 DEF WindowTypes, windows
  <2>3. tlb'[free_logical_address1] = Absent /\ tlb'[free_logical_address2] = Absent
    BY <2>1 DEF BothWindows, FlushedTlb, Windows
  <2> QED
    BY <1>2, <2>1, <2>2, <2>3 DEF AccessInv, DetectReach, AllocateReach, windows
<1> QED
  BY <1>4, <1>5, <1>6, <1>7

\* memory_allocate_page's steps keep the invariant.
LEMMA AccessAllocate ==
  ASSUME TableInv, AccessInv, BothWindows, pc # "boot",
         AllocatePanic \/ AllocateMap \/ AllocateRead \/ AllocateCopy \/ AllocateReturn
  PROVE  AccessInv'
<1> DEFINE w1 == free_logical_address1
           w2 == free_logical_address2
<1>1. /\ Tables /\ WindowTypes /\ AllocateReach
      /\ w1 \in Entries /\ w2 \in Entries /\ w1 # w2
  BY DEF TableInv, AccessInv, BothWindows
<1>2. free_list # NULL => has_memory_map
  BY DEF AccessInv
<1>3. CASE AllocatePanic
  <2>1. /\ pc' = "out_of_memory"
        /\ UNCHANGED <<free_list, next_list, num_pages, next, chunk, has_memory_map>>
    BY <1>3 DEF AllocatePanic, AllocateOutOfMemory, header, detectVars, windows, locals
  <2>2. WindowTypes'
    BY <1>1, <2>1 DEF WindowTypes
  <2> QED
    BY <1>2, <2>1, <2>2 DEF AccessInv, DetectReach, AllocateReach
<1>4. CASE AllocateMap
  <2>1. /\ pc = "idle" /\ pc' = "allocate_read" /\ free_list # NULL
        /\ kernel_land' = [kernel_land EXCEPT ![w1] = free_list]
        /\ UNCHANGED <<free_list, next_list, num_pages, next, chunk, tlb, windows>>
    BY <1>4 DEF AllocateMap, MapEntry, listVars, detectVars, locals
  <2>2. WindowTypes'
    BY <1>1, <2>1 DEF WindowTypes, windows
  <2>3. tlb[w1] = Absent /\ tlb[w2] = Absent
    BY <1>1, <1>2, <2>1 DEF AllocateReach
  <2>4. Reach(free_logical_address1)' = free_list /\ tlb'[w2] = Absent
    BY <1>1, <2>1, <2>3 DEF Reach, Tables, windows
  <2>5. AllocateReach'
    BY <2>1, <2>4 DEF AllocateReach, windows
  <2> QED
    BY <1>2, <2>1, <2>2, <2>5 DEF AccessInv, DetectReach, windows
<1>5. CASE AllocateRead
  <2>1. /\ pc = "allocate_read" /\ free_list # NULL /\ Reach(w1) = free_list
        /\ tlb[w2] = Absent /\ has_memory_map
    BY <1>1, <1>2, <1>5 DEF AllocateRead, AllocateReach
  <2>2. /\ tlb' = Touch({w1})
        /\ UNCHANGED <<free_list, num_pages, next, chunk, windows>>
    BY <1>5 DEF AllocateRead, listVars, detectVars
  <2>3. tlb'[w2] = Absent
    BY <1>1, <2>1, <2>2 DEF Touch
  <2>4. free_list \in Frames /\ free_list # Absent
    BY <1>1, PageNumbers DEF WindowTypes
  <2>5. CASE num_pages[free_list] = 1
    <3>1. next_list' = next[free_list] /\ pc' = "allocate_done"
      BY <1>5, <2>1, <2>5 DEF AllocateRead
    <3>2. WindowTypes'
      BY <1>1, <2>2, <3>1 DEF WindowTypes, windows
    <3> QED
      BY <2>1, <2>2, <2>3, <3>1, <3>2 DEF AccessInv, DetectReach, AllocateReach, windows
  <2>6. CASE num_pages[free_list] # 1
    <3>1. /\ next_list' = NextFrame(free_list) /\ pc' = "allocate_copy"
          /\ kernel_land' = [kernel_land EXCEPT ![w2] = NextFrame(free_list)]
      BY <1>5, <2>1, <2>6 DEF AllocateRead, MapEntry
    <3>2. WindowTypes'
      BY <1>1, <2>2, <2>4, <3>1, PageNumbers DEF WindowTypes, windows
    <3>3. Reach(free_logical_address1)' = free_list
      <4>1. tlb'[w1] = free_list
        BY <1>1, <2>1, <2>2 DEF Touch
      <4> QED
        BY <2>2, <2>4, <4>1 DEF Reach, windows
    <3>4. Reach(free_logical_address2)' = NextFrame(free_list)
      BY <1>1, <2>2, <2>3, <3>1 DEF Reach, Tables, windows
    <3> QED
      BY <2>1, <2>2, <2>6, <3>1, <3>2, <3>3, <3>4 DEF AccessInv, DetectReach, AllocateReach, windows
  <2> QED
    BY <2>5, <2>6
<1>6. CASE AllocateCopy
  <2>1. /\ pc = "allocate_copy" /\ pc' = "allocate_done" /\ has_memory_map
        /\ Reach(w1) = free_list /\ Reach(w2) = next_list
    BY <1>1, <1>2, <1>6 DEF AllocateCopy, AllocateReach
  <2>2. /\ tlb' = FlushCopied
        /\ num_pages' = [num_pages EXCEPT ![next_list] = num_pages[free_list] - 1]
        /\ next' = [next EXCEPT ![next_list] = next[free_list]]
        /\ UNCHANGED <<free_list, next_list, chunk, windows>>
    BY <1>6, <2>1 DEF AllocateCopy, detectVars, locals
  <2>3. WindowTypes'
    BY <1>1, <2>1, <2>2 DEF WindowTypes, windows
  <2>4. tlb'[w2] = Absent
    BY <1>1, <2>2 DEF FlushCopied
  <2> QED
    BY <2>1, <2>2, <2>3, <2>4 DEF AccessInv, DetectReach, AllocateReach, windows
<1>7. CASE AllocateReturn
  <2>1. /\ pc = "allocate_done" /\ pc' = "idle"
        /\ free_list' = next_list /\ next_list' = NULL
        /\ tlb' = FlushedTlb({w1})
        /\ UNCHANGED <<num_pages, next, chunk, windows>>
    BY <1>7 DEF AllocateReturn, Park, detectVars
  <2>2. has_memory_map /\ tlb[w2] = Absent
    BY <1>1, <2>1 DEF AccessInv, AllocateReach, WindowTypes
  <2>3. WindowTypes'
    BY <1>1, <2>1, PageNumbers DEF WindowTypes, windows
  <2>4. tlb'[w1] = Absent /\ tlb'[w2] = Absent
    BY <1>1, <2>1, <2>2 DEF FlushedTlb
  <2> QED
    BY <2>1, <2>2, <2>3, <2>4 DEF AccessInv, DetectReach, AllocateReach, windows
<1> QED
  BY <1>3, <1>4, <1>5, <1>6, <1>7

\* What the processor caches early is not one of the windows; what
\* memory_map_physical_address maps is not either.
LEMMA AccessOther ==
  ASSUME TableInv, AccessInv, BothWindows, pc # "boot",
         \/ \E frame \in Requests : MapPhysicalAddress(frame)
         \/ MapNoAddress
         \/ \E e \in Speculated : Speculate(e)
  PROVE  AccessInv'
<1>1. /\ Tables /\ WindowTypes /\ AllocateReach /\ DetectReach
      /\ free_logical_address1 \in Entries /\ free_logical_address2 \in Entries
      /\ logical_pages \in Windows /\ NextWindow \in Windows
  BY DEF TableInv, AccessInv, BothWindows, Windows
<1>2. CASE MapNoAddress
  <2>1. /\ pc = "idle" /\ pc' = "no_address"
        /\ UNCHANGED <<free_list, next_list, num_pages, next, chunk, has_memory_map>>
    BY <1>2 DEF MapNoAddress, listVars, detectVars, windows, locals
  <2>2. WindowTypes'
    BY <1>1, <2>1 DEF WindowTypes
  <2> QED
    BY <2>1, <2>2 DEF AccessInv, DetectReach, AllocateReach
<1>3. ASSUME /\ UNCHANGED <<vars, windows, locals>>
             /\ \A e \in Windows : tlb'[e] = tlb[e] /\ kernel_land'[e] = kernel_land[e]
      PROVE  AccessInv'
  <2>1. \A e \in Windows : (IF tlb'[e] # Absent THEN tlb'[e] ELSE kernel_land'[e]) = Reach(e)
    BY <1>3 DEF Reach
  <2>2. /\ Reach(NextWindow)' = Reach(NextWindow)
        /\ Reach(logical_pages)' = Reach(logical_pages)
        /\ Reach(free_logical_address1)' = Reach(free_logical_address1)
        /\ Reach(free_logical_address2)' = Reach(free_logical_address2)
    <3>1. (NextWindow)' = NextWindow
      BY <1>3 DEF NextWindow, OtherWindow, windows, locals
    <3> QED
      BY <1>1, <1>3, <2>1, <3>1 DEF Reach, windows, locals, Windows
  <2>3. WindowTypes'
    BY <1>1, <1>3 DEF WindowTypes, vars, windows, locals, detectVars
  <2>4. DetectReach' /\ AllocateReach'
    BY <1>1, <1>3, <2>2 DEF DetectReach, AllocateReach, vars, windows, locals, detectVars, Windows
  <2> QED
    BY <1>3, <2>3, <2>4 DEF AccessInv, vars, windows, detectVars
<1>4. ASSUME NEW frame \in Requests, MapPhysicalAddress(frame)
      PROVE  AccessInv'
  <2>1. PICK entry : entry = FirstOf(FreeEntries(Windows))
    OBVIOUS
  <2>2. FreeEntries(Windows) \in SUBSET Entries /\ entry \in FreeEntries(Windows)
    BY <1>4, <2>1, FirstIsIn DEF MapPhysicalAddress, FreeEntries
  <2>3. /\ kernel_land' = [kernel_land EXCEPT ![entry] = frame]
        /\ UNCHANGED <<vars, tlb, windows, locals>>
    BY <1>4, <2>1 DEF MapPhysicalAddress, MapEntry
  <2>4. \A e \in Windows : tlb'[e] = tlb[e] /\ kernel_land'[e] = kernel_land[e]
    BY <1>1, <2>2, <2>3 DEF FreeEntries, Tables, Windows
  <2> QED
    BY <1>3, <2>3, <2>4
<1>5. ASSUME NEW e \in Speculated, Speculate(e)
      PROVE  AccessInv'
  <2>1. e \notin Windows
    BY DEF BothWindows, Windows
  <2>2. /\ tlb' = [tlb EXCEPT ![e] = kernel_land[e]]
        /\ UNCHANGED <<vars, kernel_land, windows, locals>>
    BY <1>5 DEF Speculate
  <2>3. \A f \in Windows : tlb'[f] = tlb[f] /\ kernel_land'[f] = kernel_land[f]
    BY <1>1, <2>1, <2>2 DEF Tables, Windows
  <2> QED
    BY <1>3, <2>2, <2>3
<1> QED
  BY <1>2, <1>4, <1>5

\* Up to the choice of the windows nothing is reached through them.
LEMMA AccessBoot ==
  ASSUME RoomForWindows, WindowsNotCached, TableInv, AccessInv, pc = "boot", WindowsNext
  PROVE  AccessInv'
<1>1. /\ WindowTypes /\ tail = AtListHead /\ free_list = NULL
      /\ Tables /\ WindowsChosen /\ NothingStale
  BY DEF TableInv, AccessInv
<1>2. CASE DetectWindows
  <2>1. /\ pc' = IF has_memory_map THEN "detect" ELSE "idle"
        /\ UNCHANGED <<free_list, next_list, num_pages, next, chunk, tail, has_memory_map>>
    BY <1>2 DEF DetectWindows, listVars, detectVars
  <2>2. WindowTypes'
    BY <1>1, <2>1 DEF WindowTypes
  <2> QED
    BY <1>1, <2>1, <2>2 DEF AccessInv, DetectReach, AllocateReach
<1>3. ASSUME NEW e \in Speculated, Speculate(e)
      PROVE  AccessInv'
  <2>1. UNCHANGED <<vars, windows, locals>>
    BY <1>3 DEF Speculate
  <2>2. WindowTypes'
    BY <1>1, <2>1 DEF WindowTypes, vars, windows, locals, detectVars
  <2> QED
    BY <1>1, <2>1, <2>2 DEF AccessInv, DetectReach, AllocateReach, vars, windows, detectVars
<1> QED
  BY <1>2, <1>3 DEF WindowsNext, WindowsStep, DetectSkipChunk, DetectSkip, DetectMap,
    DetectWrite, DetectPark, DetectDone, AllocatePanic, AllocateOutOfMemory, AllocateMap,
    AllocateRead, AllocateCopy, AllocateReturn, MapPhysicalAddress, MapNoAddress

\* Every step of an operation, access by access, keeps the second invariant.
LEMMA AccessStep ==
  ASSUME RoomForWindows, WindowsNotCached, TableInv, AccessInv, WindowsNext
  PROVE  AccessInv'
<1>1. CASE pc = "boot"
  BY <1>1, AccessBoot
<1>2. CASE pc # "boot"
  <2>1. BothWindows
    BY <1>2, WindowsKnown
  <2>2. ~DetectWindows
    BY <1>2 DEF DetectWindows
  <2> QED
    BY <1>2, <2>1, <2>2, AccessDetect, AccessAllocate, AccessOther DEF WindowsNext, WindowsStep
<1> QED
  BY <1>1, <1>2

-----------------------------------------------------------------------------
(***************************************************************************)
(* The refinement                                                          *)
(***************************************************************************)

Stutters == UNCHANGED Pages0!vars

\* memory_detect: a chunk is one step of FreeList, when its header is written.
LEMMA DetectRefines ==
  ASSUME TableInv, AccessInv, BothWindows, pc # "boot",
         DetectSkipChunk \/ DetectMap \/ DetectWrite \/ DetectPark
  PROVE  Pages0!Next \/ Stutters
<1>1. /\ has_memory_map /\ UNCHANGED windows
      /\ WindowTypes /\ DetectReach /\ MemoryMap \in Seq(Chunk)
  BY MemoryAssumption DEF AccessInv, DetectSkipChunk, DetectSkip, DetectMap, DetectWrite,
    DetectPark, DetectDone
<1>2. pc \in {"detect", "detect_write"} /\ pc' \in {"detect", "detect_write", "idle"}
  BY DEF DetectSkipChunk, DetectSkip, DetectMap, DetectWrite, DetectPark, DetectDone
<1>3. /\ ListHead = free_list /\ OwnedPages = owned /\ ListPc = "detect"
      /\ ListHead' = free_list' /\ OwnedPages' = owned'
      /\ ListPc' = IF pc' = "idle" THEN "idle" ELSE "detect"
  BY <1>1, <1>2 DEF ListHead, OwnedPages, ListPc, Taken, windows
<1>4. CASE DetectSkipChunk
  <2>1. Pages0!DetectSkip
    BY <1>3, <1>4 DEF DetectSkipChunk, DetectSkip, header, freeVars,
      Pages0!DetectSkip, Pages0!header, Pages0!freeVars, Pages0!IsFree, IsFree
  <2> QED
    BY <2>1 DEF Pages0!Next, Pages0!MemoryDetect
<1>5. CASE DetectMap
  BY <1>3, <1>5 DEF DetectMap, listVars, frameVars, detectVars, freeVars, Stutters,
    Pages0!vars, Pages0!detectVars, Pages0!freeVars
<1>6. CASE DetectWrite
  <2>1. /\ chunk <= Len(MemoryMap) /\ IsFree(MemoryMap[chunk])
        /\ Reach(logical_pages) = StartPage(MemoryMap[chunk])
        /\ tail # AtListHead => Reach(NextWindow) = tail
    BY <1>1, <1>6 DEF DetectReach, DetectWrite
  <2>2. Pages0!StartPage(MemoryMap[chunk]) = StartPage(MemoryMap[chunk])
    BY DEF Pages0!StartPage, StartPage, Pages0!NextAligned, NextAligned, Pages0!PageAlign,
      PageAlign, Pages0!StartAddress, StartAddress, Pages0!AddressSpace, AddressSpace
  <2>3. Pages0!NumPages(MemoryMap[chunk]) = NumPages(MemoryMap[chunk])
    BY <2>2 DEF Pages0!NumPages, NumPages, Pages0!PagesBetween, PagesBetween, Pages0!EndPage,
      EndPage, Pages0!PageAlign, PageAlign, Pages0!EndAddress, EndAddress,
      Pages0!AddressSpace, AddressSpace
  <2>4. /\ num_pages' = [num_pages EXCEPT ![StartPage(MemoryMap[chunk])] = NumPages(MemoryMap[chunk])]
        /\ IF tail = AtListHead
           THEN /\ free_list' = StartPage(MemoryMap[chunk])
                /\ next' = [next EXCEPT ![StartPage(MemoryMap[chunk])] = NULL]
           ELSE /\ free_list' = free_list
                /\ next' = [next EXCEPT ![tail] = StartPage(MemoryMap[chunk]),
                                        ![StartPage(MemoryMap[chunk])] = NULL]
        /\ tail' = StartPage(MemoryMap[chunk])
        /\ chunk' = chunk + 1 /\ pc' = "detect"
        /\ UNCHANGED <<owned, mapped, freeVars>>
    BY <1>6, <2>1 DEF DetectWrite, frameVars
  <2>5. Pages0!DetectChunk
    BY <1>3, <2>1, <2>2, <2>3, <2>4 DEF Pages0!DetectChunk, Pages0!IsFree, IsFree,
      Pages0!AtListHead, AtListHead, Pages0!NULL, NULL, Pages0!freeVars, freeVars
  <2> QED
    BY <2>5 DEF Pages0!Next, Pages0!MemoryDetect
<1>7. CASE DetectPark
  <2>1. Pages0!DetectDone
    BY <1>3, <1>7 DEF DetectPark, DetectDone, header, detectVars, freeVars,
      Pages0!DetectDone, Pages0!header, Pages0!detectVars, Pages0!freeVars
  <2> QED
    BY <2>1 DEF Pages0!Next, Pages0!MemoryDetect
<1> QED
  BY <1>4, <1>5, <1>6, <1>7

\* memory_allocate_page: the step of FreeList is taken when the next header
\* is read, for the last page of a block, and else when it is copied.
LEMMA AllocateRefines ==
  ASSUME TableInv, AccessInv, BothWindows, pc # "boot",
         AllocatePanic \/ AllocateMap \/ AllocateRead \/ AllocateCopy \/ AllocateReturn
  PROVE  Pages0!Next \/ Stutters
<1>1. /\ WindowTypes /\ AllocateReach
      /\ UNCHANGED <<windows, mapped, detectVars, freeVars>>
  BY DEF AccessInv, AllocatePanic, AllocateOutOfMemory, AllocateMap, AllocateRead,
    AllocateCopy, AllocateReturn, frameVars
<1>2. CASE AllocatePanic
  <2>1. /\ pc = "idle" /\ free_list = NULL /\ pc' = "out_of_memory"
        /\ UNCHANGED <<free_list, num_pages, next, owned>>
    BY <1>2 DEF AllocatePanic, AllocateOutOfMemory, header
  <2>2. /\ ListHead = free_list /\ OwnedPages = owned
        /\ ListHead' = free_list /\ OwnedPages' = owned
        /\ ListPc = IF has_memory_map THEN "idle" ELSE "detect"
        /\ ListPc' = IF has_memory_map THEN "out_of_memory" ELSE "detect"
    BY <1>1, <2>1 DEF ListHead, OwnedPages, ListPc, Taken, windows
  <2>3. CASE has_memory_map
    <3>1. Pages0!AllocateOutOfMemory
      BY <1>1, <2>1, <2>2, <2>3 DEF Pages0!AllocateOutOfMemory, Pages0!NULL, NULL, Pages0!header,
        Pages0!detectVars, detectVars, Pages0!freeVars, freeVars
    <3> QED
      BY <3>1 DEF Pages0!Next, Pages0!MemoryAllocatePage
  <2>4. CASE ~has_memory_map
    BY <1>1, <2>1, <2>2, <2>4 DEF Stutters, Pages0!vars, Pages0!detectVars, detectVars,
      Pages0!freeVars, freeVars
  <2> QED
    BY <2>3, <2>4
<1>3. CASE AllocateMap
  <2>1. /\ pc = "idle" /\ pc' = "allocate_read"
        /\ UNCHANGED <<free_list, num_pages, next, owned>>
    BY <1>3 DEF AllocateMap, listVars
  <2>2. /\ ListHead' = ListHead /\ OwnedPages' = OwnedPages /\ ListPc' = ListPc
    BY <1>1, <2>1 DEF ListHead, OwnedPages, ListPc, Taken, windows
  <2> QED
    BY <1>1, <2>1, <2>2 DEF Stutters, Pages0!vars, Pages0!detectVars, detectVars,
      Pages0!freeVars, freeVars
<1>4. CASE AllocateRead
  <2>1. /\ pc = "allocate_read" /\ free_list # NULL /\ has_memory_map
        /\ Reach(free_logical_address1) = free_list
    BY <1>1, <1>4 DEF AllocateRead, AllocateReach, AccessInv
  <2>2. UNCHANGED <<free_list, num_pages, next, owned>>
    BY <1>4 DEF AllocateRead, listVars
  <2>3. ListHead = free_list /\ OwnedPages = owned /\ ListPc = "idle"
    BY <2>1 DEF ListHead, OwnedPages, ListPc, Taken
  <2>4. CASE num_pages[free_list] = 1
    <3>1. next_list' = next[free_list] /\ pc' = "allocate_done"
      BY <1>4, <2>1, <2>4 DEF AllocateRead
    <3>2. /\ ListHead' = next[free_list] /\ OwnedPages' = owned \union {free_list}
          /\ ListPc' = "idle"
      BY <1>1, <2>1, <2>2, <3>1 DEF ListHead, OwnedPages, ListPc, Taken, windows
    <3>3. Pages0!AllocateLastOfBlock
      BY <1>1, <2>1, <2>2, <2>3, <2>4, <3>2 DEF Pages0!AllocateLastOfBlock, Pages0!NULL, NULL,
        Pages0!header, Pages0!detectVars, detectVars, Pages0!freeVars, freeVars
    <3> QED
      BY <3>3 DEF Pages0!Next, Pages0!MemoryAllocatePage
  <2>5. CASE num_pages[free_list] # 1
    <3>1. pc' = "allocate_copy"
      BY <1>4, <2>1, <2>5 DEF AllocateRead
    <3>2. ListHead' = free_list /\ OwnedPages' = owned /\ ListPc' = "idle"
      BY <1>1, <2>1, <2>2, <3>1 DEF ListHead, OwnedPages, ListPc, Taken, windows
    <3> QED
      BY <1>1, <2>2, <2>3, <3>2 DEF Stutters, Pages0!vars, Pages0!detectVars, detectVars,
        Pages0!freeVars, freeVars
  <2> QED
    BY <2>4, <2>5
<1>5. CASE AllocateCopy
  <2>1. /\ pc = "allocate_copy" /\ pc' = "allocate_done" /\ free_list # NULL /\ has_memory_map
        /\ num_pages[free_list] # 1
        /\ next_list = NextFrame(free_list)
        /\ Reach(free_logical_address1) = free_list
        /\ Reach(free_logical_address2) = NextFrame(free_list)
    BY <1>1, <1>5 DEF AllocateCopy, AllocateReach, AccessInv
  <2>2. /\ num_pages' = [num_pages EXCEPT ![NextFrame(free_list)] = num_pages[free_list] - 1]
        /\ next' = [next EXCEPT ![NextFrame(free_list)] = next[free_list]]
        /\ UNCHANGED <<free_list, owned, next_list>>
    BY <1>5, <2>1 DEF AllocateCopy, locals
  <2>3. /\ ListHead = free_list /\ OwnedPages = owned /\ ListPc = "idle"
        /\ ListHead' = NextFrame(free_list) /\ OwnedPages' = owned \union {free_list}
        /\ ListPc' = "idle"
    BY <1>1, <2>1, <2>2 DEF ListHead, OwnedPages, ListPc, Taken, windows
  <2>4. Pages0!AllocateSplit
    BY <1>1, <2>1, <2>2, <2>3 DEF Pages0!AllocateSplit, Pages0!NULL, NULL, Pages0!NextFrame,
      NextFrame, Pages0!detectVars, detectVars, Pages0!freeVars, freeVars
  <2> QED
    BY <2>4 DEF Pages0!Next, Pages0!MemoryAllocatePage
<1>6. CASE AllocateReturn
  <2>1. /\ pc = "allocate_done" /\ pc' = "idle"
        /\ free_list' = next_list /\ owned' = owned \union {free_list}
        /\ UNCHANGED <<num_pages, next>>
    BY <1>6 DEF AllocateReturn
  <2>2. ListHead' = ListHead /\ OwnedPages' = OwnedPages /\ ListPc' = ListPc
    BY <1>1, <2>1 DEF ListHead, OwnedPages, ListPc, Taken, windows
  <2> QED
    BY <1>1, <2>1, <2>2 DEF Stutters, Pages0!vars, Pages0!detectVars, detectVars,
      Pages0!freeVars, freeVars
<1> QED
  BY <1>2, <1>3, <1>4, <1>5, <1>6

\* The other steps touch neither pages nor list.
LEMMA OtherStepsRefine ==
  ASSUME AccessInv,
         \/ DetectWindows
         \/ \E frame \in Requests : MapPhysicalAddress(frame)
         \/ MapNoAddress
         \/ \E e \in Speculated : Speculate(e)
         \/ UNCHANGED windowsVars
  PROVE  Stutters
<1>1. UNCHANGED <<free_list, num_pages, next, mapped, owned, chunk, tail, freeVars,
                  next_list, has_memory_map>>
  BY DEF DetectWindows, MapPhysicalAddress, MapNoAddress, Speculate, windowsVars, vars,
    windows, listVars, frameVars, detectVars, locals
<1>2. \/ pc' = pc
      \/ pc = "boot" /\ pc' = IF has_memory_map THEN "detect" ELSE "idle"
      \/ pc = "idle" /\ pc' = "no_address"
  BY DEF DetectWindows, MapPhysicalAddress, MapNoAddress, Speculate, windowsVars, vars
<1>3. ListHead' = ListHead /\ OwnedPages' = OwnedPages /\ ListPc' = ListPc
  BY <1>1, <1>2 DEF ListHead, OwnedPages, ListPc, Taken
<1> QED
  BY <1>1, <1>3 DEF Stutters, Pages0!vars, Pages0!detectVars, Pages0!freeVars, freeVars

\* What the boot loader leaves is what the free list begins with.
LEMMA InitRefines ==
  WindowsInit => Pages0!Init
<1> SUFFICES ASSUME WindowsInit
             PROVE  Pages0!Init
  OBVIOUS
<1>1. ListHead = NULL /\ OwnedPages = {} /\ ListPc = "detect"
  BY DEF WindowsInit, ListHead, OwnedPages, ListPc, Taken
<1> QED
  BY <1>1 DEF WindowsInit, Pages0!Init, Pages0!NULL, NULL, Pages0!AtListHead, AtListHead,
    Pages0!Frames, Frames

\* memory_detect and memory_allocate_page, which see a page only while a
\* window leads to it, do to the free list what FreeList's steps do: never
\* through an entry that still shows an earlier page.
THEOREM WindowsImplementFreeList ==
  RoomForWindows /\ WindowsNotCached => (WindowsSpec => ImplementsFreeList)
<1> SUFFICES ASSUME RoomForWindows, WindowsNotCached
             PROVE  WindowsSpec => ImplementsFreeList
  OBVIOUS
<1> DEFINE Inv == TableInv /\ AccessInv
<1>1. WindowsInit => Inv
  BY TableInit, AccessInit
<1>2. Inv /\ [WindowsNext]_windowsVars => Inv'
  <2>1. ASSUME Inv, UNCHANGED windowsVars
        PROVE  TableInv'
    BY <2>1 DEF TableInv, Tables, WindowsChosen, NothingStale, MappingsStand, Windows,
      windowsVars, vars, windows, locals
  <2>2. ASSUME Inv, UNCHANGED windowsVars
        PROVE  AccessInv'
    BY <2>2 DEF AccessInv, WindowTypes, DetectReach, AllocateReach, Reach, NextWindow,
      OtherWindow, windowsVars, vars, windows, locals, detectVars
  <2> QED
    BY <2>1, <2>2, TableStepAtBoot, TableStepLater, AccessStep
<1>3. WindowsInit => Pages0!Init
  BY InitRefines
<1>4. Inv /\ [WindowsNext]_windowsVars => [Pages0!Next]_Pages0!vars
  <2>1. ASSUME Inv, WindowsStep, pc = "boot"
        PROVE  DetectWindows
    BY <2>1 DEF WindowsStep, DetectSkipChunk, DetectSkip, DetectMap,
      DetectWrite, DetectPark, DetectDone, AllocatePanic, AllocateOutOfMemory, AllocateMap,
      AllocateRead, AllocateCopy, AllocateReturn, MapPhysicalAddress, MapNoAddress
  <2>2. ASSUME Inv, pc # "boot"
        PROVE  BothWindows
    BY <2>2, WindowsKnown
  <2> QED
    BY <2>1, <2>2, DetectRefines, AllocateRefines, OtherStepsRefine
      DEF WindowsNext, WindowsStep, Stutters
<1> HIDE DEF Inv
<1> QED
  BY <1>1, <1>2, <1>3, <1>4, PTL DEF WindowsSpec, ImplementsFreeList
=============================================================================
