\* Allocations and frees in any order under kernel_pages, everything mapped at boot: a
\* merge takes a page out of the identity map, and an access to it faults.
SPECIFICATION Spec
CONSTANTS
  PageSize        = 4
  NumFrames       = 10
  KernelEnd       = 5
  MemoryMap       <- MCMemoryMap
  IdentityMapped  <- MCAllMapped
  KernelPagesLive = TRUE
  Scribbles       <- MCScribbles
INVARIANTS
  TypeOK
  SortedDisjointList
  Conservation
  MergeAssertsHold
PROPERTIES
  FreedPageCoalesced
  FreeReturns
  ImplementsPagePool
\* The kernel halts when it is out of memory, and on a page fault.
CHECK_DEADLOCK FALSE
