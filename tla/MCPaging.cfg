\* Building the kernel's page tables out of every free list there can be.
SPECIFICATION PagingSpec
CONSTANTS
  PageSize        = 4
  NumFrames       = 12
  KernelEnd       = 13
  KernelStart     = 1
  MemoryMap       <- MCMemoryMap
  IdentityMapped  = {}
  KernelPagesLive = FALSE
  Scribbles       <- MCScribbles
  NumEntries      = 3
  Garbage         = {0, 5, 8, 11}
INVARIANTS
  PagingTypeOK
  TablesMapped
  KernelMapped
  BlocksMapped
PROPERTIES
  PagesKept
  PagingEnds
\* It is over when CR3 is loaded.
CHECK_DEADLOCK FALSE
