\* The windows and the identity mapping share a page table.
SPECIFICATION WindowsSpec
CONSTANTS
  PageSize        = 8
  NumFrames       = 10
  KernelEnd       = 14
  MemoryMap       <- MCMemoryMap
  IdentityMapped  = {}
  KernelPagesLive = FALSE
  Scribbles       <- MCScribbles
  NumEntries      = 6
  Requests        <- MCRequests
  Speculated      = {}
INVARIANT
  OwnedPageIsIdentityMapped
\* The kernel halts when memory or addresses run out.
CHECK_DEADLOCK FALSE
