\* A processor that caches the entries of the windows early.
SPECIFICATION WindowsSpec
CONSTANTS
  PageSize        = 8
  NumFrames       = 10
  KernelEnd       = 14
  MemoryMap       <- MCMemoryMap
  IdentityMapped  = {}
  KernelPagesLive = FALSE
  Scribbles       <- MCScribbles
  NumEntries      = 6
  Requests        <- MCRequests
  Speculated      = {2, 3}
INVARIANT
  ListBeginsAtFreePage
\* The kernel halts when memory or addresses run out.
CHECK_DEADLOCK FALSE
