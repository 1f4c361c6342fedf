\* Detection and allocation through the windows, mappings at any time; the
\* processor caches entries early, the windows excepted.
SPECIFICATION WindowsSpec
CONSTANTS
  PageSize        = 8
  NumFrames       = 10
  KernelEnd       = 14
  MemoryMap       <- MCMemoryMap
  IdentityMapped  = {}
  KernelPagesLive = FALSE
  Scribbles       <- MCScribbles
  NumEntries      = 6
  Requests        <- MCRequests
  Speculated      = {0, 1, 4, 5}
INVARIANTS
  MappingsStand
PROPERTIES
  ImplementsFreeList
\* The kernel halts when memory or addresses run out.
CHECK_DEADLOCK FALSE
