\* Allocations and frees in any order, kernel_pages live and all pages mapped at boot.
SPECIFICATION Spec
CONSTANTS
  PageSize        = 4
  NumFrames       = 10
  KernelEnd       = 5
  MemoryMap       <- MCMemoryMap
  IdentityMapped  <- MCAllMapped
  KernelPagesLive = TRUE
  Scribbles       <- MCScribbles
INVARIANT
  FreedPageIsMapped
CHECK_DEADLOCK FALSE
