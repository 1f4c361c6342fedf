\* A memory map with a chunk above 4 GiB.
SPECIFICATION Spec
CONSTANTS
  PageSize        = 4
  NumFrames       = 10
  KernelEnd       = 5
  MemoryMap       <- MCHighMemoryMap
  IdentityMapped  <- MCAllMapped
  KernelPagesLive = FALSE
  Scribbles       <- MCScribbles
INVARIANT
  OnlyRamHandedOut
CHECK_DEADLOCK FALSE
