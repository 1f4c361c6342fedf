\* From the boot loader's jump to panic: exceptions at any step, console and serial
\* port used in any order.
SPECIFICATION KernelSpec
CONSTANTS
  COLS        = 2
  ROWS        = 3
  Behind      = 2
  Letters     = {"a", "P"}
  Blank       = " "
  Messages    <- MCMessages
  Bytes       = {65}
  FifoSize    = 2
  PageSize    = 8
  NumEntries  = 5
  KernelEnds  <- MCKernelEnds
  HalfWord    = 16
  IsrBase     = 200
  Vectors     <- MCVectors
  MaxNesting  = 2
  Printed     = {"a"}
  PanicLetter = "P"
  DumpLetter  = "a"
  DumpLines   = 1
INVARIANTS
  KernelTypeOK
  ImageMapped
  SegmentsServe
  PanicIsShown
PROPERTIES
  ImplementsTerminal
  MemoryBehindScreenKept
  ExceptionsPanic
  SerialBytesArrive
  KernelSettles
\* The kernel halts in panic.
CHECK_DEADLOCK FALSE
