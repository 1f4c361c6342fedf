\* Three tasks at a time, added, yielding and exiting in any order, by the kernel
\* and by each other.
SPECIFICATION Spec
CONSTANTS
  Pages       = {p1, p2, p3}
  NULL        = NULL
  KernelStack = KernelStack
INVARIANTS
  TypeOK
  RingHoldsLiveTasks
  NoUseAfterFree
PROPERTIES
  ImplementsRoundRobin
  NoStarvation
\* The kernel halts when it is out of memory.
CHECK_DEADLOCK FALSE
