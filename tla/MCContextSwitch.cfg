\* Two tasks and the kernel, switching, adding and exiting in any order.
SPECIFICATION SwitchSpec
CONSTANTS
  PageWords   = 20
  NumTasks    = 2
  Locals      = 1
  Code        = Code
  CleanupTask = CleanupTask
  InTask      = InTask
  InYield     = InYield
  InRun       = InRun
  InDealloc   = InDealloc
  InC         = InC
INVARIANTS
  StacksKept
PROPERTIES
  RegistersKept
  ImplementsScheduler
\* The kernel halts when it is out of memory.
CHECK_DEADLOCK FALSE
