--------------------------- MODULE ContextSwitch ---------------------------
(***************************************************************************)
(* Scheduler one level down: the registers of the processor and the words  *)
(* of memory, with src/scheduler-helper.s instruction by instruction.  A   *)
(* return address on a stack decides where control goes.                   *)
(*                                                                         *)
(* Addresses count words.  Task p's page begins at p with its struct task  *)
(* and ends with its stack, which grows down.  The kernel's page holds     *)
(* global_scheduler, which begins with kernel_task, and the kernel's stack.*)
(* What a register or a word of a stack holds when it is not an address is *)
(* a negative number that tells which context put it there and where.      *)
(***************************************************************************)
EXTENDS Integers, FiniteSets, SequencesExt

CONSTANTS
  PageWords,            \* STACK_SIZE / 4
  NumTasks,             \* pages for tasks
  Locals,               \* words a task keeps on its stack when it yields
  Code, CleanupTask,    \* the addresses of a task's code and of _cleanup_task
  InTask,               \* return addresses: behind a task's scheduler_yield(),
  InYield,              \*   scheduler-helper.s:125,
  InRun,                \*   scheduler.c:125,
  InDealloc,            \*   scheduler-helper.s:88,
  InC                   \*   somewhere in C code that calls _get_current_task

Labels == {Code, CleanupTask, InTask, InYield, InRun, InDealloc, InC}

\* struct task and struct scheduler, in words.
SchedulerField == 0
NextField      == 1
PreviousField  == 2
RegisterField  == [EDI |-> 3, ESI |-> 4, EBP |-> 5, ESP |-> 6, EBX |-> 7,
                   EDX |-> 8, ECX |-> 9, EAX |-> 10]
TaskWords      == 11

\* A switch takes seven words on the stack of a task, behind CleanupTask and
\* what the task keeps there, and on the kernel's, whose page holds next_task
\* as well.
ASSUME PageWordsAssumption ==
  /\ NumTasks \in Nat \ {0}
  /\ Locals \in Nat
  /\ PageWords \in Nat
  /\ PageWords >= TaskWords + Locals + 8
  /\ PageWords >= TaskWords + 9

ASSUME LabelsAssumption ==
  /\ Cardinality(Labels) = 7
  /\ Labels \intersect Int = {}

Registers   == DOMAIN RegisterField
CalleeSaved == {"EDI", "ESI", "EBP", "ESP", "EBX"}
TaskPages   == {k * PageWords : k \in 1 .. NumTasks}
Kernel      == (NumTasks + 1) * PageWords     \* &global_scheduler
NextTask    == Kernel + TaskWords             \* &global_scheduler.next_task
Addresses   == PageWords .. Kernel + PageWords - 1

\* What context p puts into register r, or onto its stack, in two variants.
Content(p, i, g) == -(2 * (p + i) + g)
Computed(p, g)   == [r \in Registers |-> Content(p, RegisterField[r], g)]

VARIABLES
  free, owned, halted,  \* the page pool
  reg, mem,             \* the processor and the memory
  pc, task, current,    \* as in Scheduler
  locals,               \* page -> what the task has pushed since it began
  called                \* context -> its registers when it called a switch

poolVars    == <<free, owned, halted>>
history     == <<locals, called>>
switchVars  == <<poolVars, reg, mem, pc, task, current, history>>

Pool == INSTANCE PagePool WITH Usable <- TaskPages

PageOf(a) == a - (a % PageWords)
next_task == mem[NextTask]

SwitchInit ==
  /\ free = TaskPages /\ owned = {} /\ halted = FALSE
  /\ mem = [a \in Addresses |-> 0]
  /\ reg = [Computed(Kernel, 0) EXCEPT !["ESP"] = Kernel + PageWords - 1]
  /\ pc = "caller" /\ task = 0 /\ current = 0
  /\ locals = [p \in TaskPages |-> <<>>]
  /\ called = [p \in TaskPages \union {Kernel} |-> <<>>]

-----------------------------------------------------------------------------
(***************************************************************************)
(* Instructions.  A machine m is a record of registers and memory.         *)
(***************************************************************************)
Machine == [reg |-> reg, mem |-> mem]

Become(m) == reg' = m.reg /\ mem' = m.mem

MovReg(m, r, w)  == [m EXCEPT !.reg[r] = w]
MovMem(m, a, w)  == [m EXCEPT !.mem[a] = w]
AddEsp(m, n)     == [m EXCEPT !.reg["ESP"] = @ + n]
Word(m, n)       == m.mem[m.reg["ESP"] + n]              \* [ESP + 4n]
Push(m, w)       == MovMem(AddEsp(m, -1), m.reg["ESP"] - 1, w)
Pop(m, r)        == AddEsp(MovReg(m, r, Word(m, 0)), 1)

\* One register to and from the struct task that register base points to.
Save(m, base, r) == MovMem(m, m.reg[base] + RegisterField[r], m.reg[r])
Load(m, base, r) == MovReg(m, r, m.mem[m.reg[base] + RegisterField[r]])

-----------------------------------------------------------------------------
(***************************************************************************)
(* src/scheduler-helper.s                                                  *)
(***************************************************************************)

\* Mutant of GetCurrentTask: it is not called, but its two instructions
\* stand where the call is.
GetCurrentTaskInline(m, return) == MovReg(m, "EAX", PageOf(m.reg["ESP"]))

\* A call of _get_current_task, which returns: the stack pointer is rounded
\* down while the return address is on the stack.
GetCurrentTask(m, return) ==
  LET called_it == Push(m, return)
  IN  AddEsp(MovReg(called_it, "EAX", PageOf(called_it.reg["ESP"])), 1)

\* Mutant of SaveRegisters: a register is forgotten.
SaveRegistersWithoutESI(m, base) ==
  LET m1 == Save(Save(Save(m, base, "EDI"), base, "EBP"), base, "ESP")
  IN  Save(Save(Save(m1, base, "EBX"), base, "EDX"), base, "ECX")

\* All but EAX, in the order of the code
SaveRegisters(m, base) ==
  LET m1 == Save(Save(Save(Save(m, base, "EDI"), base, "ESI"), base, "EBP"), base, "ESP")
  IN  Save(Save(Save(m1, base, "EBX"), base, "EDX"), base, "ECX")

LoadPointers(m, base) ==
  Load(Load(Load(Load(m, base, "EDI"), base, "ESI"), base, "EBP"), base, "ESP")

LoadCounters(m, base) == Load(Load(m, base, "EDX"), base, "ECX")

\* _resume_task, entered with its return address on the stack and current
\* and task behind it, up to its RET.
ResumeTask(m0) ==
  LET m1 == Push(m0, m0.reg["EAX"])
      m2 == MovReg(m1, "EAX", Word(m1, 2))
      m3 == SaveRegisters(m2, "EAX")
      m4 == MovReg(m3, "EBX", Word(m3, 0))
      m5 == MovMem(m4, m4.reg["EAX"] + RegisterField["EAX"], m4.reg["EBX"])
      m6 == MovReg(m5, "EAX", Word(m5, 3))
      m7 == LoadCounters(Load(LoadPointers(m6, "EAX"), "EAX", "EBX"), "EAX")
  IN  AddEsp(Load(m7, "EAX", "EAX"), 1)

\* scheduler_yield behind its call of _resume_task, up to its RET.
YieldTail(m) == AddEsp(m, 4)

\* scheduler_yield, entered with its return address on the stack, up to the
\* first instruction of _resume_task.
YieldHead(m0) ==
  LET m1 == Push(Push(m0, m0.reg["EAX"]), m0.reg["EBX"])
      m2 == GetCurrentTask(m1, InYield)
      m3 == MovReg(m2, "EBX", m2.reg["EAX"])
      m4 == MovReg(m3, "EBX", m3.mem[m3.reg["EBX"] + SchedulerField])
      m5 == Push(Push(m4, m4.reg["EBX"]), m4.reg["EAX"])
      m6 == MovReg(m5, "EBX", Word(m5, 2))
      m7 == MovReg(m6, "EAX", Word(m6, 3))
  IN  Push(m7, InYield)

\* _dealloc_and_jump_to_task up to the first instruction of memory_free_page,
\* entered like _resume_task.
DeallocHead(m0) ==
  LET m1 == MovReg(m0, "EAX", Word(m0, 1))
      m2 == MovReg(m1, "EBX", Word(m1, 2))
      m3 == LoadCounters(LoadPointers(m2, "EBX"), "EBX")
      m4 == Push(m3, m3.mem[m3.reg["EBX"] + RegisterField["EAX"]])
      m5 == Load(m4, "EBX", "EBX")
  IN  Push(Push(m5, m5.reg["EAX"]), InDealloc)

\* ... and behind its call of memory_free_page, up to its RET.
DeallocTail(m) == AddEsp(Pop(AddEsp(m, 1), "EAX"), 1)

\* RET: control goes where the word on the stack says.
Where(label) ==
  CASE label \in {Code, InTask} -> "task"
    [] label = CleanupTask      -> "cleanup"
    [] label = InRun            -> "resumed"
    [] OTHER                    -> "wild"

Return(m) ==
  /\ Become(AddEsp(m, 1))
  /\ pc' = Where(Word(m, 0))

\* RET of _resume_task: into scheduler_yield if the task has yielded before.
ReturnFromResume(m) ==
  IF Word(m, 0) = InYield THEN Return(YieldTail(AddEsp(m, 1))) ELSE Return(m)

-----------------------------------------------------------------------------
(***************************************************************************)
(* What the contexts do                                                    *)
(***************************************************************************)

\* The code of a task, of scheduler_run or of its caller uses the registers.
Compute(g) ==
  /\ pc \in {"caller", "run", "task"}
  /\ reg' = [Computed(PageOf(reg["ESP"]), g) EXCEPT !["ESP"] = reg["ESP"]]
  /\ UNCHANGED <<poolVars, mem, pc, task, current, history>>

\* A task's code keeps something on its stack, and takes it off again.
PushLocal(g) ==
  LET p == PageOf(reg["ESP"])
      w == Content(p, PageWords - 2 - Len(locals[p]), g)
  IN  /\ pc = "task"
      /\ Len(locals[p]) < Locals
      /\ Become(Push(Machine, w))
      /\ locals' = [locals EXCEPT ![p] = Append(@, w)]
      /\ UNCHANGED <<poolVars, pc, task, current, called>>

PopLocal ==
  LET p == PageOf(reg["ESP"])
  IN  /\ pc = "task"
      /\ locals[p] # <<>>
      /\ Become(AddEsp(Machine, 1))
      /\ locals' = [locals EXCEPT ![p] = Front(@)]
      /\ UNCHANGED <<poolVars, pc, task, current, called>>

\* Mutant of PushToTaskStack: it stores before it decrements.
PushToTaskStackTooHigh(words, p, value) ==
  LET pointer == p + RegisterField["ESP"]
  IN  [words EXCEPT ![words[pointer]] = value, ![pointer] = @ - 1]

\* _push_to_task_stack, on the words of memory
PushToTaskStack(words, p, value) ==
  LET pointer == p + RegisterField["ESP"]
  IN  [words EXCEPT ![pointer] = @ - 1, ![words[pointer] - 1] = value]

\* scheduler_add_process, first half: memset, scheduler, esp, the stack.
AddAllocate(p) ==
  LET cleared == [a \in Addresses |-> IF PageOf(a) = p THEN 0 ELSE mem[a]]
      set_up  == [cleared EXCEPT ![p + SchedulerField] = Kernel,
                                 ![p + RegisterField["ESP"]] = p + PageWords]
      cleanup == PushToTaskStack(set_up, p, CleanupTask)
      code    == PushToTaskStack(cleanup, p, Code)
  IN  /\ pc \in {"caller", "task"}
      /\ Pool!AllocatePage(p)
      /\ mem' = PushToTaskStack(code, p, 0)
      /\ task' = p
      /\ pc' = "add"
      /\ locals' = [locals EXCEPT ![p] = <<>>]
      /\ called' = [called EXCEPT ![p] = <<>>]
      /\ UNCHANGED <<reg, current>>

AddOutOfMemory ==
  /\ pc \in {"caller", "task"}
  /\ Pool!OutOfMemory
  /\ pc' = "panic"
  /\ UNCHANGED <<reg, mem, task, current, history>>

\* Second half: the links.
AddLink ==
  LET last == mem[next_task + PreviousField]
  IN  /\ pc = "add"
      /\ mem' = IF next_task # 0
                THEN [mem EXCEPT ![task + PreviousField] = last,
                                 ![last + NextField] = task,
                                 ![next_task + PreviousField] = task,
                                 ![task + NextField] = next_task]
                ELSE [mem EXCEPT ![task + PreviousField] = task,
                                 ![NextTask] = task,
                                 ![task + NextField] = task]
      /\ task' = 0
      /\ pc' = IF PageOf(reg["ESP"]) = Kernel THEN "caller" ELSE "task"
      /\ UNCHANGED <<poolVars, reg, current, history>>

\* scheduler_run
Run ==
  /\ pc = "caller"
  /\ pc' = "run"
  /\ UNCHANGED <<poolVars, reg, mem, task, current, history>>

RunReturns ==
  /\ pc = "run"
  /\ next_task = 0
  /\ pc' = "caller"
  /\ UNCHANGED <<poolVars, reg, mem, task, current, history>>

\* _resume_task(&kernel_task, next_task)
Resume ==
  /\ pc = "run"
  /\ next_task # 0
  /\ LET args == Push(Push(Machine, next_task), Kernel)
     IN  /\ called' = [called EXCEPT ![Kernel] = args.reg]
         /\ ReturnFromResume(ResumeTask(Push(args, InRun)))
  /\ UNCHANGED <<poolVars, task, current, locals>>

\* scheduler_run takes its arguments off the stack.
Advance ==
  /\ pc = "resumed"
  /\ Become(AddEsp(MovMem(Machine, NextTask,
                          IF next_task # 0 THEN mem[next_task + NextField] ELSE 0),
                   2))
  /\ pc' = "run"
  /\ UNCHANGED <<poolVars, task, current, history>>

\* A task calls scheduler_yield().
Yield ==
  /\ pc = "task"
  /\ called' = [called EXCEPT ![PageOf(reg["ESP"])] = reg]
  /\ ReturnFromResume(ResumeTask(YieldHead(Push(Machine, InTask))))
  /\ UNCHANGED <<poolVars, task, current, locals>>

\* _cleanup_task takes the task off the ring.
Unlink(m, this) ==
  LET scheduler == m.mem[this + SchedulerField]
      behind    == m.mem[this + PreviousField]
      ahead     == m.mem[this + NextField]
  IN  IF ahead = this
      THEN MovMem(m, scheduler + TaskWords, 0)
      ELSE MovMem(MovMem(MovMem(m, behind + NextField, ahead),
                         ahead + PreviousField, behind),
                  scheduler + TaskWords, behind)

\* A task's code returns into _cleanup_task, which unlinks the task and calls
\* _dealloc_and_jump_to_task(current, &scheduler->kernel_task).
Exit ==
  LET m1   == GetCurrentTask(AddEsp(Machine, 1), InC)
      this == m1.reg["EAX"]
      m2   == Push(Unlink(m1, this), m1.mem[this + SchedulerField])
  IN  /\ pc = "task"
      /\ locals[PageOf(reg["ESP"])] = <<>>
      /\ pc' = Where(Word(Machine, 0))
      /\ current' = this
      /\ Become(Push(Push(m2, this), InC))
      /\ UNCHANGED <<poolVars, task, history>>

LeaveStack ==
  /\ pc = "cleanup"
  /\ Become(DeallocHead(Machine))
  /\ pc' = "dealloc"
  /\ UNCHANGED <<poolVars, task, current, history>>

\* memory_free_page writes its header over the start of the page, uses the
\* registers a callee may use, and returns.
Deallocate ==
  LET page == Word(Machine, 1)
  IN  /\ pc = "dealloc"
      /\ Pool!FreePage(page)
      /\ \E header \in free \union {0} :
           LET m1 == [Machine EXCEPT !.mem[page] = 1, !.mem[page + NextField] = header]
               m2 == [m1 EXCEPT !.reg["EAX"] = 0, !.reg["ECX"] = 0, !.reg["EDX"] = 0]
           IN  Return(DeallocTail(AddEsp(m2, 1)))
      /\ current' = 0
      /\ UNCHANGED <<task, history>>

-----------------------------------------------------------------------------
TaskWorks == (\E g \in {0, 1} : Compute(g) \/ PushLocal(g)) \/ PopLocal

SwitchNext ==
  \/ TaskWorks
  \/ (\E p \in TaskPages : AddAllocate(p)) \/ AddOutOfMemory \/ AddLink
  \/ Run \/ RunReturns \/ Resume \/ Advance
  \/ Yield \/ Exit \/ LeaveStack \/ Deallocate

SwitchSpec == SwitchInit /\ [][SwitchNext]_switchVars

-----------------------------------------------------------------------------
(***************************************************************************)
(* Properties                                                              *)
(***************************************************************************)
\* A task comes back from scheduler_yield with every register as it was, the
\* stack pointer included.  scheduler_run comes back from _resume_task with
\* those a called function has to preserve, whether the task yielded or exited.
RegistersKept ==
  [][/\ (pc # "task" /\ pc' = "task" /\ pc # "add") =>
          LET before == called[PageOf(reg'["ESP"])]
          IN  before # <<>> => reg' = before
     /\ pc' = "resumed" =>
          \A r \in CalleeSaved : reg'[r] = called[Kernel][r]]_switchVars

\* Switches disturb neither what tasks keep on their stacks nor, below them,
\* their struct task's pointer to the scheduler.
StacksKept ==
  \A p \in owned \ {current} :
    /\ mem[p + SchedulerField] = Kernel
    /\ mem[p + PageWords - 1] = CleanupTask
    /\ \A i \in DOMAIN locals[p] : mem[p + PageWords - 1 - i] = locals[p][i]

\* Seen from Scheduler each of these routines is one step: control and links
\* go where Scheduler says.
Scheduling == INSTANCE Scheduler WITH
  Pages <- TaskPages, NULL <- 0, KernelStack <- Kernel,
  next     <- [p \in TaskPages |-> mem[p + NextField]],
  previous <- [p \in TaskPages |-> mem[p + PreviousField]],
  esp      <- PageOf(reg["ESP"])

ImplementsScheduler == Scheduling!Init /\ [][Scheduling!Next]_Scheduling!vars
=============================================================================
