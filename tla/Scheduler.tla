------------------------------ MODULE Scheduler ------------------------------
(***************************************************************************)
(* The cooperative scheduler of src/scheduler.c and src/scheduler-helper.s.*)
(*                                                                         *)
(* A task lives in one page: its struct task at the bottom, its stack at   *)
(* the top, so a page identifies a task and the stack pointer, rounded     *)
(* down to a page, identifies the task that runs (_get_current_task).      *)
(* next and previous are the two link fields of every page's struct task;  *)
(* once the page is free the allocator's header lies over the first.       *)
(*                                                                         *)
(* The pages come from the pool module PagePool specifies and FreeList     *)
(* implements.  Nothing preempts the processor: control moves where the    *)
(* code moves it, and pc follows it.  The registers a switch saves and     *)
(* restores are left out; which stack the processor is on is not.          *)
(***************************************************************************)
EXTENDS Naturals, Sequences, FiniteSets

CONSTANTS
  Pages,            \* the pages memory_detect found
  NULL,
  KernelStack       \* what the stack pointer rounds down to outside the tasks

ASSUME PagesAssumption ==
  /\ IsFiniteSet(Pages)
  /\ NULL \notin Pages
  /\ KernelStack \notin Pages
  /\ KernelStack # NULL

VARIABLES
  free, owned, halted,   \* the page pool
  next_task,             \* global_scheduler.next_task
  next, previous,        \* page -> the links of its struct task
  esp,                   \* the page the stack pointer is in
  task,                  \* local of scheduler_add_process
  current,               \* local of _cleanup_task, then EAX
  pc                     \* where the processor is

poolVars == <<free, owned, halted>>
links    == <<next_task, next, previous>>
vars     == <<poolVars, links, esp, task, current, pc>>

Pool == INSTANCE PagePool WITH Usable <- Pages

TypeOK ==
  /\ Pool!PoolTypeOK
  /\ next_task \in Pages \union {NULL}
  /\ next      \in [Pages -> Pages \union {NULL}]
  /\ previous  \in [Pages -> Pages \union {NULL}]
  /\ esp       \in Pages \union {KernelStack}
  /\ task      \in Pages \union {NULL}
  /\ current   \in Pages \union {NULL}
  /\ pc \in {"caller", "run", "task", "add", "cleanup", "dealloc", "resumed", "panic"}

\* scheduler_init: memset of global_scheduler.
Init ==
  /\ free = Pages /\ owned = {} /\ halted = FALSE
  /\ next_task = NULL
  /\ next     = [p \in Pages |-> NULL]
  /\ previous = [p \in Pages |-> NULL]
  /\ esp = KernelStack
  /\ task = NULL /\ current = NULL
  /\ pc = "caller"

\* scheduler_add_process returns to the task that called it, or to the code
\* that calls scheduler_run.
ReturnFromAdd == IF esp = KernelStack THEN "caller" ELSE "task"

-----------------------------------------------------------------------------
(***************************************************************************)
(* scheduler_add_process                                                   *)
(***************************************************************************)

\* memset also clears the links.
AddAllocate(p) ==
  /\ pc \in {"caller", "task"}
  /\ Pool!AllocatePage(p)
  /\ task'     = p
  /\ next'     = [next EXCEPT ![p] = NULL]
  /\ previous' = [previous EXCEPT ![p] = NULL]
  /\ pc' = "add"
  /\ UNCHANGED <<next_task, esp, current>>

\* memory_allocate_page panics.
AddOutOfMemory ==
  /\ pc \in {"caller", "task"}
  /\ Pool!OutOfMemory
  /\ pc' = "panic"
  /\ UNCHANGED <<links, esp, task, current>>

\* The new task is linked in front of next_task: last in running order.
AddLink ==
  /\ pc = "add"
  /\ IF next_task # NULL
     THEN /\ next'     = [next EXCEPT ![previous[next_task]] = task, ![task] = next_task]
          /\ previous' = [previous EXCEPT ![task] = previous[next_task],
                                          ![next_task] = task]
          /\ UNCHANGED next_task
     ELSE /\ next'      = [next EXCEPT ![task] = task]
          /\ previous'  = [previous EXCEPT ![task] = task]
          /\ next_task' = task
  /\ task' = NULL
  /\ pc'   = ReturnFromAdd
  /\ UNCHANGED <<poolVars, esp, current>>

-----------------------------------------------------------------------------
(***************************************************************************)
(* scheduler_run                                                           *)
(***************************************************************************)

Run ==
  /\ pc = "caller"
  /\ pc' = "run"
  /\ UNCHANGED <<poolVars, links, esp, task, current>>

RunReturns ==
  /\ pc = "run"
  /\ next_task = NULL
  /\ pc' = "caller"
  /\ UNCHANGED <<poolVars, links, esp, task, current>>

\* Mutant of Resume: the loop tests next_task after resuming it.
ResumeUnchecked ==
  /\ pc = "run"
  /\ esp' = next_task
  /\ pc'  = "task"
  /\ UNCHANGED <<poolVars, links, task, current>>

\* _resume_task(&kernel_task, next_task)
Resume ==
  /\ pc = "run"
  /\ next_task # NULL
  /\ esp' = next_task
  /\ pc'  = "task"
  /\ UNCHANGED <<poolVars, links, task, current>>

\* Mutant of Advance: the task that gave up the processor is next again.
AdvanceNowhere ==
  /\ pc = "resumed"
  /\ pc' = "run"
  /\ UNCHANGED <<poolVars, links, esp, task, current>>

\* _resume_task has returned.
Advance ==
  /\ pc = "resumed"
  /\ next_task' = IF next_task # NULL THEN next[next_task] ELSE NULL
  /\ pc' = "run"
  /\ UNCHANGED <<poolVars, next, previous, esp, task, current>>

-----------------------------------------------------------------------------
(***************************************************************************)
(* A task gives up the processor                                           *)
(***************************************************************************)

\* scheduler_yield: _resume_task(current, &kernel_task)
Yield ==
  /\ pc = "task"
  /\ esp' = KernelStack
  /\ pc'  = "resumed"
  /\ UNCHANGED <<poolVars, links, task, current>>

\* Mutant of Unlink: the neighbour behind keeps pointing at the task.
UnlinkForwardOnly ==
  IF next[esp] = esp
  THEN /\ next_task' = NULL
       /\ UNCHANGED <<next, previous>>
  ELSE /\ next' = [next EXCEPT ![previous[esp]] = next[esp]]
       /\ next_task' = previous[esp]
       /\ UNCHANGED previous

\* Mutant of Unlink: next_task becomes the task behind, which the run loop
\* then steps over.
UnlinkToNext ==
  IF next[esp] = esp
  THEN /\ next_task' = NULL
       /\ UNCHANGED <<next, previous>>
  ELSE /\ next'     = [next EXCEPT ![previous[esp]] = next[esp]]
       /\ previous' = [previous EXCEPT ![next[esp]] = previous[esp]]
       /\ next_task' = next[esp]

\* The links of the last task are left alone.  next_task is set back by one:
\* the run loop advances it.
Unlink ==
  IF next[esp] = esp
  THEN /\ next_task' = NULL
       /\ UNCHANGED <<next, previous>>
  ELSE /\ next'     = [next EXCEPT ![previous[esp]] = next[esp]]
       /\ previous' = [previous EXCEPT ![next[esp]] = previous[esp]]
       /\ next_task' = previous[esp]

\* The task's code returns into _cleanup_task.
Exit ==
  /\ pc = "task"
  /\ Unlink
  /\ current' = esp
  /\ pc' = "cleanup"
  /\ UNCHANGED <<poolVars, esp, task>>

\* Mutant of LeaveStack: the page is freed while the processor is on it.
StayOnStack ==
  /\ pc = "cleanup"
  /\ pc' = "dealloc"
  /\ UNCHANGED <<poolVars, links, esp, task, current>>

\* _dealloc_and_jump_to_task loads the kernel's stack pointer ...
LeaveStack ==
  /\ pc = "cleanup"
  /\ esp' = KernelStack
  /\ pc'  = "dealloc"
  /\ UNCHANGED <<poolVars, links, task, current>>

\* ... and frees the task's page on the kernel's stack.  memory_free_page
\* writes struct free_pages over scheduler and next.
Deallocate ==
  /\ pc = "dealloc"
  /\ Pool!FreePage(current)
  /\ \E header \in free \union {NULL} : next' = [next EXCEPT ![current] = header]
  /\ current' = NULL
  /\ pc' = "resumed"
  /\ UNCHANGED <<next_task, previous, esp, task>>

-----------------------------------------------------------------------------
SchedulerAddProcess == (\E p \in Pages : AddAllocate(p)) \/ AddOutOfMemory

\* What runs on without anybody's leave.
KernelStep ==
  AddLink \/ RunReturns \/ Resume \/ Advance \/ LeaveStack \/ Deallocate

Next ==
  \/ SchedulerAddProcess
  \/ Run
  \/ Yield
  \/ Exit
  \/ KernelStep

\* The processor executes; a task may keep it for ever.
Spec == Init /\ [][Next]_vars /\ WF_vars(KernelStep)

-----------------------------------------------------------------------------
(***************************************************************************)
(* The ring as a queue                                                     *)
(***************************************************************************)

\* The tasks that have been linked and not unlinked.
Live == owned \ {task, current}

\* Who runs next: scheduler_run has yet to advance next_task while it waits
\* for _resume_task to return from a task that has given up the processor.
FirstTask ==
  IF next_task # NULL /\ pc \in {"cleanup", "dealloc", "resumed"}
  THEN next[next_task]
  ELSE next_task

Distinct(q) == \A i, j \in DOMAIN q : q[i] = q[j] => i = j

TaskOrders ==
  {q \in UNION {[1 .. n -> Pages] : n \in 0 .. Cardinality(Pages)} : Distinct(q)}

\* q is the ring, from first on.
IsRing(q, first) ==
  IF first = NULL
  THEN q = <<>>
  ELSE /\ q # <<>>
       /\ q[1] = first
       /\ \A i \in DOMAIN q :
            LET j == IF i = Len(q) THEN 1 ELSE i + 1
            IN  next[q[i]] = q[j] /\ previous[q[j]] = q[i]

-----------------------------------------------------------------------------
(***************************************************************************)
(* Safety                                                                  *)
(***************************************************************************)

\* Whatever tasks add, yield and exit, and also while one is being added or
\* cleaned up: all live tasks, and no other page, are on one ring that
\* next_task points into, and previous goes back where next goes forward.
RingHoldsLiveTasks ==
  \E q \in TaskOrders :
    IsRing(q, FirstTask) /\ {q[i] : i \in DOMAIN q} = Live

\* The processor never runs on the stack of a page that is free or about to
\* be freed, nothing is linked that can be freed, and the ROSE_ASSERT of
\* _push_to_task_stack (scheduler.c:71) holds.
NoUseAfterFree ==
  /\ esp # KernelStack => esp \in owned
  /\ pc = "dealloc" => esp # current
  /\ pc = "task" => esp = next_task
  /\ pc = "add"  => task # esp

(***************************************************************************)
(* Liveness                                                                *)
(***************************************************************************)

\* As long as tasks give up the processor and scheduler_run is called, every
\* live task gets to run, however many tasks are added in the meantime.
NoStarvation ==
  []<>(pc = "run") => \A p \in Pages : p \in Live ~> pc = "task" /\ esp = p

(***************************************************************************)
(* The scheduler implements a queue of tasks                               *)
(***************************************************************************)
TaskQueue == CHOOSE q \in TaskOrders : IsRing(q, FirstTask)

Running == IF esp = KernelStack \/ pc = "cleanup" THEN NULL ELSE esp

Queue == INSTANCE RoundRobin WITH
  Tasks <- Pages, NoTask <- NULL, queue <- TaskQueue, running <- Running

ImplementsRoundRobin == Queue!QueueSpec
=============================================================================
