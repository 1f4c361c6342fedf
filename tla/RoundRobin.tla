----------------------------- MODULE RoundRobin -----------------------------
(***************************************************************************)
(* What the scheduler of src/scheduler.c promises to the code that runs    *)
(* under it, without the ring of task structures: a first-in, first-out    *)
(* queue of tasks.  The task at its head runs until it gives up the        *)
(* processor; a task that yields goes to the end of the queue, behind the  *)
(* tasks it has added itself.                                              *)
(***************************************************************************)
EXTENDS Sequences

CONSTANTS Tasks, NoTask

VARIABLES
  queue,            \* the tasks that have not finished, in running order
  running           \* the task that has the processor, or NoTask

roundRobinVars == <<queue, running>>

Queued == {queue[i] : i \in DOMAIN queue}

QueueInit == queue = <<>> /\ running = NoTask

\* A new task goes to the end, whoever adds it.
Add(t) ==
  /\ t \in Tasks \ Queued
  /\ queue' = Append(queue, t)
  /\ UNCHANGED running

Dispatch ==
  /\ running = NoTask
  /\ queue # <<>>
  /\ running' = Head(queue)
  /\ UNCHANGED queue

YieldProcessor ==
  /\ running # NoTask
  /\ queue'   = Append(Tail(queue), running)
  /\ running' = NoTask

Finish ==
  /\ running # NoTask
  /\ queue'   = Tail(queue)
  /\ running' = NoTask

QueueNext == (\E t \in Tasks : Add(t)) \/ Dispatch \/ YieldProcessor \/ Finish

QueueSpec == QueueInit /\ [][QueueNext]_roundRobinVars
=============================================================================
