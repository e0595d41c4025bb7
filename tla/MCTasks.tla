------------------------------ MODULE MCTasks ------------------------------
(***************************************************************************)
(* Scheduler and Task for TLC, with the same tasks, process and channels.  *)
(* The two share no state, so a behaviour runs one of them, part, and       *)
(* leaves the other in its initial state.                                   *)
(***************************************************************************)
EXTENDS Scheduler

VARIABLES part, ring, blocked, running, left, block, before

Lists == INSTANCE Task
           WITH current <- running, retired <- left, tcb <- block, ahead <- before

listVars == <<ring, blocked, running, left, block, before>>

ASSUME ListsConstants == Lists!TaskAssumption

Promise(A) == part = "promise" /\ A /\ UNCHANGED <<part, listVars>>
List(A) == part = "lists" /\ A /\ UNCHANGED <<part, vars>>

TasksInit == part \in {"promise", "lists"} /\ Init /\ Lists!Init
TasksNext == Promise(Next) \/ List(Lists!Next)
all == <<part, vars, listVars>>

\* The fairness of Task!CalmSpec, for the behaviours that run Task.
TasksSpec ==
  /\ TasksInit /\ [][TasksNext]_all
  /\ WF_all(List(Lists!Resume)) /\ SF_all(List(Lists!Tick))
  /\ part = "lists" => []<><<List(Lists!Running /\ Lists!Preempt)>>_all

-----------------------------------------------------------------------------
(* Properties of Task; those of Scheduler are checked under their own names. *)

\* Task!TypeOK and Task!ListsPartitionTasks: every allocated control block of task.c
\* is exactly once in the ready ring, in the blocked list or retired, and the running
\* and the idle task are in the ring, over all blocks, wake-ups, kills and exits.
ListsPartitionTasks == Lists!TypeOK /\ Lists!ListsPartitionTasks

\* Every step of the lists of task.c is a step of the abstract scheduler, and
\* task_wake_one() wakes the task that has waited longest on the channel.
ImplementsScheduler == Lists!ImplementsScheduler /\ Lists!WakeOneIsFifo

\* Round robin: every task of the ready ring eventually gets the CPU.
RoundRobin == part = "lists" => Lists!RoundRobin

\* A task that has been marked for termination eventually runs no more.
KilledTaskDies == part = "lists" => Lists!KilledTaskDies
=============================================================================
