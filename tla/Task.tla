-------------------------------- MODULE Task --------------------------------
(***************************************************************************)
(* The scheduler of miniOS (task.c, task.h): the circular ready list, the  *)
(* FIFO list of blocked tasks, the one retired task whose memory is still  *)
(* in use, and the kill flag.                                              *)
(*                                                                         *)
(* There is one CPU and every operation below runs with interrupts         *)
(* disabled, so each is one step.  A task that blocks leaves its           *)
(* continuation inside task_block_current(); when it runs again its first  *)
(* step is what follows that call in task_block_killable().                *)
(***************************************************************************)
EXTENDS Naturals, Sequences, FiniteSets, SequencesExt

CONSTANTS
  Tasks,       \* task control blocks, each with its stack: what the PMM can give
  Main, Idle,  \* the kernel's first task (the shell) and the idle task
  Processes,   \* user processes
  Channels,    \* wait channels
  NoTask, NoProcess, NoChannel

\* What the constants have to satisfy.
TaskAssumption ==
  /\ {Main, Idle} \subseteq Tasks /\ Main # Idle
  /\ NoTask \notin Tasks /\ NoProcess \notin Processes /\ NoChannel \notin Channels

VARIABLES
  ring,      \* the ready list from ready_queue on; its last element links to its first
  blocked,   \* blocked_tasks, oldest waiter first
  current,   \* current_task
  retired,   \* retired_task
  tcb,       \* the control blocks
  ahead      \* history: for a blocked task, who waited on its channel before it

vars == <<ring, blocked, current, retired, tcb, ahead>>

-----------------------------------------------------------------------------
(* State *)

\* A control block that is not allocated.
Free == [used |-> FALSE, chan |-> NoChannel, process |-> NoProcess,
         kill |-> FALSE, parked |-> FALSE]

\* parked: the task's continuation is inside task_block_current().
NewTcb(p) == [Free EXCEPT !.used = TRUE, !.process = p]

\* add_ready_task(): the task goes right after ready_queue.
AddReady(r, t) == IF r = <<>> THEN <<t>> ELSE <<Head(r), t>> \o Tail(r)

\* The loops of task_wake_all() and task_kill_blocked() call add_ready_task()
\* on each task they take, in list order.
AddAllReady(r, ts) == FoldLeft(AddReady, r, ts)

\* task->next
NextOf(t) == LET at == CHOOSE k \in DOMAIN ring : ring[k] = t
             IN  ring[(at % Len(ring)) + 1]

\* Faulty variant: a list head that is not moved on when its task leaves.
UnlinkNotHead(r, t) == IF Head(r) = t THEN r ELSE SelectSeq(r, LAMBDA u : u # t)

\* Unlink t; when t is ready_queue its successor becomes ready_queue.
Unlink(r, t) == SelectSeq(r, LAMBDA u : u # t)

\* reap_retired_task(): the control block and stack go back to the PMM.
Reaped(b) == IF retired = NoTask THEN b ELSE [b EXCEPT ![retired] = Free]

\* The tasks of W leave the blocked list and become ready.
Wake(W) ==
  LET taken == SelectSeq(blocked, LAMBDA u : u \in W) IN
  /\ ring' = AddAllReady(ring, taken)
  /\ blocked' = SelectSeq(blocked, LAMBDA u : u \notin W)
  /\ ahead' = [t \in Tasks |-> IF t \in W THEN {} ELSE ahead[t] \ W]

NotWaiting(b, W) == [t \in Tasks |-> IF t \in W THEN [b[t] EXCEPT !.chan = NoChannel]
                                                ELSE b[t]]

Waiters(ch) == {t \in ToSet(blocked) : tcb[t].chan = ch}

\* tasking_init(): the running thread becomes Main, and the idle task is created.
Init ==
  /\ ring = <<Main, Idle>>
  /\ blocked = <<>>
  /\ current = Main
  /\ retired = NoTask
  /\ tcb = [t \in Tasks |-> IF t \in {Main, Idle} THEN NewTcb(NoProcess) ELSE Free]
  /\ ahead = [t \in Tasks |-> {}]

-----------------------------------------------------------------------------
(* Operations *)

\* The code of the current task runs: in user mode, in a syscall, or in an
\* interrupt handler on top of it.  A task fresh from task_block_current() first
\* has to look at its kill flag.
Running == ~tcb[current].parked

\* create_task().  Without a free block it returns 0 and nothing has changed.
CreateTask(p) ==
  /\ Running /\ current # Idle
  /\ \E t \in {u \in Tasks : ~tcb[u].used} :
       /\ tcb' = [tcb EXCEPT ![t] = NewTcb(p)]
       /\ ring' = AddReady(ring, t)
  /\ UNCHANGED <<blocked, current, retired, ahead>>

\* task_exit(): free the previously retired task, unlink and retire this one,
\* switch away, and let the exit callback wake the channels it notifies.
TaskExit(notified) ==
  LET W == UNION {Waiters(ch) : ch \in notified}
      rest == Unlink(ring, current)
      taken == SelectSeq(blocked, LAMBDA u : u \in W)
  IN
  /\ Len(ring) > 1
  /\ current' = NextOf(current)
  /\ retired' = current
  /\ tcb' = NotWaiting(Reaped(tcb), W)
  /\ ring' = AddAllReady(rest, taken)
  /\ blocked' = SelectSeq(blocked, LAMBDA u : u \notin W)
  /\ ahead' = [t \in Tasks |-> IF t \in W THEN {} ELSE ahead[t] \ W]

\* task_block_current(): a no-op for the only ready task.
BlockCurrent(ch) ==
  /\ Len(ring) > 1
  /\ ring' = Unlink(ring, current)
  /\ blocked' = Append(blocked, current)
  /\ tcb' = [tcb EXCEPT ![current].chan = ch, ![current].parked = TRUE]
  /\ current' = NextOf(current)
  /\ ahead' = [ahead EXCEPT ![current] = Waiters(ch)]
  /\ UNCHANGED retired

\* task_block_killable() up to the block: a flagged task never waits again.
Block(ch) ==
  /\ Running /\ current # Idle
  /\ \/ ~tcb[current].kill /\ BlockCurrent(ch)
     \/ tcb[current].kill /\ \E C \in SUBSET Channels : TaskExit(C)

\* task_block_killable() after the block.
Resume ==
  /\ tcb[current].parked
  /\ \/ /\ ~tcb[current].kill
        /\ tcb' = [tcb EXCEPT ![current].parked = FALSE]
        /\ UNCHANGED <<ring, blocked, current, retired, ahead>>
     \/ tcb[current].kill /\ \E C \in SUBSET Channels : TaskExit(C)

\* task_wake_one(): the first waiter of the list that matches.
WakeOne(ch) ==
  /\ Running /\ Waiters(ch) # {}
  /\ LET first == blocked[SelectInSeq(blocked, LAMBDA u : tcb[u].chan = ch)] IN
     /\ Wake({first})
     /\ tcb' = NotWaiting(tcb, {first})
  /\ UNCHANGED <<current, retired>>

\* task_wake_all()
WakeAll(ch) ==
  /\ Running /\ Waiters(ch) # {}
  /\ Wake(Waiters(ch))
  /\ tcb' = NotWaiting(tcb, Waiters(ch))
  /\ UNCHANGED <<current, retired>>

\* task_wake_task()
WakeTask(t) ==
  /\ Running /\ t \in ToSet(blocked)
  /\ Wake({t})
  /\ tcb' = NotWaiting(tcb, {t})
  /\ UNCHANGED <<current, retired>>

\* Faulty variant: only the blocked tasks of p are flagged.
KillBlockedOnlyParked(p) ==
  LET mine == {t \in ToSet(blocked) : tcb[t].process = p} IN
  /\ Running /\ mine # {}
  /\ Wake(mine)
  /\ tcb' = [t \in Tasks |-> IF t \in mine
                             THEN [tcb[t] EXCEPT !.kill = TRUE, !.chan = NoChannel]
                             ELSE tcb[t]]
  /\ UNCHANGED <<current, retired>>

\* task_kill_blocked(): flag the ready tasks of p, flag and wake its blocked ones.
KillBlocked(p) ==
  LET Mine(ts) == {t \in ToSet(ts) : tcb[t].process = p} IN
  /\ Running
  /\ Mine(ring) \cup Mine(blocked) # {}
  /\ Wake(Mine(blocked))
  /\ tcb' = [t \in Tasks |->
               IF t \in Mine(ring) \cup Mine(blocked)
               THEN [tcb[t] EXCEPT !.kill = TRUE, !.chan = NoChannel]
               ELSE tcb[t]]
  /\ UNCHANGED <<current, retired>>

\* Faulty variant: always switch to ready_queue.
ScheduleHead ==
  /\ tcb' = Reaped(tcb)
  /\ retired' = NoTask
  /\ current' = Head(ring)
  /\ UNCHANGED <<ring, blocked, ahead>>

\* schedule(): free the retired task and switch to the next one of the ring.
Schedule ==
  /\ tcb' = Reaped(tcb)
  /\ retired' = NoTask
  /\ current' = NextOf(current)
  /\ UNCHANGED <<ring, blocked, ahead>>

\* A timer interrupt that finds the current task unflagged.
Preempt == ~tcb[current].kill /\ Schedule

\* Faulty variant: no process_check_kill().
TickNoKill == Running /\ Schedule

\* The timer interrupt: process_check_kill(), then schedule().
Tick ==
  /\ Running
  /\ Preempt \/ (tcb[current].kill /\ \E C \in SUBSET Channels : TaskExit(C))

\* A user task calls exit() or faults.
Exit ==
  /\ Running /\ tcb[current].process # NoProcess
  /\ \E C \in SUBSET Channels : TaskExit(C)

Next ==
  \/ \E p \in Processes : CreateTask(p) \/ KillBlocked(p)
  \/ \E ch \in Channels : Block(ch) \/ WakeOne(ch) \/ WakeAll(ch)
  \/ \E t \in Tasks : WakeTask(t)
  \/ Resume \/ Tick \/ Exit

Spec == Init /\ [][Next]_vars

-----------------------------------------------------------------------------
(* Properties *)

\* Every variable has its type.
TypeOK ==
  /\ ring \in Seq(Tasks) /\ blocked \in Seq(Tasks)
  /\ current \in Tasks
  /\ retired \in Tasks \cup {NoTask}
  /\ tcb \in [Tasks -> [used : BOOLEAN, chan : Channels \cup {NoChannel},
                       process : Processes \cup {NoProcess},
                       kill : BOOLEAN, parked : BOOLEAN]]
  /\ ahead \in [Tasks -> SUBSET Tasks]

\* The lists never lose, share or duplicate a task: every allocated control block
\* is exactly once in the ready ring, in the blocked list or retired.  The running
\* task is in the ring, and so is the idle task, so that task_block_current()
\* always finds somebody to switch to and never falls through without blocking.
ListsPartitionTasks ==
  LET R == ToSet(ring)
      B == ToSet(blocked)
      D == {retired} \ {NoTask}
  IN
  /\ R \cup B \cup D = {t \in Tasks : tcb[t].used}
  /\ R \cap B = {} /\ R \cap D = {} /\ B \cap D = {}
  /\ Len(ring) = Cardinality(R) /\ Len(blocked) = Cardinality(B)
  /\ {current, Idle} \subseteq R /\ Main \notin D
  /\ current = Idle => ~tcb[Idle].parked

\* task_wake_one() wakes the task that has waited longest: nobody who was already
\* waiting on the channel when the woken task parked is still waiting.
WakeOneIsFifo ==
  [][\A ch \in Channels : WakeOne(ch) =>
       \A t \in ToSet(blocked) \ ToSet(blocked') : ahead[t] = {}]_vars

\* The lists implement the scheduler's promise.
Abstract == INSTANCE Scheduler WITH ready <- ToSet(ring), waiting <- ToSet(blocked)

\* Every step of task.c is a step of the abstract scheduler: which task is woken,
\* which one is freed and who may run next agree with its sets and its order.
ImplementsScheduler == Abstract!Spec

\* The CPU keeps executing, and the PIT interrupt is latched while interrupts
\* are off and taken as soon as they are on again.
FairSpec == Spec /\ WF_vars(Resume) /\ SF_vars(Tick)

\* The same, when processes are not killed without end: again and again a tick
\* lands on a task that has not been marked.
CalmSpec == FairSpec /\ []<><<Running /\ Preempt>>_vars

\* Round robin: every task of the ready ring eventually gets the CPU.
RoundRobin == \A t \in Tasks : t \in ToSet(ring) ~> current = t

\* A task that has been marked for termination eventually runs no more.
KilledTaskDies == \A t \in Tasks : tcb[t].kill ~> (retired = t \/ ~tcb[t].used)
=============================================================================
