------------------------------ MODULE Scheduler ------------------------------
(***************************************************************************)
(* What the scheduler of miniOS promises its callers: tasks are ready,     *)
(* waiting on a channel, or gone.  The lists of task.c are sets here, and  *)
(* any ready task may be the next to run; that the oldest waiter of a      *)
(* channel is woken first is kept as the relation "ahead".  Module Task    *)
(* implements this specification.                                          *)
(***************************************************************************)
EXTENDS Naturals

CONSTANTS Tasks, Main, Idle, Processes, Channels, NoTask, NoProcess, NoChannel

ASSUME SchedulerAssumption ==
  /\ Main \in Tasks /\ Idle \in Tasks /\ Main # Idle
  /\ NoTask \notin Tasks /\ NoProcess \notin Processes /\ NoChannel \notin Channels

VARIABLES
  ready,     \* the tasks of the ready ring
  waiting,   \* the tasks of the blocked list
  current,   \* the running task
  retired,   \* the exited task whose stack has not been freed, or NoTask
  tcb,       \* the control blocks
  ahead      \* for a waiting task, the tasks that waited on its channel before it

vars == <<ready, waiting, current, retired, tcb, ahead>>

Tcb == [used : BOOLEAN, chan : Channels \cup {NoChannel},
        process : Processes \cup {NoProcess}, kill : BOOLEAN, parked : BOOLEAN]

Free == [used |-> FALSE, chan |-> NoChannel, process |-> NoProcess,
         kill |-> FALSE, parked |-> FALSE]

NewTcb(p) == [used |-> TRUE, chan |-> NoChannel, process |-> p,
              kill |-> FALSE, parked |-> FALSE]

Init ==
  /\ ready = {Main, Idle} /\ waiting = {}
  /\ current = Main /\ retired = NoTask
  /\ tcb = [t \in Tasks |-> IF t \in {Main, Idle} THEN NewTcb(NoProcess) ELSE Free]
  /\ ahead = [t \in Tasks |-> {}]

-----------------------------------------------------------------------------
Running == ~tcb[current].parked

Waiters(ch) == {t \in waiting : tcb[t].chan = ch}

\* Faulty variant: the tasks are made ready but stay in the blocked list.
WakeKeeps(W) ==
  /\ waiting' = waiting
  /\ ahead' = [t \in Tasks |-> IF t \in W THEN {} ELSE ahead[t] \ W]

\* The tasks of W stop waiting.
Wake(W) ==
  /\ waiting' = waiting \ W
  /\ ahead' = [t \in Tasks |-> IF t \in W THEN {} ELSE ahead[t] \ W]

NotWaiting(W) == [t \in Tasks |-> IF t \in W THEN [tcb[t] EXCEPT !.chan = NoChannel]
                                             ELSE tcb[t]]

CreateTask(p) ==
  /\ Running /\ current # Idle
  /\ \E t \in Tasks :
       /\ ~tcb[t].used
       /\ tcb' = [tcb EXCEPT ![t] = NewTcb(p)]
       /\ ready' = ready \cup {t}
  /\ UNCHANGED <<waiting, current, retired, ahead>>

\* Faulty variant: the stack the CPU still uses is freed.
TaskExitFreesSelf ==
  /\ current # Main
  /\ tcb' = [tcb EXCEPT ![current] = Free]
  /\ ready' = ready \ {current}
  /\ current' \in ready \ {current}
  /\ UNCHANGED <<waiting, retired, ahead>>

\* The running task ends; a set W of waiters is notified.  The task that ended
\* before it is freed.
TaskExit ==
  /\ current # Main
  /\ \E W \in SUBSET waiting :
       /\ Wake(W)
       /\ ready' = (ready \ {current}) \cup W
       /\ tcb' = [t \in Tasks |-> IF t = retired THEN Free ELSE NotWaiting(W)[t]]
  /\ retired' = current
  /\ current' \in ready \ {current}

\* The running task waits, unless it has been marked for termination.
Block(ch) ==
  /\ Running /\ current # Idle
  /\ \/ /\ ~tcb[current].kill
        /\ ready' = ready \ {current}
        /\ waiting' = waiting \cup {current}
        /\ tcb' = [tcb EXCEPT ![current] = [@ EXCEPT !.chan = ch, !.parked = TRUE]]
        /\ ahead' = [ahead EXCEPT ![current] = Waiters(ch)]
        /\ current' \in ready \ {current}
        /\ UNCHANGED retired
     \/ tcb[current].kill /\ TaskExit

Resume ==
  /\ tcb[current].parked
  /\ \/ /\ ~tcb[current].kill
        /\ tcb' = [tcb EXCEPT ![current] = [@ EXCEPT !.parked = FALSE]]
        /\ UNCHANGED <<ready, waiting, current, retired, ahead>>
     \/ tcb[current].kill /\ TaskExit

\* One waiter that nobody is ahead of.
WakeOne(ch) ==
  /\ Running
  /\ \E t \in Waiters(ch) :
       /\ ahead[t] = {}
       /\ Wake({t}) /\ ready' = ready \cup {t} /\ tcb' = NotWaiting({t})
  /\ UNCHANGED <<current, retired>>

WakeSome ==
  /\ Running
  /\ \E W \in SUBSET waiting :
       Wake(W) /\ ready' = ready \cup W /\ tcb' = NotWaiting(W)
  /\ UNCHANGED <<current, retired>>

\* Every task of p is marked, and none of them waits any more.
KillBlocked(p) ==
  LET Mine == {t \in ready \cup waiting : tcb[t].process = p} IN
  /\ Running
  /\ Wake(Mine) /\ ready' = ready \cup Mine
  /\ tcb' = [t \in Tasks |-> IF t \in Mine
                             THEN [tcb[t] EXCEPT !.kill = TRUE, !.chan = NoChannel]
                             ELSE tcb[t]]
  /\ UNCHANGED <<current, retired>>

Tick ==
  /\ Running
  /\ \/ /\ ~tcb[current].kill
        /\ tcb' = [t \in Tasks |-> IF t = retired THEN Free ELSE tcb[t]]
        /\ retired' = NoTask
        /\ current' \in ready
        /\ UNCHANGED <<ready, waiting, ahead>>
     \/ tcb[current].kill /\ TaskExit

Exit == Running /\ tcb[current].process # NoProcess /\ TaskExit

Next ==
  \/ \E p \in Processes : CreateTask(p) \/ KillBlocked(p)
  \/ \E ch \in Channels : Block(ch) \/ WakeOne(ch)
  \/ WakeSome \/ Resume \/ Tick \/ Exit

Spec == Init /\ [][Next]_vars

-----------------------------------------------------------------------------
(* Properties *)

\* Every variable has its type.
TypeOK ==
  /\ ready \in SUBSET Tasks /\ waiting \in SUBSET Tasks
  /\ current \in Tasks
  /\ retired \in Tasks \cup {NoTask}
  /\ tcb \in [Tasks -> Tcb]
  /\ ahead \in [Tasks -> SUBSET Tasks]

\* A control block is allocated exactly while its task is ready, waiting or
\* retired, and never two of these; the running task is ready; the idle task is
\* always ready and the shell never ends.
TasksPartitioned ==
  /\ \A t \in Tasks : tcb[t].used <=> (t \in ready \cup waiting \/ t = retired)
  /\ ready \cap waiting = {} /\ retired \notin ready \cup waiting
  /\ current \in ready /\ Idle \in ready /\ Main \in ready \cup waiting

\* A task marked for termination never waits.
KilledNeverWaits == \A t \in waiting : ~tcb[t].kill

\* The strengthening: a task in the blocked list has its continuation parked; the two
\* kernel tasks run in no process and are never marked, and the idle task never parks.
SchedInv ==
  /\ TypeOK /\ TasksPartitioned /\ KilledNeverWaits
  /\ \A t \in waiting : tcb[t].parked
  /\ \A t \in {Main, Idle} : tcb[t].process = NoProcess /\ ~tcb[t].kill
  /\ ~tcb[Idle].parked

\* A control block and its stack are freed only when the task is neither running
\* nor on any list.
FreedOnlyWhenLeft ==
  [][\A t \in Tasks : (tcb[t].used /\ ~tcb'[t].used) =>
       t \notin ready \cup waiting \cup ready' \cup {current, current'}]_vars
=============================================================================
