----------------------------- MODULE Semaphore -----------------------------
(***************************************************************************)
(* One of the counting semaphores of miniOS (sem.c) and the tasks that use *)
(* it.  The eight semaphores are independent of each other.  Operations    *)
(* run with interrupts disabled; a wait that finds the count at zero       *)
(* blocks and tests the count again when it runs after having been woken.  *)
(***************************************************************************)
EXTENDS Integers, FiniteSets

CONSTANTS
  Callers,    \* the tasks that use it
  MaxValue,   \* INT32_MAX
  Kills       \* TRUE: tasks may be killed

ASSUME SemaphoreAssumption ==
  IsFiniteSet(Callers) /\ MaxValue \in Nat \ {0} /\ Kills \in BOOLEAN

VARIABLES
  used, value,   \* the ksem_t
  blocked,       \* tasks parked on the semaphore in sem_wait()
  woken,         \* tasks woken from there that have not run since
  flagged,       \* tasks marked for termination
  gone           \* tasks that have ended

semaphoreVars == <<used, value, blocked, woken, flagged, gone>>

SemaphoreInit ==
  /\ used = FALSE /\ value = 0
  /\ blocked = {} /\ woken = {} /\ flagged = {} /\ gone = {}

-----------------------------------------------------------------------------
RunningTask(t) == t \notin blocked \cup woken \cup gone

\* Faulty variant: the waiters of the previous use go on sleeping.
SemInitNoWake(t, v) ==
  /\ RunningTask(t)
  /\ used' = TRUE /\ value' = v
  /\ UNCHANGED <<blocked, woken, flagged, gone>>

\* sem_init(): sets the count and lets every waiter look at it.
SemInit(t, v) ==
  /\ RunningTask(t)
  /\ used' = TRUE /\ value' = v
  /\ woken' = woken \cup blocked /\ blocked' = {}
  /\ UNCHANGED <<flagged, gone>>

\* task_exit()
EndsTask(t) ==
  /\ gone' = gone \cup {t}
  /\ woken' = woken \ {t} /\ flagged' = flagged \ {t}
  /\ UNCHANGED <<used, value, blocked>>

\* The loop of sem_wait(), up to where it blocks or returns.
TakeOrBlock(t) ==
  IF value > 0
  THEN /\ value' = value - 1 /\ woken' = woken \ {t}
       /\ UNCHANGED <<used, blocked, flagged, gone>>
  ELSE IF t \in flagged THEN EndsTask(t)
  ELSE /\ blocked' = blocked \cup {t} /\ woken' = woken \ {t}
       /\ UNCHANGED <<used, value, flagged, gone>>

\* sem_wait(); on a semaphore that was never initialised it returns -1.
SemWait(t) == RunningTask(t) /\ used /\ TakeOrBlock(t)

\* A woken task runs again in sem_wait().
ResumeWait(t) ==
  /\ t \in woken
  /\ IF t \in flagged THEN EndsTask(t) ELSE TakeOrBlock(t)

\* Faulty variant: a count that is already positive wakes nobody.
SemPostQuiet(t) ==
  /\ RunningTask(t) /\ used /\ value < MaxValue
  /\ value' = value + 1
  /\ IF blocked = {} \/ value > 0 THEN UNCHANGED <<blocked, woken>>
     ELSE \E u \in blocked : blocked' = blocked \ {u} /\ woken' = woken \cup {u}
  /\ UNCHANGED <<used, flagged, gone>>

\* sem_post(): -1 at the largest count; wakes one waiter.  The scheduler takes
\* the oldest one; which one it is makes no difference here.
SemPost(t) ==
  /\ RunningTask(t) /\ used /\ value < MaxValue
  /\ value' = value + 1
  /\ IF blocked = {} THEN UNCHANGED <<blocked, woken>>
     ELSE \E u \in blocked : blocked' = blocked \ {u} /\ woken' = woken \cup {u}
  /\ UNCHANGED <<used, flagged, gone>>

\* task_kill_blocked() on the task's process: a blocked task is woken.
KillTask(t) ==
  /\ Kills /\ t \notin gone \cup flagged
  /\ flagged' = flagged \cup {t}
  /\ blocked' = blocked \ {t}
  /\ woken' = IF t \in blocked THEN woken \cup {t} ELSE woken
  /\ UNCHANGED <<used, value, gone>>

\* process_send_signal() wakes a blocked task by identity, for no reason that
\* sem_wait() knows of.
SignalTask(t) ==
  /\ t \in blocked
  /\ blocked' = blocked \ {t} /\ woken' = woken \cup {t}
  /\ UNCHANGED <<used, value, flagged, gone>>

\* process_check_kill() on the tick that lands on t.
TickEnds(t) == RunningTask(t) /\ t \in flagged /\ EndsTask(t)

SemaphoreNext ==
  \E t \in Callers :
    \/ \E v \in 0 .. MaxValue : SemInit(t, v)
    \/ SemWait(t) \/ ResumeWait(t) \/ SemPost(t) \/ SignalTask(t)
    \/ KillTask(t) \/ TickEnds(t)

SemaphoreSpec == SemaphoreInit /\ [][SemaphoreNext]_semaphoreVars

\* Woken tasks get the CPU.
SemaphoreFairSpec == SemaphoreSpec /\ \A t \in Callers : WF_semaphoreVars(ResumeWait(t))

-----------------------------------------------------------------------------
(* Properties *)

\* Every variable has its type.  In particular the count is never negative and
\* never exceeds INT32_MAX, whatever woken waiters and newcomers take from it.
SemaphoreTypeOK ==
  /\ used \in BOOLEAN /\ value \in 0 .. MaxValue
  /\ blocked \in SUBSET Callers /\ woken \in SUBSET Callers
  /\ flagged \in SUBSET Callers /\ gone \in SUBSET Callers

\* Posts are lost only with killed tasks: while a task is blocked in sem_wait(), every
\* unit of the count has a woken task on its way to it, or lost the one it woke to a
\* kill.  Without kills no post is lost at all, and a kill costs one post at most.
PostsHaveTakers == blocked # {} => value <= Cardinality(woken \cup gone)

\* The strengthening: a task is blocked, woken or dead and never two of these, and
\* nobody waits on a semaphore that was never initialised.
SemInv ==
  /\ SemaphoreTypeOK /\ PostsHaveTakers
  /\ blocked \cap woken = {} /\ blocked \cap gone = {} /\ woken \cap gone = {}
  /\ ~used => blocked = {} /\ woken = {} /\ value = 0

\* A task blocked in sem_wait() does not stay there for ever while the count stays
\* positive: "block until the count is positive, then decrement".
WaitEndsWhenPositive ==
  \A t \in Callers : t \in blocked ~> (t \notin blocked \/ value = 0)
=============================================================================
