------------------------------- MODULE Timer -------------------------------
(***************************************************************************)
(* Timed waits in miniOS (timer.c, sys_alarm): the 32-bit tick counter,    *)
(* the fixed table of sleep slots, and one alarm per process.  Each task   *)
(* stands for a single-threaded process; a dead task's control block can   *)
(* be reused by a new one.                                                 *)
(***************************************************************************)
EXTENDS Integers, FiniteSets

CONSTANTS
  Tasks, NoTask,
  S,       \* MAX_SLEEPING_TASKS
  Half,    \* 2^31: sleeps and alarms are shorter than this many ticks
  MaxSkips \* bound: ticks in a row that each end a task

\* What the constants have to satisfy.
TimerAssumption ==
  /\ NoTask \notin Tasks /\ S \in Nat \ {0} /\ Half \in Nat \ {0, 1}
  /\ MaxSkips \in 0 .. Half - 1

W == 2 * Half          \* the tick counter is unsigned and W is 2^32
Slots == 1 .. S
Delays == 1 .. Half - 1

VARIABLES
  timer_ticks,
  slot,        \* sleeping_tasks[]
  st,          \* what each task does
  at,          \* the slot a sleeping task is parked on
  kill,        \* kill_pending
  alarm,       \* alarm_active and alarm_tick of each process
  left,        \* history: ticks until the sleep of a task is over
  due,         \* history: ticks until the alarm of a task is due
  disturbed,   \* history: the tasks whose sleep a signal or a kill ended
  skips        \* history: how many ticks in a row have ended a task just now

vars == <<timer_ticks, slot, st, at, kill, alarm, left, due, disturbed, skips>>

Empty == [task |-> NoTask, wake |-> 0]
NoAlarm == [active |-> FALSE, tick |-> 0]

Init ==
  /\ timer_ticks \in 0 .. W - 1
  /\ slot = [i \in Slots |-> Empty]
  /\ st = [t \in Tasks |-> "run"] /\ at = [t \in Tasks |-> 0]
  /\ kill = [t \in Tasks |-> FALSE]
  /\ alarm = [t \in Tasks |-> NoAlarm]
  /\ left = [t \in Tasks |-> 0] /\ due = [t \in Tasks |-> 0]
  /\ disturbed = {} /\ skips = 0

-----------------------------------------------------------------------------
\* Faulty variant: deadlines compared as plain unsigned numbers.
TickReachedUnsigned(now, deadline) == now >= deadline

\* tick_reached(): the sign of the 32-bit difference.
TickReached(now, deadline) == (now - deadline) % W < Half

\* timer_ticks + ticks
Deadline(n) == (timer_ticks + n) % W

\* timer_sleep(): the first free slot, or -1 when there is none; a task that is
\* marked ends instead.
Sleep(t, n) ==
  /\ st[t] = "run"
  /\ IF kill[t]
     THEN /\ st' = [st EXCEPT ![t] = "dead"]
          /\ UNCHANGED <<slot, at, left>>
     ELSE LET free == {i \in Slots : slot[i].task = NoTask} IN
          /\ free # {}
          /\ LET i == CHOOSE i \in free : \A j \in free : i <= j IN
             /\ slot' = [slot EXCEPT ![i] = [task |-> t, wake |-> Deadline(n)]]
             /\ at' = [at EXCEPT ![t] = i]
          /\ st' = [st EXCEPT ![t] = "asleep"]
          /\ left' = [left EXCEPT ![t] = n]
  /\ UNCHANGED <<timer_ticks, kill, alarm, due, disturbed, skips>>

\* A killed sleeper hands its slot back if the slot is still its own.
HandBack(t) == IF slot[at[t]].task = t THEN [slot EXCEPT ![at[t]] = Empty] ELSE slot

\* timer_sleep() behind task_block_current().
Resume(t) ==
  /\ st[t] = "woken"
  /\ IF kill[t]
     THEN st' = [st EXCEPT ![t] = "dead"] /\ slot' = HandBack(t)
     ELSE st' = [st EXCEPT ![t] = "run"] /\ UNCHANGED slot
  /\ disturbed' = disturbed \ {t}
  /\ at' = [at EXCEPT ![t] = 0]
  /\ left' = [left EXCEPT ![t] = 0]
  /\ UNCHANGED <<timer_ticks, kill, alarm, due, skips>>

\* process_send_signal() by another process, or process_request_kill(): a sleeper
\* is woken before its time.
Disturb(t, killing) ==
  /\ st[t] # "dead" /\ ~kill[t]
  /\ killing \/ st[t] = "asleep"
  /\ kill' = [kill EXCEPT ![t] = killing]
  /\ st' = [st EXCEPT ![t] = IF @ = "asleep" THEN "woken" ELSE @]
  /\ disturbed' = IF st[t] = "asleep" THEN disturbed \cup {t} ELSE disturbed
  /\ UNCHANGED <<timer_ticks, slot, at, alarm, left, due, skips>>

\* sys_alarm(): 0 cancels.
Alarm(t, n) ==
  /\ st[t] = "run"
  /\ alarm' = [alarm EXCEPT ![t] = IF n = 0 THEN NoAlarm
                                   ELSE [active |-> TRUE, tick |-> Deadline(n)]]
  /\ due' = [due EXCEPT ![t] = n]
  /\ UNCHANGED <<timer_ticks, slot, st, at, kill, left, disturbed, skips>>

\* Faulty variant: only slots whose sleeper is still there are cleared.
ExpiredOccupied(now) ==
  {i \in Slots : /\ slot[i].task # NoTask /\ TickReached(now, slot[i].wake)
                 /\ st[slot[i].task] = "asleep" /\ at[slot[i].task] = i}

\* The sleep slots whose time is over, and the alarms that ring, on a tick.
Expired(now) == {i \in Slots : slot[i].task # NoTask /\ TickReached(now, slot[i].wake)}
Rings(t, now) == st[t] # "dead" /\ alarm[t].active /\ TickReached(now, alarm[t].tick)

\* timer_callback() while the task c runs (or the kernel, for NoTask): expire the
\* slots, end c if it is marked, else raise the alarms and switch.
Tick(c) ==
  LET now == (timer_ticks + 1) % W
      over == Expired(now)
      ends == c # NoTask /\ kill[c]
      rung == IF ends THEN {} ELSE {t \in Tasks : Rings(t, now)}
      Up(t) == st[t] = "asleep" /\ (at[t] \in over \/ t \in rung)
  IN
  /\ c # NoTask => st[c] = "run"
  /\ ends => skips < MaxSkips
  /\ timer_ticks' = now
  /\ slot' = [i \in Slots |-> IF i \in over THEN Empty ELSE slot[i]]
  /\ st' = [t \in Tasks |-> IF t = c /\ ends THEN "dead" ELSE IF Up(t) THEN "woken" ELSE st[t]]
  /\ alarm' = [t \in Tasks |-> IF t \in rung \/ (t = c /\ ends) THEN NoAlarm ELSE alarm[t]]
  /\ disturbed' = disturbed \cup {t \in rung : st[t] = "asleep" /\ at[t] \notin over}
  /\ left' = [t \in Tasks |-> IF left[t] > 0 THEN left[t] - 1 ELSE 0]
  /\ due' = [t \in Tasks |-> IF due[t] > 0 THEN due[t] - 1 ELSE 0]
  /\ skips' = IF ends THEN skips + 1 ELSE 0
  /\ UNCHANGED <<at, kill>>

\* A new process in the control block of a dead one.
Create(t) ==
  /\ st[t] = "dead"
  /\ st' = [st EXCEPT ![t] = "run"] /\ kill' = [kill EXCEPT ![t] = FALSE]
  /\ alarm' = [alarm EXCEPT ![t] = NoAlarm]
  /\ at' = [at EXCEPT ![t] = 0]
  /\ UNCHANGED <<timer_ticks, slot, left, due, disturbed, skips>>

Next ==
  \/ \E t \in Tasks :
       \/ \E n \in Delays : Sleep(t, n)
       \/ \E n \in Delays \cup {0} : Alarm(t, n)
       \/ Resume(t) \/ Create(t)
       \/ \E killing \in BOOLEAN : Disturb(t, killing)
  \/ \E c \in Tasks \cup {NoTask} : Tick(c)

Spec == Init /\ [][Next]_vars

\* The timer interrupt keeps coming.
FairSpec == Spec /\ WF_vars(\E c \in Tasks \cup {NoTask} : Tick(c))

-----------------------------------------------------------------------------
(* Properties *)

\* Every variable has its type.
TypeOK ==
  /\ timer_ticks \in 0 .. W - 1
  /\ slot \in [Slots -> [task : Tasks \cup {NoTask}, wake : 0 .. W - 1]]
  /\ st \in [Tasks -> {"run", "asleep", "woken", "dead"}]
  /\ at \in [Tasks -> Slots \cup {0}] /\ kill \in [Tasks -> BOOLEAN]
  /\ alarm \in [Tasks -> [active : BOOLEAN, tick : 0 .. W - 1]]
  /\ left \in [Tasks -> 0 .. Half - 1] /\ due \in [Tasks -> 0 .. Half - 1]
  /\ disturbed \in SUBSET Tasks /\ skips \in 0 .. MaxSkips

\* A sleep lasts exactly as long as asked for, also when the tick counter wraps: a
\* sleeper is woken no later than on its tick, and, unless a signal or a kill
\* disturbs it, no earlier.
SleepsExactly ==
  \A t \in Tasks :
    /\ st[t] = "asleep" => left[t] > 0
    /\ st[t] = "woken" /\ t \notin disturbed => left[t] = 0

\* A sleeper always still has its slot, so that nobody else is parked on the same
\* channel and nobody else's deadline wakes it.
SleeperHoldsItsSlot == \A t \in Tasks : st[t] = "asleep" => slot[at[t]].task = t

\* An alarm never rings early; it rings on its tick, except that a tick that ends a
\* task does not look at the alarms and leaves them to the next one.
AlarmOnTime ==
  \A t \in Tasks : st[t] # "dead" /\ alarm[t].active => due[t] > 0 \/ skips > 0
AlarmNotEarly ==
  [][\A t \in Tasks : (alarm[t].active /\ ~alarm'[t].active /\ timer_ticks' # timer_ticks
                       /\ st'[t] # "dead") => due'[t] = 0]_vars

\* A slot is due within half the range of the counter, that of a sleeper when its sleep is
\* over.
SlotsDue ==
  /\ \A i \in Slots : slot[i].task # NoTask => \E n \in Delays : slot[i].wake = Deadline(n)
  /\ \A t \in Tasks : st[t] = "asleep" => at[t] \in Slots /\ slot[at[t]].wake = Deadline(left[t])

\* An alarm that a tick has passed over has waited for fewer ticks than have ended a task
\* in a row.
AlarmsDue ==
  \A t \in Tasks : st[t] # "dead" /\ alarm[t].active =>
    IF due[t] > 0 THEN alarm[t].tick = Deadline(due[t])
    ELSE (timer_ticks - alarm[t].tick) % W < skips

\* What timer.c promises, with what makes it inductive.
TimerInv ==
  /\ TypeOK /\ SleepsExactly /\ SleeperHoldsItsSlot /\ AlarmOnTime /\ SlotsDue /\ AlarmsDue

\* Every sleep slot is handed back in the end, also the one of a sleeper that a
\* signal woke early and that does not clear it.
SlotsComeBack == \A i \in Slots : slot[i].task # NoTask ~> slot[i].task = NoTask
=============================================================================
