----------------------------- MODULE TaskProofs -----------------------------
(***************************************************************************)
(* Proofs about tasks. The scheduler loses no task, lets none marked for   *)
(* termination wait and frees no stack in use, for any number of tasks,    *)
(* processes and channels. The flags of a process tell the truth about its *)
(* signals, and its main task never waits for one that has come. The       *)
(* cursor comes back to the screen whoever writes in the middle of a       *)
(* character of the shell's. Sleeps and alarms end on their tick, also     *)
(* when the counter wraps.                                                 *)
(***************************************************************************)
EXTENDS Scheduler, WellFoundedInduction, TLAPS

CONSTANTS Threads, Catchable, Width, Height, MaxRow
VARIABLES sig_pending, sig_handler, in_signal, stopped, op, blocked, inHandler,
          row, column, pc, xReg, yReg, cell

\* The signals of one process, and the terminal.
Sig == INSTANCE Signals
Term == INSTANCE Terminal WITH x <- xReg, y <- yReg

(* The scheduler *)

\* The control blocks of the two kernel tasks and of an empty slot are well typed.
LEMMA TcbTypes ==
  /\ Free \in Tcb
  /\ \A p \in Processes \cup {NoProcess} : NewTcb(p) \in Tcb
BY Zenon DEF Free, NewTcb, Tcb

\* tasking_init() establishes the invariant.
LEMMA InitSchedInv == Init => SchedInv
<1> SUFFICES ASSUME Init PROVE SchedInv
  BY Zenon
<1> USE SchedulerAssumption
<1>1. TypeOK
  BY TcbTypes, Zenon DEF Init, TypeOK
<1>2. TasksPartitioned
  BY Zenon DEF Init, TasksPartitioned, Free, NewTcb
<1>3. KilledNeverWaits /\ \A t \in waiting : tcb[t].parked
  BY Zenon DEF Init, KilledNeverWaits
<1>4. \A t \in {Main, Idle} : tcb[t].process = NoProcess /\ ~tcb[t].kill
  BY Zenon DEF Init, NewTcb
<1>5. ~tcb[Idle].parked
  BY Zenon DEF Init, NewTcb
<1> QED
  BY <1>1, <1>2, <1>3, <1>4, <1>5, Zenon DEF SchedInv

\* The end of a task, the part every killable wait, the tick and exit() share,
\* preserves the invariant: the block it frees belongs to the task that ended
\* before, never to one that is on a list.
LEMMA TaskExitSchedInv ==
  ASSUME SchedInv, TaskExit, current # Idle
  PROVE  SchedInv'
<1> USE SchedulerAssumption DEF SchedInv
<1>1. PICK W \in SUBSET waiting :
        /\ Wake(W)
        /\ ready' = (ready \ {current}) \cup W
        /\ tcb' = [t \in Tasks |-> IF t = retired THEN Free ELSE NotWaiting(W)[t]]
  BY Zenon DEF TaskExit
<1>2. /\ current # Main /\ retired' = current /\ current' \in ready \ {current}
      /\ waiting' = waiting \ W
      /\ ahead' = [t \in Tasks |-> IF t \in W THEN {} ELSE ahead[t] \ W]
  BY <1>1, Zenon DEF TaskExit, Wake
<1>3. \A t \in Tasks \ W : NotWaiting(W)[t] = tcb[t]
  BY Zenon DEF NotWaiting
<1>4. \A t \in W : /\ NotWaiting(W)[t] \in Tcb
                   /\ NotWaiting(W)[t].used = tcb[t].used
                   /\ NotWaiting(W)[t].process = tcb[t].process
                   /\ NotWaiting(W)[t].kill = tcb[t].kill
                   /\ NotWaiting(W)[t].parked = tcb[t].parked
  BY DEF NotWaiting, TypeOK, Tcb
<1>5. retired \notin ready \cup waiting \cup W
  BY Zenon DEF TasksPartitioned
<1>6. TypeOK'
  BY <1>1, <1>2, <1>3, <1>4, TcbTypes, Zenon DEF TypeOK
<1>7. TasksPartitioned'
  BY <1>1, <1>2, <1>3, <1>4, <1>5 DEF TypeOK, TasksPartitioned, Free
<1>8. \A t \in waiting' : tcb'[t] = tcb[t]
  BY <1>1, <1>2, <1>3, <1>5, Zenon DEF TypeOK
<1>9. (KilledNeverWaits /\ \A t \in waiting : tcb[t].parked)'
  BY <1>2, <1>8, Zenon DEF KilledNeverWaits
<1>10. \A t \in {Main, Idle} : t # retired
  BY Zenon DEF TasksPartitioned
<1>11. \A t \in {Main, Idle} : /\ tcb'[t].process = tcb[t].process
                               /\ tcb'[t].kill = tcb[t].kill
                               /\ tcb'[t].parked = tcb[t].parked
  BY <1>1, <1>3, <1>4, <1>10, Zenon
<1> QED
  BY <1>6, <1>7, <1>9, <1>11, Zenon

\* Waking a set of waiters preserves the invariant.
LEMMA WakeSchedInv ==
  ASSUME SchedInv, NEW W \in SUBSET waiting,
         Wake(W), ready' = ready \cup W, tcb' = NotWaiting(W),
         UNCHANGED <<current, retired>>
  PROVE  SchedInv'
<1> USE SchedulerAssumption DEF SchedInv
<1>1. /\ waiting' = waiting \ W
      /\ ahead' = [t \in Tasks |-> IF t \in W THEN {} ELSE ahead[t] \ W]
  BY Zenon DEF Wake
<1>2. \A t \in Tasks \ W : tcb'[t] = tcb[t]
  BY Zenon DEF NotWaiting
<1>3. \A t \in W : /\ tcb'[t] \in Tcb
                   /\ tcb'[t].used = tcb[t].used
                   /\ tcb'[t].process = tcb[t].process
                   /\ tcb'[t].kill = tcb[t].kill
                   /\ tcb'[t].parked = tcb[t].parked
  BY DEF NotWaiting, TypeOK, Tcb
<1>4. TypeOK'
  BY <1>1, <1>2, <1>3, Zenon DEF TypeOK, NotWaiting
<1>5. TasksPartitioned'
  BY <1>1, <1>2, <1>3 DEF TypeOK, TasksPartitioned
<1>6. (KilledNeverWaits /\ \A t \in waiting : tcb[t].parked)'
  BY <1>1, <1>2, Zenon DEF KilledNeverWaits, TypeOK
<1>7. \A t \in {Main, Idle} : /\ tcb'[t].process = tcb[t].process
                              /\ tcb'[t].kill = tcb[t].kill
                              /\ tcb'[t].parked = tcb[t].parked
  BY <1>2, <1>3, Zenon
<1> QED
  BY <1>4, <1>5, <1>6, <1>7, Zenon

\* Every step of the scheduler preserves the invariant.
LEMMA NextSchedInv == SchedInv /\ [Next]_vars => SchedInv'
<1> SUFFICES ASSUME SchedInv, [Next]_vars PROVE SchedInv'
  BY Zenon
<1> USE SchedulerAssumption
<1>1. ASSUME NEW p \in Processes, CreateTask(p) PROVE SchedInv'
  <2>1. PICK t \in Tasks : /\ ~tcb[t].used
                           /\ tcb' = [tcb EXCEPT ![t] = NewTcb(p)]
                           /\ ready' = ready \cup {t}
    BY <1>1, ZenonT(30) DEF CreateTask
  <2>2. UNCHANGED <<waiting, current, retired, ahead>>
    BY <1>1, Zenon DEF CreateTask
  <2>3. t \notin ready \cup waiting /\ t # retired /\ t # Main /\ t # Idle
    BY <2>1, Zenon DEF SchedInv, TasksPartitioned
  <2>4. tcb'[t].used /\ \A u \in Tasks \ {t} : tcb'[u] = tcb[u]
    BY <2>1, Zenon DEF SchedInv, TypeOK, NewTcb
  <2>5. TypeOK'
    BY <2>1, <2>2, TcbTypes, Zenon DEF SchedInv, TypeOK
  <2>6. TasksPartitioned'
    BY <2>1, <2>2, <2>3, <2>4, Zenon DEF SchedInv, TypeOK, TasksPartitioned
  <2> QED
    BY <2>2, <2>3, <2>4, <2>5, <2>6, Zenon DEF SchedInv, TypeOK, KilledNeverWaits
<1>2. ASSUME NEW p \in Processes, KillBlocked(p) PROVE SchedInv'
  <2> DEFINE Mine == {t \in ready \cup waiting : tcb[t].process = p}
  <2>1. /\ waiting' = waiting \ Mine
        /\ ahead' = [t \in Tasks |-> IF t \in Mine THEN {} ELSE ahead[t] \ Mine]
        /\ ready' = ready \cup Mine
        /\ UNCHANGED <<current, retired>>
    BY <1>2, Zenon DEF KillBlocked, Wake
  <2>2. tcb' = [t \in Tasks |-> IF t \in Mine
                                THEN [tcb[t] EXCEPT !.kill = TRUE, !.chan = NoChannel]
                                ELSE tcb[t]]
    BY <1>2, Zenon DEF KillBlocked
  <2>3. Main \notin Mine /\ Idle \notin Mine
    BY Zenon DEF SchedInv
  <2>4. \A t \in Tasks : /\ tcb'[t] \in Tcb
                         /\ tcb'[t].used = tcb[t].used
                         /\ t \notin Mine => tcb'[t] = tcb[t]
    <3> SUFFICES ASSUME NEW t \in Tasks
                 PROVE /\ tcb'[t] \in Tcb
                       /\ tcb'[t].used = tcb[t].used
                       /\ t \notin Mine => tcb'[t] = tcb[t]
      BY Zenon
    <3> HIDE DEF Mine
    <3>1. tcb[t] \in Tcb
      BY Zenon DEF SchedInv, TypeOK
    <3>2. CASE t \in Mine
      <4>1. tcb'[t] = [tcb[t] EXCEPT !.kill = TRUE, !.chan = NoChannel]
        BY <2>2, <3>2, Zenon
      <4> QED
        BY <3>1, <3>2, <4>1, Zenon DEF Tcb
    <3>3. CASE t \notin Mine
      <4>1. tcb'[t] = tcb[t]
        BY <2>2, <3>3, Zenon
      <4> QED
        BY <3>1, <4>1, Zenon
    <3> QED
      BY <3>2, <3>3, Zenon
  <2> HIDE DEF Mine
  <2>5. Mine \subseteq ready \cup waiting
    BY Zenon DEF Mine
  <2>6. TypeOK'
    BY <2>1, <2>2, <2>4, <2>5, Zenon DEF SchedInv, TypeOK
  <2>7. TasksPartitioned'
    BY <2>1, <2>4, <2>5, Zenon DEF SchedInv, TypeOK, TasksPartitioned
  <2> QED
    BY <2>1, <2>3, <2>4, <2>6, <2>7 DEF SchedInv, TypeOK, KilledNeverWaits
<1>3. ASSUME NEW ch \in Channels, Block(ch) PROVE SchedInv'
  <2>1. CASE tcb[current].kill
    BY <1>3, <2>1, TaskExitSchedInv, Zenon DEF Block
  <2>2. CASE ~tcb[current].kill
    <3>1. /\ ready' = ready \ {current}
          /\ waiting' = waiting \cup {current}
          /\ tcb' = [tcb EXCEPT ![current] = [@ EXCEPT !.chan = ch, !.parked = TRUE]]
          /\ ahead' = [ahead EXCEPT ![current] = Waiters(ch)]
          /\ current' \in ready \ {current}
          /\ retired' = retired /\ current # Idle
      BY <1>3, <2>2, Zenon DEF Block
    <3>2. /\ tcb'[current] \in Tcb /\ tcb'[current].parked
          /\ tcb'[current].used = tcb[current].used
          /\ tcb'[current].kill = tcb[current].kill
          /\ tcb'[current].process = tcb[current].process
          /\ \A t \in Tasks \ {current} : tcb'[t] = tcb[t]
      <4>1. tcb'[current] = [tcb[current] EXCEPT !.chan = ch, !.parked = TRUE]
        BY <3>1, Zenon DEF SchedInv, TypeOK
      <4>2. \A t \in Tasks \ {current} : tcb'[t] = tcb[t]
        BY <3>1, Zenon DEF SchedInv, TypeOK
      <4>3. tcb[current] \in Tcb
        BY Zenon DEF SchedInv, TypeOK
      <4> QED
        BY <4>1, <4>2, <4>3, Zenon DEF Tcb
    <3>3. Waiters(ch) \in SUBSET Tasks
      BY Zenon DEF Waiters, SchedInv, TypeOK
    <3>4. TypeOK'
      BY <3>1, <3>2, <3>3, Zenon DEF SchedInv, TypeOK
    <3>5. TasksPartitioned'
      BY <3>1, <3>2, Zenon DEF SchedInv, TypeOK, TasksPartitioned
    <3> QED
      BY <2>2, <3>1, <3>2, <3>4, <3>5 DEF SchedInv, TypeOK, KilledNeverWaits
  <2> QED
    BY <2>1, <2>2, Zenon
<1>4. ASSUME NEW ch \in Channels, WakeOne(ch) PROVE SchedInv'
  BY <1>4, WakeSchedInv, Zenon DEF WakeOne, Waiters
<1>5. ASSUME WakeSome PROVE SchedInv'
  BY <1>5, WakeSchedInv, Zenon DEF WakeSome
<1>6. ASSUME Resume PROVE SchedInv'
  <2>1. CASE tcb[current].kill
    BY <1>6, <2>1, TaskExitSchedInv, Zenon DEF Resume, SchedInv
  <2>2. CASE ~tcb[current].kill
    <3>1. /\ tcb' = [tcb EXCEPT ![current] = [@ EXCEPT !.parked = FALSE]]
          /\ UNCHANGED <<ready, waiting, current, retired, ahead>>
      BY <1>6, <2>2, Zenon DEF Resume
    <3>2. /\ tcb'[current] \in Tcb
          /\ tcb'[current].used = tcb[current].used
          /\ tcb'[current].kill = tcb[current].kill
          /\ tcb'[current].process = tcb[current].process
          /\ ~tcb'[current].parked
          /\ \A t \in Tasks \ {current} : tcb'[t] = tcb[t]
      <4>1. tcb'[current] = [tcb[current] EXCEPT !.parked = FALSE]
        BY <3>1, Zenon DEF SchedInv, TypeOK
      <4>2. \A t \in Tasks \ {current} : tcb'[t] = tcb[t]
        BY <3>1, Zenon DEF SchedInv, TypeOK
      <4>3. tcb[current] \in Tcb
        BY Zenon DEF SchedInv, TypeOK
      <4> QED
        BY <4>1, <4>2, <4>3, Zenon DEF Tcb
    <3>3. TypeOK'
      BY <3>1, <3>2, Zenon DEF SchedInv, TypeOK
    <3>4. TasksPartitioned'
      BY <3>1, <3>2, Zenon DEF SchedInv, TypeOK, TasksPartitioned
    <3> QED
      BY <3>1, <3>2, <3>3, <3>4 DEF SchedInv, TypeOK, TasksPartitioned, KilledNeverWaits
  <2> QED
    BY <2>1, <2>2, Zenon
<1>7. ASSUME Tick PROVE SchedInv'
  <2>1. CASE tcb[current].kill
    BY <1>7, <2>1, TaskExitSchedInv, Zenon DEF Tick, SchedInv
  <2>2. CASE ~tcb[current].kill
    <3>1. /\ tcb' = [t \in Tasks |-> IF t = retired THEN Free ELSE tcb[t]]
          /\ retired' = NoTask /\ current' \in ready
          /\ UNCHANGED <<ready, waiting, ahead>>
      BY <1>7, <2>2, Zenon DEF Tick
    <3>2. \A t \in ready \cup waiting : t # retired /\ tcb'[t] = tcb[t]
      BY <3>1, Zenon DEF SchedInv, TypeOK, TasksPartitioned
    <3>3. TypeOK'
      BY <3>1, TcbTypes, Zenon DEF SchedInv, TypeOK
    <3>4. TasksPartitioned'
      BY <3>1, <3>2, Zenon DEF SchedInv, TypeOK, TasksPartitioned, Free
    <3> QED
      BY <3>1, <3>2, <3>3, <3>4, Zenon DEF SchedInv, TasksPartitioned, KilledNeverWaits
  <2> QED
    BY <2>1, <2>2, Zenon
<1>8. ASSUME Exit PROVE SchedInv'
  BY <1>8, TaskExitSchedInv, Zenon DEF Exit, SchedInv
<1>9. ASSUME UNCHANGED vars PROVE SchedInv'
  BY <1>9, Zenon DEF vars, SchedInv, TypeOK, TasksPartitioned, KilledNeverWaits
<1> QED
  BY <1>1, <1>2, <1>3, <1>4, <1>5, <1>6, <1>7, <1>8, <1>9, Zenon DEF Next

\* The scheduler's bookkeeping is right in every reachable state: each allocated
\* task is on exactly one list, and a killed task is never one nobody can wake.
THEOREM SchedulerSafe == Spec => []SchedInv
BY InitSchedInv, NextSchedInv, PTL DEF Spec

\* task_kill_blocked() and task_block_killable() together: no task marked for
\* termination is ever parked on a wait channel.
THEOREM KilledTaskNeverWaits == Spec => []KilledNeverWaits
<1>1. SchedInv => KilledNeverWaits
  BY Zenon DEF SchedInv
<1> QED
  BY <1>1, SchedulerSafe, PTL

\* reap_retired_task(): no step frees the stack of a task that runs or can run.
THEOREM FreesOnlyStacksLeft == Spec => FreedOnlyWhenLeft
<1> DEFINE A == \A t \in Tasks : (tcb[t].used /\ ~tcb'[t].used) =>
                  t \notin ready \cup waiting \cup ready' \cup {current, current'}
<1>1. SchedInv /\ SchedInv' /\ [Next]_vars => [A]_vars
  <2> SUFFICES ASSUME SchedInv, SchedInv', [Next]_vars,
                      NEW t \in Tasks, tcb[t].used, ~tcb'[t].used
               PROVE  t \notin ready \cup waiting \cup ready' \cup {current, current'}
    BY Zenon
  <2>1. t \notin ready' \cup waiting' /\ t # retired' /\ t # current'
    BY Zenon DEF SchedInv, TasksPartitioned
  <2>2. ready \subseteq ready' \cup waiting' \cup {retired'}
    <3> USE DEF Wake, TaskExit
    <3>1. ASSUME NEW p \in Processes, CreateTask(p) \/ KillBlocked(p)
          PROVE  ready \subseteq ready'
      BY <3>1, Zenon DEF CreateTask, KillBlocked
    <3>2. ASSUME NEW ch \in Channels, Block(ch) \/ WakeOne(ch)
          PROVE  ready \subseteq ready' \cup waiting' \cup {retired'}
      BY <3>2, Zenon DEF Block, WakeOne
    <3>3. ASSUME WakeSome \/ Resume \/ Tick \/ Exit
          PROVE  ready \subseteq ready' \cup {retired'}
      BY <3>3, Zenon DEF WakeSome, Resume, Tick, Exit
    <3> QED
      BY <3>1, <3>2, <3>3, Zenon DEF Next, vars
  <2>3. waiting \subseteq ready' \cup waiting'
    <3> USE DEF Wake, TaskExit
    <3>1. ASSUME NEW p \in Processes, CreateTask(p) \/ KillBlocked(p)
          PROVE  waiting \subseteq ready' \cup waiting'
      BY <3>1, Zenon DEF CreateTask, KillBlocked
    <3>2. ASSUME NEW ch \in Channels, Block(ch) \/ WakeOne(ch)
          PROVE  waiting \subseteq ready' \cup waiting'
      BY <3>2, Zenon DEF Block, WakeOne
    <3>3. ASSUME WakeSome \/ Resume \/ Tick \/ Exit
          PROVE  waiting \subseteq ready' \cup waiting'
      BY <3>3, Zenon DEF WakeSome, Resume, Tick, Exit
    <3> QED
      BY <3>1, <3>2, <3>3, Zenon DEF Next, vars
  <2> QED
    BY <2>1, <2>2, <2>3, Zenon DEF SchedInv, TasksPartitioned
<1> QED
  BY <1>1, SchedulerSafe, PTL DEF Spec, FreedOnlyWhenLeft

-----------------------------------------------------------------------------
(* Signals *)

\* A set of numbers has a least one.
LEMMA LeastMember ==
  ASSUME NEW T \in SUBSET Nat, T # {}
  PROVE  \E x \in T : \A y \in T : x <= y
<1>1. PICK x \in T : \A y \in T : ~(<<y, x>> \in OpToRel(<, Nat))
  BY NatLessThanWellFounded, WFMin, Zenon
<1>2. \A y \in T : ~(y < x)
  BY <1>1, Zenon DEF OpToRel
<1> QED BY <1>2

\* A set of natural numbers that is not empty has a least element.
LEMMA LeastSignal ==
  ASSUME NEW S \in SUBSET Nat, S # {}
  PROVE  Sig!Min(S) \in S
BY LeastMember, Zenon DEF Sig!Min

\* The signals are numbers.
LEMMA SignalNumbers ==
  ASSUME Sig!SignalsAssumption
  PROVE  Sig!Sigs \subseteq 1 .. Sig!NSIG - 1 /\ Sig!Sigs \subseteq Nat /\ Sig!SIGSTOP = 19 /\ Sig!SIGCONT = 18
BY DEF Sig!SignalsAssumption, Sig!Sigs, Sig!NSIG, Sig!SIGSTOP, Sig!SIGCONT

\* What a delivery amounts to: it takes signals only, and the task runs on in user mode, is
\* stopped with no SIGCONT left, runs a handler, or ends.
Delivered(t, pend, h, insig, stop, inH) ==
  /\ sig_handler' = h /\ sig_pending' \subseteq pend
  /\ \/ /\ in_signal' = insig /\ stopped' = stop /\ inHandler' = inH
        /\ op' = [op EXCEPT ![t] = "user"] /\ blocked' = blocked \ {t}
     \/ /\ in_signal' = insig /\ stopped' = TRUE /\ inHandler' = inH /\ ~insig
        /\ op' = [op EXCEPT ![t] = "stop"] /\ blocked' = blocked \cup {t}
        /\ Sig!SIGCONT \notin sig_pending'
     \/ /\ in_signal' = TRUE /\ stopped' = stop
        /\ inHandler' \in [Sig!Group -> 0 .. Sig!MaxNested] /\ (inH[t] = 0 => inHandler'[t] = 1)
        /\ op' = [op EXCEPT ![t] = "user"] /\ blocked' = blocked \ {t}
     \/ /\ in_signal' = insig /\ stopped' = stop /\ inHandler' = inH
        /\ op' = [op EXCEPT ![t] = "dead"] /\ blocked' = blocked \ {t}

\* The loop of signal_deliver() does one of these; from behind SIGSTOP it does not stop.
LEMMA LoopOutcome ==
  ASSUME Sig!SignalsAssumption, NEW t \in Sig!Group, NEW from \in {1, Sig!SIGSTOP + 1}, NEW pend \in SUBSET Sig!Sigs,
         NEW h \in [Sig!Sigs -> {"default", "ignore", "catch"}],
         NEW insig \in BOOLEAN, NEW stop \in BOOLEAN, NEW inH \in [Sig!Group -> 0 .. Sig!MaxNested],
         from = 1 => ~insig,
         Sig!DeliverFrom(t, from, pend, h, insig, stop, inH)
  PROVE  Delivered(t, pend, h, insig, stop, inH)
<1> USE DEF Delivered
<1> DEFINE acting == {s \in pend : s >= from /\ Sig!Action(s, h) # "none"}
           s == Sig!Min(acting)
<1>2. CASE acting = {}
  BY <1>2, Zenon DEF Sig!DeliverFrom
<1>3. CASE acting # {}
  <2>1. acting \in SUBSET Nat
    BY SignalNumbers, Zenon
  <2>2. s \in acting
    BY <1>3, <2>1, LeastSignal, Zenon
  <2>3. /\ s \in pend /\ s >= from /\ Sig!Action(s, h) # "none" /\ s \in Nat
    BY <2>1, <2>2, Zenon
  <2>4. PICK act \in Sig!Outcomes(s, h) :
          /\ sig_handler' = h
          /\ sig_pending' = Sig!StillPending(pend, from, s)
          /\ in_signal' = (insig \/ act = "catch")
          /\ inHandler' = IF act = "catch" /\ inH[t] < Sig!MaxNested
                          THEN [inH EXCEPT ![t] = @ + 1] ELSE inH
          /\ stopped' = (stop \/ act = "stop")
          /\ op' = [op EXCEPT ![t] = CASE act = "stop" -> "stop"
                                      [] act = "catch" -> "user"
                                      [] act = "terminate" -> "dead"]
          /\ blocked' = IF act = "stop" THEN blocked \cup {t} ELSE blocked \ {t}
    BY <1>3, Zenon DEF Sig!DeliverFrom
  <2> HIDE DEF acting, s
  <2>5. act \in {"stop", "catch", "terminate"} /\ (act = "stop" => s = Sig!SIGSTOP)
    BY <2>3, <2>4, Zenon DEF Sig!Outcomes, Sig!Action
  <2>6. sig_pending' \subseteq pend
    BY <2>4, Zenon DEF Sig!StillPending
  <2>7. CASE act = "stop"
    <3>1. s = Sig!SIGSTOP /\ from = 1
      BY <2>3, <2>5, <2>7, SignalNumbers
    <3>2. Sig!SIGCONT \notin sig_pending'
      BY <2>4, <3>1, SignalNumbers DEF Sig!StillPending
    <3> QED BY <2>4, <2>6, <2>7, <3>1, <3>2, Zenon
  <2>8. CASE act = "catch"
    <3>1. inHandler' \in [Sig!Group -> 0 .. Sig!MaxNested] /\ (inH[t] = 0 => inHandler'[t] = 1)
      BY <2>4, <2>8 DEF Sig!MaxNested
    <3> QED BY <2>4, <2>6, <2>8, <3>1, Zenon
  <2>9. CASE act = "terminate"
    BY <2>4, <2>6, <2>9, Zenon
  <2> QED BY <2>5, <2>7, <2>8, <2>9, Zenon
<1> QED BY <1>2, <1>3, Zenon

\* The flags a delivery starts from are sound: another task leaves the main task the reason
\* it is blocked for, a stopped process has another task in the stop loop, and without
\* threads in_signal is true of the main task.
FlagsSound(t, pend, insig, stop, inH) ==
  /\ t # Main /\ Main \in blocked =>
       \/ op[Main] = "pause" /\ pend = {}
       \/ op[Main] = "stop" /\ stop /\ Sig!SIGCONT \notin pend
  /\ stop => \E u \in Sig!Group \ {t} : op[u] = "stop"
  /\ Threads = {} => inH[Main] = IF insig THEN 1 ELSE 0

\* A delivery from such flags keeps the invariant, if without threads no handler runs when
\* it takes a signal.
LEMMA DeliveredKeeps ==
  ASSUME Sig!SignalsAssumption, Sig!SignalsInv, NEW t \in Sig!Group, op[t] # "dead",
         NEW pend \in SUBSET Sig!Sigs,
         NEW h \in [Sig!Sigs -> {"default", "ignore", "catch"}],
         NEW insig \in BOOLEAN, NEW stop \in BOOLEAN, NEW inH \in [Sig!Group -> 0 .. Sig!MaxNested],
         FlagsSound(t, pend, insig, stop, inH),
         Delivered(t, pend, h, insig, stop, inH),
         Threads = {} /\ insig => in_signal' = insig /\ inHandler' = inH
  PROVE  Sig!SignalsInv'
<1>1. /\ op \in [Sig!Group -> {"user", "pause", "stop", "dead"}]
      /\ blocked \subseteq {u \in Sig!Group : op[u] \in {"pause", "stop"}} /\ Main \in Sig!Group
      /\ Threads = {} => Sig!Group = {Main}
  BY Zenon DEF Sig!SignalsInv, Sig!TypeOK, Sig!Group
<1>0. sig_handler' = h /\ sig_pending' \subseteq pend
  BY Zenon DEF Delivered
<1> USE DEF Sig!SignalsInv, Sig!TypeOK, Sig!InSignalTrue, Sig!StopHasATask, Sig!MainBlockedForAReason, FlagsSound
<1>3. CASE /\ in_signal' = insig /\ stopped' = stop /\ inHandler' = inH
           /\ op' = [op EXCEPT ![t] = "user"] /\ blocked' = blocked \ {t}
  <2>1. op'[t] = "user" /\ \A u \in Sig!Group \ {t} : op'[u] = op[u]
    BY <1>1, <1>3, Zenon
  <2>2. op' \in [Sig!Group -> {"user", "pause", "stop", "dead"}]
    BY <1>1, <1>3, Zenon
  <2>3. Sig!TypeOK'
    BY <1>1, <1>0, <1>3, <2>1, <2>2, Zenon
  <2>4. Sig!StopHasATask'
    BY <1>3, <2>1, Zenon
  <2>5. Threads = {} => Sig!InSignalTrue' /\ ~(stopped') /\ op'[Main] # "stop"
    BY <1>1, <1>3, <2>1, Zenon
  <2>6. Sig!MainBlockedForAReason'
    BY <1>1, <1>0, <1>3, <2>1, Zenon
  <2> QED BY <2>3, <2>4, <2>5, <2>6, Zenon
<1>4. CASE /\ in_signal' = insig /\ stopped' = TRUE /\ inHandler' = inH /\ ~insig
           /\ op' = [op EXCEPT ![t] = "stop"] /\ blocked' = blocked \cup {t}
           /\ Sig!SIGCONT \notin sig_pending'
  <2>1. op'[t] = "stop" /\ \A u \in Sig!Group \ {t} : op'[u] = op[u]
    BY <1>1, <1>4, Zenon
  <2>2. op' \in [Sig!Group -> {"user", "pause", "stop", "dead"}]
    BY <1>1, <1>4, Zenon
  <2>3. Sig!TypeOK'
    BY <1>1, <1>0, <1>4, <2>1, <2>2, Zenon
  <2>4. Sig!StopHasATask'
    BY <2>1, Zenon
  <2>5. Threads = {} => Sig!InSignalTrue' /\ op'[Main] = "stop" /\ ~in_signal'
    BY <1>1, <1>4, <2>1, Zenon
  <2>6. Sig!MainBlockedForAReason'
    BY <1>1, <1>0, <1>4, <2>1, Zenon
  <2> QED BY <2>3, <2>4, <2>5, <2>6, Zenon
<1>5. CASE /\ in_signal' = TRUE /\ stopped' = stop
           /\ inHandler' \in [Sig!Group -> 0 .. Sig!MaxNested] /\ (inH[t] = 0 => inHandler'[t] = 1)
           /\ op' = [op EXCEPT ![t] = "user"] /\ blocked' = blocked \ {t}
  <2>1. op'[t] = "user" /\ \A u \in Sig!Group \ {t} : op'[u] = op[u]
    BY <1>1, <1>5, Zenon
  <2>2. op' \in [Sig!Group -> {"user", "pause", "stop", "dead"}]
    BY <1>1, <1>5, Zenon
  <2>3. Sig!TypeOK'
    BY <1>1, <1>0, <1>5, <2>1, <2>2, Zenon
  <2>4. Sig!StopHasATask'
    BY <1>5, <2>1, Zenon
  <2>5. Threads = {} => Sig!InSignalTrue' /\ ~(stopped') /\ op'[Main] # "stop"
    BY <1>1, <1>5, <2>1, Zenon
  <2>6. Sig!MainBlockedForAReason'
    BY <1>1, <1>0, <1>5, <2>1, Zenon
  <2> QED BY <2>3, <2>4, <2>5, <2>6, Zenon
<1>6. CASE /\ in_signal' = insig /\ stopped' = stop /\ inHandler' = inH
           /\ op' = [op EXCEPT ![t] = "dead"] /\ blocked' = blocked \ {t}
  <2>1. op'[t] = "dead" /\ \A u \in Sig!Group \ {t} : op'[u] = op[u]
    BY <1>1, <1>6, Zenon
  <2>2. op' \in [Sig!Group -> {"user", "pause", "stop", "dead"}]
    BY <1>1, <1>6, Zenon
  <2>3. Sig!TypeOK'
    BY <1>1, <1>0, <1>6, <2>1, <2>2, Zenon
  <2>4. Sig!StopHasATask'
    BY <1>6, <2>1, Zenon
  <2>5. Threads = {} => Sig!InSignalTrue' /\ ~(stopped') /\ op'[Main] # "stop"
    BY <1>1, <1>6, <2>1, Zenon
  <2>6. Sig!MainBlockedForAReason'
    BY <1>1, <1>0, <1>6, <2>1, Zenon
  <2> QED BY <2>3, <2>4, <2>5, <2>6, Zenon
<1> QED BY ONLY Delivered(t, pend, h, insig, stop, inH), <1>3, <1>4, <1>5, <1>6, Zenon DEF Delivered

\* A call of signal_deliver() from sound flags keeps the invariant.
LEMMA DeliverKeeps ==
  ASSUME Sig!SignalsAssumption, Sig!SignalsInv, NEW t \in Sig!Group, op[t] # "dead",
         NEW pend \in SUBSET Sig!Sigs,
         NEW h \in [Sig!Sigs -> {"default", "ignore", "catch"}],
         NEW insig \in BOOLEAN, NEW stop \in BOOLEAN, NEW inH \in [Sig!Group -> 0 .. Sig!MaxNested],
         FlagsSound(t, pend, insig, stop, inH),
         Sig!Deliver(t, pend, h, insig, stop, inH)
  PROVE  Sig!SignalsInv'
<1>1. CASE insig
  <2>1. Delivered(t, pend, h, insig, stop, inH) /\ in_signal' = insig /\ inHandler' = inH
    BY <1>1, Zenon DEF Sig!Deliver, Sig!HoldsOff, Delivered
  <2> QED BY <2>1, DeliveredKeeps, Zenon
<1>2. CASE ~insig
  <2>1. Sig!DeliverFrom(t, 1, pend, h, insig, stop, inH) /\ 1 \in {1, Sig!SIGSTOP + 1}
    BY <1>2, Zenon DEF Sig!Deliver, Sig!HoldsOff
  <2>2. Delivered(t, pend, h, insig, stop, inH)
    BY <1>2, <2>1, LoopOutcome, Zenon
  <2> QED BY <1>2, <2>2, DeliveredKeeps, Zenon
<1> QED BY <1>1, <1>2

\* What the invariant says of a task that is not blocked.
LEMMA RunnerSound ==
  ASSUME Sig!SignalsAssumption, Sig!SignalsInv, NEW t \in Sig!Group, op[t] # "dead", op[t] # "stop"
  PROVE  FlagsSound(t, sig_pending, in_signal, stopped, inHandler)
<1>1. Main \in Sig!Group /\ (Threads = {} => t = Main) /\ op[t] \in {"user", "pause"}
  BY Zenon DEF Sig!SignalsInv, Sig!TypeOK, Sig!Group
<1> QED BY <1>1, Zenon
           DEF FlagsSound, Sig!SignalsInv, Sig!InSignalTrue, Sig!StopHasATask, Sig!MainBlockedForAReason

\* A delivery from the flags as they are keeps the invariant.
LEMMA DeliverHereKeeps ==
  ASSUME Sig!SignalsAssumption, Sig!SignalsInv, NEW t \in Sig!Group, op[t] # "dead", op[t] # "stop",
         NEW h \in [Sig!Sigs -> {"default", "ignore", "catch"}],
         Sig!Deliver(t, sig_pending, h, in_signal, stopped, inHandler)
  PROVE  Sig!SignalsInv'
<1>1. /\ sig_pending \in SUBSET Sig!Sigs /\ in_signal \in BOOLEAN /\ stopped \in BOOLEAN
      /\ inHandler \in [Sig!Group -> 0 .. Sig!MaxNested]
  BY Zenon DEF Sig!SignalsInv, Sig!TypeOK
<1>2. FlagsSound(t, sig_pending, in_signal, stopped, inHandler)
  BY RunnerSound, Zenon
<1> QED BY <1>1, <1>2, DeliverKeeps, Zenon

\* Posting a signal wakes the main task, so it stays blocked for no stale reason.
LEMMA SendKeeps ==
  ASSUME Sig!SignalsAssumption, Sig!SignalsInv, NEW s \in Sig!Sigs \cup {0, Sig!NSIG}, Sig!Send(s)
  PROVE  Sig!SignalsInv'
<1>1. s \in Sig!Sigs /\ Sig!NSIG = 32
  BY SignalNumbers DEF Sig!Send, Sig!ValidSignal, Sig!NSIG
<1> QED BY <1>1, Zenon
           DEF Sig!Send, Sig!Wakes, Sig!SignalsInv, Sig!TypeOK, Sig!InSignalTrue, Sig!StopHasATask,
             Sig!MainBlockedForAReason

\* Installing a handler.
LEMMA SignalKeeps ==
  ASSUME Sig!SignalsAssumption, Sig!SignalsInv, NEW t \in Sig!Group, NEW s \in Sig!Sigs,
         NEW a \in {"default", "ignore", "catch"}, Sig!Signal(t, s, a)
  PROVE  Sig!SignalsInv'
<1>1. PICK h \in [Sig!Sigs -> {"default", "ignore", "catch"}] : h = [sig_handler EXCEPT ![s] = a]
  BY Zenon DEF Sig!SignalsInv, Sig!TypeOK
<1>2. Sig!Deliver(t, sig_pending, h, in_signal, stopped, inHandler) /\ op[t] = "user"
  BY <1>1, Zenon DEF Sig!Signal
<1> QED BY <1>2, DeliverHereKeeps, Zenon

\* pause(): going to sleep finds nothing pending.
LEMMA PauseKeeps ==
  ASSUME Sig!SignalsAssumption, Sig!SignalsInv, NEW t \in Sig!Group, op[t] \in {"user", "pause"}, Sig!PauseLoop(t)
  PROVE  Sig!SignalsInv'
<1>1. CASE sig_pending = {}
  <2>1. /\ op' = [op EXCEPT ![t] = "pause"] /\ blocked' = blocked \cup {t}
        /\ UNCHANGED <<sig_pending, sig_handler, in_signal, stopped, inHandler>>
    BY <1>1, Zenon DEF Sig!PauseLoop
  <2>2. op'[t] = "pause" /\ \A u \in Sig!Group \ {t} : op'[u] = op[u]
    BY <2>1, Zenon DEF Sig!SignalsInv, Sig!TypeOK
  <2>3. Sig!TypeOK'
    BY <2>1, <2>2, Zenon DEF Sig!SignalsInv, Sig!TypeOK
  <2>4. FlagsSound(t, sig_pending, in_signal, stopped, inHandler)
    BY RunnerSound, Zenon
  <2>5. Main \in Sig!Group /\ (Threads = {} => Sig!Group = {Main})
    BY Zenon DEF Sig!Group
  <2> QED BY <1>1, <2>1, <2>2, <2>3, <2>4, <2>5, Zenon
            DEF FlagsSound, Sig!SignalsInv, Sig!InSignalTrue, Sig!StopHasATask,
                Sig!MainBlockedForAReason
<1>2. CASE sig_pending # {}
  <2>1. sig_handler \in [Sig!Sigs -> {"default", "ignore", "catch"}]
    BY Zenon DEF Sig!SignalsInv, Sig!TypeOK
  <2>2. Sig!Deliver(t, sig_pending, sig_handler, in_signal, stopped, inHandler)
    BY <1>2, Zenon DEF Sig!PauseLoop
  <2> QED BY <2>1, <2>2, DeliverHereKeeps, Zenon
<1> QED BY <1>1, <1>2, Zenon

\* The stop loop: a task that is woken without SIGCONT sleeps again, and one that leaves it
\* goes on with the flags as others have left them.
LEMMA ResumeStopKeeps ==
  ASSUME Sig!SignalsAssumption, Sig!SignalsInv, NEW t \in Sig!Group, Sig!ResumeStop(t)
  PROVE  Sig!SignalsInv'
<1> DEFINE pend == sig_pending \ {Sig!SIGCONT}
           stop == stopped /\ Sig!SIGCONT \notin sig_pending
<1>1. CASE Sig!LeavesStop
  <2>1. Sig!DeliverFrom(t, Sig!SIGSTOP + 1, pend, sig_handler, in_signal, stop, inHandler) /\ op[t] = "stop"
    BY <1>1, Zenon DEF Sig!ResumeStop
  <2>2. /\ pend \in SUBSET Sig!Sigs /\ sig_handler \in [Sig!Sigs -> {"default", "ignore", "catch"}]
        /\ in_signal \in BOOLEAN /\ inHandler \in [Sig!Group -> 0 .. Sig!MaxNested]
        /\ Sig!SIGSTOP + 1 \in {1, Sig!SIGSTOP + 1} /\ op[t] # "dead"
    BY <2>1, Zenon DEF Sig!SignalsInv, Sig!TypeOK
  <2>3. stop \in BOOLEAN /\ ~stop
    BY <1>1, Zenon DEF Sig!LeavesStop
  <2>4. FlagsSound(t, pend, in_signal, stop, inHandler)
    BY <1>1, <2>1, <2>3, Zenon
       DEF Sig!LeavesStop, FlagsSound, Sig!SignalsInv, Sig!TypeOK,
         Sig!InSignalTrue, Sig!MainBlockedForAReason
  <2>5. Threads = {} => ~in_signal
    BY <2>1, Zenon DEF Sig!SignalsInv, Sig!Group
  <2>6. Sig!SIGSTOP + 1 # 1
    BY DEF Sig!SIGSTOP
  <2> HIDE DEF pend, stop
  <2>7. Delivered(t, pend, sig_handler, in_signal, stop, inHandler)
    BY <2>1, <2>2, <2>3, <2>6, LoopOutcome, Zenon
  <2> QED BY <2>2, <2>3, <2>4, <2>5, <2>7, DeliveredKeeps, Zenon
<1>2. CASE ~Sig!LeavesStop
  BY <1>2, Zenon
     DEF Sig!ResumeStop, Sig!LeavesStop, Sig!SignalsInv, Sig!TypeOK, Sig!InSignalTrue, Sig!StopHasATask,
       Sig!MainBlockedForAReason
<1> QED BY <1>1, <1>2, Zenon

\* sigreturn: without threads the only handler is over.
LEMMA SigreturnKeeps ==
  ASSUME Sig!SignalsAssumption, Sig!SignalsInv, NEW t \in Sig!Group, Sig!Sigreturn(t)
  PROVE  Sig!SignalsInv'
<1>1. /\ UNCHANGED <<sig_pending, sig_handler, stopped, op, blocked>>
      /\ in_signal' = FALSE /\ op[t] = "user"
      /\ inHandler' = IF inHandler[t] > 0 THEN [inHandler EXCEPT ![t] = @ - 1] ELSE inHandler
  BY Zenon DEF Sig!Sigreturn, Sig!SigreturnFlag
<1>2. inHandler \in [Sig!Group -> 0 .. Sig!MaxNested]
  BY Zenon DEF Sig!SignalsInv, Sig!TypeOK
<1>3. inHandler' \in [Sig!Group -> 0 .. Sig!MaxNested] /\ (inHandler[t] \in {0, 1} => inHandler'[t] = 0)
  BY <1>1, <1>2 DEF Sig!MaxNested
<1>4. Main \in Sig!Group /\ (Threads = {} => t = Main)
  BY Zenon DEF Sig!Group
<1>5. Threads = {} => Sig!InSignalTrue'
  BY <1>1, <1>3, <1>4, Zenon DEF Sig!SignalsInv, Sig!InSignalTrue
<1> QED BY <1>1, <1>3, <1>5, Zenon
           DEF Sig!SignalsInv, Sig!TypeOK, Sig!StopHasATask, Sig!MainBlockedForAReason

\* The end of a task.
LEMMA ExitKeeps ==
  ASSUME Sig!SignalsAssumption, Sig!SignalsInv, NEW t \in Sig!Group, Sig!Exit(t)
  PROVE  Sig!SignalsInv'
<1>1. op'[t] = "dead" /\ (\A u \in Sig!Group \ {t} : op'[u] = op[u]) /\ op[t] = "user"
  BY Zenon DEF Sig!Exit, Sig!SignalsInv, Sig!TypeOK
<1>2. Sig!TypeOK'
  BY <1>1, Zenon DEF Sig!Exit, Sig!SignalsInv, Sig!TypeOK
<1>3. Main \in Sig!Group /\ (Threads = {} => Sig!Group = {Main})
  BY Zenon DEF Sig!Group
<1> QED BY <1>1, <1>2, <1>3
           DEF Sig!Exit, Sig!SignalsInv, Sig!TypeOK, Sig!InSignalTrue, Sig!StopHasATask,
             Sig!MainBlockedForAReason

\* exec: nothing is pending and no handler runs.
LEMMA ExecKeeps ==
  ASSUME Sig!SignalsAssumption, Sig!SignalsInv, Sig!Exec
  PROVE  Sig!SignalsInv'
<1>1. PICK h \in [Sig!Sigs -> {"default", "ignore", "catch"}] : h = [s \in Sig!Sigs |-> "default"]
  BY Zenon
<1> DEFINE inH == [inHandler EXCEPT ![Main] = 0]
<1>2. /\ Sig!Deliver(Main, {}, h, FALSE, stopped, inH)
      /\ op[Main] = "user" /\ op[Main] # "dead" /\ op[Main] # "stop"
  BY <1>1, Zenon DEF Sig!Exec, Sig!ExecInSignal
<1>3. /\ {} \in SUBSET Sig!Sigs /\ Main \in Sig!Group
      /\ stopped \in BOOLEAN /\ FALSE \in BOOLEAN
      /\ inHandler \in [Sig!Group -> 0 .. Sig!MaxNested]
  BY Zenon DEF Sig!SignalsInv, Sig!TypeOK, Sig!Group
<1>6. inH \in [Sig!Group -> 0 .. Sig!MaxNested] /\ inH[Main] = 0
  BY <1>3 DEF Sig!MaxNested
<1>4. FlagsSound(Main, sig_pending, in_signal, stopped, inHandler)
  BY <1>2, <1>3, RunnerSound, Zenon
<1>5. FlagsSound(Main, {}, FALSE, stopped, inH)
  BY <1>4, <1>6, Zenon DEF FlagsSound
<1> HIDE DEF inH
<1> QED BY <1>2, <1>3, <1>5, <1>6, DeliverKeeps, Zenon

\* A process's signal state is true in every reachable state.  For any number of threads,
\* whichever of them takes a signal or calls sigreturn: a process marked as stopped has a
\* task in the stop loop, and the main task is never blocked in pause() with a signal
\* pending nor in the stop loop with SIGCONT pending.  Without threads: in_signal is set
\* exactly while the one handler runs, and a stopped process runs no user code.
THEOREM SignalsSafe ==
  ASSUME Sig!SignalsAssumption
  PROVE  Sig!Spec => []Sig!SignalsInv
<1>1. Sig!Init => Sig!SignalsInv
  <2> SUFFICES ASSUME Sig!Init PROVE Sig!SignalsInv
    BY Zenon
  <2>1. 0 \in 0 .. Sig!MaxNested
    BY DEF Sig!MaxNested
  <2>2. Sig!TypeOK
    BY <2>1, Zenon DEF Sig!Init, Sig!TypeOK
  <2>3. Main \in Sig!Group
    BY Zenon DEF Sig!Group
  <2> QED BY <2>2, <2>3, Zenon
            DEF Sig!Init, Sig!SignalsInv, Sig!InSignalTrue, Sig!StopHasATask, Sig!MainBlockedForAReason
<1>2. Sig!SignalsInv /\ [Sig!Next]_Sig!vars => Sig!SignalsInv'
  <2> SUFFICES ASSUME Sig!SignalsInv, [Sig!Next]_Sig!vars PROVE Sig!SignalsInv'
    BY Zenon
  <2>1. CASE \E s \in Sig!Sigs \cup {0, Sig!NSIG} : Sig!Send(s)
    BY <2>1, SendKeeps, Zenon
  <2>2. ASSUME NEW t \in Sig!Group, Sig!Return(t) PROVE Sig!SignalsInv'
    <3>1. /\ Sig!Deliver(t, sig_pending, sig_handler, in_signal, stopped, inHandler)
          /\ op[t] # "dead" /\ op[t] # "stop"
      BY <2>2, Zenon DEF Sig!Return
    <3>2. sig_handler \in [Sig!Sigs -> {"default", "ignore", "catch"}]
      BY Zenon DEF Sig!SignalsInv, Sig!TypeOK
    <3> QED BY <3>1, <3>2, DeliverHereKeeps, Zenon
  <2>3. ASSUME NEW t \in Sig!Group, Sig!Pause(t) \/ Sig!ResumePause(t) PROVE Sig!SignalsInv'
    BY <2>3, PauseKeeps, Zenon DEF Sig!Pause, Sig!ResumePause
  <2>4. ASSUME NEW t \in Sig!Group, Sig!ResumeStop(t) \/ Sig!Sigreturn(t) \/ Sig!Exit(t) PROVE Sig!SignalsInv'
    BY <2>4, ResumeStopKeeps, SigreturnKeeps, ExitKeeps, Zenon
  <2>5. CASE \E t \in Sig!Group, s \in Sig!Sigs, a \in {"default", "ignore", "catch"} : Sig!Signal(t, s, a)
    BY <2>5, SignalKeeps, Zenon
  <2>6. CASE Sig!Exec
    BY <2>6, ExecKeeps, Zenon
  <2>7. CASE UNCHANGED Sig!vars
    BY <2>7, Zenon
       DEF Sig!vars, Sig!SignalsInv, Sig!TypeOK, Sig!InSignalTrue, Sig!StopHasATask,
         Sig!MainBlockedForAReason
  <2> QED BY <2>1, <2>2, <2>3, <2>4, <2>5, <2>6, <2>7, Zenon DEF Sig!Next
<1> QED BY <1>1, <1>2, PTL DEF Sig!Spec

-----------------------------------------------------------------------------
(* The terminal *)

\* What an atomic character does to the row: it stays on the screen if it was there.
LEMMA LineStaysOnScreen ==
  ASSUME Term!TerminalAssumption, row \in Nat
  PROVE  Term!RowAfterLine \in Nat /\ (row < Height => Term!RowAfterLine < Height)
BY DEF Term!TerminalAssumption, Term!RowAfterLine

\* The output of others, which runs in one step, keeps the invariant at whichever step of
\* the shell it falls, while the shell scrolls included.
LEMMA OthersKeepCursor ==
  ASSUME Term!TerminalAssumption, Term!TerminalInv, Term!Other
  PROVE  Term!TerminalInv'
<1>1. CASE Term!OtherChar
  <2>1. row' \in Nat /\ (row < Height => row' < Height)
    BY <1>1, LineStaysOnScreen, Zenon DEF Term!OtherChar, Term!TerminalInv, Term!CursorReturns
  <2>2. column' \in 0 .. Width - 1
    BY <1>1 DEF Term!OtherChar, Term!TerminalInv, Term!CursorReturns, Term!TerminalAssumption
  <2>3. pc # "scroll" => Term!InFrame(cell)'
    BY <1>1
       DEF Term!OtherChar, Term!TerminalInv, Term!CursorReturns, Term!InFrame, Term!TerminalAssumption
  <2> QED BY <1>1, <2>1, <2>2, <2>3, Zenon DEF Term!OtherChar, Term!TerminalInv, Term!CursorReturns
<1>2. CASE Term!OtherNewline
  <2>1. row' \in Nat /\ (row < Height => row' < Height)
    BY <1>2, LineStaysOnScreen, Zenon DEF Term!OtherNewline, Term!TerminalInv, Term!CursorReturns
  <2> QED BY <1>2, <2>1
       DEF Term!OtherNewline, Term!NoCell, Term!InFrame, Term!TerminalInv, Term!CursorReturns, Term!TerminalAssumption
<1>3. CASE Term!OtherBackspace
  BY <1>3, SMTT(30)
     DEF Term!OtherBackspace, Term!InFrame, Term!TerminalInv, Term!CursorReturns, Term!TerminalAssumption
<1> QED BY <1>1, <1>2, <1>3, Zenon DEF Term!Other

\* A step of the shell keeps the invariant: what it stores it has loaded, one step or
\* several earlier, from a cursor that was on the screen.
LEMMA ShellKeepsCursor ==
  ASSUME Term!TerminalAssumption, Term!TerminalInv, Term!ShellStep
  PROVE  Term!TerminalInv'
<1> USE DEF Term!TerminalInv, Term!CursorReturns, Term!InFrame, Term!NoCell, Term!TerminalAssumption
<1>1. ASSUME NEW what \in {"char", "newline", "backspace", "clear"}, Term!Begin(what)
      PROVE  Term!TerminalInv'
  BY <1>1 DEF Term!Begin
<1>2. CASE Term!PutEntry
  BY <1>2, Zenon DEF Term!PutEntry
<1>3. CASE Term!Advance
  BY <1>3 DEF Term!Advance, Term!EndOfLine
<1>4. CASE Term!Newline
  BY <1>4 DEF Term!Newline
<1>5. CASE Term!Down
  <2>1. PICK r \in {yReg, row} : row' = r + 1 /\ pc' = IF r + 1 = Height THEN "scroll" ELSE "idle"
    BY <1>5, Zenon DEF Term!Down
  <2>2. r \in 0 .. Height - 1
    BY <1>5, <2>1 DEF Term!Down
  <2> QED BY <1>5, <2>1, <2>2 DEF Term!Down
<1>6. CASE Term!Scroll
  BY <1>6 DEF Term!Scroll, Term!ScrolledRow
<1>7. CASE Term!Backspace
  BY <1>7 DEF Term!Backspace
<1>8. CASE Term!Blank
  BY <1>8 DEF Term!Blank
<1>9. CASE Term!Clear \/ Term!Cleared
  BY <1>9 DEF Term!Clear, Term!Cleared
<1> QED BY <1>1, <1>2, <1>3, <1>4, <1>5, <1>6, <1>7, <1>8, <1>9, Zenon DEF Term!ShellStep

\* Whatever is printed in the middle of one of the shell's characters, the cursor is on the
\* screen when terminal_putchar() returns; it leaves the screen at most between the
\* increment of terminal_row and the end of terminal_scroll().
THEOREM CursorSafe ==
  ASSUME Term!TerminalAssumption
  PROVE  Term!Spec => []Term!CursorReturns
<1>1. Term!Init => Term!TerminalInv
  BY
     DEF Term!Init, Term!TerminalInv, Term!CursorReturns, Term!InFrame, Term!NoCell, Term!TerminalAssumption
<1>2. Term!TerminalInv /\ [Term!Next]_Term!vars => Term!TerminalInv'
  <2> SUFFICES ASSUME Term!TerminalInv, [Term!Next]_Term!vars PROVE Term!TerminalInv'
    BY Zenon
  <2>1. CASE UNCHANGED Term!vars
    BY <2>1, Zenon DEF Term!vars, Term!TerminalInv, Term!CursorReturns, Term!InFrame
  <2> QED BY <2>1, OthersKeepCursor, ShellKeepsCursor, Zenon DEF Term!Next
<1>3. Term!TerminalInv => Term!CursorReturns
  BY Zenon DEF Term!TerminalInv
<1> QED BY <1>1, <1>2, <1>3, PTL DEF Term!Spec

-----------------------------------------------------------------------------
(* Timed waits *)

\* The remainder of a number that is at most once around the counter away.
LEMMA Wraps ==
  ASSUME NEW w \in Nat \ {0}, NEW x \in Int
  PROVE  /\ 0 <= x /\ x < w => x % w = x
         /\ w <= x /\ x < w + w => x % w = x - w
         /\ -w <= x /\ x < 0 => x % w = x + w
<1>1. PICK q : q = x \div w BY Zenon
<1>2. PICK r : r = x % w BY Zenon
<1>3. q \in Int /\ r \in 0 .. w - 1 /\ x = w * q + r BY <1>1, <1>2
<1>4. q >= 1 => w * q >= w
  <2>1. q >= 1 => w * (q - 1) >= 0 BY <1>3
  <2> QED BY <1>3, <2>1
<1>5. q >= 2 => w * q >= w + w
  <2>1. q >= 2 => w * (q - 2) >= 0 BY <1>3
  <2> QED BY <1>3, <2>1
<1>6. q <= -1 => w * q <= -w
  <2>1. q <= -1 => w * (-1 - q) >= 0 BY <1>3
  <2> QED BY <1>3, <2>1
<1>7. q <= -2 => w * q <= -w - w
  <2>1. q <= -2 => w * (-2 - q) >= 0 BY <1>3
  <2> QED BY <1>3, <2>1
<1>8. w * 0 = 0 /\ w * 1 = w /\ w * (-1) = -w OBVIOUS
<1>9. 0 <= x /\ x < w => q = 0 BY <1>3, <1>4, <1>6
<1>10. w <= x /\ x < w + w => q = 1 BY <1>3, <1>5, <1>6, <1>8
<1>11. -w <= x /\ x < 0 => q = -1 BY <1>3, <1>4, <1>7, <1>8
<1>12. 0 <= x /\ x < w => r = x BY <1>3, <1>8, <1>9
<1>13. w <= x /\ x < w + w => r = x - w BY <1>3, <1>8, <1>10
<1>14. -w <= x /\ x < 0 => r = x + w BY <1>3, <1>8, <1>11
<1> QED BY <1>2, <1>12, <1>13, <1>14, Zenon

\* Once around the counter.
LEMMA WrapsOnce ==
  ASSUME NEW w \in Nat \ {0}, NEW x \in Int, w <= x, x < w + w
  PROVE  x % w = x - w
BY Wraps, Zenon

CONSTANTS SleepSlots, Half, MaxSkips
VARIABLES timer_ticks, slot, st, at, kill, alarm, left, due, disturbed, skips

Tim == INSTANCE Timer WITH S <- SleepSlots

\* A deadline n ticks away, on the next tick.
LEMMA NextTick ==
  ASSUME Tim!TimerAssumption, NEW k \in 0 .. Tim!W - 1, NEW n \in Tim!Delays
  PROVE  /\ (k + 1) % Tim!W \in 0 .. Tim!W - 1 /\ (k + n) % Tim!W \in 0 .. Tim!W - 1
         /\ Tim!TickReached((k + 1) % Tim!W, (k + n) % Tim!W) <=> n = 1
         /\ n > 1 => (k + n) % Tim!W = (((k + 1) % Tim!W) + (n - 1)) % Tim!W
<1>1. /\ Tim!W \in Nat \ {0} /\ Half \in Nat /\ Tim!W = Half + Half /\ Half > 1 /\ n \in Nat
      /\ n >= 1 /\ n <= Half - 1 /\ k \in Nat /\ k < Tim!W
  BY DEF Tim!W, Tim!Delays, Tim!TimerAssumption
<1>0. Tim!W \in Nat \ {0} BY <1>1, Zenon
<1>2. PICK a : a = IF k + 1 < Tim!W THEN k + 1 ELSE k + 1 - Tim!W BY Zenon
<1>3. PICK b : b = IF k + n < Tim!W THEN k + n ELSE k + n - Tim!W BY Zenon
<1>4. a \in Nat /\ b \in Nat /\ a < Tim!W /\ b < Tim!W BY <1>1, <1>2, <1>3
<1>5. (k + 1) % Tim!W = a
  <2>1. ASSUME k + 1 < Tim!W PROVE (k + 1) % Tim!W = k + 1
    <3>1. k + 1 \in Int /\ 0 <= (k + 1) /\ (k + 1) < Tim!W BY <1>1, <2>1
    <3> QED BY <1>0, <3>1, Wraps, Zenon
  <2>2. ASSUME k + 1 >= Tim!W PROVE (k + 1) % Tim!W = (k + 1) - Tim!W
    <3>1. k + 1 \in Int /\ Tim!W <= (k + 1) /\ (k + 1) < Tim!W + Tim!W BY <1>1, <2>2
    <3> QED BY <1>0, <3>1, WrapsOnce, Zenon
  <2> QED BY <1>1, <1>2, <2>1, <2>2
<1>6. (k + n) % Tim!W = b
  <2>1. ASSUME k + n < Tim!W PROVE (k + n) % Tim!W = k + n
    <3>1. k + n \in Int /\ 0 <= (k + n) /\ (k + n) < Tim!W BY <1>1, <2>1
    <3> QED BY <1>0, <3>1, Wraps, Zenon
  <2>2. ASSUME k + n >= Tim!W PROVE (k + n) % Tim!W = (k + n) - Tim!W
    <3>1. k + n \in Int /\ Tim!W <= (k + n) /\ (k + n) < Tim!W + Tim!W BY <1>1, <2>2
    <3> QED BY <1>0, <3>1, WrapsOnce, Zenon
  <2> QED BY <1>1, <1>3, <2>1, <2>2
<1>7. (a - b) % Tim!W < Half <=> n = 1
  <2>1. ASSUME a - b >= 0 PROVE (a - b) % Tim!W = a - b
    <3>1. a - b \in Int /\ 0 <= (a - b) /\ (a - b) < Tim!W BY <1>1, <1>4, <2>1
    <3> QED BY <1>0, <3>1, Wraps, Zenon
  <2>2. ASSUME a - b < 0 PROVE (a - b) % Tim!W = a - b + Tim!W
    <3>1. a - b \in Int /\ -Tim!W <= (a - b) /\ (a - b) < 0 BY <1>1, <1>4, <2>2
    <3> QED BY <1>0, <3>1, Wraps, Zenon
  <2> QED BY <1>1, <1>2, <1>3, <1>4, <2>1, <2>2
<1>8. n > 1 => b = (a + (n - 1)) % Tim!W
  <2>1. ASSUME n > 1 /\ a + (n - 1) < Tim!W PROVE (a + (n - 1)) % Tim!W = a + (n - 1)
    <3>1. a + (n - 1) \in Int /\ 0 <= (a + (n - 1)) /\ (a + (n - 1)) < Tim!W BY <1>1, <1>4, <2>1
    <3> QED BY <1>0, <3>1, Wraps, Zenon
  <2>2. ASSUME n > 1 /\ a + (n - 1) >= Tim!W PROVE (a + (n - 1)) % Tim!W = (a + (n - 1)) - Tim!W
    <3>1. a + (n - 1) \in Int /\ Tim!W <= (a + (n - 1)) /\ (a + (n - 1)) < Tim!W + Tim!W BY <1>1, <1>4, <2>2
    <3> QED BY <1>0, <3>1, WrapsOnce, Zenon
  <2> QED BY <1>1, <1>2, <1>3, <1>4, <2>1, <2>2
<1>9. a \in 0 .. Tim!W - 1 /\ b \in 0 .. Tim!W - 1 BY <1>1, <1>4
<1> QED BY <1>5, <1>6, <1>7, <1>8, <1>9, Zenon DEF Tim!TickReached

\* A deadline that the clock has passed, on the next tick.
LEMMA LateTick ==
  ASSUME Tim!TimerAssumption, NEW k \in 0 .. Tim!W - 1, NEW a \in 0 .. Tim!W - 1, (k - a) % Tim!W < Half - 1
  PROVE  /\ (((k + 1) % Tim!W) - a) % Tim!W = ((k - a) % Tim!W) + 1
         /\ Tim!TickReached((k + 1) % Tim!W, a)
<1>1. /\ Tim!W \in Nat \ {0} /\ Half \in Nat /\ Tim!W = Half + Half /\ Half > 1
      /\ k \in Nat /\ k < Tim!W /\ a \in Nat /\ a < Tim!W
  BY DEF Tim!W, Tim!TimerAssumption
<1>0. Tim!W \in Nat \ {0} BY <1>1, Zenon
<1>2. PICK b : b = IF k + 1 < Tim!W THEN k + 1 ELSE k + 1 - Tim!W BY Zenon
<1>3. (k + 1) % Tim!W = b
  <2>1. ASSUME k + 1 < Tim!W PROVE (k + 1) % Tim!W = k + 1
    <3>1. k + 1 \in Int /\ 0 <= (k + 1) /\ (k + 1) < Tim!W BY <1>1, <2>1
    <3> QED BY <1>0, <3>1, Wraps, Zenon
  <2>2. ASSUME k + 1 >= Tim!W PROVE (k + 1) % Tim!W = (k + 1) - Tim!W
    <3>1. k + 1 \in Int /\ Tim!W <= (k + 1) /\ (k + 1) < Tim!W + Tim!W BY <1>1, <2>2
    <3> QED BY <1>0, <3>1, WrapsOnce, Zenon
  <2> QED BY <1>1, <1>2, <2>1, <2>2
<1>4. PICK d : d = (k - a) % Tim!W BY Zenon
<1>5. d = IF k >= a THEN k - a ELSE k - a + Tim!W
  <2>1. ASSUME k - a >= 0 PROVE (k - a) % Tim!W = k - a
    <3>1. k - a \in Int /\ 0 <= (k - a) /\ (k - a) < Tim!W BY <1>1, <2>1
    <3> QED BY <1>0, <3>1, Wraps, Zenon
  <2>2. ASSUME k - a < 0 PROVE (k - a) % Tim!W = k - a + Tim!W
    <3>1. k - a \in Int /\ -Tim!W <= (k - a) /\ (k - a) < 0 BY <1>1, <2>2
    <3> QED BY <1>0, <3>1, Wraps, Zenon
  <2> QED BY <1>1, <1>4, <2>1, <2>2
<1>6. b \in Nat /\ b < Tim!W BY <1>1, <1>2
<1>7. (b - a) % Tim!W = d + 1
  <2>1. ASSUME b - a >= 0 PROVE (b - a) % Tim!W = b - a
    <3>1. b - a \in Int /\ 0 <= (b - a) /\ (b - a) < Tim!W BY <1>1, <1>6, <2>1
    <3> QED BY <1>0, <3>1, Wraps, Zenon
  <2>2. ASSUME b - a < 0 PROVE (b - a) % Tim!W = b - a + Tim!W
    <3>1. b - a \in Int /\ -Tim!W <= (b - a) /\ (b - a) < 0 BY <1>1, <1>6, <2>2
    <3> QED BY <1>0, <3>1, Wraps, Zenon
  <2>3. d < Half - 1 BY <1>4
  <2> QED BY <1>1, <1>2, <1>5, <1>6, <2>1, <2>2, <2>3
<1>8. d + 1 < Half BY <1>1, <1>4, <1>5
<1> QED BY <1>3, <1>4, <1>7, <1>8, Zenon DEF Tim!TickReached

\* What the invariant says of one task and of one slot.
SleepFine(t) ==
  st[t] = "asleep" => /\ left[t] > 0 /\ at[t] \in Tim!Slots
                      /\ slot[at[t]].task = t /\ slot[at[t]].wake = Tim!Deadline(left[t])
WokenFine(t) == st[t] = "woken" /\ t \notin disturbed => left[t] = 0
AlarmFine(t) ==
  st[t] # "dead" /\ alarm[t].active =>
    /\ due[t] > 0 \/ skips > 0
    /\ IF due[t] > 0 THEN alarm[t].tick = Tim!Deadline(due[t])
       ELSE (timer_ticks - alarm[t].tick) % Tim!W < skips
SlotFine(i) == slot[i].task # NoTask => \E n \in Tim!Delays : slot[i].wake = Tim!Deadline(n)

\* The kinds of values.
LEMMA TimerTypes ==
  ASSUME Tim!TimerAssumption
  PROVE  /\ 0 \in 0 .. Tim!W - 1 /\ 0 \in 0 .. Half - 1 /\ 0 \notin Tim!Slots /\ 0 \in 0 .. MaxSkips
         /\ Tim!Delays \subseteq 0 .. Half - 1 /\ \A n \in Tim!Delays : n > 0
         /\ Tim!Slots \subseteq Nat /\ NoTask \notin Tasks /\ ~(0 > 0)
BY DEF Tim!TimerAssumption, Tim!W, Tim!Slots, Tim!Delays

\* The records of an empty slot and of no alarm.
LEMMA EmptyTypes ==
  ASSUME Tim!TimerAssumption
  PROVE  /\ Tim!Empty \in [task : Tasks \cup {NoTask}, wake : 0 .. Tim!W - 1] /\ Tim!Empty.task = NoTask
         /\ Tim!NoAlarm \in [active : BOOLEAN, tick : 0 .. Tim!W - 1] /\ ~Tim!NoAlarm.active
BY TimerTypes, Zenon DEF Tim!Empty, Tim!NoAlarm

\* The invariant, task by task and slot by slot.
LEMMA TimerParts ==
  Tim!TimerInv <=> /\ Tim!TypeOK
                   /\ \A t \in Tasks : SleepFine(t) /\ WokenFine(t) /\ AlarmFine(t)
                   /\ \A i \in Tim!Slots : SlotFine(i)
BY Zenon DEF Tim!TimerInv, Tim!SleepsExactly, Tim!SleeperHoldsItsSlot, Tim!AlarmOnTime,
        Tim!SlotsDue, Tim!AlarmsDue,
             SleepFine, WokenFine, AlarmFine, SlotFine

\* Nobody sleeps and no alarm is set at the start.
LEMMA TimerInit == ASSUME Tim!TimerAssumption, Tim!Init PROVE Tim!TimerInv
<1>1. Tim!TypeOK BY TimerTypes, EmptyTypes, Zenon DEF Tim!Init, Tim!TypeOK
<1>2. \A t \in Tasks : SleepFine(t) /\ WokenFine(t) /\ AlarmFine(t)
  BY EmptyTypes, Zenon DEF Tim!Init, SleepFine, WokenFine, AlarmFine
<1>3. \A i \in Tim!Slots : SlotFine(i) BY EmptyTypes, Zenon DEF Tim!Init, SlotFine
<1> QED BY <1>1, <1>2, <1>3, TimerParts, Zenon

\* A deadline is a number of the counter's range.
LEMMA DeadlineTypes ==
  ASSUME Tim!TimerAssumption, timer_ticks \in 0 .. Tim!W - 1
  PROVE  \A n \in Tim!Delays : Tim!Deadline(n) \in 0 .. Tim!W - 1
BY NextTick, Zenon DEF Tim!Deadline

\* timer_sleep() takes a free slot, which no sleeper is on.
LEMMA SleepTimer ==
  ASSUME Tim!TimerAssumption, Tim!TimerInv, NEW t \in Tasks, NEW n \in Tim!Delays, Tim!Sleep(t, n)
  PROVE  Tim!TimerInv'
<1>1. Tim!TypeOK BY TimerParts, Zenon
<1>21. \A u \in Tasks : SleepFine(u) BY TimerParts, Zenon
<1>22. \A u \in Tasks : WokenFine(u) BY TimerParts, Zenon
<1>23. \A u \in Tasks : AlarmFine(u) BY TimerParts, Zenon
<1>24. \A j \in Tim!Slots : SlotFine(j) BY TimerParts, Zenon
<1>2. timer_ticks' = timer_ticks /\ skips' = skips /\ \A m : Tim!Deadline(m)' = Tim!Deadline(m)
  BY Zenon DEF Tim!Sleep, Tim!Deadline
<1>3. CASE kill[t]
  <2>1. /\ st' = [st EXCEPT ![t] = "dead"]
        /\ UNCHANGED <<slot, at, left, timer_ticks, kill, alarm, due, disturbed, skips>>
    BY <1>3, Zenon DEF Tim!Sleep
  <2>11. Tim!TypeOK' BY <1>1, <2>1, Zenon DEF Tim!TypeOK
  <2>0. \A u \in Tasks : st'[u] = IF u = t THEN "dead" ELSE st[u] BY <1>1, <2>1, Zenon DEF Tim!TypeOK
  <2>12. \A u \in Tasks : SleepFine(u)' BY <1>21, <1>2, <2>0, <2>1 DEF SleepFine
  <2>13. \A u \in Tasks : WokenFine(u)' BY <1>22, <2>0, <2>1 DEF WokenFine
  <2>14. \A u \in Tasks : AlarmFine(u)' BY <1>23, <1>2, <2>0, <2>1, Zenon DEF AlarmFine
  <2>15. \A i \in Tim!Slots : SlotFine(i)' BY <1>24, <1>2, <2>1, Zenon DEF SlotFine
  <2> QED BY <2>11, <2>12, <2>13, <2>14, <2>15, Zenon
    DEF Tim!TimerInv, Tim!SleepsExactly, Tim!SleeperHoldsItsSlot, Tim!AlarmOnTime,
        Tim!SlotsDue, Tim!AlarmsDue,
        SleepFine, WokenFine, AlarmFine, SlotFine
<1>4. CASE ~kill[t]
  <2>1. PICK i : /\ slot' = [slot EXCEPT ![i] = [task |-> t, wake |-> Tim!Deadline(n)]]
                 /\ at' = [at EXCEPT ![t] = i] /\ i \in Tim!Slots /\ slot[i].task = NoTask
    <3>1. PICK free : free = {j \in Tim!Slots : slot[j].task = NoTask} BY Zenon
    <3>2. free # {} /\ free \in SUBSET Nat BY <1>4, <3>1, TimerTypes, Zenon DEF Tim!Sleep
    <3>3. \E k \in free : \A j \in free : k <= j BY <3>2, LeastMember, Zenon
    <3>4. PICK i : i = CHOOSE k \in free : \A j \in free : k <= j BY Zenon
    <3>5. i \in free BY <3>3, <3>4, Zenon
    <3>6. /\ slot' = [slot EXCEPT ![i] = [task |-> t, wake |-> Tim!Deadline(n)]]
          /\ at' = [at EXCEPT ![t] = i]
      BY <1>4, <3>1, <3>4, Zenon DEF Tim!Sleep
    <3> QED BY <3>1, <3>5, <3>6, Zenon
  <2>2. /\ st[t] = "run" /\ st' = [st EXCEPT ![t] = "asleep"] /\ left' = [left EXCEPT ![t] = n]
        /\ UNCHANGED <<timer_ticks, kill, alarm, due, disturbed, skips>>
    BY <1>4, Zenon DEF Tim!Sleep
  <2>3. n \in 0 .. Half - 1 /\ n > 0 /\ Tim!Deadline(n) \in 0 .. Tim!W - 1 /\ NoTask # t
    BY <1>1, TimerTypes, DeadlineTypes, Zenon DEF Tim!TypeOK
  <2>4. [task |-> t, wake |-> Tim!Deadline(n)] \in [task : Tasks \cup {NoTask}, wake : 0 .. Tim!W - 1]
    BY <2>3, Zenon
  <2>11. Tim!TypeOK' BY <1>1, <2>1, <2>2, <2>3, <2>4, Zenon DEF Tim!TypeOK
  <2>5. /\ \A u \in Tasks : /\ st'[u] = IF u = t THEN "asleep" ELSE st[u]
                            /\ at'[u] = IF u = t THEN i ELSE at[u]
                            /\ left'[u] = IF u = t THEN n ELSE left[u]
        /\ \A j \in Tim!Slots : slot'[j] = IF j = i THEN [task |-> t, wake |-> Tim!Deadline(n)] ELSE slot[j]
    BY <1>1, <2>1, <2>2, Zenon DEF Tim!TypeOK
  <2>12. \A u \in Tasks : SleepFine(u)'
    <3> TAKE u \in Tasks
    <3>1. CASE u = t BY <1>2, <2>1, <2>3, <2>5, <3>1 DEF SleepFine
    <3>2. CASE u # t
      <4>1. st[u] = "asleep" => at[u] # i BY <1>21, <2>1, TimerTypes, Zenon DEF SleepFine
      <4> QED BY <1>21, <1>2, <2>5, <3>2, <4>1 DEF SleepFine
    <3> QED BY <3>1, <3>2, Zenon
  <2>13. \A u \in Tasks : WokenFine(u)' BY <1>22, <2>2, <2>5 DEF WokenFine
  <2>14. \A u \in Tasks : AlarmFine(u)' BY <1>23, <1>2, <2>2, <2>5, Zenon DEF AlarmFine
  <2>15. \A j \in Tim!Slots : SlotFine(j)' BY <1>24, <1>2, <2>5 DEF SlotFine
  <2> QED BY <2>11, <2>12, <2>13, <2>14, <2>15, Zenon
    DEF Tim!TimerInv, Tim!SleepsExactly, Tim!SleeperHoldsItsSlot, Tim!AlarmOnTime,
        Tim!SlotsDue, Tim!AlarmsDue,
        SleepFine, WokenFine, AlarmFine, SlotFine
<1> QED BY <1>3, <1>4, Zenon

\* timer_sleep() behind its wait: a slot given up is one that no sleeper is on.
LEMMA ResumeTimer ==
  ASSUME Tim!TimerAssumption, Tim!TimerInv, NEW t \in Tasks, Tim!Resume(t)
  PROVE  Tim!TimerInv'
<1>1. Tim!TypeOK BY TimerParts, Zenon
<1>21. \A u \in Tasks : SleepFine(u) BY TimerParts, Zenon
<1>22. \A u \in Tasks : WokenFine(u) BY TimerParts, Zenon
<1>23. \A u \in Tasks : AlarmFine(u) BY TimerParts, Zenon
<1>24. \A j \in Tim!Slots : SlotFine(j) BY TimerParts, Zenon
<1>2. timer_ticks' = timer_ticks /\ skips' = skips /\ \A m : Tim!Deadline(m)' = Tim!Deadline(m)
  BY Zenon DEF Tim!Resume, Tim!Deadline
<1>3. PICK s : st' = [st EXCEPT ![t] = s] /\ s \in {"dead", "run"} BY Zenon DEF Tim!Resume
<1>4. /\ st[t] = "woken" /\ disturbed' = disturbed \ {t} /\ at' = [at EXCEPT ![t] = 0]
      /\ left' = [left EXCEPT ![t] = 0] /\ UNCHANGED <<timer_ticks, kill, alarm, due, skips>>
  BY Zenon DEF Tim!Resume
<1>6. slot' = slot \/ (slot[at[t]].task = t /\ slot' = [slot EXCEPT ![at[t]] = Tim!Empty])
  BY Zenon DEF Tim!Resume, Tim!HandBack
<1>11. Tim!TypeOK' BY <1>1, <1>3, <1>4, <1>6, TimerTypes, EmptyTypes DEF Tim!TypeOK
<1>7. /\ \A u \in Tasks : /\ st'[u] = IF u = t THEN s ELSE st[u]
                          /\ at'[u] = IF u = t THEN 0 ELSE at[u]
                          /\ left'[u] = IF u = t THEN 0 ELSE left[u]
      /\ \A j \in Tim!Slots : slot'[j] = slot[j] \/ (slot[j].task = t /\ slot'[j] = Tim!Empty)
  BY <1>1, <1>3, <1>4, <1>6, Zenon DEF Tim!TypeOK
<1>12. \A u \in Tasks : SleepFine(u)'
  <2> TAKE u \in Tasks
  <2>1. CASE u = t BY <1>3, <1>7, <2>1, Zenon DEF SleepFine
  <2>2. CASE u # t BY <1>21, <1>2, <1>7, <2>2 DEF SleepFine
  <2> QED BY <2>1, <2>2, Zenon
<1>13. \A u \in Tasks : WokenFine(u)' BY <1>22, <1>3, <1>4, <1>7, Zenon DEF WokenFine
<1>14. \A u \in Tasks : AlarmFine(u)' BY <1>23, <1>2, <1>4, <1>7, Zenon DEF AlarmFine
<1>15. \A j \in Tim!Slots : SlotFine(j)' BY <1>24, <1>2, <1>7, EmptyTypes DEF SlotFine
<1> QED BY <1>11, <1>12, <1>13, <1>14, <1>15, Zenon
  DEF Tim!TimerInv, Tim!SleepsExactly, Tim!SleeperHoldsItsSlot, Tim!AlarmOnTime,
        Tim!SlotsDue, Tim!AlarmsDue,
      SleepFine, WokenFine, AlarmFine, SlotFine

\* A signal or a kill wakes a sleeper, and is what its early end is put down to.
LEMMA DisturbTimer ==
  ASSUME Tim!TimerAssumption, Tim!TimerInv, NEW t \in Tasks, NEW killing \in BOOLEAN, Tim!Disturb(t, killing)
  PROVE  Tim!TimerInv'
<1>1. Tim!TypeOK BY TimerParts, Zenon
<1>21. \A u \in Tasks : SleepFine(u) BY TimerParts, Zenon
<1>22. \A u \in Tasks : WokenFine(u) BY TimerParts, Zenon
<1>23. \A u \in Tasks : AlarmFine(u) BY TimerParts, Zenon
<1>24. \A j \in Tim!Slots : SlotFine(j) BY TimerParts, Zenon
<1>2. timer_ticks' = timer_ticks /\ skips' = skips /\ \A m : Tim!Deadline(m)' = Tim!Deadline(m)
  BY Zenon DEF Tim!Disturb, Tim!Deadline
<1>3. /\ UNCHANGED <<timer_ticks, slot, at, alarm, left, due, skips>>
      /\ kill' = [kill EXCEPT ![t] = killing] /\ st[t] # "dead"
      /\ st' = [st EXCEPT ![t] = IF st[t] = "asleep" THEN "woken" ELSE st[t]]
      /\ disturbed' = IF st[t] = "asleep" THEN disturbed \cup {t} ELSE disturbed
  BY Zenon DEF Tim!Disturb
<1>4. \A u \in Tasks : st'[u] = IF u = t /\ st[t] = "asleep" THEN "woken" ELSE st[u]
  BY <1>1, <1>3, Zenon DEF Tim!TypeOK
<1>5. disturbed' \in SUBSET Tasks /\ st' \in [Tasks -> {"run", "asleep", "woken", "dead"}]
  BY <1>1, <1>3 DEF Tim!TypeOK
<1>6. kill' \in [Tasks -> BOOLEAN] BY <1>1, <1>3, Zenon DEF Tim!TypeOK
<1>11. Tim!TypeOK' BY <1>1, <1>3, <1>5, <1>6, Zenon DEF Tim!TypeOK
<1>12. \A u \in Tasks : SleepFine(u)' BY <1>21, <1>2, <1>3, <1>4 DEF SleepFine
<1>13. \A u \in Tasks : WokenFine(u)' BY <1>22, <1>3, <1>4 DEF WokenFine
<1>14. \A u \in Tasks : AlarmFine(u)' BY <1>23, <1>2, <1>3, <1>4 DEF AlarmFine
<1>15. \A j \in Tim!Slots : SlotFine(j)' BY <1>24, <1>2, <1>3 DEF SlotFine
<1> QED BY <1>11, <1>12, <1>13, <1>14, <1>15, Zenon
  DEF Tim!TimerInv, Tim!SleepsExactly, Tim!SleeperHoldsItsSlot, Tim!AlarmOnTime,
        Tim!SlotsDue, Tim!AlarmsDue,
      SleepFine, WokenFine, AlarmFine, SlotFine

\* sys_alarm() sets a deadline or takes it back.
LEMMA AlarmTimer ==
  ASSUME Tim!TimerAssumption, Tim!TimerInv, NEW t \in Tasks, NEW n \in Tim!Delays \cup {0}, Tim!Alarm(t, n)
  PROVE  Tim!TimerInv'
<1>1. Tim!TypeOK BY TimerParts, Zenon
<1>21. \A u \in Tasks : SleepFine(u) BY TimerParts, Zenon
<1>22. \A u \in Tasks : WokenFine(u) BY TimerParts, Zenon
<1>23. \A u \in Tasks : AlarmFine(u) BY TimerParts, Zenon
<1>24. \A j \in Tim!Slots : SlotFine(j) BY TimerParts, Zenon
<1>2. timer_ticks' = timer_ticks /\ skips' = skips /\ \A m : Tim!Deadline(m)' = Tim!Deadline(m)
  BY Zenon DEF Tim!Alarm, Tim!Deadline
<1>3. PICK r : r = IF n = 0 THEN Tim!NoAlarm ELSE [active |-> TRUE, tick |-> Tim!Deadline(n)] BY Zenon
<1>4. /\ alarm' = [alarm EXCEPT ![t] = r] /\ due' = [due EXCEPT ![t] = n]
      /\ UNCHANGED <<timer_ticks, slot, st, at, kill, left, disturbed, skips>>
  BY <1>3, Zenon DEF Tim!Alarm
<1>5. /\ r \in [active : BOOLEAN, tick : 0 .. Tim!W - 1] /\ n \in 0 .. Half - 1
      /\ r.active => n > 0 /\ r.tick = Tim!Deadline(n)
  <2>1. CASE n = 0 BY <1>3, <2>1, TimerTypes, EmptyTypes, Zenon
  <2>2. CASE n # 0
    <3>1. n \in Tim!Delays BY <2>2, Zenon
    <3>2. Tim!Deadline(n) \in 0 .. Tim!W - 1 /\ n \in 0 .. Half - 1 /\ n > 0
      BY <1>1, <3>1, TimerTypes, DeadlineTypes, Zenon DEF Tim!TypeOK
    <3> QED BY <1>3, <2>2, <3>2
  <2> QED BY <2>1, <2>2, Zenon
<1>6. \A u \in Tasks : /\ alarm'[u] = IF u = t THEN r ELSE alarm[u]
                       /\ due'[u] = IF u = t THEN n ELSE due[u]
  BY <1>1, <1>4, Zenon DEF Tim!TypeOK
<1>11. Tim!TypeOK' BY <1>1, <1>4, <1>5, Zenon DEF Tim!TypeOK
<1>12. \A u \in Tasks : SleepFine(u)' BY <1>21, <1>2, <1>4 DEF SleepFine
<1>13. \A u \in Tasks : WokenFine(u)' BY <1>22, <1>4 DEF WokenFine
<1>14. \A u \in Tasks : AlarmFine(u)'
  <2> TAKE u \in Tasks
  <2>1. CASE u = t BY <1>2, <1>5, <1>6, <2>1 DEF AlarmFine
  <2>2. CASE u # t BY <1>23, <1>2, <1>4, <1>6, <2>2 DEF AlarmFine
  <2> QED BY <2>1, <2>2, Zenon
<1>15. \A j \in Tim!Slots : SlotFine(j)' BY <1>24, <1>2, <1>4 DEF SlotFine
<1> QED BY <1>11, <1>12, <1>13, <1>14, <1>15, Zenon
  DEF Tim!TimerInv, Tim!SleepsExactly, Tim!SleeperHoldsItsSlot, Tim!AlarmOnTime,
        Tim!SlotsDue, Tim!AlarmsDue,
      SleepFine, WokenFine, AlarmFine, SlotFine

\* A new process has no alarm and has not slept.
LEMMA CreateTimer ==
  ASSUME Tim!TimerAssumption, Tim!TimerInv, NEW t \in Tasks, Tim!Create(t)
  PROVE  Tim!TimerInv'
<1>1. Tim!TypeOK BY TimerParts, Zenon
<1>21. \A u \in Tasks : SleepFine(u) BY TimerParts, Zenon
<1>22. \A u \in Tasks : WokenFine(u) BY TimerParts, Zenon
<1>23. \A u \in Tasks : AlarmFine(u) BY TimerParts, Zenon
<1>24. \A j \in Tim!Slots : SlotFine(j) BY TimerParts, Zenon
<1>2. timer_ticks' = timer_ticks /\ skips' = skips /\ \A m : Tim!Deadline(m)' = Tim!Deadline(m)
  BY Zenon DEF Tim!Create, Tim!Deadline
<1>3. /\ st' = [st EXCEPT ![t] = "run"] /\ kill' = [kill EXCEPT ![t] = FALSE]
      /\ alarm' = [alarm EXCEPT ![t] = Tim!NoAlarm] /\ at' = [at EXCEPT ![t] = 0]
      /\ UNCHANGED <<timer_ticks, slot, left, due, disturbed, skips>>
  BY Zenon DEF Tim!Create
<1>4. \A u \in Tasks : /\ st'[u] = IF u = t THEN "run" ELSE st[u]
                       /\ at'[u] = IF u = t THEN 0 ELSE at[u]
                       /\ alarm'[u] = IF u = t THEN Tim!NoAlarm ELSE alarm[u]
  BY <1>1, <1>3, Zenon DEF Tim!TypeOK
<1>11. Tim!TypeOK' BY <1>1, <1>3, EmptyTypes, Zenon DEF Tim!TypeOK
<1>12. \A u \in Tasks : SleepFine(u)' BY <1>21, <1>2, <1>3, <1>4 DEF SleepFine
<1>13. \A u \in Tasks : WokenFine(u)' BY <1>22, <1>3, <1>4 DEF WokenFine
<1>14. \A u \in Tasks : AlarmFine(u)' BY <1>23, <1>2, <1>3, <1>4, EmptyTypes DEF AlarmFine
<1>15. \A j \in Tim!Slots : SlotFine(j)' BY <1>24, <1>2, <1>3 DEF SlotFine
<1> QED BY <1>11, <1>12, <1>13, <1>14, <1>15, Zenon
  DEF Tim!TimerInv, Tim!SleepsExactly, Tim!SleeperHoldsItsSlot, Tim!AlarmOnTime,
        Tim!SlotsDue, Tim!AlarmsDue,
      SleepFine, WokenFine, AlarmFine, SlotFine

\* A step that changes nothing.
LEMMA IdleTimer == ASSUME Tim!TimerInv, UNCHANGED Tim!vars PROVE Tim!TimerInv'
BY Zenon DEF Tim!vars, Tim!TimerInv, Tim!TypeOK, Tim!SleepsExactly, Tim!SleeperHoldsItsSlot, Tim!AlarmOnTime,
             Tim!SlotsDue, Tim!AlarmsDue, Tim!Deadline

\* What a tick does to one task and to one slot.
TickOf(now, over, rung, ends, c) ==
  /\ timer_ticks' = now /\ skips' = (IF ends THEN skips + 1 ELSE 0) /\ UNCHANGED <<at, kill>>
  /\ ends => skips < MaxSkips /\ rung = {}
  /\ slot' = [i \in Tim!Slots |-> IF i \in over THEN Tim!Empty ELSE slot[i]]
  /\ st' = [u \in Tasks |-> IF u = c /\ ends THEN "dead"
                           ELSE IF st[u] = "asleep" /\ (at[u] \in over \/ u \in rung) THEN "woken"
                           ELSE st[u]]
  /\ alarm' = [u \in Tasks |-> IF u \in rung \/ (u = c /\ ends) THEN Tim!NoAlarm ELSE alarm[u]]
  /\ disturbed' = disturbed \cup {u \in rung : st[u] = "asleep" /\ at[u] \notin over}
  /\ left' = [u \in Tasks |-> IF left[u] > 0 THEN left[u] - 1 ELSE 0]
  /\ due' = [u \in Tasks |-> IF due[u] > 0 THEN due[u] - 1 ELSE 0]
  /\ rung \subseteq Tasks
  /\ \A i \in Tim!Slots : i \in over <=> slot[i].task # NoTask /\ Tim!TickReached(now, slot[i].wake)
  /\ ~ends => \A u \in Tasks : u \in rung <=> Tim!Rings(u, now)

\* timer_callback() does this, for the slots that expire and the alarms that ring.
LEMMA TickParts ==
  ASSUME NEW c, Tim!Tick(c), NEW now, now = (timer_ticks + 1) % Tim!W
  PROVE  \E over, rung : \E ends \in BOOLEAN :
           TickOf(now, over, rung, ends, c) /\ ends = (c # NoTask /\ kill[c])
<1>1. PICK over : over = Tim!Expired(now) BY Zenon
<1>2. PICK ends \in BOOLEAN : ends = (c # NoTask /\ kill[c]) BY Zenon
<1>3. PICK rung : rung = IF ends THEN {} ELSE {u \in Tasks : Tim!Rings(u, now)} BY Zenon
<1>4. TickOf(now, over, rung, ends, c)
  <2>1. /\ timer_ticks' = now /\ skips' = (IF ends THEN skips + 1 ELSE 0) /\ UNCHANGED <<at, kill>>
        /\ ends => skips < MaxSkips
    BY <1>2, Zenon DEF Tim!Tick
  <2>2. ends => rung = {} BY <1>3, Zenon
  <2>3. slot' = [i \in Tim!Slots |-> IF i \in over THEN Tim!Empty ELSE slot[i]] BY <1>1, Zenon DEF Tim!Tick
  <2>4. st' = [u \in Tasks |-> IF u = c /\ ends THEN "dead"
                           ELSE IF st[u] = "asleep" /\ (at[u] \in over \/ u \in rung) THEN "woken"
                           ELSE st[u]]
    BY <1>1, <1>2, <1>3, Zenon DEF Tim!Tick
  <2>5. alarm' = [u \in Tasks |-> IF u \in rung \/ (u = c /\ ends) THEN Tim!NoAlarm ELSE alarm[u]]
    BY <1>2, <1>3, Zenon DEF Tim!Tick
  <2>6. disturbed' = disturbed \cup {u \in rung : st[u] = "asleep" /\ at[u] \notin over}
    BY <1>1, <1>2, <1>3, Zenon DEF Tim!Tick
  <2>7. /\ left' = [u \in Tasks |-> IF left[u] > 0 THEN left[u] - 1 ELSE 0]
        /\ due' = [u \in Tasks |-> IF due[u] > 0 THEN due[u] - 1 ELSE 0]
    BY Zenon DEF Tim!Tick
  <2>8. rung \subseteq Tasks BY <1>3, Zenon
  <2>9. \A i \in Tim!Slots : i \in over <=> slot[i].task # NoTask /\ Tim!TickReached(now, slot[i].wake)
    BY <1>1, Zenon DEF Tim!Expired
  <2>10. ~ends => \A u \in Tasks : u \in rung <=> Tim!Rings(u, now) BY <1>3, Zenon
  <2> QED BY <2>1, <2>2, <2>3, <2>4, <2>5, <2>6, <2>7, <2>8, <2>9, <2>10, Zenon DEF TickOf
<1> QED BY <1>2, <1>4, Zenon

\* The next tick reaches the deadlines one tick away, and brings the others one nearer.
LEMMA TickNearer ==
  ASSUME Tim!TimerAssumption, timer_ticks \in 0 .. Tim!W - 1, NEW now, now = (timer_ticks + 1) % Tim!W
  PROVE  /\ now \in 0 .. Tim!W - 1
         /\ \A n \in Tim!Delays : /\ Tim!TickReached(now, Tim!Deadline(n)) <=> n = 1
                                  /\ n > 1 => Tim!Deadline(n) = (now + (n - 1)) % Tim!W
         /\ (now - Tim!Deadline(1)) % Tim!W = 0
<1>1. 1 \in Tim!Delays /\ Tim!W \in Nat \ {0} BY DEF Tim!TimerAssumption, Tim!Delays, Tim!W
<1>2. \A n \in Tim!Delays : /\ (timer_ticks + 1) % Tim!W \in 0 .. Tim!W - 1
                            /\ Tim!TickReached((timer_ticks + 1) % Tim!W, (timer_ticks + n) % Tim!W) <=> n = 1
                            /\ n > 1 => (timer_ticks + n) % Tim!W = (((timer_ticks + 1) % Tim!W) + (n - 1)) % Tim!W
  BY NextTick, Zenon
<1>3. now \in 0 .. Tim!W - 1 BY <1>1, <1>2, Zenon
<1>4. (now - Tim!Deadline(1)) % Tim!W = 0
  <2>1. now - Tim!Deadline(1) = 0 BY <1>3 DEF Tim!Deadline
  <2>2. 0 \in Int /\ 0 <= 0 /\ 0 < Tim!W BY <1>1
  <2>3. 0 % Tim!W = 0 BY <1>1, <2>2, Wraps, Zenon
  <2> QED BY <2>1, <2>3, Zenon
<1> QED BY <1>2, <1>3, <1>4, Zenon DEF Tim!Deadline

\* timer_callback(): a tick expires what is due, and lets pass an alarm only when it ends a
\* task.
LEMMA TickTimer ==
  ASSUME Tim!TimerAssumption, Tim!TimerInv, NEW c \in Tasks \cup {NoTask}, Tim!Tick(c)
  PROVE  Tim!TimerInv'
<1>1. Tim!TypeOK BY TimerParts, Zenon
<1>21. \A u \in Tasks : SleepFine(u) BY TimerParts, Zenon
<1>22. \A u \in Tasks : WokenFine(u) BY TimerParts, Zenon
<1>23. \A u \in Tasks : AlarmFine(u) BY TimerParts, Zenon
<1>24. \A j \in Tim!Slots : SlotFine(j) BY TimerParts, Zenon
<1>2. PICK now : now = (timer_ticks + 1) % Tim!W BY Zenon
<1>3. PICK over, rung : \E ends \in BOOLEAN : TickOf(now, over, rung, ends, c)
  BY <1>2, TickParts, Zenon
<1>4. PICK ends \in BOOLEAN : TickOf(now, over, rung, ends, c) BY <1>3, Zenon
<1>5. /\ now \in 0 .. Tim!W - 1
      /\ \A n \in Tim!Delays : /\ Tim!TickReached(now, Tim!Deadline(n)) <=> n = 1
                               /\ n > 1 => Tim!Deadline(n) = (now + (n - 1)) % Tim!W
      /\ (now - Tim!Deadline(1)) % Tim!W = 0
  BY <1>1, <1>2, TickNearer, Zenon DEF Tim!TypeOK
<1>6. \A n : Tim!Deadline(n)' = (now + n) % Tim!W BY <1>4, Zenon DEF TickOf, Tim!Deadline
<1>7. /\ Half \in Nat \ {0, 1} /\ Tim!Delays = 1 .. Half - 1 /\ NoTask \notin Tasks /\ Tim!W \in Nat \ {0}
      /\ MaxSkips \in 0 .. Half - 1
  BY DEF Tim!TimerAssumption, Tim!Delays, Tim!W
<1>8. \A u \in Tasks :
        /\ st'[u] = IF u = c /\ ends THEN "dead"
                    ELSE IF st[u] = "asleep" /\ (at[u] \in over \/ u \in rung) THEN "woken" ELSE st[u]
        /\ alarm'[u] = IF u \in rung \/ (u = c /\ ends) THEN Tim!NoAlarm ELSE alarm[u]
        /\ left'[u] = IF left[u] > 0 THEN left[u] - 1 ELSE 0
        /\ due'[u] = IF due[u] > 0 THEN due[u] - 1 ELSE 0
  BY <1>4, Zenon DEF TickOf
<1>9. \A i \in Tim!Slots : slot'[i] = IF i \in over THEN Tim!Empty ELSE slot[i] BY <1>4, Zenon DEF TickOf
<1>10. \A i \in Tim!Slots : i \in over <=> slot[i].task # NoTask /\ Tim!TickReached(now, slot[i].wake)
  BY <1>4, Zenon DEF TickOf
<1>11. Tim!TypeOK'
  <2>1. timer_ticks' \in 0 .. Tim!W - 1 BY <1>4, <1>5, Zenon DEF TickOf
  <2>2. slot' \in [Tim!Slots -> [task : Tasks \cup {NoTask}, wake : 0 .. Tim!W - 1]]
    BY <1>1, <1>4, EmptyTypes, Zenon DEF TickOf, Tim!TypeOK
  <2>3. st' \in [Tasks -> {"run", "asleep", "woken", "dead"}] BY <1>1, <1>4 DEF TickOf, Tim!TypeOK
  <2>4. at' \in [Tasks -> Tim!Slots \cup {0}] /\ kill' \in [Tasks -> BOOLEAN]
    BY <1>1, <1>4, Zenon DEF TickOf, Tim!TypeOK
  <2>5. alarm' \in [Tasks -> [active : BOOLEAN, tick : 0 .. Tim!W - 1]]
    BY <1>1, <1>4, EmptyTypes, Zenon DEF TickOf, Tim!TypeOK
  <2>6. left' \in [Tasks -> 0 .. Half - 1] BY <1>1, <1>4, <1>7 DEF TickOf, Tim!TypeOK
  <2>7. due' \in [Tasks -> 0 .. Half - 1] BY <1>1, <1>4, <1>7 DEF TickOf, Tim!TypeOK
  <2>8. disturbed' \in SUBSET Tasks BY <1>1, <1>4, Zenon DEF TickOf, Tim!TypeOK
  <2>9. skips' \in 0 .. MaxSkips BY <1>1, <1>4, <1>7 DEF TickOf, Tim!TypeOK
  <2> QED BY <2>1, <2>2, <2>3, <2>4, <2>5, <2>6, <2>7, <2>8, <2>9, Zenon DEF Tim!TypeOK
<1>31. \A u \in Tasks : st[u] = "asleep" =>
         /\ left[u] \in Tim!Delays /\ at[u] \in Tim!Slots /\ slot[at[u]].task = u
         /\ slot[at[u]].wake = Tim!Deadline(left[u]) /\ (at[u] \in over <=> left[u] = 1)
  <2> SUFFICES ASSUME NEW u \in Tasks, st[u] = "asleep"
      PROVE /\ left[u] \in Tim!Delays /\ at[u] \in Tim!Slots /\ slot[at[u]].task = u
            /\ slot[at[u]].wake = Tim!Deadline(left[u]) /\ (at[u] \in over <=> left[u] = 1)
    BY Zenon
  <2>1. /\ left[u] > 0 /\ at[u] \in Tim!Slots /\ slot[at[u]].task = u
        /\ slot[at[u]].wake = Tim!Deadline(left[u])
    BY <1>21, Zenon DEF SleepFine
  <2>2. left[u] \in Tim!Delays BY <1>1, <1>7, <2>1 DEF Tim!TypeOK
  <2>3. at[u] \in over <=> left[u] = 1 BY <1>5, <1>7, <1>10, <2>1, <2>2, Zenon
  <2> QED BY <2>1, <2>2, <2>3, Zenon
<1>12. \A u \in Tasks : SleepFine(u)'
  <2> SUFFICES ASSUME NEW u \in Tasks, st'[u] = "asleep"
      PROVE /\ left'[u] > 0 /\ at'[u] \in Tim!Slots
            /\ slot'[at'[u]].task = u /\ slot'[at'[u]].wake = Tim!Deadline(left[u])'
    BY Zenon DEF SleepFine
  <2>1. st[u] = "asleep" /\ at[u] \notin over BY <1>8
  <2>2. left[u] \in Tim!Delays /\ left[u] # 1 BY <1>31, <2>1, Zenon
  <2>3. left[u] > 1 /\ left'[u] = left[u] - 1 /\ left'[u] > 0 BY <1>7, <1>8, <2>2
  <2>4. Tim!Deadline(left[u]) = (now + (left[u] - 1)) % Tim!W BY <1>5, <2>2, <2>3, Zenon
  <2>5. Tim!Deadline(left[u])' = (now + left'[u]) % Tim!W BY <1>4, Zenon DEF TickOf, Tim!Deadline
  <2>6. slot'[at'[u]] = slot[at[u]] /\ at'[u] = at[u] /\ at[u] \in Tim!Slots
    BY <1>4, <1>9, <1>31, <2>1, Zenon DEF TickOf
  <2> QED BY <1>31, <2>1, <2>3, <2>4, <2>5, <2>6, Zenon
<1>13. \A u \in Tasks : WokenFine(u)'
  <2> SUFFICES ASSUME NEW u \in Tasks, st'[u] = "woken", u \notin disturbed'
      PROVE left'[u] = 0
    BY Zenon DEF WokenFine
  <2>1. u \notin disturbed /\ ~(u \in rung /\ st[u] = "asleep" /\ at[u] \notin over)
    BY <1>4, Zenon DEF TickOf
  <2>2. CASE st[u] = "woken"
    <3>1. left[u] = 0 BY <1>22, <2>1, <2>2, Zenon DEF WokenFine
    <3> QED BY <1>8, <3>1
  <2>3. CASE st[u] # "woken"
    <3>1. st[u] = "asleep" /\ at[u] \in over BY <1>8, <2>1, <2>3
    <3>2. left[u] = 1 BY <1>31, <3>1, Zenon
    <3> QED BY <1>8, <3>2
  <2> QED BY <2>2, <2>3, Zenon
<1>15. \A j \in Tim!Slots : SlotFine(j)'
  <2> SUFFICES ASSUME NEW j \in Tim!Slots, slot'[j].task # NoTask
      PROVE \E n \in Tim!Delays : slot'[j].wake = (now + n) % Tim!W
    BY <1>6, Zenon DEF SlotFine
  <2>1. j \notin over /\ slot'[j] = slot[j] BY <1>9, EmptyTypes, Zenon
  <2>2. PICK n \in Tim!Delays : slot[j].wake = Tim!Deadline(n) BY <1>24, <2>1, Zenon DEF SlotFine
  <2>3. n # 1 BY <1>5, <1>10, <2>1, <2>2, Zenon
  <2>4. n > 1 /\ n - 1 \in Tim!Delays BY <1>7, <2>3
  <2> QED BY <1>5, <2>1, <2>2, <2>4, Zenon
<1>14. \A u \in Tasks : AlarmFine(u)'
  <2> SUFFICES ASSUME NEW u \in Tasks, st'[u] # "dead", alarm'[u].active
      PROVE /\ due'[u] > 0 \/ skips' > 0
            /\ IF due'[u] > 0 THEN alarm'[u].tick = (now + due'[u]) % Tim!W
               ELSE (now - alarm'[u].tick) % Tim!W < skips'
    <3>1. timer_ticks' = now BY <1>4, Zenon DEF TickOf
    <3> QED BY <3>1, Zenon DEF AlarmFine, Tim!Deadline
  <2>1. u \notin rung /\ alarm'[u] = alarm[u] /\ alarm[u].active BY <1>8, EmptyTypes, Zenon
  <2>2. st[u] # "dead" BY <1>8
  <2>3. Tim!TickReached(now, alarm[u].tick) => ends BY <1>4, <2>1, <2>2, Zenon DEF TickOf, Tim!Rings
  <2>4. ends => skips' = skips + 1 /\ skips < MaxSkips BY <1>4, Zenon DEF TickOf
  <2>5. due[u] \in 0 .. Half - 1 /\ skips \in 0 .. MaxSkips /\ alarm[u].tick \in 0 .. Tim!W - 1
    BY <1>1, Zenon DEF Tim!TypeOK
  <2>6. CASE due[u] > 1
    <3>1. due[u] \in Tim!Delays BY <1>7, <2>5, <2>6
    <3>2. due[u] > 0 /\ due'[u] = due[u] - 1 /\ due'[u] > 0 BY <1>7, <1>8, <2>5, <2>6
    <3>3. alarm[u].tick = Tim!Deadline(due[u]) BY <1>23, <2>1, <2>2, <3>2, Zenon DEF AlarmFine
    <3>4. Tim!Deadline(due[u]) = (now + (due[u] - 1)) % Tim!W BY <1>5, <2>6, <3>1, Zenon
    <3> QED BY <2>1, <3>2, <3>3, <3>4, Zenon
  <2>7. CASE due[u] = 1
    <3>1. due[u] > 0 /\ due'[u] = 0 /\ 1 \in Tim!Delays BY <1>7, <1>8, <2>7
    <3>2. alarm[u].tick = Tim!Deadline(1) BY <1>23, <2>1, <2>2, <2>7, <3>1, Zenon DEF AlarmFine
    <3>3. ends BY <1>5, <2>3, <3>1, <3>2, Zenon
    <3>4. skips' > 0 /\ 0 < skips' /\ ~(0 > 0) BY <1>7, <2>4, <2>5, <3>3
    <3>5. (now - alarm'[u].tick) % Tim!W = 0 BY <1>5, <2>1, <3>2, Zenon
    <3> QED BY <3>1, <3>4, <3>5, Zenon
  <2>8. CASE due[u] = 0
    <3>1. ~(due[u] > 0) /\ due'[u] = 0 /\ ~(due'[u] > 0) BY <1>8, <2>8
    <3>2. (timer_ticks - alarm[u].tick) % Tim!W < skips BY <1>23, <2>1, <2>2, <3>1, Zenon DEF AlarmFine
    <3>3. PICK d : d = (timer_ticks - alarm[u].tick) % Tim!W BY Zenon
    <3>4. timer_ticks \in 0 .. Tim!W - 1 BY <1>1, Zenon DEF Tim!TypeOK
    <3>5. d \in Int BY <1>7, <2>5, <3>3, <3>4
    <3>6. d < Half - 1 BY <1>7, <2>5, <3>2, <3>3, <3>5
    <3>7. (now - alarm[u].tick) % Tim!W = d + 1 /\ Tim!TickReached(now, alarm[u].tick)
      BY <1>2, <2>5, <3>3, <3>4, <3>6, LateTick, Zenon
    <3>8. ends BY <2>3, <3>7, Zenon
    <3>9. skips' = skips + 1 /\ skips' > 0 /\ d + 1 < skips' BY <1>7, <2>4, <2>5, <3>2, <3>3, <3>5, <3>8
    <3> QED BY <2>1, <3>1, <3>7, <3>9, Zenon
  <2> QED BY <1>7, <2>5, <2>6, <2>7, <2>8
<1> QED BY <1>11, <1>12, <1>13, <1>14, <1>15, Zenon
  DEF Tim!TimerInv, Tim!SleepsExactly, Tim!SleeperHoldsItsSlot, Tim!AlarmOnTime,
        Tim!SlotsDue, Tim!AlarmsDue,
      SleepFine, WokenFine, AlarmFine, SlotFine

\* Every step preserves the invariant.
LEMMA TimerInductive == ASSUME Tim!TimerAssumption, Tim!TimerInv, [Tim!Next]_Tim!vars PROVE Tim!TimerInv'
BY SleepTimer, AlarmTimer, ResumeTimer, CreateTimer, DisturbTimer, TickTimer, IdleTimer, Zenon DEF Tim!Next

\* Sleeps last exactly as long as asked for, a sleeper keeps its slot, and an alarm waits
\* past its tick only behind ticks that end a task, also when the tick counter wraps
\* (timer_sleep(), timer_callback(), sys_alarm()): for any range of the counter, any number
\* of tasks and of slots.
THEOREM TimerSafe == ASSUME Tim!TimerAssumption PROVE Tim!Spec => []Tim!TimerInv
<1>1. Tim!Init => Tim!TimerInv BY TimerInit, Zenon
<1>2. Tim!TimerInv /\ [Tim!Next]_Tim!vars => Tim!TimerInv' BY TimerInductive, Zenon
<1> QED BY <1>1, <1>2, PTL DEF Tim!Spec

\* An alarm that a tick takes away is due.
LEMMA TickRingsDue ==
  ASSUME Tim!TimerAssumption, Tim!TimerInv, NEW c \in Tasks \cup {NoTask}, Tim!Tick(c), NEW u \in Tasks,
         alarm[u].active, ~alarm'[u].active, st'[u] # "dead"
  PROVE  due'[u] = 0
<1>1. Tim!TypeOK /\ AlarmFine(u) BY TimerParts, Zenon
<1>2. PICK now : now = (timer_ticks + 1) % Tim!W BY Zenon
<1>3. PICK over, rung : \E ends \in BOOLEAN : TickOf(now, over, rung, ends, c)
  BY <1>2, TickParts, Zenon
<1>4. PICK ends \in BOOLEAN : TickOf(now, over, rung, ends, c) BY <1>3, Zenon
<1>5. st'[u] = IF u = c /\ ends THEN "dead"
               ELSE IF st[u] = "asleep" /\ (at[u] \in over \/ u \in rung) THEN "woken" ELSE st[u]
  BY <1>4, Zenon DEF TickOf
<1>6. alarm'[u] = IF u \in rung \/ (u = c /\ ends) THEN Tim!NoAlarm ELSE alarm[u]
  BY <1>4, Zenon DEF TickOf
<1>7. due'[u] = IF due[u] > 0 THEN due[u] - 1 ELSE 0 BY <1>4, Zenon DEF TickOf
<1>8. ~(u = c /\ ends) BY <1>5, Zenon
<1>9. u \in rung BY <1>6, <1>8, Zenon
<1>10. ~ends BY <1>4, <1>9, Zenon DEF TickOf
<1>11. st[u] # "dead" /\ Tim!TickReached(now, alarm[u].tick) BY <1>4, <1>9, <1>10, Zenon DEF TickOf, Tim!Rings
<1>12. CASE due[u] > 0
  <2>1. due[u] \in Tim!Delays BY <1>1, <1>12 DEF Tim!TypeOK, Tim!Delays
  <2>2. alarm[u].tick = Tim!Deadline(due[u]) BY <1>1, <1>11, <1>12, Zenon DEF AlarmFine
  <2>3. \A n \in Tim!Delays : Tim!TickReached(now, Tim!Deadline(n)) <=> n = 1
    BY <1>1, <1>2, TickNearer, Zenon DEF Tim!TypeOK
  <2>4. due[u] = 1 BY <1>11, <2>1, <2>2, <2>3, Zenon
  <2> QED BY <1>7, <2>4
<1>13. CASE ~(due[u] > 0) BY <1>7, <1>13, Zenon
<1> QED BY <1>12, <1>13, Zenon

\* No tick rings an alarm before it is due (timer_callback()).
THEOREM AlarmsNeverEarly == ASSUME Tim!TimerAssumption PROVE Tim!Spec => Tim!AlarmNotEarly
<1> DEFINE Rang(t) == alarm[t].active /\ ~alarm'[t].active /\ timer_ticks' # timer_ticks /\ st'[t] # "dead"
<1>1. ASSUME Tim!TimerInv, [Tim!Next]_Tim!vars PROVE [\A t \in Tasks : Rang(t) => due'[t] = 0]_Tim!vars
  <2>1. CASE \E c \in Tasks \cup {NoTask} : Tim!Tick(c) BY <1>1, <2>1, TickRingsDue, Zenon
  <2>2. CASE ~\E c \in Tasks \cup {NoTask} : Tim!Tick(c)
    <3>1. UNCHANGED timer_ticks \/ UNCHANGED Tim!vars
      BY <1>1, <2>2, Zenon DEF Tim!Next, Tim!Sleep, Tim!Alarm, Tim!Resume, Tim!Create, Tim!Disturb
    <3> QED BY <3>1, Zenon DEF Tim!vars
  <2> QED BY <2>1, <2>2, Zenon
<1>2. Tim!TimerInv /\ [Tim!Next]_Tim!vars => [\A t \in Tasks : Rang(t) => due'[t] = 0]_Tim!vars BY <1>1, Zenon
<1>3. Tim!Spec => []Tim!TimerInv BY TimerSafe, Zenon
<1> QED BY <1>2, <1>3, PTL DEF Tim!Spec, Tim!AlarmNotEarly
=============================================================================
