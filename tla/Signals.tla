------------------------------- MODULE Signals -------------------------------
(***************************************************************************)
(* Catchable signals and job control in one process: posting, delivery on  *)
(* the way back to user mode, handlers and sigreturn, pause(), SIGSTOP and *)
(* SIGCONT.  Pending signals, dispositions and the in_signal and stopped   *)
(* flags belong to the process; every one of its tasks delivers, while     *)
(* only the main task is woken when a signal is posted.  SIGKILL, which    *)
(* is never pending, is in Process.                                        *)
(***************************************************************************)
EXTENDS Integers, FiniteSets, FiniteSetsExt

CONSTANTS
  Main, Threads,   \* the main task, and the threads it has created
  Catchable        \* signals beside the job control ones

NSIG == 32
SIGCHLD == 17
SIGCONT == 18
SIGSTOP == 19

\* What the constants have to satisfy.
SignalsAssumption ==
  /\ Catchable \subseteq 1 .. NSIG - 1 /\ SIGCONT \notin Catchable /\ SIGSTOP \notin Catchable
  /\ Main \notin Threads

Group == {Main} \cup Threads
Sigs == Catchable \cup {SIGCONT, SIGSTOP}

VARIABLES
  sig_pending,    \* posted signals
  sig_handler,    \* what each signal does: default, ignore or catch
  in_signal,      \* a handler is running
  stopped,        \* job control: suspended
  op,             \* what a task does: user, pause, stop or dead
  blocked,        \* the tasks that are blocked in pause or stop
  inHandler       \* how many handlers a task is in, one inside the other (history)

vars == <<sig_pending, sig_handler, in_signal, stopped, op, blocked, inHandler>>

Init ==
  /\ sig_pending = {} /\ sig_handler = [s \in Sigs |-> "default"]
  /\ in_signal = FALSE /\ stopped = FALSE
  /\ op = [t \in Group |-> "user"] /\ blocked = {}
  /\ inHandler = [t \in Group |-> 0]

-----------------------------------------------------------------------------
(* Delivery *)

\* What signal_deliver() does with signal s under the dispositions h.
Action(s, h) ==
  CASE s = SIGSTOP -> "stop"
    [] s # SIGSTOP /\ h[s] = "catch" -> "catch"
    [] s \notin {SIGSTOP, SIGCONT, SIGCHLD} /\ h[s] = "default" -> "terminate"
    [] OTHER -> "none"

\* A handler needs room for its frame on the task's stack; without it the task ends.
Outcomes(s, h) == IF Action(s, h) = "catch" THEN {"catch", "terminate"} ELSE {Action(s, h)}

\* Faulty variant: delivery does not look at in_signal.
HoldsOffNever(insig) == FALSE

\* Signals wait while a handler runs.
HoldsOff(insig) == insig

\* The signals that are left when the loop has come from signal from to signal s.
StillPending(pend, from, s) == pend \ from .. s

\* Handlers inside handlers are counted up to this bound: no property tells more apart.
MaxNested == 2

\* The loop of signal_deliver() in task t, from signal from on: signals are taken in the
\* order of their numbers up to the first one that stops the task, ends it or runs a
\* handler.  in_signal is not read again in the loop.
DeliverFrom(t, from, pend, h, insig, stop, inH) ==
  LET due == {s \in pend : s >= from /\ Action(s, h) # "none"}
      s == Min(due)
  IN /\ sig_handler' = h
     /\ IF due = {}
        THEN /\ sig_pending' = {r \in pend : r < from}
             /\ in_signal' = insig /\ stopped' = stop
             /\ op' = [op EXCEPT ![t] = "user"] /\ blocked' = blocked \ {t} /\ inHandler' = inH
        ELSE \E act \in Outcomes(s, h) :
             /\ sig_pending' = StillPending(pend, from, s)
             /\ in_signal' = (insig \/ act = "catch")
             /\ inHandler' = IF act = "catch" /\ inH[t] < MaxNested
                             THEN [inH EXCEPT ![t] = @ + 1] ELSE inH
             /\ stopped' = (stop \/ act = "stop")
             /\ op' = [op EXCEPT ![t] = CASE act = "stop" -> "stop"
                                         [] act = "catch" -> "user"
                                         [] act = "terminate" -> "dead"]
             /\ blocked' = IF act = "stop" THEN blocked \cup {t} ELSE blocked \ {t}

\* signal_deliver() in task t, with the flags as the system call left them.
Deliver(t, pend, h, insig, stop, inH) ==
  IF HoldsOff(insig)
  THEN /\ sig_pending' = pend /\ sig_handler' = h /\ in_signal' = insig /\ stopped' = stop
       /\ op' = [op EXCEPT ![t] = "user"] /\ blocked' = blocked \ {t} /\ inHandler' = inH
  ELSE DeliverFrom(t, 1, pend, h, insig, stop, inH)

\* irq_handler(): a tick on the way back to user mode, or the end of any system call.
Return(t) ==
  /\ op[t] = "user" /\ ~in_signal /\ sig_pending # {}
  /\ Deliver(t, sig_pending, sig_handler, in_signal, stopped, inHandler)

-----------------------------------------------------------------------------
(* System calls *)

\* sys_kill() and process_send_signal() check the number.
ValidSignal(s) == s > 0 /\ s < NSIG

\* process_send_signal() wakes the main task, wherever it is blocked.
Wakes == {Main}

\* sys_kill(), SIGCHLD of a child or SIGALRM.
Send(s) ==
  /\ ValidSignal(s) /\ \E t \in Group : op[t] # "dead"
  /\ sig_pending' = sig_pending \cup {s}
  /\ blocked' = blocked \ Wakes
  /\ UNCHANGED <<sig_handler, in_signal, stopped, op, inHandler>>

\* sys_signal()
Signal(t, s, a) ==
  /\ op[t] = "user"
  /\ Deliver(t, sig_pending, [sig_handler EXCEPT ![s] = a], in_signal, stopped, inHandler)

\* process_pause(): sleeps while nothing is pending.
PauseLoop(t) ==
  IF sig_pending = {}
  THEN /\ op' = [op EXCEPT ![t] = "pause"] /\ blocked' = blocked \cup {t}
       /\ UNCHANGED <<sig_pending, sig_handler, in_signal, stopped, inHandler>>
  ELSE Deliver(t, sig_pending, sig_handler, in_signal, stopped, inHandler)

Pause(t) == op[t] = "user" /\ PauseLoop(t)

ResumePause(t) == op[t] = "pause" /\ t \notin blocked /\ PauseLoop(t)

\* The stop loop ends with SIGCONT, or because another task has ended it.
LeavesStop == SIGCONT \in sig_pending \/ ~stopped

\* The stop loop of signal_deliver(): SIGCONT ends it, and delivery goes on behind SIGSTOP,
\* also if a handler of another task has begun to run meanwhile.
ResumeStop(t) ==
  /\ op[t] = "stop" /\ t \notin blocked
  /\ IF LeavesStop
     THEN DeliverFrom(t, SIGSTOP + 1, sig_pending \ {SIGCONT}, sig_handler, in_signal,
                      stopped /\ SIGCONT \notin sig_pending, inHandler)
     ELSE /\ blocked' = blocked \cup {t}
          /\ UNCHANGED <<sig_pending, sig_handler, in_signal, stopped, op, inHandler>>

\* Faulty variant: sigreturn leaves the flag set.
SigreturnFlagKept == in_signal

SigreturnFlag == FALSE

\* sys_sigreturn(): in any task, inside a handler or not.  The one system call at whose
\* end nothing is delivered.
Sigreturn(t) ==
  /\ op[t] = "user"
  /\ in_signal' = SigreturnFlag
  /\ inHandler' = IF inHandler[t] > 0 THEN [inHandler EXCEPT ![t] = @ - 1] ELSE inHandler
  /\ UNCHANGED <<sig_pending, sig_handler, stopped, op, blocked>>

\* A handler returns, into the trampoline that calls sys_sigreturn().
HandlerReturns(t) == inHandler[t] > 0 /\ Sigreturn(t)

\* task_exit(), also from a handler or when sys_sigreturn() finds no valid frame.
Exit(t) ==
  /\ op[t] = "user"
  /\ op' = [op EXCEPT ![t] = "dead"]
  /\ UNCHANGED <<sig_pending, sig_handler, in_signal, stopped, blocked, inHandler>>

ExecInSignal == FALSE

\* sys_execv() and process_exec_reset(): only without threads.  Nothing stays pending.
Exec ==
  /\ op[Main] = "user" /\ \A t \in Threads : op[t] = "dead"
  /\ Deliver(Main, {}, [s \in Sigs |-> "default"], ExecInSignal, stopped,
             [inHandler EXCEPT ![Main] = 0])

Next ==
  \/ \E s \in Sigs \cup {0, NSIG} : Send(s)
  \/ \E t \in Group :
       \/ Return(t) \/ Pause(t) \/ ResumePause(t) \/ ResumeStop(t) \/ Sigreturn(t) \/ Exit(t)
  \/ \E t \in Group, s \in Sigs, a \in {"default", "ignore", "catch"} : Signal(t, s, a)
  \/ Exec

Spec == Init /\ [][Next]_vars

\* The tick takes every running task through the kernel, and woken tasks run again;
\* programs return from their handlers.
FairSpec ==
  /\ Spec
  /\ \A t \in Group :
       WF_vars(Return(t)) /\ WF_vars(ResumePause(t)) /\ WF_vars(ResumeStop(t)) /\ WF_vars(HandlerReturns(t))

-----------------------------------------------------------------------------
(* Properties *)

\* Every variable has its type.
TypeOK ==
  /\ sig_pending \subseteq Sigs
  /\ sig_handler \in [Sigs -> {"default", "ignore", "catch"}]
  /\ in_signal \in BOOLEAN /\ stopped \in BOOLEAN
  /\ op \in [Group -> {"user", "pause", "stop", "dead"}]
  /\ blocked \subseteq {t \in Group : op[t] \in {"pause", "stop"}}
  /\ inHandler \in [Group -> 0 .. MaxNested]

\* "a handler is currently running" exactly while in_signal is set, and handlers do not run
\* inside each other.  For the main task of a process without threads.
InSignalTrue == inHandler[Main] = IF in_signal THEN 1 ELSE 0

\* The main task never sleeps in pause() with a signal pending, and never stays stopped
\* with a SIGCONT pending, whichever task of the process takes the signals.
MainBlockedForAReason ==
  Main \in blocked =>
    \/ op[Main] = "pause" /\ sig_pending = {}
    \/ op[Main] = "stop" /\ stopped /\ SIGCONT \notin sig_pending

\* "suspend the process until SIGCONT": while the process is marked as stopped one of its
\* tasks is in the stop loop, which is the only place where the mark is taken away.
StopHasATask == stopped => \E t \in Group : op[t] = "stop"

\* The flags mean what they say.  In a process with any number of threads a stopped process
\* has a task in the stop loop, and the main task sleeps only with nothing to wake it; in
\* one without threads, in_signal is set exactly while the one handler runs, a process stops
\* outside its handlers only, and while it is stopped it runs no user code.
SignalsInv ==
  /\ TypeOK /\ StopHasATask /\ MainBlockedForAReason
  /\ Threads = {} => /\ InSignalTrue /\ (stopped => op[Main] = "stop")
                     /\ op[Main] = "stop" => ~in_signal

\* A posted signal is taken, unless the process is stopped or over, or signals with lower
\* numbers keep coming.
SignalsTaken ==
  \A s \in Sigs : (s \in sig_pending) ~> \/ s \notin sig_pending \/ stopped \/ op[Main] = "dead"
                                        \/ \E r \in sig_pending : r < s
=============================================================================
