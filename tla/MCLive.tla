------------------------------- MODULE MCLive -------------------------------
(***************************************************************************)
(* The liveness of the modules in which somebody waits, for TLC: Process,  *)
(* Signals, Pipeline, Ush, Semaphore, Timer, Pipe and Ata.  They share no   *)
(* state, so a behaviour runs one of them, part, and leaves the others in   *)
(* an initial state.                                                        *)
(***************************************************************************)
EXTENDS Integers

CONSTANTS
  Main, Workers, NoTask,    \* the tasks: the shell's, or the main one, and the others
  Spaces, NoSpace,          \* Process
  Usr1,                     \* Signals: a signal beside the job control ones
  Sector, Values, Garbage   \* Ata

VARIABLES
  part,
  proc, task, spaces, nextPid, shell,
  sig_pending, sig_handler, in_signal, stopped, doing, suspended, inHandler,
  pc, at, spawned, stage, auto_reap, stdout_pipe, stdin_pipe, writers, readers, count, held,
  line, index, stages, child, step, tables, streams, fill, rest,
  used, value, blocked, woken, flagged, gone,
  timer_ticks, slot, st, place, kill, alarm, left, due, disturbed, skips,
  freed, buf, read_pos, write_pos, bytes, refs, fds, call, chan, marked, ended, sent, rcvd,
  dev, store, driver, request, available, last, written

processVars == <<proc, task, spaces, nextPid, shell>>
signalVars == <<sig_pending, sig_handler, in_signal, stopped, doing, suspended, inHandler>>
pipelineVars == <<pc, at, spawned, stage, auto_reap, stdout_pipe, stdin_pipe, writers,
                  readers, count, held>>
ushVars == <<line, index, stages, child, step, tables, streams, fill, rest>>
semVars == <<used, value, blocked, woken, flagged, gone>>
timerVars == <<timer_ticks, slot, st, place, kill, alarm, left, due, disturbed, skips>>
pipeVars == <<freed, buf, read_pos, write_pos, bytes, refs, fds, call, chan, marked, ended,
              sent, rcvd>>
ataVars == <<dev, store, driver, request, available, last, written>>
all == <<part, processVars, signalVars, pipelineVars, ushVars, semVars,
         timerVars, pipeVars, ataVars>>

Proc == INSTANCE Process WITH
          N <- 2, PidMax <- 2, Tasks <- {Main} \cup Workers, Shell <- Main, MaxThreads <- 0,
          LaunchRaces <- FALSE
Sig == INSTANCE Signals WITH
         Threads <- {}, Catchable <- {Usr1}, op <- doing, blocked <- suspended
Line == INSTANCE Pipeline WITH N <- 3, Cap <- 1, Work <- 3, ShellPreempted <- FALSE
Ush == INSTANCE Ush WITH
         N <- 2, Cap <- 1, Work <- 2, pc <- line, at <- index, n <- stages, fds <- tables,
         std <- streams, count <- fill, held <- rest
Sem == INSTANCE Semaphore WITH
         Callers <- {Main} \cup Workers, MaxValue <- 2, Kills <- FALSE
Tim == INSTANCE Timer WITH
         Tasks <- Workers, S <- 1, Half <- 2, MaxSkips <- 1, at <- place
Pip == INSTANCE Pipe WITH
         Tasks <- Workers, Cap <- 2, MaxLen <- 3, MaxFds <- 1, count <- bytes, op <- call,
         kill <- marked, dead <- ended
Disk == INSTANCE Ata WITH
          Sectors <- {Sector}, pc <- driver, op <- request, ready <- available,
          asked <- written

ASSUME LiveConstants ==
  /\ Proc!ProcessAssumption /\ Sig!SignalsAssumption
  /\ Line!PipelineAssumption /\ Ush!UshAssumption /\ Tim!TimerAssumption
  /\ Pip!PipeAssumption /\ Disk!AtaAssumption

Part(name, A, unused) == part = name /\ A /\ UNCHANGED <<part, unused>>

Rest == <<pipelineVars, ushVars, semVars, timerVars, pipeVars, ataVars>>
Process(A) == Part("process", A, <<signalVars, Rest>>)
Signals(A) == Part("signals", A, <<processVars, Rest>>)

First == <<processVars, signalVars>>
Pipeline(A) == Part("pipeline", A, <<First, ushVars, semVars, timerVars, pipeVars, ataVars>>)
UserShell(A) == Part("ush", A, <<First, pipelineVars, semVars, timerVars, pipeVars, ataVars>>)
Semaphores(A) == Part("semaphore", A, <<First, pipelineVars, ushVars, timerVars, pipeVars, ataVars>>)
Timers(A) == Part("timer", A, <<First, pipelineVars, ushVars, semVars, pipeVars, ataVars>>)
Pipes(A) == Part("pipe", A, <<First, pipelineVars, ushVars, semVars, timerVars, ataVars>>)
Ata(A) == Part("ata", A, <<First, pipelineVars, ushVars, semVars, timerVars, pipeVars>>)

LiveInit ==
  /\ part \in {"process", "signals", "pipeline", "ush", "semaphore", "timer", "pipe", "ata"}
  /\ Proc!Init /\ Sig!Init /\ Line!Init /\ Ush!Init /\ Sem!SemaphoreInit
  /\ Tim!Init /\ Pip!Init /\ Disk!Init
  /\ part # "timer" => timer_ticks = 0
  /\ part # "ata" => dev = Disk!Quiet /\ store = [s \in {Sector} |-> CHOOSE v \in Values : TRUE]

LiveNext ==
  \/ Process(Proc!Next) \/ Signals(Sig!Next)
  \/ Pipeline(Line!Next) \/ UserShell(Ush!Next) \/ Semaphores(Sem!SemaphoreNext)
  \/ Timers(Tim!Next) \/ Pipes(Pip!Next) \/ Ata(Disk!Next)

\* The fairness of Ata!Spec, and of the FairSpec of every other module.  A behaviour has
\* one part, so that each formula stands for one of every part it names.
LiveSpec ==
  /\ LiveInit /\ [][LiveNext]_all
  /\ WF_all(\/ Process(Proc!Resume(Main)) \/ Signals(Sig!Return(Main))
            \/ Pipeline(Line!ShellStep) \/ UserShell(Ush!ShellStep)
            \/ Semaphores(Sem!ResumeWait(Main)) \/ Ata(Disk!Driver)
            \/ Timers(\E c \in Workers \cup {NoTask} : Tim!Tick(c)))
  /\ WF_all(Process(Proc!TickKill(Main)) \/ Signals(Sig!HandlerReturns(Main)))
  /\ WF_all(Signals(Sig!ResumePause(Main))) /\ WF_all(Signals(Sig!ResumeStop(Main)))
  /\ \A t \in Workers :
       /\ WF_all(Process(Proc!Resume(t)) \/ Semaphores(Sem!ResumeWait(t)) \/ Pipes(Pip!Resume(t)))
       /\ WF_all(Process(Proc!TickKill(t)))
  /\ \A i \in 1 .. 3 : WF_all(Pipeline(Line!Progress(i)) \/ UserShell(Ush!Progress(i)))

-----------------------------------------------------------------------------
(* Properties *)

\* A child that has ended does not leave its parent in wait().
ExitObserved == part = "process" => Proc!ExitObserved

\* SIGKILL: a process without threads that is flagged does not run for ever.
KillCompletes == part = "process" => Proc!KillCompletes

\* A posted signal is taken, unless the process is stopped or over, or signals with
\* lower numbers keep coming.
SignalsTaken == part = "signals" => Sig!SignalsTaken

\* Whichever spawn fails and whichever stage quits, the kernel shell gets back to its
\* prompt, all stages end and are reaped, and then all pipes are freed.
PipelineEnds == part = "pipeline" => Line!PipelineEnds /\ Line!StagesEnd /\ []Line!NoPipeLeaks

\* The user-mode shell gets back to its prompt after every line, whichever pipe() or
\* fork() fails, whichever program cannot be loaded and whoever is killed.
PromptReturns == part = "ush" => Ush!PromptReturns

\* A task that waits for a semaphore goes on, unless others keep taking it; end of file
\* and broken pipe reach the blocked readers and writers of a pipe.
WaitsEnd == Sem!WaitEndsWhenPositive /\ Pip!EndsAreSeen

\* Every sleep slot is handed back in the end.
SlotsComeBack == Tim!SlotsComeBack

\* Every call to the disk driver returns, whatever the drive does.
CallsReturn == part = "ata" => Disk!CallsReturn
=============================================================================
