------------------------------ MODULE MCKernel ------------------------------
(***************************************************************************)
(* Processes and what they wait for, for TLC: Process, Signals, FileTable, *)
(* Environment, Pipeline and Ush; Semaphore, Timer, Pipe and Keyboard.     *)
(* They share no state, so a behaviour runs one of them, part.  The        *)
(* variables of Process, Semaphore and FileTable stay in their initial     *)
(* state in the other parts, and those of the other modules are Off where  *)
(* they are not used.                                                      *)
(***************************************************************************)
EXTENDS Process, Semaphore, FileTable, Sequences, TLC

CONSTANTS
  Workers,        \* tasks of Process beside the shell's, and of Pipe
  Main, Thread    \* Signals

VARIABLES
  part,
  sig_pending, sig_handler, in_signal, stopped, doing, suspended, inHandler,
  living, env, meant, answer,
  pc, at, spawned, stage, auto_reap, out_pipe, in_pipe, writers, readers, count, held,
  line, index, stages, child, step, tables, streams, fill, rest,
  timer_ticks, slot, st, place, kill, alarm, left, due, disturbed, skips,
  freed, buf, read_pos, write_pos, bytes, ends, fds, call, chan, marked, ended, sent, rcvd,
  cells, ri, wi, ctrl, fg, handler, queue, state, asked, doomed, typed, got, serial

signalVars == <<sig_pending, sig_handler, in_signal, stopped, doing, suspended, inHandler>>
envVars == <<living, env, meant, answer>>
pipelineVars == <<pc, at, spawned, stage, auto_reap, out_pipe, in_pipe, writers,
                  readers, count, held>>
ushVars == <<line, index, stages, child, step, tables, streams, fill, rest>>
timerVars == <<timer_ticks, slot, st, place, kill, alarm, left, due, disturbed, skips>>
pipeVars == <<freed, buf, read_pos, write_pos, bytes, ends, fds, call, chan, marked, ended,
              sent, rcvd>>
keyVars == <<cells, ri, wi, ctrl, fg, handler, queue, state, asked, doomed, typed, got, serial>>
all == <<part, vars, semaphoreVars, fileVars, signalVars, envVars, pipelineVars, ushVars,
         timerVars, pipeVars, keyVars>>

\* SIGCHLD, below the job control signals and ignored by default, and a signal above them,
\* which a task takes behind its stop loop.
Sig == INSTANCE Signals WITH
         Threads <- {}, Catchable <- {17, 20}, op <- doing, blocked <- suspended
SigT == INSTANCE Signals WITH
          Threads <- {Thread}, Catchable <- {20}, op <- doing, blocked <- suspended

\* Keys of one and two characters, one that is too long, and an empty one; values that
\* are empty, as long as possible, and too long.
Text(of, len) == [of |-> of, len |-> len]
Env == INSTANCE Environment WITH
         Keys <- {Text("j", 1), Text("k", 2), Text("l", 2), Text("m", 3), Text("n", 0)},
         Vals <- {Text("u", 0), Text("v", 2), Text("w", 3)},
         EnvMax <- 2, KeyMax <- 3, ValMax <- 3, Sizes <- {0, 2},
         used <- living, got <- answer
Line == INSTANCE Pipeline WITH
          N <- 3, Cap <- 1, Work <- 3, ShellPreempted <- TRUE, stdout_pipe <- out_pipe,
          stdin_pipe <- in_pipe
User == INSTANCE Ush WITH
          N <- 3, Cap <- 1, Work <- 2, pc <- line, at <- index, n <- stages, fds <- tables,
          std <- streams, count <- fill, held <- rest
Tim == INSTANCE Timer WITH
         Tasks <- Spaces, S <- 1, Half <- 3, MaxSkips <- 1, at <- place
Pip == INSTANCE Pipe WITH
         Tasks <- Workers, Cap <- 2, MaxLen <- 3, MaxFds <- 2, count <- bytes, refs <- ends,
         op <- call, kill <- marked, dead <- ended
Key == INSTANCE Keyboard WITH
         Tasks <- Spaces, Size <- 3, Keys <- 4, Counts <- {1, 2}, flagged <- doomed

ASSUME KernelConstants ==
  /\ ProcessAssumption /\ Sig!SignalsAssumption /\ SigT!SignalsAssumption
  /\ FileTableAssumption /\ Env!EnvironmentAssumption /\ Line!PipelineAssumption
  /\ User!UshAssumption /\ Tim!TimerAssumption /\ Pip!PipeAssumption
  /\ Key!KeyboardAssumption

\* Worker tasks are alike, and so are address spaces, which are also the tasks of Timer and
\* Keyboard.
Symmetry == Permutations(Workers) \cup Permutations(Spaces)

Parts == {"process", "signals", "threads", "files", "env", "pipeline", "ush", "semaphore",
          "timer", "pipe", "keyboard"}

\* A step of one part.
Step(name, A) ==
  /\ part = name /\ A /\ UNCHANGED part
  /\ (name # "process" => UNCHANGED vars)
  /\ (name # "semaphore" => UNCHANGED semaphoreVars)
  /\ (name \notin {"signals", "threads"} => UNCHANGED signalVars)
  /\ (name # "files" => UNCHANGED fileVars)
  /\ (name # "env" => UNCHANGED envVars)
  /\ (name # "pipeline" => UNCHANGED pipelineVars)
  /\ (name # "ush" => UNCHANGED ushVars)
  /\ (name # "timer" => UNCHANGED timerVars)
  /\ (name # "pipe" => UNCHANGED pipeVars)
  /\ (name # "keyboard" => UNCHANGED keyVars)

Off == {}
SignalsOff ==
  /\ sig_pending = Off /\ sig_handler = Off /\ in_signal = Off /\ stopped = Off
  /\ doing = Off /\ suspended = Off /\ inHandler = Off
EnvOff == living = Off /\ env = Off /\ meant = Off /\ answer = Off
PipelineOff ==
  /\ pc = Off /\ at = Off /\ spawned = Off /\ stage = Off /\ auto_reap = Off
  /\ out_pipe = Off /\ in_pipe = Off /\ writers = Off /\ readers = Off
  /\ count = Off /\ held = Off
UshOff ==
  /\ line = Off /\ index = Off /\ stages = Off /\ child = Off /\ step = Off
  /\ tables = Off /\ streams = Off /\ fill = Off /\ rest = Off
TimerOff ==
  /\ timer_ticks = Off /\ slot = Off /\ st = Off /\ place = Off /\ kill = Off
  /\ alarm = Off /\ left = Off /\ due = Off /\ disturbed = Off /\ skips = Off
PipeOff ==
  /\ freed = Off /\ buf = Off /\ read_pos = Off /\ write_pos = Off /\ bytes = Off
  /\ ends = Off /\ fds = Off /\ call = Off /\ chan = Off /\ marked = Off
  /\ ended = Off /\ sent = Off /\ rcvd = Off
KeyOff ==
  /\ cells = Off /\ ri = Off /\ wi = Off /\ ctrl = Off /\ fg = Off
  /\ handler = Off /\ queue = Off /\ state = Off /\ asked = Off /\ doomed = Off
  /\ typed = Off /\ got = Off /\ serial = Off

KernelInit ==
  /\ part \in Parts /\ Init /\ SemaphoreInit /\ FileTableInit
  /\ IF part \in {"signals", "threads"}
     THEN (IF part = "signals" THEN Sig!Init ELSE SigT!Init) ELSE SignalsOff
  /\ IF part = "env" THEN Env!Init ELSE EnvOff
  /\ IF part = "pipeline" THEN Line!Init ELSE PipelineOff
  /\ IF part = "ush" THEN User!Init ELSE UshOff
  /\ IF part = "timer" THEN Tim!Init ELSE TimerOff
  /\ IF part = "pipe" THEN Pip!Init ELSE PipeOff
  /\ IF part = "keyboard" THEN Key!Init ELSE KeyOff

KernelNext ==
  \/ Step("process", Next) \/ Step("semaphore", SemaphoreNext)
  \/ Step("signals", Sig!Next) \/ Step("threads", SigT!Next)
  \/ Step("files", FileTableNext) \/ Step("env", Env!Next)
  \/ Step("pipeline", Line!Next) \/ Step("ush", User!Next)
  \/ Step("timer", Tim!Next) \/ Step("pipe", Pip!Next) \/ Step("keyboard", Key!Next)

KernelSpec == KernelInit /\ [][KernelNext]_all

-----------------------------------------------------------------------------
(* Properties, besides SpacesOwned, TableExact and BlockedForAReason of Process, *)
(* PostsHaveTakers of Semaphore and RefsExact of FileTable                       *)

\* in_signal and stopped mean what they say: without threads, in_signal holds off delivery
\* exactly while the one handler is running, and a stopped process runs no user code.  With
\* a thread, which may take any signal and call sigreturn at any time, a stopped process
\* still has a task in the stop loop, and the main task never sleeps through a signal.
SignalStateTrue ==
  /\ part = "signals" => Sig!SignalsInv
  /\ part = "threads" => SigT!SignalsInv

\* getenv() answers with what the process, or an ancestor before it forked, last gave the
\* variable, and the table has no variable twice and never more than ENV_MAX.
EnvironmentExact == part = "env" => Env!EnvironmentExact

\* Sleeps and alarms are exact across the wrap of the tick counter: unless a signal or a
\* kill ends it, a sleep lasts as long as asked for, and the sleeper has its slot of
\* sleeping_tasks[] to itself; an alarm never rings early, and rings on its tick or on
\* the next one that does not end a task.
TimersExact ==
  /\ [](part = "timer" => Tim!TimerInv)
  /\ [][part = "timer" => \A t \in Spaces :
          (alarm[t].active /\ ~alarm'[t].active /\ timer_ticks' # timer_ticks /\ st'[t] # "dead")
            => due'[t] = 0]_all

\* A pipe and the keyboard's ring hand out what they accepted in order, each byte once.
\* The counts of a pipe's ends are exact over blocked, killed and closing calls, the pipe
\* is freed exactly when nobody can reach it, its reader sleeps only while it is empty and
\* has a writer, its writer only while it is full and has a reader, and a reader of the
\* keyboard never next to a character that nobody is coming for.  A stage of a pipeline
\* that runs has its own pipe ends, also when a later spawn or fork fails, and under ush no
\* others; at the prompt of ush no pipe is left.  For the pipe and the descriptor tables,
\* in the form in which every step keeps it.
RingExact ==
  /\ part = "pipe" => Pip!PipeInv
  /\ part = "keyboard" => Key!TypeOK /\ Key!InOrder /\ Key!NobodySleepsNextToInput
  /\ part = "pipeline" => Line!TypeOK /\ Line!RunningOwnsItsEnds
  /\ part = "ush" => User!NothingLeft
  /\ part = "files" => FilesInv
=============================================================================
