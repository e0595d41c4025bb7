------------------------------ MODULE Pipeline -------------------------------
(***************************************************************************)
(* The kernel shell running cmd1 | cmd2 | ... | cmdN: it creates the       *)
(* pipes, spawns the stages one by one, hands each its pipe ends, and then *)
(* waits for all of them or leaves them in the background.  The shell runs *)
(* with interrupts enabled, so a tick can let a stage run between the      *)
(* spawn and the hand-over.  Pipe q connects stage q to stage q + 1; of    *)
(* its contents only the fill level is kept.                               *)
(***************************************************************************)
EXTENDS Integers

CONSTANTS
  N,                \* stages
  Cap,              \* PIPE_SIZE
  Work,             \* bytes the first stage writes
  ShellPreempted    \* whether a tick may fall between a spawn and the hand-over

\* What the constants have to satisfy.
PipelineAssumption ==
  /\ N \in Nat \ {0, 1} /\ {Cap, Work} \subseteq Nat \ {0} /\ ShellPreempted \in BOOLEAN

Stages == 1 .. N
Links == 1 .. N - 1

VARIABLES
  pc,           \* where the shell is
  at,           \* the stage it is at
  spawned,      \* how many stages it has spawned
  stage,        \* the state of each stage's process: none, running, zombie or gone
  auto_reap,    \* the stages detached from the shell
  stdout_pipe,  \* the stages whose stdout is their pipe
  stdin_pipe,   \* the stages whose stdin is their pipe
  writers,      \* references to the write end of each pipe
  readers,      \* references to the read end
  count,        \* bytes in each pipe
  held          \* bytes a stage has yet to pass on

vars == <<pc, at, spawned, stage, auto_reap, stdout_pipe, stdin_pipe, writers, readers,
          count, held>>
shell == <<pc, at, spawned>>
ends == <<writers, readers>>

Init ==
  /\ pc = "create" /\ at = 1 /\ spawned = 0
  /\ stage = [i \in Stages |-> "none"] /\ auto_reap = {}
  /\ stdout_pipe = {} /\ stdin_pipe = {}
  /\ writers = [q \in Links |-> 0] /\ readers = [q \in Links |-> 0]
  /\ count = [q \in Links |-> 0]
  /\ held = [i \in Stages |-> IF i = 1 THEN Work ELSE 0]

-----------------------------------------------------------------------------
(* The shell *)

\* pipe_create() for every pipe.  When one fails the others are closed again.
Create ==
  /\ pc = "create"
  /\ \/ /\ writers' = [q \in Links |-> 1] /\ readers' = [q \in Links |-> 1]
        /\ pc' = "spawn"
     \/ pc' = "done" /\ UNCHANGED ends
  /\ UNCHANGED <<at, spawned, stage, auto_reap, stdout_pipe, stdin_pipe, count, held>>

\* elf_spawn_argv() fails, or puts the stage on the ready list.
Spawn ==
  /\ pc = "spawn"
  /\ \/ pc' = "wire" /\ stage' = [stage EXCEPT ![at] = "running"]
     \/ pc' = "abort" /\ UNCHANGED stage
  /\ UNCHANGED <<at, spawned, auto_reap, stdout_pipe, stdin_pipe, ends, count, held>>

\* process_pipe(), on a process in any state.  process_redirect(), which may follow for the
\* first and the last stage, changes no pipe end; it is an action of FileTable.
Wire ==
  /\ pc = "wire"
  /\ stdout_pipe' = stdout_pipe \cup ({at} \cap Links)
  /\ stdin_pipe' = stdin_pipe \cup ({at} \ {1})
  /\ spawned' = spawned + 1
  /\ IF at < N THEN at' = at + 1 /\ pc' = "spawn" ELSE at' = 1 /\ pc' \in {"wait", "detach"}
  /\ UNCHANGED <<stage, auto_reap, ends, count, held>>

\* Faulty variants: the read end that the missing stage would have got is left open;
\* the last spawned stage's own end is closed with it.
UnownedReadersTooFew(q) == q > spawned
UnownedWritersTooMany(q) == q >= spawned

\* The ends no process was given, when stage spawned + 1 could not be spawned.
UnownedReaders(q) == q >= spawned
UnownedWriters(q) == q > spawned

Abort ==
  /\ pc = "abort"
  /\ readers' = [q \in Links |-> readers[q] - (IF UnownedReaders(q) THEN 1 ELSE 0)]
  /\ writers' = [q \in Links |-> writers[q] - (IF UnownedWriters(q) THEN 1 ELSE 0)]
  /\ at' = 1 /\ pc' = IF spawned = 0 THEN "done" ELSE "wait"
  /\ UNCHANGED <<spawned, stage, auto_reap, stdout_pipe, stdin_pipe, count, held>>

\* The next spawned stage, or the prompt.
Advance ==
  IF at < spawned THEN at' = at + 1 /\ pc' = pc ELSE at' = at /\ pc' = "done"

\* process_release() wipes the slot, and with it the stream pointers.
Release(i) ==
  /\ stage' = [stage EXCEPT ![i] = "gone"]
  /\ stdout_pipe' = stdout_pipe \ {i} /\ stdin_pipe' = stdin_pipe \ {i}

\* process_wait() returns when the stage is a zombie, and reaps it.
Wait ==
  /\ pc = "wait" /\ stage[at] = "zombie"
  /\ Release(at) /\ Advance
  /\ UNCHANGED <<spawned, auto_reap, ends, count, held>>

\* process_detach(): a stage that has already exited is reaped here.
Detach ==
  /\ pc = "detach" /\ Advance
  /\ IF stage[at] = "zombie"
     THEN Release(at) /\ UNCHANGED auto_reap
     ELSE auto_reap' = auto_reap \cup {at} /\ UNCHANGED <<stage, stdout_pipe, stdin_pipe>>
  /\ UNCHANGED <<spawned, ends, count, held>>

ShellStep == Create \/ Spawn \/ Wire \/ Abort \/ Wait \/ Detach

-----------------------------------------------------------------------------
(* The stages: the first one writes its bytes, the others pass on what they read *)

Runs(i) == stage[i] = "running" /\ (ShellPreempted \/ ~(pc = "wire" /\ at = i))

\* process_finish_exit(): the pipe ends are closed and the process is left for the shell
\* to reap, unless it was detached.
Exit(i) ==
  /\ writers' = [q \in Links |-> writers[q] - (IF q = i /\ i \in stdout_pipe THEN 1 ELSE 0)]
  /\ readers' = [q \in Links |-> readers[q] - (IF q + 1 = i /\ i \in stdin_pipe THEN 1 ELSE 0)]
  /\ stdout_pipe' = stdout_pipe \ {i} /\ stdin_pipe' = stdin_pipe \ {i}
  /\ stage' = [stage EXCEPT ![i] = IF i \in auto_reap THEN "gone" ELSE "zombie"]
  /\ UNCHANGED <<shell, auto_reap, count, held>>

\* sys_write() with a byte in hand: to the terminal, or into the pipe once there is room.
\* A program leaves when its pipe has no reader.
Write(i) ==
  /\ Runs(i) /\ held[i] > 0
  /\ IF i \notin stdout_pipe
     THEN held' = [held EXCEPT ![i] = @ - 1] /\ UNCHANGED <<shell, stage, auto_reap,
            stdout_pipe, stdin_pipe, ends, count>>
     ELSE \/ readers[i] = 0 /\ Exit(i)
          \/ /\ readers[i] > 0 /\ count[i] < Cap
             /\ count' = [count EXCEPT ![i] = @ + 1]
             /\ held' = [held EXCEPT ![i] = @ - 1]
             /\ UNCHANGED <<shell, stage, auto_reap, stdout_pipe, stdin_pipe, ends>>

\* sys_read() with nothing in hand: the pipe has a byte, or has come to its end.  On a
\* stdin that is not a pipe yet it waits for the keyboard.
Read(i) ==
  /\ Runs(i) /\ i > 1 /\ held[i] = 0 /\ i \in stdin_pipe
  /\ \/ /\ count[i - 1] > 0
        /\ count' = [count EXCEPT ![i - 1] = @ - 1]
        /\ held' = [held EXCEPT ![i] = 1]
        /\ UNCHANGED <<shell, stage, auto_reap, stdout_pipe, stdin_pipe, ends>>
     \/ count[i - 1] = 0 /\ writers[i - 1] = 0 /\ Exit(i)

\* The first stage has written everything.
Finish == Runs(1) /\ held[1] = 0 /\ Exit(1)

\* A stage may leave at any time: it has seen enough, or is killed.
Quit(i) == Runs(i) /\ Exit(i)

Progress(i) == Write(i) \/ Read(i) \/ (i = 1 /\ Finish)

Next ==
  \/ Create \/ Spawn \/ Wire \/ Abort \/ Wait \/ Detach
  \/ \E i \in Stages : Write(i) \/ Read(i) \/ Quit(i)
  \/ Finish

Spec == Init /\ [][Next]_vars

\* The round robin gives the shell and every stage its turn; when a stage quits is its
\* own business.
FairSpec == Spec /\ WF_vars(ShellStep) /\ \A i \in Stages : WF_vars(Progress(i))

-----------------------------------------------------------------------------
(* Properties *)

\* Every variable has its type; no pipe end has more than its one owner, or is closed
\* once too often.
TypeOK ==
  /\ pc \in {"create", "spawn", "wire", "abort", "wait", "detach", "done"}
  /\ at \in Stages /\ spawned \in 0 .. N
  /\ stage \in [Stages -> {"none", "running", "zombie", "gone"}]
  /\ auto_reap \subseteq Stages /\ stdout_pipe \subseteq Links /\ stdin_pipe \subseteq 2 .. N
  /\ writers \in [Links -> 0 .. 1] /\ readers \in [Links -> 0 .. 1]
  /\ count \in [Links -> 0 .. Cap] /\ held \in [Stages -> 0 .. Work]

\* A running stage never has a pipe whose matching end is closed, let alone one that
\* was freed: not even when a later stage cannot be spawned.
RunningOwnsItsEnds ==
  \A i \in Stages : stage[i] = "running" =>
    /\ i \in stdout_pipe => writers[i] = 1
    /\ i \in stdin_pipe => readers[i - 1] = 1

\* "The process takes ownership of the given ends and closes them on exit": a process
\* that has exited owns no pipe end.
EndsClosedOnExit ==
  \A i \in Stages : stage[i] \in {"zombie", "gone"} => i \notin stdout_pipe \cup stdin_pipe

\* Once the shell is back at its prompt and all stages are gone, all pipes are freed.
NoPipeLeaks ==
  pc = "done" /\ (\A i \in Stages : stage[i] \in {"none", "gone"}) =>
    \A q \in Links : writers[q] = 0 /\ readers[q] = 0

\* The shell gets back to its prompt, whichever spawn fails and whichever stage quits.
PipelineEnds == <>(pc = "done")

\* All stages end and are reaped, the ones in the background too.
StagesEnd == <>[](\A i \in Stages : stage[i] \in {"none", "gone"})
=============================================================================
