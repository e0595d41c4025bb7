--------------------------------- MODULE Ush ---------------------------------
(***************************************************************************)
(* The user-mode shell (user/ush.c): it forks a child for every stage of a *)
(* pipeline, every child wires its own pipe ends with dup2() and close()   *)
(* and becomes the program, and the shell closes its copies and waits.     *)
(* All of them are processes that a tick may preempt between any two       *)
(* system calls.  A command without a pipe is a pipeline of one stage; it  *)
(* may run in the background.  Pipe q connects stage q to stage q + 1; of  *)
(* its contents only the fill level is kept.                               *)
(***************************************************************************)
EXTENDS Integers, FiniteSets

CONSTANTS
  N,       \* stages of the longest pipeline
  Cap,     \* PIPE_SIZE
  Work     \* bytes the first stage writes

\* What the constants have to satisfy.
UshAssumption == N \in Nat \ {0, 1} /\ {Cap, Work} \subseteq Nat \ {0}

Parent == 0
Job == N + 1                  \* the background command
Children == 1 .. N + 1
Links == 1 .. N - 1

VARIABLES
  pc, at,    \* where the shell is, and the pipe, stage or descriptor it is at
  n,         \* nstages
  child,     \* each child: none, wire, running or zombie
  step,      \* the system call a child that wires is at
  fds,       \* the pipe ends in each process's descriptor table
  std,       \* the pipe ends that are its stdin and its stdout
  count,     \* bytes in each pipe
  held       \* bytes a stage has yet to pass on

vars == <<pc, at, n, child, step, fds, std, count, held>>
shell == <<pc, at, n>>
tables == <<fds, std>>

R(q) == <<"r", q>>
W(q) == <<"w", q>>

\* The references to a pipe end: the stream and the descriptor of a process are two.
Refs(e) == Cardinality({p \in {Parent} \cup Children : e \in fds[p]})
           + Cardinality({p \in Children : e \in std[p]})

Init ==
  /\ pc = "reap" /\ at = 1 /\ n = 1
  /\ child = [i \in Children |-> "none"] /\ step = [i \in Children |-> 0]
  /\ fds = [p \in {Parent} \cup Children |-> {}] /\ std = [i \in Children |-> {}]
  /\ count = [q \in Links |-> 0] /\ held = [i \in Children |-> 0]

-----------------------------------------------------------------------------
(* The shell *)

\* reap_background(): waitpid(-1, WNOHANG) until it finds nothing.
Reap ==
  /\ pc = "reap"
  /\ \/ \E i \in Children :
          child[i] = "zombie" /\ child' = [child EXCEPT ![i] = "none"] /\ pc' = pc
     \/ (\A i \in Children : child[i] # "zombie") /\ pc' = "prompt" /\ UNCHANGED child
  /\ UNCHANGED <<at, n, step, tables, count, held>>

\* A line: nothing or a built-in, exit, a pipeline or a command, or one in the background.
ReadLine ==
  /\ pc = "prompt"
  /\ at' = 1
  /\ \/ pc' \in {"reap", "left"} /\ n' = n
     \/ \E k \in 1 .. N : n' = k /\ pc' = IF k = 1 THEN "fork" ELSE "pipe"
     \/ child[Job] = "none" /\ n' = n /\ pc' = "background"
  /\ UNCHANGED <<child, step, tables, count, held>>

\* The pipes made before are closed.
AfterPipeFailed == [fds EXCEPT ![Parent] = @ \ {e \in @ : e[2] < at}]

\* sys_pipe() for the next pipe, or its failure.
Pipe ==
  /\ pc = "pipe"
  /\ \/ /\ fds' = [fds EXCEPT ![Parent] = @ \cup {R(at), W(at)}]
        /\ count' = [count EXCEPT ![at] = 0]
        /\ IF at + 1 < n THEN at' = at + 1 /\ pc' = pc ELSE at' = 1 /\ pc' = "fork"
     \/ fds' = AfterPipeFailed /\ pc' = "reap" /\ UNCHANGED <<at, count>>
  /\ UNCHANGED <<n, child, step, std, held>>

\* process_fork(): the child inherits the descriptor table.
Forked(i) ==
  /\ child' = [child EXCEPT ![i] = "wire"] /\ step' = [step EXCEPT ![i] = 1]
  /\ fds' = [fds EXCEPT ![i] = fds[Parent]]

\* sys_fork() for the next stage; one that fails is passed over.
Fork ==
  /\ pc = "fork"
  /\ Forked(at) \/ UNCHANGED <<child, step, fds>>
  /\ IF at < n THEN at' = at + 1 /\ pc' = pc
     ELSE at' = 1 /\ pc' = IF n = 1 THEN "wait" ELSE "close"
  /\ UNCHANGED <<n, std, count, held>>

\* The order in which descriptors are closed: both ends of the first pipe, of the second...
EndAt(k) == IF k % 2 = 1 THEN R((k + 1) \div 2) ELSE W(k \div 2)

Close ==
  /\ pc = "close"
  /\ fds' = [fds EXCEPT ![Parent] = @ \ {EndAt(at)}]
  /\ IF at < 2 * (n - 1) THEN at' = at + 1 /\ pc' = pc ELSE at' = 1 /\ pc' = "wait"
  /\ UNCHANGED <<n, child, step, std, count, held>>

\* sys_wait() for every stage that could be forked.
Wait ==
  /\ pc = "wait" /\ child[at] \in {"none", "zombie"}
  /\ child' = [child EXCEPT ![at] = "none"]
  /\ IF at < n THEN at' = at + 1 /\ pc' = pc ELSE at' = at /\ pc' = "reap"
  /\ UNCHANGED <<n, step, tables, count, held>>

\* run_command() with background set: the shell goes on without waiting.
Background ==
  /\ pc = "background"
  /\ Forked(Job) \/ UNCHANGED <<child, step, fds>>
  /\ pc' = "reap"
  /\ UNCHANGED <<at, n, std, count, held>>

ShellStep == Reap \/ Pipe \/ Fork \/ Close \/ Wait \/ Background

-----------------------------------------------------------------------------
(* A child between fork() and execv() *)

Stages(i) == IF i = Job THEN 1 ELSE n
Place(i) == IF i = Job THEN 1 ELSE i

\* process_finish_exit(): every pipe end is closed.
Exited(i) ==
  /\ child' = [child EXCEPT ![i] = "zombie"] /\ step' = [step EXCEPT ![i] = 0]
  /\ fds' = [fds EXCEPT ![i] = {}] /\ std' = [std EXCEPT ![i] = {}]
  /\ held' = [held EXCEPT ![i] = 0]
  /\ UNCHANGED <<shell, count>>

\* dup2() of the read end, when there is a stage before this one.
DupIn(i) ==
  /\ child[i] = "wire" /\ step[i] = 1
  /\ std' = [std EXCEPT ![i] = IF Place(i) > 1 THEN @ \cup {R(i - 1)} ELSE @]
  /\ step' = [step EXCEPT ![i] = 2]
  /\ UNCHANGED <<shell, child, fds, count, held>>

\* dup2() of the write end, when there is a stage after it.
DupOut(i) ==
  /\ child[i] = "wire" /\ step[i] = 2
  /\ std' = [std EXCEPT ![i] = IF Place(i) < Stages(i) THEN @ \cup {W(i)} ELSE @]
  /\ step' = [step EXCEPT ![i] = 3]
  /\ UNCHANGED <<shell, child, fds, count, held>>

\* Faulty variant: the stage leaves the write end of the pipe that it reads open.
ClosedByChildExcept(i) == fds[i] \ ({EndAt(step[i] - 2)} \ {W(i - 1)})
ClosedByChild(i) == fds[i] \ {EndAt(step[i] - 2)}

\* The descriptors themselves are closed, of all pipes.
CloseCopy(i) ==
  /\ child[i] = "wire" /\ step[i] - 2 \in 1 .. 2 * (Stages(i) - 1)
  /\ fds' = [fds EXCEPT ![i] = ClosedByChild(i)]
  /\ step' = [step EXCEPT ![i] = @ + 1]
  /\ UNCHANGED <<shell, child, std, count, held>>

\* execv(), or exit(127) when the program cannot be loaded, or exit(1) when a file that a
\* command's input or output is redirected to cannot be opened.
Exec(i) ==
  /\ child[i] = "wire" /\ step[i] - 2 > 2 * (Stages(i) - 1)
  /\ \/ /\ child' = [child EXCEPT ![i] = "running"] /\ step' = [step EXCEPT ![i] = 0]
        /\ held' = [held EXCEPT ![i] = IF Place(i) = 1 THEN Work ELSE 0]
        /\ UNCHANGED <<shell, tables, count>>
     \/ Exited(i)

-----------------------------------------------------------------------------
(* The programs: the first stage writes its bytes, the others pass on what they read *)

\* sys_write(): to the terminal, or into the pipe; a program leaves when it has no reader.
Write(i) ==
  /\ child[i] = "running" /\ held[i] > 0
  /\ IF W(i) \notin std[i]
     THEN held' = [held EXCEPT ![i] = @ - 1] /\ UNCHANGED <<shell, child, step, tables, count>>
     ELSE \/ Refs(R(i)) = 0 /\ Exited(i)
          \/ /\ Refs(R(i)) > 0 /\ count[i] < Cap
             /\ count' = [count EXCEPT ![i] = @ + 1]
             /\ held' = [held EXCEPT ![i] = @ - 1]
             /\ UNCHANGED <<shell, child, step, tables>>

\* sys_read(): the pipe has a byte, or has come to its end.
Read(i) ==
  /\ child[i] = "running" /\ held[i] = 0 /\ R(i - 1) \in std[i]
  /\ \/ /\ count[i - 1] > 0
        /\ count' = [count EXCEPT ![i - 1] = @ - 1]
        /\ held' = [held EXCEPT ![i] = 1]
        /\ UNCHANGED <<shell, child, step, tables>>
     \/ count[i - 1] = 0 /\ Refs(W(i - 1)) = 0 /\ Exited(i)

\* A first stage has written everything.
Finish(i) == child[i] = "running" /\ Place(i) = 1 /\ held[i] = 0 /\ Exited(i)

\* A child may leave at any time: it has seen enough, or is killed.
Quit(i) == child[i] \in {"wire", "running"} /\ Exited(i)

Progress(i) ==
  DupIn(i) \/ DupOut(i) \/ CloseCopy(i) \/ Exec(i) \/ Write(i) \/ Read(i) \/ Finish(i)

Next ==
  \/ Reap \/ ReadLine \/ Pipe \/ Fork \/ Close \/ Wait \/ Background
  \/ \E i \in Children :
       DupIn(i) \/ DupOut(i) \/ CloseCopy(i) \/ Exec(i) \/ Write(i) \/ Read(i)
       \/ Finish(i) \/ Quit(i)

Spec == Init /\ [][Next]_vars

\* The round robin gives the shell and every child its turn; a line may never come.
FairSpec == Spec /\ WF_vars(ShellStep) /\ \A i \in Children : WF_vars(Progress(i))

-----------------------------------------------------------------------------
(* Properties *)

\* At the prompt the shell has no pipe end, and no stage is left, whichever pipe() or
\* fork() failed and whoever was killed: all pipes are freed.  A stage that has become
\* its program has its own ends and no other.
NothingLeft ==
  /\ pc \in {"prompt", "reap", "background", "left"} =>
       /\ fds[Parent] = {} /\ \A i \in Children \ {Job} : child[i] \in {"none", "zombie"}
       /\ \A q \in Links : Refs(R(q)) + Refs(W(q)) = 0
  /\ pc = "prompt" => \A i \in Children \ {Job} : child[i] = "none"
  /\ \A i \in Children : child[i] = "running" =>
       /\ fds[i] = {}
       /\ std[i] = (IF Place(i) > 1 THEN {R(i - 1)} ELSE {})
                   \cup (IF Place(i) < Stages(i) THEN {W(i)} ELSE {})

\* The shell gets back to its prompt after every line.
PromptReturns == []<>(pc \in {"prompt", "left"})
=============================================================================
