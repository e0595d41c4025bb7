------------------------------ MODULE FileTable ------------------------------
(***************************************************************************)
(* The descriptor tables: which open files and pipe ends the processes     *)
(* hold, in their tables and as their standard streams, over open, pipe,   *)
(* dup, dup2, close, fork, exit and the shell's redirections; and the      *)
(* reference counts that keep a node from being unlinked and a pipe from   *)
(* being freed while somebody still points at it.                          *)
(*                                                                         *)
(* A system call runs with interrupts disabled, so each is one step.  One  *)
(* that fails undoes what it did and changes nothing.  The shell runs with *)
(* interrupts enabled: what it does for a command line with redirections   *)
(* is split, and processes may run between any two of its steps, also the  *)
(* one that it has just made.                                              *)
(***************************************************************************)
EXTENDS Integers, FiniteSets, FiniteSetsExt

CONSTANTS
  Procs,            \* process slots
  Nodes,            \* files
  Pipes,            \* pipe objects
  MaxOpen,          \* MAX_OPEN_FILES
  MaxRefs,          \* bound: the references that exist at a time
  None,             \* an empty descriptor, a NULL pointer
  Freed             \* for redirect: a node that the shell has looked up has been freed

File(n) == [kind |-> "file", obj |-> n]
End(k, q) == [kind |-> k, obj |-> q]
Objects == {File(n) : n \in Nodes} \cup {End(k, q) : k \in {"r", "w"}, q \in Pipes}

\* What the constants have to satisfy.
FileTableAssumption ==
  /\ IsFiniteSet(Procs) /\ MaxOpen \in Nat \ {0} /\ MaxRefs \in Nat
  /\ None \notin Nodes \cup Objects \cup Procs
  /\ Freed # None

Index == 1 .. MaxOpen
stdin_node == -1
stdin_pipe == -2
stdout_node == -3
stdout_pipe == -4
Std == {stdin_node, stdin_pipe, stdout_node, stdout_pipe}
FileSlots == Index \cup Std

VARIABLES
  alive,      \* the processes that exist
  files,      \* what each slot of each process holds
  refs,       \* references counted in each node and pipe end
  present,    \* the files that are linked in the file system
  redirect,   \* the command line the shell is carrying out, None at its prompt: the nodes it
              \*   has looked up, and the process it has made and not yet redirected
  leaked,     \* history: references that the shell took for a process that had ended
  mixed       \* history: the shell gave a file to a stream that was a pipe end by then

fileVars == <<alive, files, refs, present, redirect, leaked, mixed>>

Empty == [s \in FileSlots |-> None]

FileTableInit ==
  /\ alive = {} /\ files = [p \in Procs |-> Empty]
  /\ refs = [o \in Objects |-> 0]
  /\ present = {} /\ redirect = None
  /\ leaked = [o \in Objects |-> 0] /\ mixed = FALSE

-----------------------------------------------------------------------------
(* References *)

\* open_fs(), pipe_ref_read(), pipe_ref_write() for each object in the slots S of table t.
Uses(t, S, o) == Cardinality({s \in S : t[s] = o})
Acquire(t, S) == [o \in Objects |-> refs[o] + Uses(t, S, o)]

\* close_fs() and pipe_close_*() for each object in the slots S of table t.
Release(t, S) == [o \in Objects |-> refs[o] - Uses(t, S, o)]

\* The table t of p replaces the one it had, in the slots S.
Replace(p, t, S) ==
  /\ files' = [files EXCEPT ![p] = t]
  /\ refs' = [o \in Objects |-> refs[o] - Uses(files[p], S, o) + Uses(t, S, o)]

Free(p) == {x \in Index : files[p][x] = None}

-----------------------------------------------------------------------------
(* System calls *)

\* alloc_fd() and open_user_file(): the lowest free slot.
Install(p, o) ==
  LET first == Min(Free(p)) IN
  /\ Free(p) # {}
  /\ Replace(p, [files[p] EXCEPT ![first] = o], {first})

\* sys_open()
Open(p, n) ==
  /\ p \in alive /\ n \in present
  /\ Install(p, File(n))
  /\ UNCHANGED <<alive, present, redirect, leaked, mixed>>

\* sys_create(): a file that is there already is not created again; without a free slot
\* the new file is unlinked again.
Create(p, n) ==
  /\ p \in alive /\ n \notin present
  /\ Install(p, File(n))
  /\ present' = present \cup {n}
  /\ UNCHANGED <<alive, redirect, leaked, mixed>>

\* ramfs_remove_node(): only a file that nobody has open goes.
MayUnlink(n) == refs[File(n)] = 0

\* The node is freed, which the shell may have looked up.
Lose(n) == IF redirect # None /\ n \in {redirect.out, redirect.in} THEN Freed ELSE redirect

\* sys_unlink()
Unlink(p, n) ==
  /\ p \in alive /\ n \in present /\ MayUnlink(n)
  /\ present' = present \ {n}
  /\ redirect' = Lose(n)
  /\ UNCHANGED <<alive, files, refs, leaked, mixed>>

\* sys_pipe(): a new pipe has one reference to each end.  When only one slot is free
\* both ends are closed again.
PipeCall(p, q) ==
  LET r == Min(Free(p))
      w == Min(Free(p) \ {r})
  IN /\ p \in alive /\ refs[End("r", q)] = 0 /\ refs[End("w", q)] = 0
     /\ Cardinality(Free(p)) >= 2
     /\ Replace(p, [files[p] EXCEPT ![r] = End("r", q), ![w] = End("w", q)], {r, w})
     /\ UNCHANGED <<alive, present, redirect, leaked, mixed>>

\* sys_dup()
Dup(p, x) ==
  /\ p \in alive /\ files[p][x] # None
  /\ Install(p, files[p][x])
  /\ UNCHANGED <<alive, present, redirect, leaked, mixed>>

\* A stream with the slots node and pipe becomes a file or a pipe end: what it was before
\* is closed.
Stream(t, node, pipe, o) ==
  IF o.kind = "file" THEN [t EXCEPT ![node] = o, ![pipe] = None]
  ELSE [t EXCEPT ![node] = None, ![pipe] = o]

\* sys_dup2() onto stdin and stdout
Dup2Std(p, x, node, pipe, end) ==
  LET o == files[p][x] IN
  /\ p \in alive /\ o # None /\ o.kind \in {"file", end}
  /\ Replace(p, Stream(files[p], node, pipe, o), {node, pipe})
  /\ UNCHANGED <<alive, present, redirect, leaked, mixed>>

\* sys_dup2() onto a slot of the table
Dup2(p, x, y) ==
  /\ p \in alive /\ files[p][x] # None /\ x # y
  /\ Replace(p, [files[p] EXCEPT ![y] = files[p][x]], {y})
  /\ UNCHANGED <<alive, present, redirect, leaked, mixed>>

\* sys_close()
Close(p, x) ==
  /\ p \in alive /\ files[p][x] # None
  /\ Replace(p, [files[p] EXCEPT ![x] = None], {x})
  /\ UNCHANGED <<alive, present, redirect, leaked, mixed>>

\* syscall_copy_user_files() and the streams: the child counts everything once more.
Inherited(t) == Acquire(t, FileSlots)

\* process_fork(): a process that has ended keeps its slot until the shell has waited for it.
Fork(p, c) ==
  /\ p \in alive /\ c \notin alive /\ (redirect # None => redirect.child # c)
  /\ alive' = alive \cup {c}
  /\ files' = [files EXCEPT ![c] = files[p]]
  /\ refs' = Inherited(files[p])
  /\ UNCHANGED <<present, redirect, leaked, mixed>>

\* Faulty variant: the standard streams are not closed.
DroppedTable(t) == Release(t, Index)

\* syscall_close_user_files() and the streams.
Dropped(t) == Release(t, FileSlots)

\* process_finish_exit()
ExitFiles(p) ==
  /\ p \in alive
  /\ alive' = alive \ {p}
  /\ files' = [files EXCEPT ![p] = Empty]
  /\ refs' = Dropped(files[p])
  /\ UNCHANGED <<present, redirect, leaked, mixed>>

-----------------------------------------------------------------------------
(* The kernel shell *)

\* The shell reads a command line, unless the last one went wrong in a way that the
\* histories show: the model follows that once.
Command(line) ==
  /\ redirect = None /\ ~mixed /\ \A o \in Objects : leaked[o] = 0
  /\ redirect' = [line |-> line, out |-> None, in |-> None, child |-> None]
  /\ UNCHANGED <<alive, files, refs, present, leaked, mixed>>

LooksUp == redirect # None /\ redirect.child = None

\* shell_open_out(), before shell_open_in() for a simple command, after it for a pipeline:
\* an existing file is appended to, or unlinked and made again; a new one is made.  The
\* shell takes no reference.
ShellOpenOut(n) ==
  /\ LooksUp /\ redirect.out = None
  /\ \/ redirect.line = "simple" /\ redirect.in = None
     \/ redirect.line = "pipeline"
  /\ \/ n \in present /\ redirect' = [redirect EXCEPT !.out = n]
     \/ /\ n \in present => MayUnlink(n)
        /\ redirect' = IF redirect.in = n THEN Freed ELSE [redirect EXCEPT !.out = n]
  /\ present' = present \cup {n}
  /\ UNCHANGED <<alive, files, refs, leaked, mixed>>

\* shell_open_in()
ShellOpenIn(n) ==
  /\ LooksUp /\ redirect.in = None
  /\ \/ redirect.line = "simple"
     \/ redirect.line = "pipeline" /\ redirect.out = None
  /\ n \in present
  /\ redirect' = [redirect EXCEPT !.in = n]
  /\ UNCHANGED <<alive, files, refs, present, leaked, mixed>>

\* A file cannot be opened, the program not be loaded, or all process slots are taken.
GiveUp ==
  /\ LooksUp
  /\ redirect' = None
  /\ UNCHANGED <<alive, files, refs, present, leaked, mixed>>

\* The nodes that the next process gets: both, or for a pipeline the first process the
\* input and the last one the output.
GivenOut == IF redirect.line = "pipeline" THEN None ELSE redirect.out
GivenIn == redirect.in

\* elf_spawn_argv(): the new process may run at the next tick.
Spawn(p) ==
  /\ LooksUp /\ p \notin alive
  /\ redirect.line = "simple" \/ {GivenOut, GivenIn} # {None}
  /\ alive' = alive \cup {p}
  /\ redirect' = [redirect EXCEPT !.child = p]
  /\ UNCHANGED <<files, refs, present, leaked, mixed>>

\* elf_spawn_argv() for a process of a pipeline that gets no node.
SpawnStage(p) ==
  /\ LooksUp /\ p \notin alive
  /\ redirect.line # "simple" /\ (redirect.line = "pipeline" => redirect.in = None)
  /\ alive' = alive \cup {p}
  /\ redirect' = [redirect EXCEPT !.line = "last"]
  /\ UNCHANGED <<files, refs, present, leaked, mixed>>

\* What process_redirect() makes of a table.
NodeSlots == {stdout_node, stdin_node}
Given(t) ==
  LET pointer(n) == IF n = None THEN None ELSE File(n) IN
  [t EXCEPT ![stdout_node] = pointer(GivenOut), ![stdin_node] = pointer(GivenIn)]

\* Each stream is the terminal, a file or a pipe end.
OneEach(t) ==
  /\ t[stdin_node] = None \/ t[stdin_pipe] = None
  /\ t[stdout_node] = None \/ t[stdout_pipe] = None

\* The shell calls process_redirect(), and goes on with the last process of the pipeline if
\* that is redirected.
CallsRedirect(p) ==
  /\ redirect # None /\ redirect.child = p
  /\ redirect' = IF redirect.line = "pipeline" /\ redirect.out # None
                 THEN [line |-> "last", out |-> redirect.out, in |-> None, child |-> None]
                 ELSE None

\* process_redirect(): a file the process has opened as a stream by now is closed, a pipe
\* end is left.
Redirect(p) ==
  /\ CallsRedirect(p) /\ p \in alive
  /\ Replace(p, Given(files[p]), NodeSlots)
  /\ mixed' = (mixed \/ ~OneEach(Given(files[p])))
  /\ UNCHANGED <<alive, present, leaked>>

\* process_redirect() of a process that has ended in between: process_release() will not
\* close the streams.
RedirectEnded(p) ==
  /\ CallsRedirect(p) /\ p \notin alive
  /\ refs' = Acquire(Given(Empty), NodeSlots)
  /\ leaked' = [o \in Objects |-> leaked[o] + Uses(Given(Empty), NodeSlots, o)]
  /\ UNCHANGED <<alive, files, present, mixed>>

FileTableStep ==
  \/ \E p \in Procs, n \in Nodes : Open(p, n) \/ Create(p, n) \/ Unlink(p, n)
  \/ \E p \in Procs, q \in Pipes : PipeCall(p, q)
  \/ \E p \in Procs, x \in Index :
       \/ Dup(p, x) \/ Close(p, x)
       \/ Dup2Std(p, x, stdin_node, stdin_pipe, "r")
       \/ Dup2Std(p, x, stdout_node, stdout_pipe, "w")
  \/ \E p \in Procs, x, y \in Index : Dup2(p, x, y)
  \/ \E p, c \in Procs : Fork(p, c)
  \/ \E p \in Procs :
       ExitFiles(p) \/ Spawn(p) \/ SpawnStage(p) \/ Redirect(p) \/ RedirectEnded(p)
  \/ \E line \in {"simple", "pipeline"} : Command(line)
  \/ \E n \in Nodes : ShellOpenOut(n) \/ ShellOpenIn(n)
  \/ GiveUp

\* Once a node that the shell has looked up is freed, what the shell does is undefined,
\* unless the command fails before it uses the node: the model ends.
Defined == redirect # Freed

Bounded == MapThenSumSet(LAMBDA o : refs[o], Objects) <= MaxRefs
FileTableNext == Defined /\ FileTableStep /\ Bounded'

FileTableSpec == FileTableInit /\ [][FileTableNext]_fileVars

-----------------------------------------------------------------------------
(* Properties *)

\* Every variable has its type.
FileTableTypeOK ==
  /\ alive \subseteq Procs /\ present \subseteq Nodes
  /\ files \in [Procs -> [FileSlots -> Objects \cup {None}]]
  /\ refs \in [Objects -> Nat] /\ leaked \in [Objects -> Nat] /\ mixed \in BOOLEAN
  /\ redirect \in {None, Freed} \cup
       [line : {"simple", "pipeline", "last"}, out : Nodes \cup {None}, in : Nodes \cup {None},
        child : Procs \cup {None}]

\* The count in each node and each pipe end is the number of descriptors and streams
\* that point at it: nothing is freed too early, and nothing is kept for ever but what the
\* shell gave to a process that had already ended.
CountsExact ==
  \A o \in Objects :
    refs[o] = Cardinality({ps \in Procs \X FileSlots : files[ps[1]][ps[2]] = o}) + leaked[o]

\* No process points at a file that has been unlinked and freed, up to the moment at which
\* a node is freed that the shell has looked up and is going to give to one: by a process,
\* or by the shell itself, when the last process of a pipeline writes the file that the
\* first one reads.
NoDanglingNode ==
  \A p \in Procs, s \in FileSlots, n \in Nodes : files[p][s] = File(n) => n \in present

\* A standard stream is one thing: the terminal, a file or a pipe end of its direction,
\* unless the shell gave a file to a process that had already made the stream a pipe end.
OneStream ==
  \A p \in Procs :
    /\ mixed \/ OneEach(files[p])
    /\ \A q \in Pipes : files[p][stdin_pipe] # End("w", q) /\ files[p][stdout_pipe] # End("r", q)

\* References are what the tables say: counts are exact, a stream is one thing, and nobody
\* points at a file that is gone, through the calls of all processes and the steps of the
\* shell, in every order.
RefsExact == CountsExact /\ OneStream /\ NoDanglingNode

\* What makes these properties inductive: a slot without a process is empty, and the nodes
\* the shell has looked up are linked.
FilesInv ==
  /\ FileTableTypeOK /\ CountsExact /\ OneStream /\ NoDanglingNode
  /\ \A p \in Procs \ alive : files[p] = Empty
  /\ redirect \notin {None, Freed} => {redirect.out, redirect.in} \subseteq present \cup {None}
=============================================================================
