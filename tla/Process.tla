------------------------------- MODULE Process -------------------------------
(***************************************************************************)
(* The life of miniOS processes (process.c): the process table, pids,      *)
(* fork, spawn, exec, threads, exit with its deferred teardown, wait,      *)
(* waitpid and kill.                                                       *)
(*                                                                         *)
(* System calls run with interrupts disabled, so each is one step up to    *)
(* the point where it blocks.  Only the kernel shell runs with interrupts  *)
(* enabled, and its launch of a program is split at the points where the   *)
(* timer can switch to another task.  Which ready task runs is left open:  *)
(* module Scheduler says that any may.                                     *)
(***************************************************************************)
EXTENDS Integers, FiniteSets

CONSTANTS
  N,           \* MAX_PROCESSES
  PidMax,      \* INT32_MAX, the last pid before the counter wraps to 1
  Tasks,       \* task control blocks
  Shell,       \* the kernel task that runs kernel_shell()
  Spaces,      \* address spaces
  NoTask, NoSpace,
  MaxThreads,  \* bound: threads per process beside the main task
  LaunchRaces  \* TRUE: processes may be created while the shell launches one

\* What the constants have to satisfy.
ProcessAssumption ==
  /\ N \in Nat \ {0} /\ PidMax \in Nat /\ PidMax >= N
  /\ Shell \in Tasks /\ NoTask \notin Tasks /\ NoSpace \notin Spaces
  /\ IsFiniteSet(Tasks) /\ MaxThreads \in Nat /\ LaunchRaces \in BOOLEAN

Slots == 1 .. N
Pids == 1 .. PidMax

VARIABLES
  proc,     \* processes[]: the process table
  task,     \* the tasks, and where each waits
  spaces,   \* the address spaces that exist
  nextPid,  \* next_pid
  shell     \* where the shell is in launching a program

vars == <<proc, task, spaces, nextPid, shell>>

-----------------------------------------------------------------------------
(* State *)

Statuses == {"none", "ok", "killed"}

\* process_release(): memset of the slot.  main is history: the status the main
\* task ended with.
Unused == [state |-> "UNUSED", pid |-> 0, parent |-> 0, autoReap |-> FALSE,
           task |-> NoTask, space |-> NoSpace, threads |-> 0,
           mainExited |-> FALSE, status |-> "none", main |-> "none"]

\* Wait channels: a process_t, its waitpid_event and its thread_count.
NoChan == <<"none", 0>>
Chans == {"process", "waitpid_event", "thread_count"} \X Slots

\* slot: the process of the task, 0 for a kernel task.  op: the wait loop the
\* task is in, with its arguments; chan: the channel it is blocked on.
NoneTask == [used |-> FALSE, slot |-> 0, thread |-> FALSE, kill |-> FALSE,
             space |-> NoSpace, op |-> "run", target |-> 0, tpid |-> 0, chan |-> NoChan]

NewTask(s, th, sp) == [NoneTask EXCEPT !.used = TRUE, !.slot = s, !.thread = th, !.space = sp]

\* The shell waits for a command.
Prompt == [pc |-> "prompt", slot |-> 0, pid |-> 0, space |-> NoSpace, task |-> NoTask]

Used(s) == proc[s].state # "UNUSED"

\* process_find(): pid -1 stands for "no such process" in the callers.
Find(pid) == {s \in Slots : Used(s) /\ proc[s].pid = pid}

\* process_get_current_pid()
PidOf(t) == IF task[t].slot = 0 THEN 0 ELSE proc[task[t].slot].pid

FreeTasks == {t \in Tasks : ~task[t].used}
FreeSlots == {s \in Slots : ~Used(s)}
FirstFree == CHOOSE s \in FreeSlots : \A r \in FreeSlots : s <= r

\* process_allocate_pid(): try next_pid and its successors, wrapping after
\* PidMax, at most N times.
Candidate(k) == ((nextPid - 1 + k) % PidMax) + 1
Attempts == {k \in 0 .. N - 1 : Find(Candidate(k)) = {}}
Attempt == CHOOSE k \in Attempts : \A j \in Attempts : k <= j

Init ==
  /\ proc = [s \in Slots |-> Unused]
  /\ task = [t \in Tasks |-> IF t = Shell THEN NewTask(0, FALSE, NoSpace) ELSE NoneTask]
  /\ spaces = {}
  /\ nextPid = 1
  /\ shell = Prompt

-----------------------------------------------------------------------------
(* Exit *)

\* A child whose parent ends: a zombie is released, a running one is orphaned and
\* will release itself.
Orphaned(c) == IF proc[c].state = "ZOMBIE" THEN Unused
               ELSE [proc[c] EXCEPT !.parent = 0, !.autoReap = TRUE]

\* process_finish_exit() on the table: the children, then the slot itself, which
\* becomes a zombie, or is released when nobody will wait for it.
FinishedProc(s, st) ==
  [c \in Slots |->
     CASE c = s /\ proc[s].autoReap -> Unused
       [] c = s /\ ~proc[s].autoReap ->
            [proc[s] EXCEPT !.state = "ZOMBIE", !.task = NoTask, !.space = NoSpace,
                            !.threads = 0, !.status = st, !.main = IF @ = "none" THEN st ELSE @]
       [] c # s /\ Used(c) /\ proc[c].parent = proc[s].pid -> Orphaned(c)
       [] OTHER -> proc[c]]

\* Faulty variants: waitpid() or wait() is not notified.
NotifiedNoWaitpid(t, ch, s) ==
  \/ ch = <<"process", s>>
  \/ proc[s].parent > 0 /\ \E q \in Find(proc[s].parent) : t = proc[q].task
NotifiedNoWait(t, ch, s) ==
  /\ proc[s].parent > 0
  /\ \E q \in Find(proc[s].parent) : t = proc[q].task \/ ch = <<"waitpid_event", q>>

\* process_finish_exit() on the tasks: SIGCHLD wakes the parent's main task
\* wherever it waits; the parent's waitpid()ers and the waiters for s are woken.
Notified(t, ch, s) ==
  \/ ch = <<"process", s>>
  \/ /\ proc[s].parent > 0
     /\ \E q \in Find(proc[s].parent) : t = proc[q].task \/ ch = <<"waitpid_event", q>>

\* Faulty variants: the main task tears down under its threads; a thread compares
\* the count before it is decremented with zero.
LastTaskEager(t) ==
  task[t].thread => proc[task[t].slot].threads = 1 /\ proc[task[t].slot].mainExited
LastTaskOffByOne(t) == proc[task[t].slot].threads = 0

\* Is t the last task of its process, the one that has to finish it?  A main task
\* leaves that to its threads, a thread to the main task unless that is gone.
LastTask(t) ==
  LET p == proc[task[t].slot] IN
  IF task[t].thread THEN p.threads = 1 /\ p.mainExited ELSE p.threads = 0

\* The status the process ends with: the one its main task left, or leaves now.
EndStatus(t, st) == IF task[t].thread THEN proc[task[t].slot].status ELSE st

\* task_exit() of t with its callback: process_task_exit() for a main task,
\* thread_on_exit() for a thread.
ExitTask(t, st) ==
  LET s == task[t].slot
      left == [task EXCEPT ![t] = NoneTask]
      Woken(u) == \/ task[t].thread /\ left[u].chan = <<"thread_count", s>>
                  \/ LastTask(t) /\ Notified(u, left[u].chan, s)
  IN
  /\ task' = [u \in Tasks |-> IF Woken(u) THEN [left[u] EXCEPT !.chan = NoChan] ELSE left[u]]
  /\ IF LastTask(t)
     THEN proc' = FinishedProc(s, EndStatus(t, st)) /\ spaces' = spaces \ {proc[s].space}
     ELSE /\ proc' = IF task[t].thread
                     THEN [proc EXCEPT ![s].threads = @ - 1]
                     ELSE [proc EXCEPT ![s].mainExited = TRUE, ![s].status = st,
                                       ![s].task = NoTask, ![s].main = st]
          /\ UNCHANGED spaces
  /\ UNCHANGED <<nextPid, shell>>

\* t executes user code, or the shell's.
Runs(t) == task[t].used /\ task[t].op = "run"
RunsUser(t) == Runs(t) /\ task[t].slot # 0

Exit(t) == RunsUser(t) /\ ExitTask(t, "ok")

\* process_check_kill() on the tick that lands on t.
TickKill(t) == RunsUser(t) /\ task[t].kill /\ ExitTask(t, "killed")

-----------------------------------------------------------------------------
(* Creation *)

Allocated(s, pid, parent) == [Unused EXCEPT !.state = "RUNNING", !.pid = pid, !.parent = parent]

\* process_fork() and the process_launch() of a spawn syscall, with the clone or
\* image made before.  A create_task() failure undoes everything but next_pid.
NewProcess(t) ==
  /\ RunsUser(t)
  /\ LaunchRaces \/ shell.pc # "picked"
  /\ FreeSlots # {} /\ Attempts # {}
  /\ \E sp \in Spaces \ spaces :
       LET s == FirstFree
           pid == Candidate(Attempt)
       IN
       /\ nextPid' = (pid % PidMax) + 1
       /\ \/ \E c \in FreeTasks :
               /\ proc' = [proc EXCEPT ![s] = [Allocated(s, pid, PidOf(t)) EXCEPT
                                                 !.task = c, !.space = sp]]
               /\ task' = [task EXCEPT ![c] = NewTask(s, FALSE, sp)]
               /\ spaces' = spaces \cup {sp}
          \/ FreeTasks = {} /\ UNCHANGED <<proc, task, spaces>>
  /\ UNCHANGED shell

\* sys_execv(): refused while threads share the address space.
Exec(t) ==
  /\ RunsUser(t) /\ proc[task[t].slot].threads = 0
  /\ \E sp \in Spaces \ spaces :
       /\ proc' = [proc EXCEPT ![task[t].slot].space = sp]
       /\ task' = [task EXCEPT ![t].space = sp]
       /\ spaces' = (spaces \ {proc[task[t].slot].space}) \cup {sp}
  /\ UNCHANGED <<nextPid, shell>>

\* process_thread_create()
ThreadCreate(t) ==
  LET s == task[t].slot IN
  /\ RunsUser(t) /\ proc[s].threads < MaxThreads
  /\ \E c \in FreeTasks :
       /\ proc' = [proc EXCEPT ![s].threads = @ + 1]
       /\ task' = [task EXCEPT ![c] = NewTask(s, TRUE, proc[s].space)]
  /\ UNCHANGED <<spaces, nextPid, shell>>

\* elf_spawn_argv() by the shell, preemptible.  First: the image is loaded, and
\* process_allocate() picks a slot and a pid ...
ShellPick ==
  /\ Runs(Shell) /\ shell.pc = "prompt" /\ FreeSlots # {} /\ Attempts # {}
  /\ \E sp \in Spaces \ spaces :
       /\ shell' = [pc |-> "picked", slot |-> FirstFree, pid |-> Candidate(Attempt),
                    space |-> sp, task |-> NoTask]
       /\ spaces' = spaces \cup {sp}
  /\ nextPid' = (Candidate(Attempt) % PidMax) + 1
  /\ UNCHANGED <<proc, task>>

\* ... then it clears the slot and marks it RUNNING, and process_launch() fills
\* it in ...
ShellInit ==
  /\ shell.pc = "picked"
  /\ proc' = [proc EXCEPT ![shell.slot] = [Allocated(shell.slot, shell.pid, 0) EXCEPT
                                             !.space = shell.space]]
  /\ shell' = [shell EXCEPT !.pc = "allocated"]
  /\ UNCHANGED <<task, spaces, nextPid>>

\* ... create_task() makes the task ready, or fails and the slot is released ...
ShellCreate ==
  /\ shell.pc = "allocated"
  /\ \/ \E c \in FreeTasks :
          /\ task' = [task EXCEPT ![c] = NewTask(shell.slot, FALSE, shell.space)]
          /\ shell' = [shell EXCEPT !.pc = "created", !.task = c]
          /\ UNCHANGED <<proc, spaces>>
     \/ /\ FreeTasks = {}
        /\ proc' = [proc EXCEPT ![shell.slot] = Unused]
        /\ spaces' = spaces \ {shell.space}
        /\ shell' = Prompt
        /\ UNCHANGED task
  /\ UNCHANGED nextPid

\* ... and the task is entered in the slot, even when the child is already gone.
ShellSetTask ==
  /\ shell.pc = "created"
  /\ proc' = [proc EXCEPT ![shell.slot].task = shell.task]
  /\ shell' = [shell EXCEPT !.pc = "launched"]
  /\ UNCHANGED <<task, spaces, nextPid>>

\* process_detach() of a background job.
ShellDetach ==
  /\ Runs(Shell) /\ shell.pc = "launched"
  /\ proc' = [s \in Slots |->
                IF s \notin Find(shell.pid) THEN proc[s]
                ELSE IF proc[s].state = "ZOMBIE" THEN Unused
                     ELSE [proc[s] EXCEPT !.parent = 0, !.autoReap = TRUE]]
  /\ shell' = Prompt
  /\ UNCHANGED <<task, spaces, nextPid>>

-----------------------------------------------------------------------------
(* Waiting *)

\* The caller returns from its system call; the shell goes back to its prompt.
Returns(t, P) ==
  /\ proc' = P
  /\ task' = [task EXCEPT ![t].op = "run", ![t].target = 0, ![t].tpid = 0, ![t].chan = NoChan]
  /\ shell' = IF t = Shell THEN Prompt ELSE shell

Parks(t, op, s, pid, ch) ==
  /\ task' = [task EXCEPT ![t].op = op, ![t].target = s, ![t].tpid = pid, ![t].chan = ch]
  /\ UNCHANGED <<proc, shell>>

\* A killable wait begins or goes on: a flagged task leaves instead of waiting.
WaitsOrDies(t, op, s, pid, ch) ==
  IF task[t].kill THEN ExitTask(t, "killed")
  ELSE Parks(t, op, s, pid, ch) /\ UNCHANGED <<spaces, nextPid>>

Leaves(t, P) == Returns(t, P) /\ UNCHANGED <<spaces, nextPid>>

\* The loop of process_wait() on the slot s found for pid.
WaitLoop(t, s, pid) ==
  IF ~Used(s) \/ proc[s].pid # pid \/ proc[s].parent # PidOf(t)
  THEN Leaves(t, proc)
  ELSE IF proc[s].state = "RUNNING"
       THEN WaitsOrDies(t, "wait", s, pid, <<"process", s>>)
       ELSE Leaves(t, [proc EXCEPT ![s] = Unused])

\* process_wait() by a process, for one of its children ...
Wait(t, pid) ==
  /\ RunsUser(t)
  /\ \E s \in Find(pid) : proc[s].parent = PidOf(t) /\ WaitLoop(t, s, pid)

\* ... and by the shell, for the foreground program it has launched.
ShellWait ==
  /\ Runs(Shell) /\ shell.pc = "launched"
  /\ \/ \E s \in Find(shell.pid) : WaitLoop(Shell, s, shell.pid)
     \/ Find(shell.pid) = {} /\ Leaves(Shell, proc)

\* The children process_waitpid() looks at: all of them, or the one with that pid.
Matching(t, pid) == {s \in Slots : /\ Used(s) /\ proc[s].parent = PidOf(t)
                                   /\ pid > 0 => proc[s].pid = pid}

\* The loop of process_waitpid(); pid 0 stands for "any child".
WaitpidLoop(t, pid) ==
  LET children == Matching(t, pid)
      zombies == {s \in children : proc[s].state = "ZOMBIE"}
  IN
  IF zombies # {}
  THEN Leaves(t, [proc EXCEPT ![CHOOSE s \in zombies : \A r \in zombies : s <= r] = Unused])
  ELSE IF children = {} THEN Leaves(t, proc)
       ELSE WaitsOrDies(t, "waitpid", 0, pid, <<"waitpid_event", task[t].slot>>)

Waitpid(t, pid) == RunsUser(t) /\ Matching(t, pid) # {} /\ WaitpidLoop(t, pid)

\* The loop of process_thread_join()
JoinLoop(t) ==
  IF proc[task[t].slot].threads > 0
  THEN WaitsOrDies(t, "join", 0, 0, <<"thread_count", task[t].slot>>)
  ELSE Leaves(t, proc)

Join(t) == RunsUser(t) /\ proc[task[t].slot].threads > 0 /\ JoinLoop(t)

\* A task that was woken runs again, behind task_block_current().
Resume(t) ==
  /\ task[t].used /\ task[t].op # "run" /\ task[t].chan = NoChan
  /\ IF task[t].kill THEN ExitTask(t, "killed")
     ELSE CASE task[t].op = "wait" -> WaitLoop(t, task[t].target, task[t].tpid)
            [] task[t].op = "waitpid" -> WaitpidLoop(t, task[t].tpid)
            [] task[t].op = "join" -> JoinLoop(t)

\* Faulty variant: blocked tasks are flagged but not woken.
RequestKillNoWake(s) ==
  LET mine == {t \in Tasks : task[t].used /\ task[t].slot = s} IN
  /\ \E t \in mine : ~task[t].kill
  /\ task' = [t \in Tasks |-> IF t \in mine THEN [task[t] EXCEPT !.kill = TRUE] ELSE task[t]]
  /\ UNCHANGED <<proc, spaces, nextPid, shell>>

\* process_request_kill(), by a kill syscall, the shell or Ctrl-C in the keyboard
\* interrupt: flag and wake every task of the process.
RequestKill(s) ==
  LET mine == {t \in Tasks : task[t].used /\ task[t].slot = s} IN
  /\ \E t \in mine : ~task[t].kill
  /\ task' = [t \in Tasks |-> IF t \in mine
                              THEN [task[t] EXCEPT !.kill = TRUE, !.chan = NoChan]
                              ELSE task[t]]
  /\ UNCHANGED <<proc, spaces, nextPid, shell>>

Next ==
  \/ \E t \in Tasks :
       \/ Exit(t) \/ TickKill(t) \/ NewProcess(t) \/ Exec(t) \/ ThreadCreate(t)
       \/ Join(t) \/ Resume(t)
       \/ \E pid \in Pids : Wait(t, pid)
       \/ \E pid \in Pids \cup {0} : Waitpid(t, pid)
  \/ \E s \in Slots : RequestKill(s)
  \/ ShellPick \/ ShellInit \/ ShellCreate \/ ShellSetTask
  \/ ShellDetach \/ ShellWait

Spec == Init /\ [][Next]_vars

\* The CPU runs every woken task, and a tick lands on every flagged one.
FairSpec == Spec /\ \A t \in Tasks : WF_vars(Resume(t)) /\ WF_vars(TickKill(t))

-----------------------------------------------------------------------------
(* Properties *)

Live(s) == {t \in Tasks : task[t].used /\ task[t].slot = s}
ThreadsOf(s) == {t \in Live(s) : task[t].thread}

ProcType ==
  [state : {"UNUSED", "RUNNING", "ZOMBIE"}, pid : Pids \cup {0}, parent : Pids \cup {0},
   autoReap : BOOLEAN, task : Tasks \cup {NoTask}, space : Spaces \cup {NoSpace},
   threads : Nat, mainExited : BOOLEAN, status : Statuses, main : Statuses]
TaskType ==
  [used : BOOLEAN, slot : Slots \cup {0}, thread : BOOLEAN, kill : BOOLEAN,
   space : Spaces \cup {NoSpace}, op : {"run", "wait", "waitpid", "join"},
   target : Slots \cup {0}, tpid : Pids \cup {0}, chan : Chans \cup {NoChan}]

\* Every variable has its type.
TypeOK ==
  /\ proc \in [Slots -> ProcType] /\ task \in [Tasks -> TaskType]
  /\ spaces \in SUBSET Spaces /\ nextPid \in Pids
  /\ shell \in [pc : {"prompt", "picked", "allocated", "created", "launched"},
                slot : Slots \cup {0}, pid : Pids \cup {0},
                space : Spaces \cup {NoSpace}, task : Tasks \cup {NoTask}]

\* No task ever runs on an address space that has been destroyed: every user task
\* belongs to a RUNNING process and uses that process's address space, which still
\* exists.  This is what the deferred teardown in process_task_exit() and the
\* refusal in process_exec_reset() are for.
TasksHaveTheirSpace ==
  \A t \in Tasks : task[t].used /\ t # Shell =>
    LET p == proc[task[t].slot] IN
    p.state = "RUNNING" /\ task[t].space = p.space /\ p.space \in spaces

\* No address space is shared by two processes or leaked: the ones that exist are
\* those of the RUNNING processes, and the one the shell has just built.
SpacesPrivate ==
  /\ \A r, s \in Slots : r # s /\ proc[r].space # NoSpace => proc[r].space # proc[s].space
  /\ spaces = {proc[s].space : s \in {r \in Slots : proc[r].state = "RUNNING"}}
              \cup (IF shell.pc = "picked" THEN {shell.space} ELSE {})

\* Every address space that exists has one owner, and every task has its own.
SpacesOwned == TasksHaveTheirSpace /\ SpacesPrivate

\* thread_count is the number of threads that have not exited, and the process is
\* RUNNING exactly as long as one of its tasks is left (or the shell is still
\* creating its first one), so the last task to go, whichever it is, finishes it.
ThreadCountExact ==
  \A s \in Slots :
    /\ proc[s].threads = Cardinality(ThreadsOf(s))
    /\ proc[s].state = "RUNNING" =>
         (proc[s].mainExited <=> Live(s) = ThreadsOf(s) /\ ~(shell.pc = "allocated" /\ shell.slot = s))
    /\ proc[s].state = "RUNNING" =>
         Live(s) # {} \/ (shell.pc = "allocated" /\ shell.slot = s)

\* What t waits for is still to come.
HasReason(t) ==
  /\ task[t].op = "wait" =>
       LET p == proc[task[t].target] IN
       p.state = "RUNNING" /\ p.pid = task[t].tpid /\ p.parent = PidOf(t)
  /\ task[t].op = "waitpid" =>
       /\ Matching(t, task[t].tpid) # {}
       /\ \A s \in Matching(t, task[t].tpid) : proc[s].state = "RUNNING"
  /\ task[t].op = "join" => proc[task[t].slot].threads > 0

\* No wake-up is lost: a task blocked in wait() has a child that still runs, one
\* blocked in waitpid() has such a child and no child to collect, one blocked in
\* join() has threads left to wait for.
BlockedForAReason ==
  \A t \in Tasks : task[t].chan # NoChan => task[t].op # "run" /\ HasReason(t)

\* Every zombie can still be collected: it is not one that should have released
\* itself, and its parent is the shell or a process that still runs.
ZombiesReapable ==
  \A s \in Slots : proc[s].state = "ZOMBIE" =>
    /\ ~proc[s].autoReap
    /\ proc[s].parent = 0 \/ \E q \in Find(proc[s].parent) : proc[q].state = "RUNNING"

\* Two processes in the table never have the same pid, also after the counter has
\* wrapped around.
PidsUnique ==
  \A r, s \in Slots : r # s /\ Used(r) /\ Used(s) => proc[r].pid # proc[s].pid

\* The shell's task belongs to no process and is never flagged, and it waits only when a
\* launch is over; every other task belongs to a process.
KernelTask ==
  /\ task[Shell].used /\ task[Shell].slot = 0 /\ ~task[Shell].kill
  /\ task[Shell].op # "run" => shell.pc = "launched"
  /\ \A t \in Tasks : task[t].used /\ t # Shell => task[t].slot # 0

\* A process has at most one main task.
OneMain ==
  \A t, u \in Tasks :
    /\ task[t].used /\ task[u].used /\ task[t].slot = task[u].slot
    /\ ~task[t].thread /\ ~task[u].thread
    => t = u

\* Exactly the RUNNING processes have an address space.
RunningHasSpace == \A s \in Slots : proc[s].space # NoSpace <=> proc[s].state = "RUNNING"

\* The slot, pid and space that the shell has picked are nobody's, and a slot that it has
\* filled in has no task before the shell creates one.
LaunchPrivate ==
  /\ shell.pc \in {"picked", "allocated", "created"} => shell.slot \in Slots
  /\ shell.pc = "picked" =>
       /\ proc[shell.slot].state = "UNUSED" /\ shell.pid \in Pids /\ Find(shell.pid) = {}
       /\ shell.space \in Spaces /\ \A s \in Slots : proc[s].space # shell.space
  /\ shell.pc = "allocated" =>
       /\ proc[shell.slot].state = "RUNNING" /\ proc[shell.slot].space = shell.space
       /\ ~proc[shell.slot].mainExited /\ Live(shell.slot) = {}

\* A wait() in progress has the slot that it waits for, and the shell is in no other wait.
WaitsWell ==
  /\ \A t \in Tasks : task[t].op = "wait" => task[t].target \in Slots
  /\ task[Shell].op \in {"run", "wait"}

\* The inductive invariant behind the ownership of address spaces.
OwnInv ==
  /\ TypeOK /\ TasksHaveTheirSpace /\ SpacesPrivate /\ ThreadCountExact /\ PidsUnique
  /\ KernelTask /\ OneMain /\ RunningHasSpace /\ LaunchPrivate

\* The status a zombie reports is the one its main task ended with, also when a
\* thread finished the process later.
StatusIsMains == \A s \in Slots : proc[s].state = "ZOMBIE" => proc[s].status = proc[s].main

\* A parent is the shell or another process, which runs; only a running orphan, and a job
\* that the shell has detached, release themselves.
ParentsRun ==
  \A s \in Slots : Used(s) =>
    /\ proc[s].pid # 0 /\ proc[s].parent # proc[s].pid
    /\ proc[s].parent # 0 => \E q \in Find(proc[s].parent) : proc[q].state = "RUNNING"
    /\ proc[s].autoReap => proc[s].parent = 0 /\ proc[s].state = "RUNNING"

\* The status in the table is the one the main task has left, from when it ends.
StatusRight(p) ==
  /\ p.state = "RUNNING" =>
       IF p.mainExited THEN p.main # "none" /\ p.status = p.main ELSE p.main = "none"
  /\ p.state = "ZOMBIE" => p.status = p.main
StatusKept == \A s \in Slots : StatusRight(proc[s])

\* A blocked task is in the wait that its channel belongs to.
ChannelOfItsWait ==
  \A t \in Tasks : task[t].chan # NoChan =>
    /\ task[t].used
    /\ \/ task[t].op = "wait" /\ task[t].chan = <<"process", task[t].target>>
       \/ task[t].op = "waitpid" /\ task[t].chan = <<"waitpid_event", task[t].slot>>
       \/ task[t].op = "join" /\ task[t].chan = <<"thread_count", task[t].slot>>

\* The process the shell launches stays in its slot, the shell's to collect, until the
\* shell waits for it or detaches it; it has no child before it has a task.
LaunchedIsTheShells ==
  /\ shell.pc \in {"allocated", "created", "launched"} =>
       /\ shell.slot \in Slots /\ Used(shell.slot) /\ proc[shell.slot].pid = shell.pid
       /\ proc[shell.slot].parent = 0 /\ ~proc[shell.slot].autoReap
  /\ shell.pc = "allocated" =>
       \A c \in Slots : Used(c) => proc[c].parent # shell.pid

\* What relates parents to children; with OwnInv, the inductive invariant behind waiting.
FamilyInv ==
  /\ ParentsRun /\ StatusKept /\ ChannelOfItsWait /\ LaunchedIsTheShells
  /\ BlockedForAReason

\* thread_count is exact, a process runs exactly as long as it has a task, and pids stay
\* unique when next_pid wraps around; every zombie can still be collected, by the shell or
\* by a parent that runs, and reports the status of its main task, whichever ended last.
\* With what makes it inductive, beside SpacesOwned and BlockedForAReason.  What concerns
\* parents holds while no launch by the shell is overtaken.
TableExact ==
  /\ TypeOK /\ ThreadCountExact /\ PidsUnique /\ ZombiesReapable /\ StatusIsMains
  /\ KernelTask /\ OneMain /\ RunningHasSpace /\ LaunchPrivate /\ WaitsWell
  /\ ParentsRun /\ StatusKept /\ ChannelOfItsWait /\ LaunchedIsTheShells

\* A child that has ended does not leave its parent waiting for it.
ExitObserved ==
  \A t \in Tasks, s \in Slots :
    (task[t].op = "wait" /\ task[t].target = s /\ proc[s].state = "ZOMBIE")
      ~> task[t].op = "run"

\* SIGKILL: a process one of whose tasks is flagged is not running for ever.
KillCompletes ==
  \A pid \in Pids :
    (\E s \in Find(pid) : \E t \in Live(s) : task[t].kill)
      ~> ~(\E s \in Find(pid) : proc[s].state = "RUNNING")
=============================================================================
