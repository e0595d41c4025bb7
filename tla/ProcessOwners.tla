--------------------------- MODULE ProcessOwners ----------------------------
(***************************************************************************)
(* Who owns an address space and when it is destroyed (process.c), for any *)
(* number of processes, tasks, threads and pids: kills, returns, exits and *)
(* launches keep OwnInv of Process.                                        *)
(***************************************************************************)
EXTENDS Process, FiniteSetTheorems, WellFoundedInduction, TLAPS

-----------------------------------------------------------------------------
(* Slots and pids *)

\* A set of natural numbers that is not empty has a least element.
LEMMA LeastExists ==
  ASSUME NEW S \in SUBSET Nat, S # {}
  PROVE  \E x \in S : \A y \in S : x <= y
<1>1. PICK x \in S : \A y \in S : ~(<<y, x>> \in OpToRel(<, Nat))
  BY NatLessThanWellFounded, WFMin, Zenon
<1>2. \A y \in S : ~(y < x)
  BY <1>1, Zenon DEF OpToRel
<1> QED BY <1>2

\* The first free slot is a free slot.
LEMMA FirstFreeIsFree ==
  ASSUME ProcessAssumption, FreeSlots # {}
  PROVE  FirstFree \in Slots /\ proc[FirstFree].state = "UNUSED"
<1>1. FreeSlots \in SUBSET Nat BY DEF FreeSlots, Slots, ProcessAssumption
<1>2. \E s \in FreeSlots : \A r \in FreeSlots : s <= r BY <1>1, LeastExists, Zenon
<1>3. FirstFree \in FreeSlots BY <1>2, Zenon DEF FirstFree
<1> QED BY <1>3, Zenon DEF FreeSlots, Used

\* A pid that process_allocate_pid() finds is in range and nobody's, and next_pid stays
\* in range.
LEMMA PidIsFree ==
  ASSUME ProcessAssumption, nextPid \in Pids, Attempts # {}
  PROVE  /\ Candidate(Attempt) \in Pids /\ Find(Candidate(Attempt)) = {}
         /\ (Candidate(Attempt) % PidMax) + 1 \in Pids
<1>1. Attempts \in SUBSET Nat BY DEF Attempts, ProcessAssumption
<1>2. \E k \in Attempts : \A j \in Attempts : k <= j BY <1>1, LeastExists, Zenon
<1>3. Attempt \in Attempts BY <1>2, Zenon DEF Attempt
<1>4. PidMax \in Nat \ {0} /\ Attempt \in Nat /\ nextPid \in Nat /\ nextPid >= 1
  BY <1>1, <1>3 DEF ProcessAssumption, Pids
<1>5. \A a \in Nat : a % PidMax \in 0 .. PidMax - 1 BY <1>4
<1>6. nextPid - 1 + Attempt \in Nat BY <1>4
<1>7. (nextPid - 1 + Attempt) % PidMax \in 0 .. PidMax - 1 BY <1>5, <1>6, Zenon
<1>8. Candidate(Attempt) \in Pids BY <1>4, <1>7 DEF Candidate, Pids
<1>9. Candidate(Attempt) \in Nat BY <1>8 DEF Pids
<1>10. Candidate(Attempt) % PidMax \in 0 .. PidMax - 1 BY <1>5, <1>9, Zenon
<1>11. (Candidate(Attempt) % PidMax) + 1 \in Pids BY <1>4, <1>10 DEF Pids
<1>12. Find(Candidate(Attempt)) = {} BY <1>3, Zenon DEF Attempts
<1> QED BY <1>8, <1>11, <1>12, Zenon

\* An empty slot, a slot just allocated and the tasks are well typed.
LEMMA RecordTypes ==
  ASSUME ProcessAssumption
  PROVE  /\ Unused \in ProcType /\ NoneTask \in TaskType
         /\ \A s \in Slots, th \in BOOLEAN, sp \in Spaces : NewTask(s, th, sp) \in TaskType
         /\ \A s, pid \in Pids, parent \in Pids \cup {0} : Allocated(s, pid, parent) \in ProcType
BY ZenonT(30) DEF Unused, NoneTask, NewTask, Allocated, ProcType, TaskType, Statuses, NoChan, Chans,
       Pids, Slots, ProcessAssumption

\* Updates of a task and of a slot stay well typed.
LEMMA TaskUpdates ==
  ASSUME NEW r \in TaskType
  PROVE  /\ [r EXCEPT !.chan = NoChan] \in TaskType
         /\ [r EXCEPT !.kill = TRUE, !.chan = NoChan] \in TaskType
         /\ [r EXCEPT !.op = "run", !.target = 0, !.tpid = 0, !.chan = NoChan] \in TaskType
         /\ \A op \in {"run", "wait", "waitpid", "join"}, s \in Slots \cup {0},
               pid \in Pids \cup {0}, ch \in Chans \cup {NoChan} :
              [r EXCEPT !.op = op, !.target = s, !.tpid = pid, !.chan = ch] \in TaskType
<1> USE DEF TaskType
<1>1. [r EXCEPT !.chan = NoChan] \in TaskType BY Zenon
<1>2. [r EXCEPT !.kill = TRUE, !.chan = NoChan] \in TaskType BY Zenon
<1>3. ASSUME NEW op \in {"run", "wait", "waitpid", "join"}, NEW s \in Slots \cup {0},
             NEW pid \in Pids \cup {0}, NEW ch \in Chans \cup {NoChan}
      PROVE  [r EXCEPT !.op = op, !.target = s, !.tpid = pid, !.chan = ch] \in TaskType
  BY ZenonT(30)
<1>4. [r EXCEPT !.op = "run", !.target = 0, !.tpid = 0, !.chan = NoChan] \in TaskType
  BY Zenon
<1> QED BY <1>1, <1>2, <1>3, <1>4, Zenon

LEMMA SlotUpdates ==
  ASSUME ProcessAssumption, NEW r \in ProcType
  PROVE  /\ [r EXCEPT !.parent = 0, !.autoReap = TRUE] \in ProcType
         /\ \A st \in Statuses :
              [r EXCEPT !.state = "ZOMBIE", !.task = NoTask, !.space = NoSpace, !.threads = 0,
                        !.status = st, !.main = IF @ = "none" THEN st ELSE @] \in ProcType
         /\ \A st \in Statuses :
              [r EXCEPT !.mainExited = TRUE, !.status = st, !.task = NoTask, !.main = st] \in ProcType
         /\ \A n \in Nat : [r EXCEPT !.threads = n] \in ProcType
         /\ \A sp \in Spaces : [r EXCEPT !.space = sp] \in ProcType
         /\ \A c \in Tasks \cup {NoTask} : [r EXCEPT !.task = c] \in ProcType
<1> USE DEF ProcType
<1>1. [r EXCEPT !.parent = 0, !.autoReap = TRUE] \in ProcType BY Zenon
<1>2. ASSUME NEW st \in Statuses
      PROVE  [r EXCEPT !.state = "ZOMBIE", !.task = NoTask, !.space = NoSpace, !.threads = 0,
                       !.status = st, !.main = IF @ = "none" THEN st ELSE @] \in ProcType
  <2>1. (IF r.main = "none" THEN st ELSE r.main) \in Statuses BY Zenon
  <2> QED BY <2>1, ZenonT(30)
<1>3. \A st \in Statuses :
        [r EXCEPT !.mainExited = TRUE, !.status = st, !.task = NoTask, !.main = st] \in ProcType
  BY Zenon
<1>4. \A n \in Nat : [r EXCEPT !.threads = n] \in ProcType BY Zenon
<1>5. \A sp \in Spaces : [r EXCEPT !.space = sp] \in ProcType BY Zenon
<1>6. \A c \in Tasks \cup {NoTask} : [r EXCEPT !.task = c] \in ProcType BY Zenon
<1> QED BY <1>1, <1>2, <1>3, <1>4, <1>5, <1>6, Zenon

-----------------------------------------------------------------------------
(* Steps that leave ownership alone *)

\* What ownership reads of a slot and of a task is the same after the step.
SameSlot(s) ==
  /\ proc'[s].state = proc[s].state /\ proc'[s].space = proc[s].space
  /\ proc'[s].threads = proc[s].threads /\ proc'[s].mainExited = proc[s].mainExited
  /\ proc'[s].pid = proc[s].pid
SameTask(t) ==
  /\ task'[t].used = task[t].used /\ task'[t].slot = task[t].slot
  /\ task'[t].thread = task[t].thread /\ task'[t].space = task[t].space

\* The tasks of a slot are the same if the tasks are.
LEMMA SameLive ==
  ASSUME \A t \in Tasks : SameTask(t), NEW s
  PROVE  Live(s)' = Live(s) /\ ThreadsOf(s)' = ThreadsOf(s)
BY Zenon DEF SameTask, Live, ThreadsOf

\* Threads are finitely many.
LEMMA ThreadsFinite ==
  ASSUME ProcessAssumption, NEW s
  PROVE  IsFiniteSet(ThreadsOf(s)) /\ Cardinality(ThreadsOf(s)) \in Nat
<1>1. ThreadsOf(s) \in SUBSET Tasks BY Zenon DEF ThreadsOf, Live
<1>2. IsFiniteSet(ThreadsOf(s)) BY <1>1, FS_Subset, Zenon DEF ProcessAssumption
<1> QED BY <1>2, FS_CardinalityType, Zenon

\* A slot that is not RUNNING has no tasks and no threads.
LEMMA NotRunningIsEmpty ==
  ASSUME ProcessAssumption, OwnInv, NEW s \in Slots, proc[s].state # "RUNNING"
  PROVE  Live(s) = {} /\ ThreadsOf(s) = {} /\ proc[s].threads = 0 /\ proc[s].space = NoSpace
<1>1. \A t \in Tasks : task[t].used => task[t].slot # s
  <2> SUFFICES ASSUME NEW t \in Tasks, task[t].used, task[t].slot = s PROVE FALSE
    BY Zenon
  <2>1. t # Shell BY DEF OwnInv, KernelTask, Slots, ProcessAssumption
  <2> QED BY <2>1, Zenon DEF OwnInv, TasksHaveTheirSpace
<1>2. Live(s) = {} /\ ThreadsOf(s) = {} BY <1>1, Zenon DEF Live, ThreadsOf
<1>3. proc[s].threads = 0 BY <1>2, FS_EmptySet, Zenon DEF OwnInv, ThreadCountExact
<1> QED BY <1>2, <1>3, Zenon DEF OwnInv, RunningHasSpace

\* Calls that change no task's process, that change in the table only what ownership does
\* not look at, or release zombies, keep the invariant.
LEMMA QuietKeeps ==
  ASSUME ProcessAssumption, OwnInv, TypeOK',
         \A t \in Tasks : SameTask(t),
         \A s \in Slots : SameSlot(s) \/ (proc[s].state = "ZOMBIE" /\ proc'[s] = Unused),
         spaces' = spaces,
         shell' = shell \/ (shell.pc \in {"created", "launched"} /\ shell'.pc \in {"prompt", "launched"}),
         ~task'[Shell].kill, task'[Shell].op # "run" => shell'.pc = "launched"
  PROVE  OwnInv'
<1>1. \A s \in Slots : Live(s)' = Live(s) /\ ThreadsOf(s)' = ThreadsOf(s) BY SameLive, Zenon
<1>2. \A s \in Slots : /\ proc'[s].state = "RUNNING" <=> proc[s].state = "RUNNING"
                       /\ proc'[s].space = proc[s].space /\ proc'[s].threads = proc[s].threads
                       /\ proc[s].state = "RUNNING" =>
                            SameSlot(s)
  <2> SUFFICES ASSUME NEW s \in Slots, proc[s].state = "ZOMBIE", proc'[s] = Unused
               PROVE  /\ proc'[s].state # "RUNNING"
                      /\ proc'[s].space = proc[s].space /\ proc'[s].threads = proc[s].threads
    BY Zenon DEF SameSlot
  <2> QED BY NotRunningIsEmpty DEF Unused
<1>3. shell'.pc \in {"picked", "allocated", "created"} => shell' = shell
  BY Zenon
<1>4. TasksHaveTheirSpace'
  <2> SUFFICES ASSUME NEW t \in Tasks, task'[t].used, t # Shell
               PROVE  /\ proc'[task'[t].slot].state = "RUNNING"
                      /\ task'[t].space = proc'[task'[t].slot].space
                      /\ proc'[task'[t].slot].space \in spaces'
    BY Zenon DEF TasksHaveTheirSpace
  <2>1. task[t].used /\ task'[t].slot = task[t].slot /\ task'[t].space = task[t].space
    BY Zenon DEF SameTask
  <2>2. task[t].slot \in Slots BY <2>1, Zenon DEF OwnInv, TypeOK, TaskType, KernelTask
  <2> QED BY <1>2, <2>1, <2>2 DEF OwnInv, TasksHaveTheirSpace
<1>5. SpacesPrivate'
  <2>1. \A r, s \in Slots : r # s /\ proc'[r].space # NoSpace => proc'[r].space # proc'[s].space
    BY <1>2 DEF OwnInv, SpacesPrivate
  <2>2. {proc'[s].space : s \in {r \in Slots : proc'[r].state = "RUNNING"}}
          = {proc[s].space : s \in {r \in Slots : proc[r].state = "RUNNING"}}
    BY <1>2
  <2>3. shell'.pc = "picked" <=> shell.pc = "picked" BY Zenon
  <2>4. shell.pc = "picked" => shell'.space = shell.space BY Zenon
  <2> QED BY <2>1, <2>2, <2>3, <2>4, Zenon DEF OwnInv, SpacesPrivate
<1>6. ThreadCountExact'
  <2>1. shell'.pc = "allocated" <=> shell.pc = "allocated" BY Zenon
  <2>2. shell.pc = "allocated" => shell'.slot = shell.slot BY Zenon
  <2> SUFFICES ASSUME NEW s \in Slots
               PROVE  /\ proc'[s].threads = Cardinality(ThreadsOf(s)')
                      /\ proc'[s].state = "RUNNING" =>
                           (proc'[s].mainExited <=>
                              Live(s)' = ThreadsOf(s)' /\ ~(shell'.pc = "allocated" /\ shell'.slot = s))
                      /\ proc'[s].state = "RUNNING" =>
                           Live(s)' # {} \/ (shell'.pc = "allocated" /\ shell'.slot = s)
    BY Zenon DEF ThreadCountExact
  <2>3. proc'[s].state = "RUNNING" =>
          proc[s].state = "RUNNING" /\ proc'[s].mainExited = proc[s].mainExited
    BY <1>2, Zenon DEF SameSlot
  <2> QED BY <1>1, <1>2, <2>1, <2>2, <2>3 DEF OwnInv, ThreadCountExact
<1>7. PidsUnique'
  BY DEF OwnInv, PidsUnique, SameSlot, Used, Unused
<1>8. KernelTask'
  BY Zenon DEF OwnInv, KernelTask, SameTask, ProcessAssumption
<1>9. OneMain'
  BY Zenon DEF OwnInv, OneMain, SameTask
<1>10. RunningHasSpace'
  BY <1>2, Zenon DEF OwnInv, RunningHasSpace
<1>11. LaunchPrivate'
  <2> SUFFICES ASSUME shell'.pc \in {"picked", "allocated", "created"} PROVE LaunchPrivate'
    BY Zenon DEF LaunchPrivate
  <2>1. shell' = shell BY <1>3, Zenon
  <2>2. Find(shell.pid) = {} => Find(shell.pid)' = {}
    BY <2>1 DEF Find, Used, SameSlot, Unused
  <2>3. shell.slot \in Slots BY <2>1, Zenon DEF OwnInv, LaunchPrivate
  <2>4. shell.pc = "picked" => proc'[shell.slot].state = "UNUSED"
    BY <2>3, Zenon DEF OwnInv, LaunchPrivate, SameSlot
  <2>5. shell.pc = "allocated" => SameSlot(shell.slot)
    BY <1>2, <2>3, Zenon DEF OwnInv, LaunchPrivate
  <2> QED BY <1>1, <1>2, <2>1, <2>2, <2>3, <2>4, <2>5, SMTT(30) DEF OwnInv, LaunchPrivate, SameSlot
<1> QED BY <1>4, <1>5, <1>6, <1>7, <1>8, <1>9, <1>10, <1>11, Zenon DEF OwnInv

\* A kill request flags and wakes.
LEMMA RequestKillKeeps ==
  ASSUME ProcessAssumption, OwnInv, NEW s \in Slots, RequestKill(s)
  PROVE  OwnInv'
<1> DEFINE mine == {t \in Tasks : task[t].used /\ task[t].slot = s}
<1>1. /\ UNCHANGED <<proc, spaces, nextPid, shell>>
      /\ task' = [t \in Tasks |-> IF t \in mine
                                  THEN [task[t] EXCEPT !.kill = TRUE, !.chan = NoChan]
                                  ELSE task[t]]
  BY Zenon DEF RequestKill
<1>2. Shell \notin mine BY DEF OwnInv, KernelTask, Slots, ProcessAssumption
<1> HIDE DEF mine
<1>3. \A t \in Tasks : task[t] \in TaskType BY Zenon DEF OwnInv, TypeOK
<1>4. \A t \in Tasks : SameTask(t) BY <1>1, <1>3, ZenonT(30) DEF SameTask, TaskType
<1>5. \A t \in Tasks : task'[t] \in TaskType BY <1>1, <1>3, TaskUpdates, ZenonT(30)
<1>6. TypeOK' BY <1>1, <1>5, ZenonT(30) DEF OwnInv, TypeOK
<1>7. task'[Shell] = task[Shell] BY <1>1, <1>2, ZenonT(30) DEF ProcessAssumption
<1>8. \A r \in Slots : SameSlot(r) BY <1>1, Zenon DEF SameSlot
<1> QED BY <1>1, <1>4, <1>6, <1>7, <1>8, QuietKeeps, ZenonT(30) DEF OwnInv, KernelTask

\* A call that returns, having released a zombie or nothing.
LEMMA LeavesKeeps ==
  ASSUME ProcessAssumption, OwnInv, NEW t \in Tasks, t = Shell => shell.pc = "launched",
         NEW P \in [Slots -> ProcType], Leaves(t, P),
         \A s \in Slots : P[s] = proc[s] \/ (proc[s].state = "ZOMBIE" /\ P[s] = Unused)
  PROVE  OwnInv'
<1>1. /\ proc' = P /\ UNCHANGED <<spaces, nextPid>>
      /\ task' = [task EXCEPT ![t].op = "run", ![t].target = 0, ![t].tpid = 0, ![t].chan = NoChan]
      /\ shell' = IF t = Shell THEN Prompt ELSE shell
  BY Zenon DEF Leaves, Returns
<1>2. task \in [Tasks -> TaskType] BY Zenon DEF OwnInv, TypeOK
<1>3. task' = [task EXCEPT ![t] = [task[t] EXCEPT !.op = "run", !.target = 0, !.tpid = 0,
                                                  !.chan = NoChan]]
  BY <1>1, <1>2, Zenon DEF TaskType
<1>4. \A u \in Tasks : SameTask(u) BY <1>2, <1>3 DEF SameTask, TaskType
<1>5. task' \in [Tasks -> TaskType] BY <1>2, <1>3, TaskUpdates, Zenon
<1>6. shell' \in [pc : {"prompt", "picked", "allocated", "created", "launched"},
                  slot : Slots \cup {0}, pid : Pids \cup {0},
                  space : Spaces \cup {NoSpace}, task : Tasks \cup {NoTask}]
  BY <1>1, Zenon DEF OwnInv, TypeOK, Prompt
<1>7. TypeOK' BY <1>1, <1>5, <1>6, Zenon DEF OwnInv, TypeOK
<1>8. \A s \in Slots : SameSlot(s) \/ (proc[s].state = "ZOMBIE" /\ proc'[s] = Unused)
  BY <1>1, Zenon DEF SameSlot
<1>9. shell' = shell \/ (shell.pc \in {"created", "launched"} /\ shell'.pc \in {"prompt", "launched"})
  BY <1>1, Zenon DEF Prompt
<1>10. ~task'[Shell].kill /\ (task'[Shell].op # "run" => shell'.pc = "launched")
  <2>1. task'[Shell].kill = task[Shell].kill
    BY <1>2, <1>3 DEF TaskType, ProcessAssumption
  <2>2. CASE t = Shell BY <1>2, <1>3, <2>1, <2>2 DEF TaskType, OwnInv, KernelTask
  <2>3. CASE t # Shell BY <1>1, <1>2, <1>3, <2>1, <2>3, Zenon
                          DEF OwnInv, KernelTask, ProcessAssumption
  <2> QED BY <2>2, <2>3, Zenon
<1> QED BY <1>1, <1>4, <1>7, <1>8, <1>9, <1>10, QuietKeeps, Zenon

\* A call that parks its caller.
LEMMA ParksKeeps ==
  ASSUME ProcessAssumption, OwnInv, NEW t \in Tasks, t = Shell => shell.pc = "launched",
         NEW op \in {"wait", "waitpid", "join"}, NEW s \in Slots \cup {0},
         NEW pid \in Pids \cup {0}, NEW ch \in Chans,
         Parks(t, op, s, pid, ch), UNCHANGED <<spaces, nextPid>>
  PROVE  OwnInv'
<1>1. /\ UNCHANGED <<proc, shell>>
      /\ task' = [task EXCEPT ![t].op = op, ![t].target = s, ![t].tpid = pid, ![t].chan = ch]
  BY Zenon DEF Parks
<1>2. task \in [Tasks -> TaskType] BY Zenon DEF OwnInv, TypeOK
<1>3. task' = [task EXCEPT ![t] = [task[t] EXCEPT !.op = op, !.target = s, !.tpid = pid, !.chan = ch]]
  BY <1>1, <1>2, Zenon DEF TaskType
<1>4. \A u \in Tasks : SameTask(u) BY <1>2, <1>3 DEF SameTask, TaskType
<1>5. task' \in [Tasks -> TaskType] BY <1>2, <1>3, TaskUpdates, ZenonT(30)
<1>6. TypeOK' BY <1>1, <1>5, Zenon DEF OwnInv, TypeOK
<1>7. \A r \in Slots : SameSlot(r) BY <1>1, Zenon DEF SameSlot
<1>8. ~task'[Shell].kill /\ (task'[Shell].op # "run" => shell'.pc = "launched")
  <2>1. task'[Shell].kill = task[Shell].kill
    BY <1>2, <1>3, Zenon DEF TaskType, ProcessAssumption
  <2>2. CASE t = Shell BY <1>1, <2>1, <2>2, Zenon DEF OwnInv, KernelTask
  <2>3. CASE t # Shell BY <1>1, <1>2, <1>3, <2>1, <2>3, Zenon
                          DEF OwnInv, KernelTask, ProcessAssumption
  <2> QED BY <2>2, <2>3, Zenon
<1> QED BY <1>1, <1>4, <1>6, <1>7, <1>8, QuietKeeps, Zenon

\* The last two steps of a launch only enter the task, or detach the process.
LEMMA LaunchedKeeps ==
  ASSUME ProcessAssumption, OwnInv, ShellSetTask \/ ShellDetach
  PROVE  OwnInv'
<1> USE DEF OwnInv
<1>1. /\ UNCHANGED <<task, spaces, nextPid>>
      /\ shell.pc \in {"created", "launched"} /\ shell'.pc \in {"prompt", "launched"}
      /\ task[Shell].op # "run" => shell'.pc = "launched"
  <2>1. CASE ShellSetTask BY <2>1, Zenon DEF ShellSetTask, TypeOK
  <2>2. CASE ShellDetach BY <2>2, Zenon DEF ShellDetach, Prompt, Runs
  <2> QED BY <2>1, <2>2, Zenon
<1>2. /\ \A s \in Slots : SameSlot(s) \/ (proc[s].state = "ZOMBIE" /\ proc'[s] = Unused)
      /\ proc' \in [Slots -> ProcType]
      /\ shell' \in [pc : {"prompt", "picked", "allocated", "created", "launched"},
                     slot : Slots \cup {0}, pid : Pids \cup {0},
                     space : Spaces \cup {NoSpace}, task : Tasks \cup {NoTask}]
  <2>1. CASE ShellSetTask
    <3>1. /\ proc' = [proc EXCEPT ![shell.slot].task = shell.task]
          /\ shell' = [shell EXCEPT !.pc = "launched"] /\ shell.pc = "created"
      BY <2>1, Zenon DEF ShellSetTask
    <3>2. shell.slot \in Slots /\ shell.task \in Tasks \cup {NoTask} /\ proc \in [Slots -> ProcType]
      BY <3>1, Zenon DEF LaunchPrivate, TypeOK
    <3>3. proc' = [proc EXCEPT ![shell.slot] = [proc[shell.slot] EXCEPT !.task = shell.task]]
      BY <3>1, <3>2, Zenon DEF ProcType
    <3>4. [proc[shell.slot] EXCEPT !.task = shell.task] \in ProcType BY <3>2 DEF ProcType
    <3>5. proc' \in [Slots -> ProcType] BY <3>2, <3>3, <3>4, Zenon
    <3>6. \A s \in Slots : SameSlot(s) BY <3>2, <3>3, Zenon DEF SameSlot, ProcType
    <3> QED BY <3>1, <3>5, <3>6, Zenon DEF TypeOK
  <2>2. CASE ShellDetach
    <3>1. \A s \in Slots : \/ proc'[s] = proc[s]
                           \/ proc[s].state = "ZOMBIE" /\ proc'[s] = Unused
                           \/ proc'[s] = [proc[s] EXCEPT !.parent = 0, !.autoReap = TRUE]
      BY <2>2, ZenonT(30) DEF ShellDetach
    <3>2. proc' = [s \in Slots |-> proc'[s]] BY <2>2, Zenon DEF ShellDetach
    <3>3. \A s \in Slots : proc[s] \in ProcType BY Zenon DEF TypeOK
    <3>4. \A s \in Slots : proc'[s] \in ProcType
      BY <3>1, <3>3, RecordTypes, SlotUpdates, ZenonT(30)
    <3>5. \A s \in Slots : SameSlot(s) \/ (proc[s].state = "ZOMBIE" /\ proc'[s] = Unused)
      BY <3>1, <3>3, ZenonT(30) DEF SameSlot, ProcType
    <3>6. shell' = Prompt BY <2>2, Zenon DEF ShellDetach
    <3> QED BY <3>2, <3>4, <3>5, <3>6, Zenon DEF Prompt
  <2> QED BY <2>1, <2>2, Zenon
<1>3. TypeOK' BY <1>1, <1>2, Zenon DEF TypeOK
<1>4. \A t \in Tasks : SameTask(t) BY <1>1, Zenon DEF SameTask
<1>5. ~task'[Shell].kill /\ (task'[Shell].op # "run" => shell'.pc = "launched")
  BY <1>1, Zenon DEF KernelTask
<1> HIDE DEF OwnInv
<1> QED BY <1>1, <1>2, <1>3, <1>4, <1>5, QuietKeeps, Zenon

-----------------------------------------------------------------------------
(* The end of a task *)

\* What the end of t does to the tasks: t is gone, and of others only the channel changes.
LEMMA ExitTasks ==
  ASSUME ProcessAssumption, OwnInv, NEW t \in Tasks, t # Shell, NEW st, ExitTask(t, st)
  PROVE  /\ task' \in [Tasks -> TaskType] /\ ~task'[t].used
         /\ \A u \in Tasks \ {t} : SameTask(u)
         /\ task'[Shell].kill = task[Shell].kill /\ task'[Shell].op = task[Shell].op
         /\ \A s \in Slots : Live(s)' = Live(s) \ {t} /\ ThreadsOf(s)' = ThreadsOf(s) \ {t}
<1> DEFINE left == [task EXCEPT ![t] = NoneTask]
           Woken(u) == \/ task[t].thread /\ left[u].chan = <<"thread_count", task[t].slot>>
                       \/ LastTask(t) /\ Notified(u, left[u].chan, task[t].slot)
<1>0. task' = [u \in Tasks |-> IF Woken(u) THEN [left[u] EXCEPT !.chan = NoChan] ELSE left[u]]
  BY Zenon DEF ExitTask
<1> HIDE DEF Woken, left
<1>1. /\ \A u \in Tasks : task'[u] = left[u] \/ task'[u] = [left[u] EXCEPT !.chan = NoChan]
      /\ task' = [u \in Tasks |-> task'[u]]
  BY <1>0, Zenon
<1>2. task \in [Tasks -> TaskType] BY Zenon DEF OwnInv, TypeOK
<1>3. left \in [Tasks -> TaskType] /\ left[t] = NoneTask /\ \A u \in Tasks \ {t} : left[u] = task[u]
  BY <1>2, RecordTypes, Zenon DEF left
<1>4. \A u \in Tasks : /\ task'[u] \in TaskType
                       /\ task'[u].used = left[u].used /\ task'[u].slot = left[u].slot
                       /\ task'[u].thread = left[u].thread /\ task'[u].space = left[u].space
                       /\ task'[u].kill = left[u].kill /\ task'[u].op = left[u].op
  BY <1>1, <1>3, SMTT(30) DEF TaskType
<1>5. task' \in [Tasks -> TaskType] BY <1>1, <1>4, Zenon
<1>6. ~task'[t].used BY <1>3, <1>4 DEF NoneTask
<1>7. \A u \in Tasks \ {t} : SameTask(u) BY <1>3, <1>4, Zenon DEF SameTask
<1>8. task'[Shell].kill = task[Shell].kill /\ task'[Shell].op = task[Shell].op
  BY <1>3, <1>4, Zenon DEF ProcessAssumption
<1>9. \A s \in Slots : Live(s)' = Live(s) \ {t} /\ ThreadsOf(s)' = ThreadsOf(s) \ {t}
  BY <1>6, <1>7, Zenon DEF SameTask, Live, ThreadsOf
<1> QED BY <1>5, <1>6, <1>7, <1>8, <1>9, Zenon

\* The one who finishes a process is its only task.
LEMMA LastTaskIsAlone ==
  ASSUME ProcessAssumption, OwnInv, NEW t \in Tasks, t # Shell, task[t].used, LastTask(t)
  PROVE  Live(task[t].slot) = {t}
<1> DEFINE s == task[t].slot
<1>1. s \in Slots BY Zenon DEF OwnInv, TypeOK, TaskType, KernelTask
<1>2. t \in Live(s) BY Zenon DEF Live
<1>3. proc[s].threads = Cardinality(ThreadsOf(s)) BY <1>1, Zenon DEF OwnInv, ThreadCountExact
<1>4. IsFiniteSet(ThreadsOf(s)) BY ThreadsFinite, Zenon
<1>5. CASE task[t].thread
  <2>1. proc[s].threads = 1 /\ proc[s].mainExited BY <1>5, Zenon DEF LastTask
  <2>2. proc[s].state = "RUNNING" BY Zenon DEF OwnInv, TasksHaveTheirSpace
  <2>3. Live(s) = ThreadsOf(s) BY <1>1, <2>1, <2>2, Zenon DEF OwnInv, ThreadCountExact
  <2>4. \E u : ThreadsOf(s) = {u} BY <1>3, <1>4, <2>1, FS_Singleton, Zenon
  <2> QED BY <1>2, <2>3, <2>4, Zenon
<1>6. CASE ~task[t].thread
  <2>1. proc[s].threads = 0 BY <1>6, Zenon DEF LastTask
  <2>2. ThreadsOf(s) = {} BY <1>3, <1>4, <2>1, FS_EmptySet, Zenon
  <2>3. \A u \in Live(s) : u = t BY <1>6, <2>2, Zenon DEF OwnInv, OneMain, Live, ThreadsOf
  <2> QED BY <1>2, <2>3, Zenon
<1> QED BY <1>5, <1>6, Zenon

\* The table after a process is finished.
LEMMA FinishedFacts ==
  ASSUME ProcessAssumption, OwnInv, NEW s \in Slots, NEW st \in Statuses,
         proc[s].state = "RUNNING", proc' = FinishedProc(s, st)
  PROVE  /\ proc' \in [Slots -> ProcType]
         /\ proc'[s].state # "RUNNING" /\ proc'[s].space = NoSpace /\ proc'[s].threads = 0
         /\ proc'[s].state = "UNUSED" \/ proc'[s].pid = proc[s].pid
         /\ \A c \in Slots \ {s} : SameSlot(c) \/ (proc[c].state = "ZOMBIE" /\ proc'[c] = Unused)
<1>1. \A c \in Slots : proc[c] \in ProcType BY Zenon DEF OwnInv, TypeOK
<1>2. proc' = [c \in Slots |-> proc'[c]] BY Zenon DEF FinishedProc
<1>3. \A c \in Slots \ {s} : \/ proc'[c] = proc[c]
                             \/ proc[c].state = "ZOMBIE" /\ proc'[c] = Unused
                             \/ proc'[c] = [proc[c] EXCEPT !.parent = 0, !.autoReap = TRUE]
  BY Zenon DEF FinishedProc, Orphaned
<1>4. \/ proc'[s] = Unused
      \/ proc'[s] = [proc[s] EXCEPT !.state = "ZOMBIE", !.task = NoTask, !.space = NoSpace,
                        !.threads = 0, !.status = st, !.main = IF @ = "none" THEN st ELSE @]
  BY <1>1, Zenon DEF FinishedProc, ProcType
<1>5. /\ proc'[s] \in ProcType
      /\ proc'[s].state # "RUNNING" /\ proc'[s].space = NoSpace /\ proc'[s].threads = 0
      /\ proc'[s].state = "UNUSED" \/ proc'[s].pid = proc[s].pid
  <2>1. CASE proc'[s] = Unused BY <2>1, RecordTypes DEF Unused
  <2>2. CASE proc'[s] = [proc[s] EXCEPT !.state = "ZOMBIE", !.task = NoTask, !.space = NoSpace,
                            !.threads = 0, !.status = st, !.main = IF @ = "none" THEN st ELSE @]
    <3>1. proc[s] \in ProcType BY <1>1, Zenon
    <3>2. [proc[s] EXCEPT !.state = "ZOMBIE", !.task = NoTask, !.space = NoSpace,
                 !.threads = 0, !.status = st, !.main = IF @ = "none" THEN st ELSE @] \in ProcType
      BY <3>1, SlotUpdates, Zenon
    <3>3. proc'[s] \in ProcType BY <2>2, <3>2, Zenon
    <3> QED BY <2>2, <3>1, <3>3, Zenon DEF ProcType
  <2> QED BY <1>4, <2>1, <2>2, Zenon
<1>6. \A c \in Slots \ {s} : /\ proc'[c] \in ProcType
                             /\ SameSlot(c) \/ (proc[c].state = "ZOMBIE" /\ proc'[c] = Unused)
  <2>1. \A c \in Slots \ {s} : proc'[c] \in ProcType BY <1>1, <1>3, RecordTypes, SlotUpdates,
                                                        ZenonT(30)
  <2>2. \A c \in Slots \ {s} : SameSlot(c) \/ (proc[c].state = "ZOMBIE" /\ proc'[c] = Unused)
    <3> SUFFICES ASSUME NEW c \in Slots \ {s},
                        proc'[c] = [proc[c] EXCEPT !.parent = 0, !.autoReap = TRUE]
                 PROVE  SameSlot(c)
      BY <1>3, Zenon DEF SameSlot
    <3>1. proc[c] \in ProcType BY <1>1, Zenon
    <3> QED BY <3>1, Zenon DEF ProcType, SameSlot
  <2> QED BY <2>1, <2>2, Zenon
<1> QED BY <1>2, <1>5, <1>6, Zenon

\* The slot of a user task.
LEMMA TaskSlot ==
  ASSUME ProcessAssumption, OwnInv, NEW t \in Tasks, t # Shell, task[t].used
  PROVE  /\ task[t].slot \in Slots /\ proc[task[t].slot].state = "RUNNING"
         /\ t \in Live(task[t].slot) /\ task[t].space = proc[task[t].slot].space
         /\ proc[task[t].slot].space \in spaces /\ proc[task[t].slot].space # NoSpace
         /\ shell.pc \in {"picked", "allocated"} => shell.slot # task[t].slot
<1>1. task[t].slot \in Slots BY Zenon DEF OwnInv, TypeOK, TaskType, KernelTask
<1>2. t \in Live(task[t].slot) BY Zenon DEF Live
<1>3. /\ proc[task[t].slot].state = "RUNNING" /\ task[t].space = proc[task[t].slot].space
      /\ proc[task[t].slot].space \in spaces
  BY Zenon DEF OwnInv, TasksHaveTheirSpace
<1>4. proc[task[t].slot].space # NoSpace BY <1>1, <1>3, Zenon DEF OwnInv, RunningHasSpace
<1>5. shell.pc \in {"picked", "allocated"} => shell.slot # task[t].slot
  BY <1>2, <1>3, Zenon DEF OwnInv, LaunchPrivate
<1> QED BY <1>1, <1>2, <1>3, <1>4, <1>5, Zenon

\* The last task finishes its process and takes the address space with it.
LEMMA FinishKeeps ==
  ASSUME ProcessAssumption, OwnInv, NEW t \in Tasks, t # Shell, task[t].used,
         NEW st \in Statuses, ExitTask(t, st), LastTask(t)
  PROVE  OwnInv'
<1> SUFFICES ASSUME NEW s \in Slots, s = task[t].slot PROVE OwnInv'
  BY TaskSlot, Zenon
<1>1. /\ proc[s].state = "RUNNING" /\ proc[s].space \in spaces
      /\ proc[s].space # NoSpace
      /\ shell.pc \in {"picked", "allocated"} => shell.slot # s
  BY TaskSlot, Zenon
<1>2. Live(s) = {t} BY LastTaskIsAlone, Zenon
<1>3. /\ proc' = FinishedProc(s, EndStatus(t, st)) /\ spaces' = spaces \ {proc[s].space}
      /\ nextPid' = nextPid /\ shell' = shell
  BY Zenon DEF ExitTask
<1>4. EndStatus(t, st) \in Statuses BY <1>1, Zenon DEF EndStatus, OwnInv, TypeOK, ProcType
<1>5. /\ proc' \in [Slots -> ProcType]
      /\ proc'[s].state # "RUNNING" /\ proc'[s].space = NoSpace /\ proc'[s].threads = 0
      /\ proc'[s].state = "UNUSED" \/ proc'[s].pid = proc[s].pid
      /\ \A c \in Slots \ {s} : SameSlot(c) \/ (proc[c].state = "ZOMBIE" /\ proc'[c] = Unused)
  BY <1>1, <1>3, <1>4, FinishedFacts, Zenon
<1>6. /\ task' \in [Tasks -> TaskType] /\ ~task'[t].used
      /\ \A u \in Tasks \ {t} : SameTask(u)
      /\ task'[Shell].kill = task[Shell].kill /\ task'[Shell].op = task[Shell].op
      /\ \A c \in Slots : Live(c)' = Live(c) \ {t} /\ ThreadsOf(c)' = ThreadsOf(c) \ {t}
  BY ExitTasks, Zenon
<1>7. \A c \in Slots \ {s} : /\ proc'[c].state = "RUNNING" <=> proc[c].state = "RUNNING"
                             /\ proc'[c].space = proc[c].space /\ proc'[c].threads = proc[c].threads
                             /\ proc[c].state = "RUNNING" => SameSlot(c)
                             /\ Live(c)' = Live(c) /\ ThreadsOf(c)' = ThreadsOf(c)
  <2> SUFFICES ASSUME NEW c \in Slots \ {s}
               PROVE  /\ proc'[c].state = "RUNNING" <=> proc[c].state = "RUNNING"
                      /\ proc'[c].space = proc[c].space /\ proc'[c].threads = proc[c].threads
                      /\ proc[c].state = "RUNNING" => SameSlot(c)
                      /\ Live(c)' = Live(c) /\ ThreadsOf(c)' = ThreadsOf(c)
    BY Zenon
  <2>1. t \notin Live(c) /\ t \notin ThreadsOf(c) BY Zenon DEF Live, ThreadsOf
  <2>2. Live(c)' = Live(c) /\ ThreadsOf(c)' = ThreadsOf(c) BY <1>6, <2>1, SMTT(30)
  <2>3. CASE SameSlot(c) BY <2>2, <2>3, Zenon DEF SameSlot
  <2>4. CASE proc[c].state = "ZOMBIE" /\ proc'[c] = Unused
    BY <2>2, <2>4, NotRunningIsEmpty, SMTT(30) DEF Unused
  <2> QED BY <1>5, <2>3, <2>4, Zenon
<1>8. \A c \in Slots : Used(c)' => Used(c) /\ proc'[c].pid = proc[c].pid
  BY <1>1, <1>5, SMTT(30) DEF Used, SameSlot, Unused
<1>9. \A c \in Slots \ {s} : proc[c].space # proc[s].space
  <2>1. \A r, c \in Slots : r # c /\ proc[r].space # NoSpace => proc[r].space # proc[c].space
    BY Zenon DEF OwnInv, SpacesPrivate
  <2> QED BY <1>1, <2>1, Zenon
<1>10. TypeOK' BY <1>3, <1>5, <1>6, Zenon DEF OwnInv, TypeOK
<1>11. TasksHaveTheirSpace'
  <2> SUFFICES ASSUME NEW u \in Tasks, task'[u].used, u # Shell
               PROVE  /\ proc'[task'[u].slot].state = "RUNNING"
                      /\ task'[u].space = proc'[task'[u].slot].space
                      /\ proc'[task'[u].slot].space \in spaces'
    BY Zenon DEF TasksHaveTheirSpace
  <2>1. u # t BY <1>6, Zenon
  <2>2. task[u].used /\ task'[u].slot = task[u].slot /\ task'[u].space = task[u].space
    BY <1>6, <2>1, Zenon DEF SameTask
  <2>3. /\ task[u].slot \in Slots /\ proc[task[u].slot].state = "RUNNING"
        /\ u \in Live(task[u].slot) /\ task[u].space = proc[task[u].slot].space
        /\ proc[task[u].slot].space \in spaces
    BY <2>2, TaskSlot, Zenon
  <2>4. task[u].slot # s BY <1>2, <2>1, <2>3, Zenon
  <2>5. /\ proc'[task[u].slot].state = "RUNNING"
        /\ proc'[task[u].slot].space = proc[task[u].slot].space
    BY <1>7, <2>3, <2>4, Zenon
  <2>6. proc[task[u].slot].space \in spaces' BY <1>3, <1>9, <2>3, <2>4, Zenon
  <2> QED BY <2>2, <2>3, <2>5, <2>6, Zenon
<1>12. SpacesPrivate'
  <2>1. \A r, c \in Slots : r # c /\ proc'[r].space # NoSpace => proc'[r].space # proc'[c].space
    BY <1>5, <1>7, SMTT(30) DEF OwnInv, SpacesPrivate
  <2>2. {proc'[c].space : c \in {r \in Slots : proc'[r].state = "RUNNING"}}
          = {proc[c].space : c \in {r \in Slots : proc[r].state = "RUNNING"}} \ {proc[s].space}
    BY <1>5, <1>7, <1>9, SMTT(30)
  <2>3. shell.pc = "picked" => shell.space # proc[s].space BY <1>1, Zenon DEF OwnInv, LaunchPrivate
  <2> QED BY <1>3, <2>1, <2>2, <2>3, ZenonT(30) DEF OwnInv, SpacesPrivate
<1>13. ThreadCountExact'
  <2> SUFFICES ASSUME NEW c \in Slots
               PROVE  /\ proc'[c].threads = Cardinality(ThreadsOf(c)')
                      /\ proc'[c].state = "RUNNING" =>
                           (proc'[c].mainExited <=>
                              Live(c)' = ThreadsOf(c)' /\ ~(shell'.pc = "allocated" /\ shell'.slot = c))
                      /\ proc'[c].state = "RUNNING" =>
                           Live(c)' # {} \/ (shell'.pc = "allocated" /\ shell'.slot = c)
    BY Zenon DEF ThreadCountExact
  <2>1. CASE c = s
    <3>1. ThreadsOf(c)' = {} BY <1>2, <1>6, <2>1, Zenon DEF ThreadsOf
    <3> QED BY <1>5, <2>1, <3>1, FS_EmptySet, Zenon
  <2>2. CASE c # s BY <1>3, <1>7, <2>2, SMTT(30) DEF OwnInv, ThreadCountExact, SameSlot
  <2> QED BY <2>1, <2>2, Zenon
<1>14. PidsUnique' BY <1>8, Zenon DEF OwnInv, PidsUnique
<1>15. KernelTask' BY <1>3, <1>6, Zenon DEF OwnInv, KernelTask, SameTask, ProcessAssumption
<1>16. OneMain' BY <1>6, SMTT(30) DEF OwnInv, OneMain, SameTask
<1>17. RunningHasSpace' BY <1>5, <1>7, SMTT(30) DEF OwnInv, RunningHasSpace
<1>18. LaunchPrivate'
  <2>1. Find(shell.pid)' \subseteq Find(shell.pid) BY <1>3, <1>8, Zenon DEF Find
  <2>2. shell.pc = "picked" => \A c \in Slots : proc'[c].space # shell.space
    <3>1. shell.pc = "picked" => /\ shell.space # NoSpace
                                 /\ \A c \in Slots : proc[c].space # shell.space
      BY Zenon DEF OwnInv, LaunchPrivate, ProcessAssumption
    <3>2. \A c \in Slots : proc'[c].space = proc[c].space \/ proc'[c].space = NoSpace
      BY <1>5, <1>7, Zenon
    <3> QED BY <3>1, <3>2, ZenonT(30)
  <2>3. shell.pc = "picked" => proc'[shell.slot].state = "UNUSED"
    BY <1>8, Zenon DEF OwnInv, LaunchPrivate, Used
  <2>4. LaunchPrivate BY Zenon DEF OwnInv
  <2>5. shell.pc = "allocated" => SameSlot(shell.slot) /\ Live(shell.slot)' = Live(shell.slot)
    BY <1>1, <1>3, <1>7, <2>4, ZenonT(30) DEF LaunchPrivate
  <2> QED BY <1>3, <2>1, <2>2, <2>3, <2>4, <2>5, ZenonT(30) DEF LaunchPrivate, SameSlot
<1> QED BY <1>10, <1>11, <1>12, <1>13, <1>14, <1>15, <1>16, <1>17, <1>18, Zenon DEF OwnInv

\* A task that others of its process outlive leaves the address space to them.
LEMMA LeaveKeeps ==
  ASSUME ProcessAssumption, OwnInv, NEW t \in Tasks, t # Shell, task[t].used,
         NEW st \in Statuses, ExitTask(t, st), ~LastTask(t)
  PROVE  OwnInv'
<1> SUFFICES ASSUME NEW s \in Slots, s = task[t].slot PROVE OwnInv'
  BY TaskSlot, Zenon
<1>1. /\ proc[s].state = "RUNNING" /\ t \in Live(s)
      /\ shell.pc \in {"picked", "allocated"} => shell.slot # s
  BY TaskSlot, Zenon
<1>2. proc \in [Slots -> ProcType] BY Zenon DEF OwnInv, TypeOK
<1>0. proc' = IF task[t].thread
              THEN [proc EXCEPT ![s].threads = @ - 1]
              ELSE [proc EXCEPT ![s].mainExited = TRUE, ![s].status = st,
                                ![s].task = NoTask, ![s].main = st]
  BY Zenon DEF ExitTask
<1>3. spaces' = spaces /\ nextPid' = nextPid /\ shell' = shell BY Zenon DEF ExitTask
<1>4. /\ task' \in [Tasks -> TaskType] /\ ~task'[t].used
      /\ \A u \in Tasks \ {t} : SameTask(u)
      /\ task'[Shell].kill = task[Shell].kill /\ task'[Shell].op = task[Shell].op
      /\ \A c \in Slots : Live(c)' = Live(c) \ {t} /\ ThreadsOf(c)' = ThreadsOf(c) \ {t}
  BY ExitTasks, Zenon
<1>5. /\ proc[s].threads = Cardinality(ThreadsOf(s)) /\ proc[s].threads \in Nat
      /\ IsFiniteSet(ThreadsOf(s))
      /\ proc[s].mainExited <=> Live(s) = ThreadsOf(s)
  BY <1>1, ThreadsFinite, Zenon DEF OwnInv, ThreadCountExact
<1>6. t \in ThreadsOf(s) <=> task[t].thread BY <1>1, Zenon DEF ThreadsOf
<1>7. task[t].thread => Cardinality(ThreadsOf(s) \ {t}) = proc[s].threads - 1 /\ proc[s].threads - 1 \in Nat
  <2> SUFFICES ASSUME task[t].thread
               PROVE  Cardinality(ThreadsOf(s) \ {t}) = proc[s].threads - 1 /\ proc[s].threads - 1 \in Nat
    BY Zenon
  <2>1. Cardinality(ThreadsOf(s) \ {t}) = Cardinality(ThreadsOf(s)) - 1
    BY <1>5, <1>6, FS_RemoveElement, ZenonT(30)
  <2>2. IsFiniteSet(ThreadsOf(s) \ {t}) BY <1>5, FS_Subset, Zenon
  <2>3. Cardinality(ThreadsOf(s) \ {t}) \in Nat BY <2>2, FS_CardinalityType, Zenon
  <2> QED BY <1>5, <2>1, <2>3, Zenon
<1>8. /\ \A c \in Slots \ {s} : proc'[c] = proc[c]
      /\ proc' \in [Slots -> ProcType]
      /\ proc'[s].state = proc[s].state /\ proc'[s].space = proc[s].space /\ proc'[s].pid = proc[s].pid
      /\ task[t].thread => proc'[s].threads = proc[s].threads - 1
      /\ task[t].thread => proc'[s].mainExited = proc[s].mainExited
      /\ ~task[t].thread => proc'[s].threads = proc[s].threads
      /\ ~task[t].thread => proc'[s].mainExited
  <2>1. CASE task[t].thread
    <3>1. proc' = [proc EXCEPT ![s] = [proc[s] EXCEPT !.threads = proc[s].threads - 1]]
      BY <1>0, <1>2, <2>1, Zenon DEF ProcType
    <3>2. [proc[s] EXCEPT !.threads = proc[s].threads - 1] \in ProcType
      BY <1>2, <1>7, <2>1, SlotUpdates, Zenon
    <3>3. proc' \in [Slots -> ProcType] BY <1>2, <3>1, <3>2, Zenon
    <3>4. proc[s] \in ProcType BY <1>2, Zenon
    <3> QED BY <1>2, <2>1, <3>1, <3>3, <3>4, Zenon DEF ProcType
  <2>2. CASE ~task[t].thread
    <3>1. proc' = [proc EXCEPT ![s] = [proc[s] EXCEPT !.mainExited = TRUE, !.status = st,
                                                      !.task = NoTask, !.main = st]]
      BY <1>0, <1>2, <2>2, Zenon DEF ProcType
    <3>2. [proc[s] EXCEPT !.mainExited = TRUE, !.status = st, !.task = NoTask, !.main = st]
            \in ProcType
      BY <1>2, SlotUpdates, Zenon
    <3>3. proc' \in [Slots -> ProcType] BY <1>2, <3>1, <3>2, Zenon
    <3>4. proc[s] \in ProcType BY <1>2, Zenon
    <3> QED BY <1>2, <2>2, <3>1, <3>3, <3>4, Zenon DEF ProcType
  <2> QED BY <2>1, <2>2, Zenon
<1>9. \A c \in Slots \ {s} : Live(c)' = Live(c) /\ ThreadsOf(c)' = ThreadsOf(c)
  <2> SUFFICES ASSUME NEW c \in Slots \ {s} PROVE Live(c)' = Live(c) /\ ThreadsOf(c)' = ThreadsOf(c)
    BY Zenon
  <2>1. t \notin Live(c) /\ t \notin ThreadsOf(c) BY Zenon DEF Live, ThreadsOf
  <2> QED BY <1>4, <2>1, SMTT(30)
<1>10. TypeOK' BY <1>3, <1>4, <1>8, Zenon DEF OwnInv, TypeOK
<1>11. \A c \in Slots : /\ proc'[c].state = proc[c].state /\ proc'[c].space = proc[c].space
                        /\ proc'[c].pid = proc[c].pid
  BY <1>8, Zenon
<1>12. TasksHaveTheirSpace'
  <2> SUFFICES ASSUME NEW u \in Tasks, task'[u].used, u # Shell
               PROVE  /\ proc'[task'[u].slot].state = "RUNNING"
                      /\ task'[u].space = proc'[task'[u].slot].space
                      /\ proc'[task'[u].slot].space \in spaces'
    BY Zenon DEF TasksHaveTheirSpace
  <2>1. u # t BY <1>4, Zenon
  <2>2. task[u].used /\ task'[u].slot = task[u].slot /\ task'[u].space = task[u].space
    BY <1>4, <2>1, Zenon DEF SameTask
  <2>3. /\ task[u].slot \in Slots /\ proc[task[u].slot].state = "RUNNING"
        /\ task[u].space = proc[task[u].slot].space /\ proc[task[u].slot].space \in spaces
    BY <2>2, TaskSlot, Zenon
  <2> QED BY <1>3, <1>11, <2>2, <2>3, Zenon
<1>13. SpacesPrivate'
  <2>1. {proc'[c].space : c \in {r \in Slots : proc'[r].state = "RUNNING"}}
          = {proc[c].space : c \in {r \in Slots : proc[r].state = "RUNNING"}}
    BY <1>11, SMTT(30)
  <2>2. \A r, c \in Slots : r # c /\ proc'[r].space # NoSpace => proc'[r].space # proc'[c].space
    BY <1>11 DEF OwnInv, SpacesPrivate
  <2>3. spaces' = spaces /\ shell' = shell BY <1>3, Zenon
  <2> QED BY <2>1, <2>2, <2>3, Zenon DEF OwnInv, SpacesPrivate
<1>14. Live(s) \ {t} # {}
  <2>1. CASE task[t].thread /\ proc[s].mainExited
    <3>1. proc[s].threads # 1 BY <2>1, Zenon DEF LastTask
    <3>2. ~\E x : ThreadsOf(s) = {x} BY <1>5, <3>1, FS_Singleton, Zenon
    <3> QED BY <1>5, <1>6, <2>1, <3>2, SMTT(30)
  <2>2. CASE task[t].thread /\ ~proc[s].mainExited BY <1>5, <1>6, <2>2, Zenon DEF ThreadsOf
  <2>3. CASE ~task[t].thread
    <3>1. proc[s].threads # 0 BY <2>3, Zenon DEF LastTask
    <3>2. ThreadsOf(s) # {} BY <1>5, <3>1, FS_EmptySet, Zenon
    <3> QED BY <1>6, <2>3, <3>2, Zenon DEF ThreadsOf
  <2> QED BY <2>1, <2>2, <2>3, Zenon
<1>15. ThreadCountExact'
  <2> SUFFICES ASSUME NEW c \in Slots
               PROVE  /\ proc'[c].threads = Cardinality(ThreadsOf(c)')
                      /\ proc'[c].state = "RUNNING" =>
                           (proc'[c].mainExited <=>
                              Live(c)' = ThreadsOf(c)' /\ ~(shell'.pc = "allocated" /\ shell'.slot = c))
                      /\ proc'[c].state = "RUNNING" =>
                           Live(c)' # {} \/ (shell'.pc = "allocated" /\ shell'.slot = c)
    BY Zenon DEF ThreadCountExact
  <2>1. CASE c # s BY <1>3, <1>8, <1>9, <2>1, SMTT(30) DEF OwnInv, ThreadCountExact
  <2>2. CASE c = s
    <3>1. Live(c)' = Live(s) \ {t} /\ ThreadsOf(c)' = ThreadsOf(s) \ {t} BY <1>4, <2>2, Zenon
    <3>2. proc'[s].threads = Cardinality(ThreadsOf(s) \ {t})
      <4>1. CASE task[t].thread BY <1>7, <1>8, <4>1, Zenon
      <4>2. CASE ~task[t].thread
        <5>1. ThreadsOf(s) \ {t} = ThreadsOf(s) BY <1>6, <4>2, Zenon
        <5> QED BY <1>5, <1>8, <4>2, <5>1, Zenon
      <4> QED BY <4>1, <4>2, Zenon
    <3>3. proc'[s].mainExited <=> Live(s) \ {t} = ThreadsOf(s) \ {t}
      <4>1. CASE task[t].thread
        <5>1. t \in Live(s) /\ t \in ThreadsOf(s) BY <1>1, <1>6, <4>1, Zenon
        <5>2. Live(s) \ {t} = ThreadsOf(s) \ {t} <=> Live(s) = ThreadsOf(s) BY <5>1, SMTT(30)
        <5> QED BY <1>5, <1>8, <4>1, <5>2, Zenon
      <4>2. CASE ~task[t].thread
        <5>1. \A u \in Live(s) \ {t} : u \in ThreadsOf(s)
          BY <4>2, Zenon DEF OwnInv, OneMain, Live, ThreadsOf
        <5>2. ThreadsOf(s) \subseteq Live(s) BY Zenon DEF ThreadsOf
        <5> QED BY <1>8, <4>2, <5>1, <5>2, Zenon
      <4> QED BY <4>1, <4>2, Zenon
    <3>4. ~(shell'.pc = "allocated" /\ shell'.slot = s) BY <1>1, <1>3, Zenon
    <3> QED BY <1>14, <2>2, <3>1, <3>2, <3>3, <3>4, Zenon
  <2> QED BY <2>1, <2>2, Zenon
<1>16. PidsUnique' BY <1>11, SMTT(30) DEF OwnInv, PidsUnique, Used
<1>17. KernelTask'
  <2>1. shell' = shell BY <1>3, Zenon
  <2> QED BY <1>4, <2>1, Zenon DEF OwnInv, KernelTask, SameTask, ProcessAssumption
<1>18. OneMain' BY <1>4, SMTT(30) DEF OwnInv, OneMain, SameTask
<1>19. RunningHasSpace' BY <1>11, Zenon DEF OwnInv, RunningHasSpace
<1>20. LaunchPrivate'
  <2>1. LaunchPrivate BY Zenon DEF OwnInv
  <2>2. Find(shell.pid)' = Find(shell.pid) BY <1>3, <1>11, Zenon DEF Find, Used
  <2>3. shell.pc \in {"picked", "allocated"} =>
          proc'[shell.slot] = proc[shell.slot] /\ Live(shell.slot)' = Live(shell.slot)
    BY <1>1, <1>3, <1>8, <1>9, <2>1, Zenon DEF LaunchPrivate
  <2> QED BY <1>3, <1>11, <2>1, <2>2, <2>3, Zenon DEF LaunchPrivate
<1> QED BY <1>10, <1>12, <1>13, <1>15, <1>16, <1>17, <1>18, <1>19, <1>20, Zenon DEF OwnInv

\* A task that ends keeps the invariant.
LEMMA ExitKeeps ==
  ASSUME ProcessAssumption, OwnInv, NEW t \in Tasks, t # Shell, task[t].used,
         NEW st \in {"ok", "killed"}, ExitTask(t, st)
  PROVE  OwnInv'
<1>1. st \in Statuses BY Zenon DEF Statuses
<1> QED BY <1>1, FinishKeeps, LeaveKeeps, Zenon

-----------------------------------------------------------------------------
(* Creation *)

\* A space that does not exist is nobody's.
LEMMA SpaceFresh ==
  ASSUME ProcessAssumption, OwnInv, NEW sp \in Spaces \ spaces
  PROVE  /\ sp # NoSpace /\ \A s \in Slots : proc[s].space # sp
         /\ shell.pc = "picked" => shell.space # sp
<1>1. sp # NoSpace BY Zenon DEF ProcessAssumption
<1>2. \A s \in Slots : proc[s].state = "RUNNING" => proc[s].space \in spaces
  BY Zenon DEF OwnInv, SpacesPrivate
<1>3. \A s \in Slots : proc[s].state # "RUNNING" => proc[s].space = NoSpace
  BY Zenon DEF OwnInv, RunningHasSpace
<1>4. shell.pc = "picked" => shell.space \in spaces BY Zenon DEF OwnInv, SpacesPrivate
<1> QED BY <1>1, <1>2, <1>3, <1>4

\* The fields of a new task.
LEMMA NewTaskFields ==
  ASSUME NEW s, NEW th \in BOOLEAN, NEW sp
  PROVE  /\ NewTask(s, th, sp).used /\ NewTask(s, th, sp).slot = s /\ NewTask(s, th, sp).space = sp
         /\ NewTask(s, th, sp).thread <=> th
<1>1. /\ NewTask(s, TRUE, sp).used /\ NewTask(s, TRUE, sp).slot = s
      /\ NewTask(s, TRUE, sp).space = sp /\ NewTask(s, TRUE, sp).thread
  BY Zenon DEF NewTask, NoneTask
<1>2. /\ NewTask(s, FALSE, sp).used /\ NewTask(s, FALSE, sp).slot = s
      /\ NewTask(s, FALSE, sp).space = sp /\ ~NewTask(s, FALSE, sp).thread
  BY Zenon DEF NewTask, NoneTask
<1>3. CASE th = TRUE BY <1>1, <1>3, Zenon
<1>4. CASE th = FALSE BY <1>2, <1>4, Zenon
<1> QED BY <1>3, <1>4, Zenon

\* What a new task does to the tasks.
LEMMA NewTaskFacts ==
  ASSUME ProcessAssumption, OwnInv, NEW c \in FreeTasks, NEW s \in Slots, NEW th \in BOOLEAN,
         NEW sp \in Spaces, task' = [task EXCEPT ![c] = NewTask(s, th, sp)]
  PROVE  /\ c \in Tasks /\ c # Shell /\ task' \in [Tasks -> TaskType]
         /\ task'[c].used /\ task'[c].slot = s /\ task'[c].space = sp
         /\ task'[c].thread <=> th
         /\ \A u \in Tasks \ {c} : task'[u] = task[u]
         /\ \A r \in Slots \ {s} : Live(r)' = Live(r) /\ ThreadsOf(r)' = ThreadsOf(r)
         /\ c \notin Live(s) /\ Live(s)' = Live(s) \cup {c}
         /\ th => ThreadsOf(s)' = ThreadsOf(s) \cup {c}
         /\ ~th => ThreadsOf(s)' = ThreadsOf(s)
<1>1. c \in Tasks /\ ~task[c].used BY Zenon DEF FreeTasks
<1>2. c # Shell BY <1>1, Zenon DEF OwnInv, KernelTask
<1>3. task \in [Tasks -> TaskType] BY Zenon DEF OwnInv, TypeOK
<1>4. NewTask(s, th, sp) \in TaskType BY RecordTypes, Zenon
<1>5. task' \in [Tasks -> TaskType] BY <1>1, <1>3, <1>4, Zenon
<1>6. task'[c] = NewTask(s, th, sp) /\ \A u \in Tasks \ {c} : task'[u] = task[u]
  BY <1>1, <1>3, Zenon
<1>7. /\ task'[c].used /\ task'[c].slot = s /\ task'[c].space = sp
      /\ task'[c].thread <=> th
  BY <1>6, NewTaskFields
<1>8. \A r \in Slots \ {s} : Live(r)' = Live(r) /\ ThreadsOf(r)' = ThreadsOf(r)
  <2> SUFFICES ASSUME NEW r \in Slots \ {s} PROVE Live(r)' = Live(r) /\ ThreadsOf(r)' = ThreadsOf(r)
    BY Zenon
  <2>1. Live(r)' = Live(r) BY <1>1, <1>6, <1>7, Zenon DEF Live
  <2>2. \A u \in Live(r) : u # c /\ u \in Tasks BY <1>1, Zenon DEF Live
  <2> QED BY <1>6, <2>1, <2>2, Zenon DEF ThreadsOf
<1>9. c \notin Live(s) BY <1>1, Zenon DEF Live
<1>10. Live(s)' = Live(s) \cup {c} BY <1>1, <1>6, <1>7, Zenon DEF Live
<1>11. (th => ThreadsOf(s)' = ThreadsOf(s) \cup {c}) /\ (~th => ThreadsOf(s)' = ThreadsOf(s))
  <2>1. \A u \in Live(s) : u # c /\ u \in Tasks BY <1>1, Zenon DEF Live
  <2>2. ThreadsOf(s)' = {u \in Live(s) \cup {c} : task'[u].thread} BY <1>10, Zenon DEF ThreadsOf
  <2>3. \A u \in Live(s) : task'[u].thread = task[u].thread BY <1>6, <2>1, Zenon
  <2> QED BY <1>7, <2>2, <2>3, Zenon DEF ThreadsOf
<1> QED BY <1>1, <1>2, <1>5, <1>6, <1>7, <1>8, <1>9, <1>10, <1>11, Zenon

\* A thread of its own process.
LEMMA ThreadCreateKeeps ==
  ASSUME ProcessAssumption, OwnInv, NEW t \in Tasks, ThreadCreate(t)
  PROVE  OwnInv'
<1>1. task[t].used /\ task[t].slot # 0 /\ UNCHANGED <<spaces, nextPid, shell>>
  BY Zenon DEF ThreadCreate, RunsUser, Runs
<1>2. t # Shell BY <1>1, Zenon DEF OwnInv, KernelTask
<1> SUFFICES ASSUME NEW s \in Slots, s = task[t].slot PROVE OwnInv'
  BY <1>1, <1>2, TaskSlot, Zenon
<1>3. /\ proc[s].state = "RUNNING" /\ t \in Live(s) /\ proc[s].space \in spaces
      /\ shell.pc \in {"picked", "allocated"} => shell.slot # s
  BY <1>1, <1>2, TaskSlot, Zenon
<1>4. PICK c \in FreeTasks : /\ proc' = [proc EXCEPT ![s].threads = @ + 1]
                             /\ task' = [task EXCEPT ![c] = NewTask(s, TRUE, proc[s].space)]
  BY Zenon DEF ThreadCreate
<1>5. proc \in [Slots -> ProcType] /\ spaces \subseteq Spaces BY Zenon DEF OwnInv, TypeOK
<1>6. /\ c \in Tasks /\ c # Shell /\ task' \in [Tasks -> TaskType]
      /\ task'[c].used /\ task'[c].slot = s /\ task'[c].thread /\ task'[c].space = proc[s].space
      /\ \A u \in Tasks \ {c} : task'[u] = task[u]
      /\ \A r \in Slots \ {s} : Live(r)' = Live(r) /\ ThreadsOf(r)' = ThreadsOf(r)
      /\ c \notin Live(s) /\ Live(s)' = Live(s) \cup {c} /\ ThreadsOf(s)' = ThreadsOf(s) \cup {c}
  <2>1. proc[s].space \in Spaces BY <1>3, <1>5, Zenon
  <2>2. TRUE \in BOOLEAN /\ task' = [task EXCEPT ![c] = NewTask(s, TRUE, proc[s].space)] BY <1>4,
                                                                                            Zenon
  <2> QED BY <2>1, <2>2, NewTaskFacts, ZenonT(30)
<1>7. proc' = [proc EXCEPT ![s] = [proc[s] EXCEPT !.threads = proc[s].threads + 1]]
  BY <1>4, <1>5, Zenon DEF ProcType
<1>8. proc[s] \in ProcType /\ proc[s].threads \in Nat BY <1>5, Zenon DEF ProcType
<1>9. proc' \in [Slots -> ProcType]
  <2>1. proc[s].threads + 1 \in Nat BY <1>8
  <2>2. [proc[s] EXCEPT !.threads = proc[s].threads + 1] \in ProcType BY <1>8, <2>1, SlotUpdates,
                                                                         Zenon
  <2> QED BY <1>5, <1>7, <2>2, Zenon
<1>10. /\ \A r \in Slots \ {s} : proc'[r] = proc[r]
       /\ proc'[s].threads = proc[s].threads + 1
       /\ proc'[s].state = proc[s].state /\ proc'[s].space = proc[s].space
       /\ proc'[s].pid = proc[s].pid /\ proc'[s].mainExited = proc[s].mainExited
  BY <1>5, <1>7, <1>8, Zenon DEF ProcType
<1>11. \A r \in Slots : /\ proc'[r].state = proc[r].state /\ proc'[r].space = proc[r].space
                        /\ proc'[r].pid = proc[r].pid /\ proc'[r].mainExited = proc[r].mainExited
  BY <1>10, Zenon
<1>12. TypeOK' BY <1>1, <1>6, <1>9, Zenon DEF OwnInv, TypeOK
<1>13. TasksHaveTheirSpace'
  <2> SUFFICES ASSUME NEW u \in Tasks, task'[u].used, u # Shell
               PROVE  /\ proc'[task'[u].slot].state = "RUNNING"
                      /\ task'[u].space = proc'[task'[u].slot].space
                      /\ proc'[task'[u].slot].space \in spaces'
    BY Zenon DEF TasksHaveTheirSpace
  <2>1. CASE u = c BY <1>1, <1>3, <1>6, <1>11, <2>1, Zenon
  <2>2. CASE u # c
    <3>1. task'[u] = task[u] BY <1>6, <2>2, Zenon
    <3> QED BY <1>1, <1>11, <3>1, TaskSlot
  <2> QED BY <2>1, <2>2, Zenon
<1>14. SpacesPrivate'
  <2>1. {proc'[r].space : r \in {q \in Slots : proc'[q].state = "RUNNING"}}
          = {proc[r].space : r \in {q \in Slots : proc[q].state = "RUNNING"}}
    BY <1>11
  <2>2. \A r, q \in Slots : r # q /\ proc'[r].space # NoSpace => proc'[r].space # proc'[q].space
    BY <1>11 DEF OwnInv, SpacesPrivate
  <2> QED BY <1>1, <2>1, <2>2, Zenon DEF OwnInv, SpacesPrivate
<1>15. ThreadCountExact'
  <2> SUFFICES ASSUME NEW r \in Slots
               PROVE  /\ proc'[r].threads = Cardinality(ThreadsOf(r)')
                      /\ proc'[r].state = "RUNNING" =>
                           (proc'[r].mainExited <=>
                              Live(r)' = ThreadsOf(r)' /\ ~(shell'.pc = "allocated" /\ shell'.slot = r))
                      /\ proc'[r].state = "RUNNING" =>
                           Live(r)' # {} \/ (shell'.pc = "allocated" /\ shell'.slot = r)
    BY Zenon DEF ThreadCountExact
  <2>1. CASE r # s BY <1>1, <1>6, <1>10, <2>1, SMTT(30) DEF OwnInv, ThreadCountExact
  <2>2. CASE r = s
    <3>1. Live(r)' = Live(s) \cup {c} /\ ThreadsOf(r)' = ThreadsOf(s) \cup {c} BY <1>6, <2>2, Zenon
    <3>2. IsFiniteSet(ThreadsOf(s)) /\ c \notin ThreadsOf(s) BY <1>6, ThreadsFinite, Zenon DEF ThreadsOf
    <3>3. Cardinality(ThreadsOf(s) \cup {c}) = Cardinality(ThreadsOf(s)) + 1
      BY <3>2, FS_AddElement, Zenon
    <3>4. proc'[s].threads = Cardinality(ThreadsOf(s) \cup {c})
      BY <1>10, <3>3, Zenon DEF OwnInv, ThreadCountExact
    <3>5. Live(s) \cup {c} = ThreadsOf(s) \cup {c} <=> Live(s) = ThreadsOf(s)
      BY <1>6, <3>2, SMTT(30)
    <3>6. proc'[s].mainExited <=> Live(s) = ThreadsOf(s)
      BY <1>3, <1>10, Zenon DEF OwnInv, ThreadCountExact
    <3> QED BY <1>1, <1>3, <2>2, <3>1, <3>4, <3>5, <3>6, Zenon
  <2> QED BY <2>1, <2>2, Zenon
<1>16. PidsUnique' BY <1>11 DEF OwnInv, PidsUnique, Used
<1>17. KernelTask'
  <2>1. s # 0 BY DEF Slots, ProcessAssumption
  <2> QED BY <1>1, <1>6, <2>1, Zenon DEF OwnInv, KernelTask, ProcessAssumption
<1>18. OneMain' BY <1>6, Zenon DEF OwnInv, OneMain
<1>19. RunningHasSpace' BY <1>11, Zenon DEF OwnInv, RunningHasSpace
<1>20. LaunchPrivate'
  <2>1. LaunchPrivate BY Zenon DEF OwnInv
  <2>2. Find(shell.pid)' = Find(shell.pid) BY <1>1, <1>11, Zenon DEF Find, Used
  <2>3. shell.pc \in {"picked", "allocated"} =>
          proc'[shell.slot] = proc[shell.slot] /\ Live(shell.slot)' = Live(shell.slot)
    BY <1>1, <1>3, <1>6, <1>10, <2>1, Zenon DEF LaunchPrivate
  <2> QED BY <1>1, <1>11, <2>1, <2>2, <2>3, Zenon DEF LaunchPrivate
<1> QED BY <1>12, <1>13, <1>14, <1>15, <1>16, <1>17, <1>18, <1>19, <1>20, Zenon DEF OwnInv

\* fork() and spawn(): a free slot, a free pid, a new space and a new task.
LEMMA ForkKeeps ==
  ASSUME ProcessAssumption, OwnInv, shell.pc # "picked",
         NEW s \in Slots, proc[s].state = "UNUSED", NEW pid \in Pids, Find(pid) = {},
         NEW sp \in Spaces \ spaces, NEW c \in FreeTasks, NEW p \in ProcType,
         p.state = "RUNNING", p.pid = pid, p.space = sp, p.threads = 0, ~p.mainExited,
         proc' = [proc EXCEPT ![s] = p], task' = [task EXCEPT ![c] = NewTask(s, FALSE, sp)],
         spaces' = spaces \cup {sp}, nextPid' \in Pids, shell' = shell
  PROVE  OwnInv'
<1>1. proc \in [Slots -> ProcType] /\ spaces \subseteq Spaces BY Zenon DEF OwnInv, TypeOK
<1>2. proc' \in [Slots -> ProcType] /\ proc'[s] = p /\ \A r \in Slots \ {s} : proc'[r] = proc[r]
  BY <1>1, Zenon
<1>3. /\ c \in Tasks /\ c # Shell /\ task' \in [Tasks -> TaskType]
      /\ task'[c].used /\ task'[c].slot = s /\ ~task'[c].thread /\ task'[c].space = sp
      /\ \A u \in Tasks \ {c} : task'[u] = task[u]
      /\ \A r \in Slots \ {s} : Live(r)' = Live(r) /\ ThreadsOf(r)' = ThreadsOf(r)
      /\ Live(s)' = Live(s) \cup {c} /\ ThreadsOf(s)' = ThreadsOf(s)
  BY NewTaskFacts, ZenonT(30)
<1>4. Live(s) = {} /\ ThreadsOf(s) = {} BY NotRunningIsEmpty, Zenon
<1>5. sp # NoSpace /\ \A r \in Slots : proc[r].space # sp BY SpaceFresh, Zenon
<1>6. s # 0 BY DEF Slots, ProcessAssumption
<1>7. shell.pc = "allocated" => shell.slot # s BY Zenon DEF OwnInv, LaunchPrivate
<1>8. TypeOK' BY <1>1, <1>2, <1>3, Zenon DEF OwnInv, TypeOK
<1>9. TasksHaveTheirSpace'
  <2> SUFFICES ASSUME NEW u \in Tasks, task'[u].used, u # Shell
               PROVE  /\ proc'[task'[u].slot].state = "RUNNING"
                      /\ task'[u].space = proc'[task'[u].slot].space
                      /\ proc'[task'[u].slot].space \in spaces'
    BY Zenon DEF TasksHaveTheirSpace
  <2>1. CASE u = c BY <1>2, <1>3, <2>1, ZenonT(30)
  <2>2. CASE u # c
    <3>1. task'[u] = task[u] BY <1>3, <2>2, Zenon
    <3>2. /\ task[u].slot \in Slots /\ proc[task[u].slot].state = "RUNNING"
          /\ task[u].space = proc[task[u].slot].space /\ proc[task[u].slot].space \in spaces
      BY <3>1, TaskSlot, Zenon
    <3>3. proc'[task'[u].slot] = proc[task[u].slot] BY <1>2, <3>1, <3>2, Zenon
    <3>4. proc[task[u].slot].space \in spaces' BY <3>2, Zenon
    <3>5. task'[u].space = proc'[task'[u].slot].space BY <3>1, <3>2, <3>3, Zenon
    <3> QED BY <3>2, <3>3, <3>4, <3>5, Zenon
  <2> QED BY <2>1, <2>2, Zenon
<1>10. SpacesPrivate'
  <2>1. \A r, q \in Slots : r # q /\ proc'[r].space # NoSpace => proc'[r].space # proc'[q].space
    <3>1. \A r, q \in Slots : r # q /\ proc[r].space # NoSpace => proc[r].space # proc[q].space
      BY Zenon DEF OwnInv, SpacesPrivate
    <3> QED BY <1>2, <1>5, <3>1, Zenon
  <2>2. {proc'[r].space : r \in {q \in Slots : proc'[q].state = "RUNNING"}}
          = {proc[r].space : r \in {q \in Slots : proc[q].state = "RUNNING"}} \cup {sp}
    BY <1>2, Zenon
  <2> QED BY <2>1, <2>2, Zenon DEF OwnInv, SpacesPrivate
<1>11. ThreadCountExact'
  <2> SUFFICES ASSUME NEW r \in Slots
               PROVE  /\ proc'[r].threads = Cardinality(ThreadsOf(r)')
                      /\ proc'[r].state = "RUNNING" =>
                           (proc'[r].mainExited <=>
                              Live(r)' = ThreadsOf(r)' /\ ~(shell'.pc = "allocated" /\ shell'.slot = r))
                      /\ proc'[r].state = "RUNNING" =>
                           Live(r)' # {} \/ (shell'.pc = "allocated" /\ shell'.slot = r)
    BY Zenon DEF ThreadCountExact
  <2>1. CASE r # s BY <1>2, <1>3, <2>1, SMTT(30) DEF OwnInv, ThreadCountExact
  <2>2. CASE r = s
    <3>1. proc'[r].threads = Cardinality(ThreadsOf(r)') BY <1>2, <1>3, <1>4, <2>2, FS_EmptySet, Zenon
    <3>2. Live(r)' # {} /\ Live(r)' # ThreadsOf(r)'
      <4>1. Live(r)' = {c} /\ ThreadsOf(r)' = {}
        <5>1. Live(s)' = Live(s) \cup {c} /\ ThreadsOf(s)' = ThreadsOf(s) BY <1>3, Zenon
        <5> QED BY <1>4, <2>2, <5>1, Zenon
      <4> QED BY <4>1, Zenon
    <3>3. ~proc'[r].mainExited BY <1>2, <2>2, Zenon
    <3> QED BY <3>1, <3>2, <3>3, Zenon
  <2> QED BY <2>1, <2>2, Zenon
<1>12. PidsUnique'
  <2>1. \A r \in Slots \ {s} : Used(r) => proc[r].pid # pid BY Zenon DEF Find
  <2> QED BY <1>2, <2>1, Zenon DEF OwnInv, PidsUnique, Used
<1>13. KernelTask' BY <1>3, <1>6, Zenon DEF OwnInv, KernelTask, ProcessAssumption
<1>14. OneMain'
  <2>1. \A u \in Tasks \ {c} : task'[u].used => task'[u].slot # s BY <1>3, <1>4, Zenon DEF Live
  <2> QED BY <1>3, <2>1, ZenonT(30) DEF OwnInv, OneMain
<1>15. RunningHasSpace' BY <1>2, <1>5, Zenon DEF OwnInv, RunningHasSpace
<1>16. LaunchPrivate'
  <2>1. LaunchPrivate BY Zenon DEF OwnInv
  <2>2. shell.pc = "allocated" =>
          proc'[shell.slot] = proc[shell.slot] /\ Live(shell.slot)' = Live(shell.slot)
    BY <1>2, <1>3, <1>7, <2>1, Zenon DEF LaunchPrivate
  <2> QED BY <2>1, <2>2, Zenon DEF LaunchPrivate
<1> QED BY <1>8, <1>9, <1>10, <1>11, <1>12, <1>13, <1>14, <1>15, <1>16, Zenon DEF OwnInv

\* Only next_pid changes.
LEMMA PidOnlyKeeps ==
  ASSUME ProcessAssumption, OwnInv, UNCHANGED <<proc, task, spaces, shell>>, nextPid' \in Pids
  PROVE  OwnInv'
<1>1. TypeOK' BY Zenon DEF OwnInv, TypeOK
<1>2. (\A t \in Tasks : SameTask(t)) /\ (\A s \in Slots : SameSlot(s)) BY Zenon
                                                                          DEF SameTask, SameSlot
<1>3. ~task'[Shell].kill /\ (task'[Shell].op # "run" => shell'.pc = "launched")
  BY Zenon DEF OwnInv, KernelTask
<1> QED BY <1>1, <1>2, <1>3, QuietKeeps, Zenon

\* fork() and spawn(), also when create_task() fails and only next_pid has moved.
LEMMA NewProcessKeeps ==
  ASSUME ProcessAssumption, ~LaunchRaces, OwnInv, NEW t \in Tasks, NewProcess(t)
  PROVE  OwnInv'
<1>1. /\ RunsUser(t) /\ shell.pc # "picked" /\ FreeSlots # {} /\ Attempts # {}
      /\ shell' = shell
  BY Zenon DEF NewProcess
<1>2. t # Shell /\ task[t].used BY <1>1, Zenon DEF RunsUser, Runs, OwnInv, KernelTask
<1>3. nextPid \in Pids BY Zenon DEF OwnInv, TypeOK
<1>4. FirstFree \in Slots /\ proc[FirstFree].state = "UNUSED" BY <1>1, FirstFreeIsFree, Zenon
<1>5. /\ Candidate(Attempt) \in Pids /\ Find(Candidate(Attempt)) = {}
      /\ (Candidate(Attempt) % PidMax) + 1 \in Pids
  BY <1>1, <1>3, PidIsFree, Zenon
<1>6. PidOf(t) \in Pids \cup {0}
  <2>1. task[t].slot \in Slots BY <1>2, TaskSlot, Zenon
  <2> QED BY <2>1, Zenon DEF PidOf, OwnInv, TypeOK, ProcType
<1>7. PICK sp \in Spaces \ spaces :
        /\ nextPid' = (Candidate(Attempt) % PidMax) + 1
        /\ \/ \E c \in FreeTasks :
                /\ proc' = [proc EXCEPT ![FirstFree] =
                              [Allocated(FirstFree, Candidate(Attempt), PidOf(t)) EXCEPT
                                 !.task = c, !.space = sp]]
                /\ task' = [task EXCEPT ![c] = NewTask(FirstFree, FALSE, sp)]
                /\ spaces' = spaces \cup {sp}
           \/ UNCHANGED <<proc, task, spaces>>
  BY Zenon DEF NewProcess
<1>8. CASE UNCHANGED <<proc, task, spaces>> BY <1>1, <1>5, <1>7, <1>8, PidOnlyKeeps, Zenon
<1>9. ASSUME NEW c \in FreeTasks,
             proc' = [proc EXCEPT ![FirstFree] =
                        [Allocated(FirstFree, Candidate(Attempt), PidOf(t)) EXCEPT
                           !.task = c, !.space = sp]],
             task' = [task EXCEPT ![c] = NewTask(FirstFree, FALSE, sp)],
             spaces' = spaces \cup {sp}
      PROVE  OwnInv'
  <2>0. PICK p : p = [Allocated(FirstFree, Candidate(Attempt), PidOf(t)) EXCEPT !.task = c, !.space = sp]
    BY Zenon
  <2>1. c \in Tasks \cup {NoTask} /\ sp \in Spaces BY Zenon DEF FreeTasks
  <2>2. /\ p \in ProcType /\ p.state = "RUNNING" /\ p.pid = Candidate(Attempt) /\ p.space = sp
        /\ p.threads = 0 /\ ~p.mainExited
    <3>1. Candidate(Attempt) \in Pids /\ PidOf(t) \in Pids \cup {0} BY <1>5, <1>6, Zenon
    <3>2. p.state = "RUNNING" /\ p.pid = Candidate(Attempt) /\ p.space = sp /\ p.threads = 0 /\ ~p.mainExited
      BY <2>0, Zenon DEF Allocated, Unused
    <3>3. p \in ProcType
      BY <2>0, <2>1, <3>1, Zenon DEF Allocated, Unused, ProcType, Statuses, Pids
    <3> QED BY <3>2, <3>3, Zenon
  <2>3. proc' = [proc EXCEPT ![FirstFree] = p] BY <1>9, <2>0, Zenon
  <2>4. nextPid' \in Pids BY <1>5, <1>7, Zenon
  <2> QED BY <1>1, <1>4, <1>5, <1>9, <2>2, <2>3, <2>4, ForkKeeps, Zenon
<1> QED BY <1>7, <1>8, <1>9, ZenonT(30)

\* A process that replaces its image is alone in its address space.
LEMMA ExecAlone ==
  ASSUME ProcessAssumption, OwnInv, NEW t \in Tasks, t # Shell, task[t].used,
         proc[task[t].slot].threads = 0
  PROVE  Live(task[t].slot) = {t}
<1>1. task[t].slot \in Slots /\ t \in Live(task[t].slot) BY TaskSlot, Zenon
<1>2. proc[task[t].slot].threads = Cardinality(ThreadsOf(task[t].slot))
  BY <1>1, Zenon DEF OwnInv, ThreadCountExact
<1>3. ThreadsOf(task[t].slot) = {} BY <1>2, ThreadsFinite, FS_EmptySet, Zenon
<1>4. ~task[t].thread BY <1>1, <1>3, Zenon DEF ThreadsOf
<1>5. LastTask(t) BY <1>4, Zenon DEF LastTask
<1> QED BY <1>5, LastTaskIsAlone, Zenon

\* exec(): the old image is destroyed, and nobody else was using it.
LEMMA ExecKeeps ==
  ASSUME ProcessAssumption, OwnInv, NEW t \in Tasks, Exec(t)
  PROVE  OwnInv'
<1>1. /\ t # Shell /\ task[t].used /\ proc[task[t].slot].threads = 0
      /\ shell' = shell /\ nextPid' = nextPid
  BY Zenon DEF Exec, RunsUser, Runs, OwnInv, KernelTask
<1> SUFFICES ASSUME NEW s \in Slots, s = task[t].slot PROVE OwnInv'
  BY <1>1, TaskSlot, Zenon
<1>2. /\ proc[s].state = "RUNNING" /\ t \in Live(s) /\ proc[s].space \in spaces
      /\ proc[s].space # NoSpace
  BY <1>1, TaskSlot, Zenon
<1>3. Live(s) = {t} BY <1>1, ExecAlone, Zenon
<1>4. PICK sp \in Spaces \ spaces :
        /\ proc' = [proc EXCEPT ![s].space = sp]
        /\ task' = [task EXCEPT ![t].space = sp]
        /\ spaces' = (spaces \ {proc[s].space}) \cup {sp}
  BY Zenon DEF Exec
<1>5. sp # NoSpace /\ (\A r \in Slots : proc[r].space # sp) /\ sp \in Spaces BY SpaceFresh, Zenon
<1>6. proc \in [Slots -> ProcType] /\ task \in [Tasks -> TaskType] /\ spaces \subseteq Spaces
  BY Zenon DEF OwnInv, TypeOK
<1>7. proc[s] \in ProcType /\ task[t] \in TaskType BY <1>6, Zenon
<1>8. proc' = [proc EXCEPT ![s] = [proc[s] EXCEPT !.space = sp]] BY <1>4, Zenon
<1>9. [proc[s] EXCEPT !.space = sp] \in ProcType BY <1>5, <1>7, SlotUpdates, Zenon
<1>10. task' = [task EXCEPT ![t] = [task[t] EXCEPT !.space = sp]] BY <1>4, Zenon
<1>11. [task[t] EXCEPT !.space = sp] \in TaskType BY <1>5, <1>7, Zenon DEF TaskType
<1>12. /\ proc' \in [Slots -> ProcType] /\ proc'[s] = [proc[s] EXCEPT !.space = sp]
       /\ \A r \in Slots \ {s} : proc'[r] = proc[r]
  BY <1>6, <1>8, <1>9, Zenon
<1>13. /\ task' \in [Tasks -> TaskType] /\ task'[t] = [task[t] EXCEPT !.space = sp]
       /\ \A u \in Tasks \ {t} : task'[u] = task[u]
  BY <1>6, <1>10, <1>11, Zenon
<1>14. /\ proc'[s].space = sp /\ proc'[s].state = proc[s].state /\ proc'[s].pid = proc[s].pid
       /\ proc'[s].threads = proc[s].threads /\ (proc'[s].mainExited <=> proc[s].mainExited)
  BY <1>7, <1>12, Zenon DEF ProcType
<1>15. /\ task'[t].space = sp /\ task'[t].slot = s
       /\ (task'[t].used <=> task[t].used) /\ (task'[t].thread <=> task[t].thread)
  BY <1>7, <1>13, Zenon DEF TaskType
<1>16. \A r \in Slots \ {s} : proc'[r] = proc[r] BY <1>12, Zenon
<1>17. \A u \in Tasks \ {t} : task'[u] = task[u] BY <1>13, Zenon
<1>18. \A u \in Tasks : /\ task'[u].slot = task[u].slot /\ (task'[u].used <=> task[u].used)
                       /\ (task'[u].thread <=> task[u].thread)
  BY <1>15, <1>17, Zenon
<1>19. \A r : Live(r)' = Live(r) /\ ThreadsOf(r)' = ThreadsOf(r)
  <2> SUFFICES ASSUME NEW r PROVE Live(r)' = Live(r) /\ ThreadsOf(r)' = ThreadsOf(r) BY Zenon
  <2>1. Live(r)' = Live(r) BY <1>18, Zenon DEF Live
  <2>2. ThreadsOf(r)' = ThreadsOf(r) BY <1>18, Zenon DEF ThreadsOf, Live
  <2> QED BY <2>1, <2>2, Zenon
<1>20. TypeOK'
  <2>1. spaces' \subseteq Spaces BY <1>4, <1>5, <1>6, Zenon
  <2> QED BY <1>1, <1>12, <1>13, <2>1, Zenon DEF OwnInv, TypeOK
<1>21. \A r \in Slots : r # s => proc[r].space # proc[s].space
  BY <1>2, Zenon DEF OwnInv, SpacesPrivate
<1>22. TasksHaveTheirSpace'
  <2> SUFFICES ASSUME NEW u \in Tasks, task'[u].used, u # Shell
               PROVE  /\ proc'[task'[u].slot].state = "RUNNING"
                      /\ task'[u].space = proc'[task'[u].slot].space
                      /\ proc'[task'[u].slot].space \in spaces'
    BY Zenon DEF TasksHaveTheirSpace
  <2>1. CASE u = t BY <1>2, <1>4, <1>14, <1>15, <2>1, SMTT(30)
  <2>2. CASE u # t
    <3>1. task'[u] = task[u] BY <1>13, <2>2, Zenon
    <3>2. /\ task[u].slot \in Slots /\ proc[task[u].slot].state = "RUNNING"
          /\ task[u].space = proc[task[u].slot].space /\ proc[task[u].slot].space \in spaces
          /\ u \in Live(task[u].slot)
      BY <3>1, TaskSlot, Zenon
    <3>3. task[u].slot # s BY <1>3, <2>2, <3>2, Zenon
    <3>4. proc'[task'[u].slot] = proc[task[u].slot] BY <1>12, <3>1, <3>2, <3>3, Zenon
    <3>5. proc[task[u].slot].space \in spaces' BY <1>4, <1>21, <3>2, <3>3, Zenon
    <3>6. task'[u].space = proc'[task'[u].slot].space BY <3>1, <3>2, <3>4, Zenon
    <3> QED BY <3>2, <3>4, <3>5, <3>6, Zenon
  <2> QED BY <2>1, <2>2, Zenon
<1>23. SpacesPrivate'
  <2>1. \A r, q \in Slots : r # q /\ proc'[r].space # NoSpace => proc'[r].space # proc'[q].space
    <3>1. \A r, q \in Slots : r # q /\ proc[r].space # NoSpace => proc[r].space # proc[q].space
      BY Zenon DEF OwnInv, SpacesPrivate
    <3> QED BY <1>5, <1>16, <1>14, <3>1, SMTT(30)
  <2>2. spaces = {proc[r].space : r \in {q \in Slots : proc[q].state = "RUNNING"}}
                 \cup (IF shell.pc = "picked" THEN {shell.space} ELSE {})
    BY Zenon DEF OwnInv, SpacesPrivate
  <2>3. {proc'[r].space : r \in {q \in Slots : proc'[q].state = "RUNNING"}}
          = ({proc[r].space : r \in {q \in Slots : proc[q].state = "RUNNING"}} \ {proc[s].space})
            \cup {sp}
    BY <1>2, <1>16, <1>14, <1>21, SMTT(30)
  <2>4. shell.pc = "picked" => shell.space # proc[s].space BY Zenon DEF OwnInv, LaunchPrivate
  <2>5. CASE shell.pc = "picked" BY <1>1, <1>4, <2>1, <2>2, <2>3, <2>4, <2>5, ZenonT(30)
                                    DEF SpacesPrivate
  <2>6. CASE shell.pc # "picked" BY <1>1, <1>4, <2>1, <2>2, <2>3, <2>6, Zenon DEF SpacesPrivate
  <2> QED BY <2>5, <2>6, Zenon
<1>24. ThreadCountExact'
  <2> SUFFICES ASSUME NEW r \in Slots
               PROVE  /\ proc'[r].threads = Cardinality(ThreadsOf(r)')
                      /\ proc'[r].state = "RUNNING" =>
                           (proc'[r].mainExited <=>
                              Live(r)' = ThreadsOf(r)' /\ ~(shell'.pc = "allocated" /\ shell'.slot = r))
                      /\ proc'[r].state = "RUNNING" =>
                           Live(r)' # {} \/ (shell'.pc = "allocated" /\ shell'.slot = r)
    BY Zenon DEF ThreadCountExact
  <2>1. /\ proc'[r].state = proc[r].state /\ proc'[r].threads = proc[r].threads
        /\ (proc'[r].mainExited <=> proc[r].mainExited)
    BY <1>12, <1>14, Zenon
  <2> QED BY <1>1, <1>19, <2>1, Zenon DEF OwnInv, ThreadCountExact
<1>25. \A r \in Slots : proc'[r].state = proc[r].state /\ proc'[r].pid = proc[r].pid
  BY <1>12, <1>14, Zenon
<1>26. PidsUnique' BY <1>25, SMTT(30) DEF OwnInv, PidsUnique, Used
<1>27. KernelTask'
  <2>1. task'[Shell] = task[Shell] BY <1>1, <1>17, Zenon DEF ProcessAssumption
  <2> QED BY <1>1, <1>18, <2>1, Zenon DEF OwnInv, KernelTask
<1>28. OneMain' BY <1>18, Zenon DEF OwnInv, OneMain
<1>29. RunningHasSpace' BY <1>2, <1>5, <1>16, <1>14, SMTT(30) DEF OwnInv, RunningHasSpace
<1>30. LaunchPrivate'
  <2>1. LaunchPrivate BY Zenon DEF OwnInv
  <2>2. shell.pc \in {"picked", "allocated"} => shell.slot # s BY <1>1, TaskSlot, Zenon
  <2>3. CASE shell.pc = "picked"
    <3>1. Find(shell.pid)' = Find(shell.pid) BY <1>1, <1>25, Zenon DEF Find, Used
    <3>2. \A r \in Slots : proc'[r].space # shell.space
      <4>1. shell.space # sp BY <2>3, SpaceFresh, Zenon
      <4>2. \A r \in Slots : proc[r].space # shell.space BY <2>1, <2>3, Zenon DEF LaunchPrivate
      <4> QED BY <1>14, <1>16, <4>1, <4>2, Zenon
    <3>3. proc'[shell.slot].state = "UNUSED" BY <1>25, <2>1, <2>3, Zenon DEF LaunchPrivate
    <3> QED BY <1>1, <2>1, <2>3, <3>1, <3>2, <3>3, Zenon DEF LaunchPrivate
  <2>4. CASE shell.pc = "allocated"
    <3>1. proc'[shell.slot] = proc[shell.slot] BY <1>12, <2>1, <2>2, <2>4, Zenon DEF LaunchPrivate
    <3> QED BY <1>1, <1>19, <2>1, <2>4, <3>1, Zenon DEF LaunchPrivate
  <2>5. CASE shell.pc \notin {"picked", "allocated"} BY <1>1, <2>1, <2>5, Zenon DEF LaunchPrivate
  <2> QED BY <2>3, <2>4, <2>5, Zenon
<1> QED BY <1>20, <1>22, <1>23, <1>24, <1>26, <1>27, <1>28, <1>29, <1>30, Zenon DEF OwnInv

-----------------------------------------------------------------------------
(* The shell's launch *)

\* The shell picks a slot and a pid that are free, and builds an address space.
LEMMA ShellPickKeeps ==
  ASSUME ProcessAssumption, OwnInv, ShellPick
  PROVE  OwnInv'
<1>1. /\ task[Shell].op = "run" /\ shell.pc = "prompt" /\ FreeSlots # {} /\ Attempts # {}
      /\ proc' = proc /\ task' = task /\ nextPid' = (Candidate(Attempt) % PidMax) + 1
  BY Zenon DEF ShellPick, Runs
<1>2. PICK sp \in Spaces \ spaces :
        /\ shell' = [pc |-> "picked", slot |-> FirstFree, pid |-> Candidate(Attempt),
                     space |-> sp, task |-> NoTask]
        /\ spaces' = spaces \cup {sp}
  BY Zenon DEF ShellPick
<1>3. nextPid \in Pids /\ spaces \subseteq Spaces BY Zenon DEF OwnInv, TypeOK
<1>4. FirstFree \in Slots /\ proc[FirstFree].state = "UNUSED" BY <1>1, FirstFreeIsFree, Zenon
<1>5. Candidate(Attempt) \in Pids /\ Find(Candidate(Attempt)) = {} /\ nextPid' \in Pids
  BY <1>1, <1>3, PidIsFree, Zenon
<1>6. sp # NoSpace /\ \A r \in Slots : proc[r].space # sp BY SpaceFresh, Zenon
<1>7. /\ shell'.pc = "picked" /\ shell'.slot = FirstFree /\ shell'.pid = Candidate(Attempt)
      /\ shell'.space = sp
  BY <1>2, Zenon
<1>8. \A r : Live(r)' = Live(r) /\ ThreadsOf(r)' = ThreadsOf(r) BY <1>1, Zenon DEF Live, ThreadsOf
<1>9. \A pid : Find(pid)' = Find(pid) BY <1>1, Zenon DEF Find, Used
<1>10. TypeOK'
  <2>1. shell' \in [pc : {"prompt", "picked", "allocated", "created", "launched"},
                    slot : Slots \cup {0}, pid : Pids \cup {0},
                    space : Spaces \cup {NoSpace}, task : Tasks \cup {NoTask}]
    BY <1>2, <1>4, <1>5, Zenon
  <2>2. spaces' \subseteq Spaces BY <1>2, <1>3, Zenon
  <2> QED BY <1>1, <1>5, <2>1, <2>2, Zenon DEF OwnInv, TypeOK
<1>11. TasksHaveTheirSpace' BY <1>1, <1>2, Zenon DEF OwnInv, TasksHaveTheirSpace
<1>12. SpacesPrivate' BY <1>1, <1>2, <1>7, Zenon DEF OwnInv, SpacesPrivate
<1>13. ThreadCountExact' BY <1>1, <1>7, <1>8, Zenon DEF OwnInv, ThreadCountExact
<1>14. PidsUnique' /\ OneMain' /\ RunningHasSpace'
  BY <1>1, Zenon DEF OwnInv, PidsUnique, Used, OneMain, RunningHasSpace
<1>15. KernelTask' BY <1>1, Zenon DEF OwnInv, KernelTask
<1>16. LaunchPrivate'
  <2>1. proc'[shell'.slot].state = "UNUSED" /\ shell'.pid \in Pids BY <1>1, <1>4, <1>5, <1>7, Zenon
  <2>2. Find(shell.pid)' = {} BY <1>1, <1>5, <1>7, Zenon DEF Find, Used
  <2>3. shell'.space \in Spaces /\ \A s \in Slots : proc'[s].space # shell'.space
    BY <1>1, <1>6, <1>7, Zenon
  <2> QED BY <1>4, <1>7, <2>1, <2>2, <2>3, Zenon DEF LaunchPrivate
<1> QED BY <1>10, <1>11, <1>12, <1>13, <1>14, <1>15, <1>16, Zenon DEF OwnInv

\* The shell fills in the slot it has picked.
LEMMA ShellInitKeeps ==
  ASSUME ProcessAssumption, OwnInv, ShellInit
  PROVE  OwnInv'
<1>1. shell.pc = "picked" /\ task' = task /\ spaces' = spaces /\ nextPid' = nextPid
  BY Zenon DEF ShellInit
<1> SUFFICES ASSUME NEW s \in Slots, s = shell.slot PROVE OwnInv'
  BY <1>1, Zenon DEF OwnInv, LaunchPrivate
<1>2. /\ proc[s].state = "UNUSED" /\ shell.pid \in Pids /\ Find(shell.pid) = {}
      /\ shell.space \in Spaces /\ \A r \in Slots : proc[r].space # shell.space
  BY <1>1, Zenon DEF OwnInv, LaunchPrivate
<1>3. PICK p : p = [Allocated(s, shell.pid, 0) EXCEPT !.space = shell.space] BY Zenon
<1>4. p.state = "RUNNING" /\ p.pid = shell.pid /\ p.space = shell.space /\ p.threads = 0 /\ ~p.mainExited
  BY <1>3, Zenon DEF Allocated, Unused
<1>5. p \in ProcType
  BY <1>2, <1>3, Zenon DEF Allocated, Unused, ProcType, Statuses, Pids
<1>6. proc \in [Slots -> ProcType] BY Zenon DEF OwnInv, TypeOK
<1>7. proc' = [proc EXCEPT ![s] = p] BY <1>3, Zenon DEF ShellInit
<1>8. proc' \in [Slots -> ProcType] /\ proc'[s] = p /\ \A r \in Slots \ {s} : proc'[r] = proc[r]
  BY <1>5, <1>6, <1>7, Zenon
<1>9. proc'[s] = p /\ \A r \in Slots \ {s} : proc'[r] = proc[r] BY <1>8, Zenon
<1>10. shell \in [pc : {"prompt", "picked", "allocated", "created", "launched"},
                  slot : Slots \cup {0}, pid : Pids \cup {0},
                  space : Spaces \cup {NoSpace}, task : Tasks \cup {NoTask}]
  BY Zenon DEF OwnInv, TypeOK
<1>11. shell' = [shell EXCEPT !.pc = "allocated"] BY Zenon DEF ShellInit
<1>12. /\ shell' \in [pc : {"prompt", "picked", "allocated", "created", "launched"},
                     slot : Slots \cup {0}, pid : Pids \cup {0},
                     space : Spaces \cup {NoSpace}, task : Tasks \cup {NoTask}]
       /\ shell'.pc = "allocated" /\ shell'.slot = s /\ shell'.space = shell.space
  BY <1>10, <1>11, Zenon
<1>13. shell'.pc = "allocated" /\ shell'.slot = s /\ shell'.space = shell.space BY <1>12, Zenon
<1>14. \A r : Live(r)' = Live(r) /\ ThreadsOf(r)' = ThreadsOf(r) BY <1>1, Zenon DEF Live, ThreadsOf
<1>15. Live(s) = {} /\ ThreadsOf(s) = {} BY <1>2, NotRunningIsEmpty, Zenon
<1>16. shell.space # NoSpace BY <1>2, Zenon DEF ProcessAssumption
<1>17. TypeOK' BY <1>1, <1>8, <1>12, Zenon DEF OwnInv, TypeOK
<1>18. TasksHaveTheirSpace'
  <2> SUFFICES ASSUME NEW u \in Tasks, task[u].used, u # Shell
               PROVE  /\ proc'[task[u].slot].state = "RUNNING"
                      /\ task[u].space = proc'[task[u].slot].space
                      /\ proc'[task[u].slot].space \in spaces
    BY <1>1, Zenon DEF TasksHaveTheirSpace
  <2>1. /\ task[u].slot \in Slots /\ proc[task[u].slot].state = "RUNNING"
        /\ task[u].space = proc[task[u].slot].space /\ proc[task[u].slot].space \in spaces
    BY TaskSlot, Zenon
  <2>2. proc'[task[u].slot] = proc[task[u].slot] BY <1>2, <1>9, <2>1, Zenon
  <2> QED BY <2>1, <2>2, Zenon
<1>19. SpacesPrivate'
  <2>1. \A r, q \in Slots : r # q /\ proc'[r].space # NoSpace => proc'[r].space # proc'[q].space
    <3>1. \A r, q \in Slots : r # q /\ proc[r].space # NoSpace => proc[r].space # proc[q].space
      BY Zenon DEF OwnInv, SpacesPrivate
    <3> QED BY <1>2, <1>4, <1>9, <3>1
  <2>2. spaces = {proc[r].space : r \in {q \in Slots : proc[q].state = "RUNNING"}} \cup {shell.space}
    BY <1>1, Zenon DEF OwnInv, SpacesPrivate
  <2>3. {proc'[r].space : r \in {q \in Slots : proc'[q].state = "RUNNING"}}
          = {proc[r].space : r \in {q \in Slots : proc[q].state = "RUNNING"}} \cup {shell.space}
    BY <1>2, <1>4, <1>9, SMTT(30)
  <2> QED BY <1>1, <1>13, <2>1, <2>2, <2>3, Zenon DEF SpacesPrivate
<1>20. ThreadCountExact'
  <2> SUFFICES ASSUME NEW r \in Slots
               PROVE  /\ proc'[r].threads = Cardinality(ThreadsOf(r)')
                      /\ proc'[r].state = "RUNNING" =>
                           (proc'[r].mainExited <=>
                              Live(r)' = ThreadsOf(r)' /\ ~(shell'.pc = "allocated" /\ shell'.slot = r))
                      /\ proc'[r].state = "RUNNING" =>
                           Live(r)' # {} \/ (shell'.pc = "allocated" /\ shell'.slot = r)
    BY Zenon DEF ThreadCountExact
  <2>1. CASE r # s BY <1>1, <1>9, <1>13, <1>14, <2>1, SMTT(30) DEF OwnInv, ThreadCountExact
  <2>2. CASE r = s BY <1>4, <1>9, <1>13, <1>14, <1>15, <2>2, FS_EmptySet, Zenon
  <2> QED BY <2>1, <2>2, Zenon
<1>21. PidsUnique'
  <2>1. \A r \in Slots \ {s} : Used(r) => proc[r].pid # shell.pid BY <1>2, Zenon DEF Find
  <2> QED BY <1>4, <1>9, <2>1, SMTT(30) DEF OwnInv, PidsUnique, Used
<1>22. KernelTask' BY <1>1, Zenon DEF OwnInv, KernelTask
<1>23. OneMain' BY <1>1, Zenon DEF OwnInv, OneMain
<1>24. RunningHasSpace' BY <1>4, <1>9, <1>16, Zenon DEF OwnInv, RunningHasSpace
<1>25. LaunchPrivate'
  <2>1. /\ proc'[shell'.slot].state = "RUNNING" /\ proc'[shell'.slot].space = shell'.space
        /\ ~proc'[shell'.slot].mainExited
    BY <1>4, <1>9, <1>13, Zenon
  <2>2. Live(shell.slot)' = {} BY <1>13, <1>14, <1>15, Zenon DEF Live
  <2> QED BY <1>13, <2>1, <2>2, Zenon DEF LaunchPrivate
<1> QED BY <1>17, <1>18, <1>19, <1>20, <1>21, <1>22, <1>23, <1>24, <1>25, Zenon DEF OwnInv

\* create_task() succeeds in a launch: the slot has its task.
LEMMA ShellTaskKeeps ==
  ASSUME ProcessAssumption, OwnInv, shell.pc = "allocated", NEW c \in FreeTasks,
         task' = [task EXCEPT ![c] = NewTask(shell.slot, FALSE, shell.space)],
         shell' = [shell EXCEPT !.pc = "created", !.task = c],
         proc' = proc, spaces' = spaces, nextPid' = nextPid
  PROVE  OwnInv'
<1> SUFFICES ASSUME NEW s \in Slots, s = shell.slot PROVE OwnInv'
  BY Zenon DEF OwnInv, LaunchPrivate
<1>1. /\ proc[s].state = "RUNNING" /\ proc[s].space = shell.space /\ ~proc[s].mainExited
      /\ Live(s) = {}
  BY Zenon DEF OwnInv, LaunchPrivate
<1>2. spaces \subseteq Spaces /\ shell.space \in spaces BY <1>1, Zenon
                                                           DEF OwnInv, TypeOK, SpacesPrivate
<1>3. /\ c \in Tasks /\ c # Shell /\ task' \in [Tasks -> TaskType]
      /\ task'[c].used /\ task'[c].slot = s /\ ~task'[c].thread /\ task'[c].space = shell.space
      /\ \A u \in Tasks \ {c} : task'[u] = task[u]
      /\ \A r \in Slots \ {s} : Live(r)' = Live(r) /\ ThreadsOf(r)' = ThreadsOf(r)
      /\ Live(s)' = Live(s) \cup {c} /\ ThreadsOf(s)' = ThreadsOf(s)
  BY <1>2, NewTaskFacts, ZenonT(30)
<1>4. ThreadsOf(s) = {} BY <1>1, Zenon DEF ThreadsOf
<1>5. shell \in [pc : {"prompt", "picked", "allocated", "created", "launched"},
                 slot : Slots \cup {0}, pid : Pids \cup {0},
                 space : Spaces \cup {NoSpace}, task : Tasks \cup {NoTask}]
  BY Zenon DEF OwnInv, TypeOK
<1>6. /\ shell' \in [pc : {"prompt", "picked", "allocated", "created", "launched"},
                     slot : Slots \cup {0}, pid : Pids \cup {0},
                     space : Spaces \cup {NoSpace}, task : Tasks \cup {NoTask}]
      /\ shell'.pc = "created" /\ shell'.slot = s
  BY <1>3, <1>5, Zenon
<1>7. shell'.pc = "created" /\ shell'.slot = s BY <1>6, Zenon
<1>8. TypeOK' BY <1>3, <1>6, Zenon DEF OwnInv, TypeOK
<1>9. TasksHaveTheirSpace'
  <2> SUFFICES ASSUME NEW u \in Tasks, task'[u].used, u # Shell
               PROVE  /\ proc[task'[u].slot].state = "RUNNING"
                      /\ task'[u].space = proc[task'[u].slot].space
                      /\ proc[task'[u].slot].space \in spaces
    BY Zenon DEF TasksHaveTheirSpace
  <2>1. CASE u = c BY <1>1, <1>2, <1>3, <2>1, Zenon
  <2>2. CASE u # c
    <3>1. task'[u] = task[u] BY <1>3, <2>2, Zenon
    <3> QED BY <3>1, TaskSlot, Zenon
  <2> QED BY <2>1, <2>2, Zenon
<1>10. SpacesPrivate' BY <1>7, Zenon DEF OwnInv, SpacesPrivate
<1>11. ThreadCountExact'
  <2> SUFFICES ASSUME NEW r \in Slots
               PROVE  /\ proc[r].threads = Cardinality(ThreadsOf(r)')
                      /\ proc[r].state = "RUNNING" =>
                           (proc[r].mainExited <=>
                              Live(r)' = ThreadsOf(r)' /\ ~(shell'.pc = "allocated" /\ shell'.slot = r))
                      /\ proc[r].state = "RUNNING" =>
                           Live(r)' # {} \/ (shell'.pc = "allocated" /\ shell'.slot = r)
    BY Zenon DEF ThreadCountExact
  <2>1. CASE r # s
    <3>1. Live(r)' = Live(r) /\ ThreadsOf(r)' = ThreadsOf(r) BY <1>3, <2>1, Zenon
    <3>2. ~(shell.pc = "allocated" /\ shell.slot = r) /\ ~(shell'.pc = "allocated" /\ shell'.slot = r)
      BY <1>7, <2>1, Zenon
    <3> QED BY <3>1, <3>2, Zenon DEF OwnInv, ThreadCountExact
  <2>2. CASE r = s
    <3>1. proc[r].threads = Cardinality(ThreadsOf(r)) BY Zenon DEF OwnInv, ThreadCountExact
    <3> QED BY <1>1, <1>3, <1>4, <1>7, <2>2, <3>1, SMTT(30)
  <2> QED BY <2>1, <2>2, Zenon
<1>12. PidsUnique' /\ RunningHasSpace'
  <2>1. proc' = proc /\ PidsUnique /\ RunningHasSpace BY Zenon DEF OwnInv
  <2> QED BY ONLY <2>1, Zenon DEF PidsUnique, Used, RunningHasSpace
<1>13. KernelTask'
  <2>0. Shell \in Tasks /\ s # 0 BY DEF ProcessAssumption, Slots
  <2>1. task'[Shell] = task[Shell] /\ s # 0
    <3>1. c # Shell /\ \A u \in Tasks \ {c} : task'[u] = task[u] BY <1>3, Zenon
    <3> QED BY ONLY <2>0, <3>1, Zenon
  <2>2. \A u \in Tasks : task'[u].used /\ u # Shell => task'[u].slot # 0
    BY <1>3, <2>1, Zenon DEF OwnInv, KernelTask
  <2> QED BY <2>1, <2>2, Zenon DEF OwnInv, KernelTask
<1>14. OneMain'
  <2>1. \A u \in Tasks \ {c} : task'[u].used => task'[u].slot # s BY <1>1, <1>3, Zenon DEF Live
  <2> QED BY <1>3, <2>1, ZenonT(30) DEF OwnInv, OneMain
<1>15. LaunchPrivate' BY <1>7, Zenon DEF LaunchPrivate
<1> QED BY <1>8, <1>9, <1>10, <1>11, <1>12, <1>13, <1>14, <1>15, Zenon DEF OwnInv

\* create_task() fails in a launch: the slot and the space are given back.
LEMMA ShellFailKeeps ==
  ASSUME ProcessAssumption, OwnInv, shell.pc = "allocated",
         proc' = [proc EXCEPT ![shell.slot] = Unused], spaces' = spaces \ {shell.space},
         shell' = Prompt, task' = task, nextPid' = nextPid
  PROVE  OwnInv'
<1> SUFFICES ASSUME NEW s \in Slots, s = shell.slot PROVE OwnInv'
  BY Zenon DEF OwnInv, LaunchPrivate
<1>1. /\ proc[s].state = "RUNNING" /\ proc[s].space = shell.space /\ proc[s].space # NoSpace
      /\ Live(s) = {}
  BY Zenon DEF OwnInv, LaunchPrivate, RunningHasSpace
<1>2. proc \in [Slots -> ProcType] /\ spaces \subseteq Spaces BY Zenon DEF OwnInv, TypeOK
<1>3. Unused \in ProcType BY RecordTypes, Zenon
<1>4. proc' \in [Slots -> ProcType] /\ proc'[s] = Unused /\ \A r \in Slots \ {s} : proc'[r] = proc[r]
  BY <1>2, <1>3, Zenon
<1>5. /\ proc'[s].state = "UNUSED" /\ proc'[s].space = NoSpace /\ proc'[s].threads = 0
      /\ \A r \in Slots \ {s} : proc'[r] = proc[r]
  BY <1>4, Zenon DEF Unused
<1>6. shell'.pc = "prompt" BY Zenon DEF Prompt
<1>7. \A r : Live(r)' = Live(r) /\ ThreadsOf(r)' = ThreadsOf(r) BY Zenon DEF Live, ThreadsOf
<1>8. ThreadsOf(s) = {} BY <1>1, Zenon DEF ThreadsOf
<1>9. \A r \in Slots : r # s => proc[r].space # proc[s].space BY <1>1, Zenon DEF OwnInv, SpacesPrivate
<1>10. TypeOK'
  <2>1. shell' \in [pc : {"prompt", "picked", "allocated", "created", "launched"},
                    slot : Slots \cup {0}, pid : Pids \cup {0},
                    space : Spaces \cup {NoSpace}, task : Tasks \cup {NoTask}]
    BY Zenon DEF Prompt
  <2>2. spaces' \subseteq Spaces BY <1>2, Zenon
  <2> QED BY <1>4, <2>1, <2>2, Zenon DEF OwnInv, TypeOK
<1>11. TasksHaveTheirSpace'
  <2> SUFFICES ASSUME NEW u \in Tasks, task[u].used, u # Shell
               PROVE  /\ proc'[task[u].slot].state = "RUNNING"
                      /\ task[u].space = proc'[task[u].slot].space
                      /\ proc'[task[u].slot].space \in spaces'
    BY Zenon DEF TasksHaveTheirSpace
  <2>1. /\ task[u].slot \in Slots /\ proc[task[u].slot].state = "RUNNING"
        /\ task[u].space = proc[task[u].slot].space /\ proc[task[u].slot].space \in spaces
        /\ task[u].slot # s
    BY TaskSlot, Zenon
  <2>2. proc'[task[u].slot] = proc[task[u].slot] BY <1>5, <2>1, Zenon
  <2>3. proc[task[u].slot].space \in spaces' BY <1>1, <1>9, <2>1, Zenon
  <2> QED BY <2>1, <2>2, <2>3, Zenon
<1>12. SpacesPrivate'
  <2>1. \A r, q \in Slots : r # q /\ proc'[r].space # NoSpace => proc'[r].space # proc'[q].space
    <3>1. \A r, q \in Slots : r # q /\ proc[r].space # NoSpace => proc[r].space # proc[q].space
      BY Zenon DEF OwnInv, SpacesPrivate
    <3> QED BY <1>5, <3>1
  <2>2. spaces = {proc[r].space : r \in {q \in Slots : proc[q].state = "RUNNING"}}
    BY Zenon DEF OwnInv, SpacesPrivate
  <2>3. {proc'[r].space : r \in {q \in Slots : proc'[q].state = "RUNNING"}}
          = {proc[r].space : r \in {q \in Slots : proc[q].state = "RUNNING"}} \ {shell.space}
    BY <1>1, <1>5, <1>9, SMTT(30)
  <2> QED BY <1>6, <2>1, <2>2, <2>3, Zenon DEF SpacesPrivate
<1>13. ThreadCountExact'
  <2> SUFFICES ASSUME NEW r \in Slots
               PROVE  /\ proc'[r].threads = Cardinality(ThreadsOf(r)')
                      /\ proc'[r].state = "RUNNING" =>
                           (proc'[r].mainExited <=>
                              Live(r)' = ThreadsOf(r)' /\ ~(shell'.pc = "allocated" /\ shell'.slot = r))
                      /\ proc'[r].state = "RUNNING" =>
                           Live(r)' # {} \/ (shell'.pc = "allocated" /\ shell'.slot = r)
    BY Zenon DEF ThreadCountExact
  <2>1. CASE r # s BY <1>5, <1>6, <1>7, <2>1, Zenon DEF OwnInv, ThreadCountExact
  <2>2. CASE r = s BY <1>5, <1>7, <1>8, <2>2, FS_EmptySet, Zenon
  <2> QED BY <2>1, <2>2, Zenon
<1>14. PidsUnique' BY <1>5 DEF OwnInv, PidsUnique, Used
<1>15. KernelTask' BY Zenon DEF OwnInv, KernelTask
<1>16. OneMain' BY Zenon DEF OwnInv, OneMain
<1>17. RunningHasSpace' BY <1>5, Zenon DEF OwnInv, RunningHasSpace
<1>18. LaunchPrivate' BY <1>6, Zenon DEF LaunchPrivate
<1> QED BY <1>10, <1>11, <1>12, <1>13, <1>14, <1>15, <1>16, <1>17, <1>18, Zenon DEF OwnInv

\* create_task() in a launch, either way.
LEMMA ShellCreateKeeps ==
  ASSUME ProcessAssumption, OwnInv, ShellCreate
  PROVE  OwnInv'
BY ShellTaskKeeps, ShellFailKeeps, Zenon DEF ShellCreate
=============================================================================
