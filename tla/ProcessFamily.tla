--------------------------- MODULE ProcessFamily ----------------------------
(***************************************************************************)
(* Waits keep OwnInv of Process, which with WaitsWell is inductive; then,  *)
(* what relates parents and children, FamilyInv: the steps that leave it   *)
(* alone and the end of a task.                                            *)
(***************************************************************************)
EXTENDS ProcessOwners

-----------------------------------------------------------------------------
(* Waiting *)

\* A wait that begins or goes on, or the end of the caller.
LEMMA WaitsOrDiesKeeps ==
  ASSUME ProcessAssumption, OwnInv, NEW t \in Tasks, task[t].used, t = Shell => shell.pc = "launched",
         NEW op \in {"wait", "waitpid", "join"}, NEW s \in Slots \cup {0},
         NEW pid \in Pids \cup {0}, NEW ch \in Chans, WaitsOrDies(t, op, s, pid, ch)
  PROVE  OwnInv'
<1>1. CASE task[t].kill
  <2>1. t # Shell BY <1>1, Zenon DEF OwnInv, KernelTask
  <2>2. ExitTask(t, "killed") BY <1>1, Zenon DEF WaitsOrDies
  <2> QED BY <2>1, <2>2, ExitKeeps, Zenon
<1>2. CASE ~task[t].kill
  <2>1. Parks(t, op, s, pid, ch) /\ UNCHANGED <<spaces, nextPid>> BY <1>2, Zenon DEF WaitsOrDies
  <2> QED BY <2>1, ParksKeeps, Zenon
<1> QED BY <1>1, <1>2, Zenon

\* A call that returns without touching the table.
LEMMA ReturnKeeps ==
  ASSUME ProcessAssumption, OwnInv, NEW t \in Tasks, t = Shell => shell.pc = "launched",
         Leaves(t, proc)
  PROVE  OwnInv'
<1>1. proc \in [Slots -> ProcType] BY Zenon DEF OwnInv, TypeOK
<1> QED BY <1>1, LeavesKeeps, Zenon

\* A call that returns having released the zombie s.
LEMMA ReapKeeps ==
  ASSUME ProcessAssumption, OwnInv, NEW t \in Tasks, t = Shell => shell.pc = "launched",
         NEW s \in Slots, proc[s].state = "ZOMBIE", Leaves(t, [proc EXCEPT ![s] = Unused])
  PROVE  OwnInv'
<1>1. proc \in [Slots -> ProcType] /\ Unused \in ProcType BY RecordTypes, Zenon DEF OwnInv, TypeOK
<1>2. PICK P : P = [proc EXCEPT ![s] = Unused] BY Zenon
<1>3. P \in [Slots -> ProcType] BY <1>1, <1>2, Zenon
<1>4. \A r \in Slots : P[r] = proc[r] \/ (proc[r].state = "ZOMBIE" /\ P[r] = Unused)
  BY <1>1, <1>2, Zenon
<1>5. Leaves(t, P) BY <1>2, Zenon
<1> QED BY <1>3, <1>4, <1>5, LeavesKeeps, Zenon

\* The loop of process_wait().
LEMMA WaitLoopKeeps ==
  ASSUME ProcessAssumption, OwnInv, NEW t \in Tasks, task[t].used, t = Shell => shell.pc = "launched",
         NEW s \in Slots, NEW pid \in Pids \cup {0}, WaitLoop(t, s, pid)
  PROVE  OwnInv'
<1>1. CASE ~Used(s) \/ proc[s].pid # pid \/ proc[s].parent # PidOf(t)
  <2>1. Leaves(t, proc) BY <1>1, Zenon DEF WaitLoop
  <2> QED BY <2>1, ReturnKeeps, Zenon
<1>2. CASE /\ ~(~Used(s) \/ proc[s].pid # pid \/ proc[s].parent # PidOf(t))
           /\ proc[s].state = "RUNNING"
  <2>1. WaitsOrDies(t, "wait", s, pid, <<"process", s>>) BY <1>2, Zenon DEF WaitLoop
  <2>2. <<"process", s>> \in Chans BY Zenon DEF Chans
  <2> QED BY <2>1, <2>2, WaitsOrDiesKeeps, Zenon
<1>3. CASE /\ ~(~Used(s) \/ proc[s].pid # pid \/ proc[s].parent # PidOf(t))
           /\ proc[s].state # "RUNNING"
  <2>1. Leaves(t, [proc EXCEPT ![s] = Unused]) BY <1>3, Zenon DEF WaitLoop
  <2>2. proc[s].state = "ZOMBIE" BY <1>3, Zenon DEF Used, OwnInv, TypeOK, ProcType
  <2> QED BY <2>1, <2>2, ReapKeeps, Zenon
<1> QED BY <1>1, <1>2, <1>3, Zenon

\* The loop of process_waitpid().
LEMMA WaitpidLoopKeeps ==
  ASSUME ProcessAssumption, OwnInv, NEW t \in Tasks, task[t].used, t # Shell,
         NEW pid \in Pids \cup {0}, WaitpidLoop(t, pid)
  PROVE  OwnInv'
<1> DEFINE zombies == {s \in Matching(t, pid) : proc[s].state = "ZOMBIE"}
<1>1. CASE zombies # {}
  <2>1. zombies \in SUBSET Nat BY DEF Matching, Slots, ProcessAssumption
  <2>2. \E s \in zombies : \A r \in zombies : s <= r BY <1>1, <2>1, LeastExists, Zenon
  <2>3. PICK z : z = CHOOSE s \in zombies : \A r \in zombies : s <= r BY Zenon
  <2>4. z \in zombies BY <2>2, <2>3, Zenon
  <2>5. Leaves(t, [proc EXCEPT ![z] = Unused]) BY <1>1, <2>3, Zenon DEF WaitpidLoop
  <2>6. z \in Slots /\ proc[z].state = "ZOMBIE" BY <2>4, Zenon DEF Matching
  <2> QED BY <2>5, <2>6, ReapKeeps, Zenon
<1>2. CASE zombies = {} /\ Matching(t, pid) = {}
  <2>1. Leaves(t, proc) BY <1>2, Zenon DEF WaitpidLoop
  <2> QED BY <2>1, ReturnKeeps, Zenon
<1>3. CASE zombies = {} /\ Matching(t, pid) # {}
  <2>1. WaitsOrDies(t, "waitpid", 0, pid, <<"waitpid_event", task[t].slot>>)
    BY <1>3, Zenon DEF WaitpidLoop
  <2>2. <<"waitpid_event", task[t].slot>> \in Chans BY TaskSlot, Zenon DEF Chans
  <2> QED BY <2>1, <2>2, WaitsOrDiesKeeps, Zenon
<1> QED BY <1>1, <1>2, <1>3, Zenon

\* The loop of process_thread_join().
LEMMA JoinLoopKeeps ==
  ASSUME ProcessAssumption, OwnInv, NEW t \in Tasks, task[t].used, t # Shell, JoinLoop(t)
  PROVE  OwnInv'
<1>1. CASE proc[task[t].slot].threads > 0
  <2>1. WaitsOrDies(t, "join", 0, 0, <<"thread_count", task[t].slot>>) BY <1>1, Zenon DEF JoinLoop
  <2>2. <<"thread_count", task[t].slot>> \in Chans BY TaskSlot, Zenon DEF Chans
  <2> QED BY <2>1, <2>2, WaitsOrDiesKeeps, Zenon
<1>2. CASE ~(proc[task[t].slot].threads > 0)
  <2>1. Leaves(t, proc) BY <1>2, Zenon DEF JoinLoop
  <2> QED BY <2>1, ReturnKeeps, Zenon
<1> QED BY <1>1, <1>2, Zenon

\* A woken task goes round its loop again; WaitsWell says that it can.
LEMMA ResumeKeeps ==
  ASSUME ProcessAssumption, OwnInv, WaitsWell, NEW t \in Tasks, Resume(t)
  PROVE  OwnInv'
<1>1. task[t].used /\ task[t].op # "run" BY Zenon DEF Resume
<1>2. t = Shell => shell.pc = "launched" BY <1>1, Zenon DEF OwnInv, KernelTask
<1>3. task[t].tpid \in Pids \cup {0} /\ task[t].op \in {"run", "wait", "waitpid", "join"}
  BY Zenon DEF OwnInv, TypeOK, TaskType
<1>4. CASE task[t].kill
  <2>1. t # Shell BY <1>4, Zenon DEF OwnInv, KernelTask
  <2>2. ExitTask(t, "killed") BY <1>4, Zenon DEF Resume
  <2> QED BY <1>1, <2>1, <2>2, ExitKeeps, Zenon
<1>5. CASE ~task[t].kill /\ task[t].op = "wait"
  <2>1. WaitLoop(t, task[t].target, task[t].tpid) BY <1>5, Zenon DEF Resume
  <2>2. task[t].target \in Slots BY <1>5, Zenon DEF WaitsWell
  <2> QED BY <1>1, <1>2, <1>3, <2>1, <2>2, WaitLoopKeeps, Zenon
<1>6. CASE ~task[t].kill /\ task[t].op = "waitpid"
  <2>1. WaitpidLoop(t, task[t].tpid) BY <1>6, Zenon DEF Resume
  <2>2. t # Shell BY <1>6, Zenon DEF WaitsWell
  <2> QED BY <1>1, <1>3, <2>1, <2>2, WaitpidLoopKeeps, Zenon
<1>7. CASE ~task[t].kill /\ task[t].op = "join"
  <2>1. JoinLoop(t) BY <1>7, Zenon DEF Resume
  <2>2. t # Shell BY <1>7, Zenon DEF WaitsWell
  <2> QED BY <1>1, <2>1, <2>2, JoinLoopKeeps, Zenon
<1> QED BY <1>1, <1>3, <1>4, <1>5, <1>6, <1>7, Zenon

\* wait(), waitpid() and join() begin.
LEMMA WaitCallsKeep ==
  ASSUME ProcessAssumption, OwnInv, NEW t \in Tasks,
         \/ \E pid \in Pids : Wait(t, pid)
         \/ \E pid \in Pids \cup {0} : Waitpid(t, pid)
         \/ Join(t)
  PROVE  OwnInv'
<1>1. t # Shell /\ task[t].used
  BY Zenon DEF Wait, Waitpid, Join, RunsUser, Runs, OwnInv, KernelTask
<1>2. ASSUME NEW pid \in Pids, Wait(t, pid) PROVE OwnInv'
  <2>1. PICK s \in Find(pid) : WaitLoop(t, s, pid) BY <1>2, Zenon DEF Wait
  <2>2. s \in Slots BY Zenon DEF Find
  <2> QED BY <1>1, <2>1, <2>2, WaitLoopKeeps, Zenon
<1>3. ASSUME NEW pid \in Pids \cup {0}, Waitpid(t, pid) PROVE OwnInv'
  BY <1>1, <1>3, WaitpidLoopKeeps, Zenon DEF Waitpid
<1>4. CASE Join(t) BY <1>1, <1>4, JoinLoopKeeps, Zenon DEF Join
<1> QED BY <1>2, <1>3, <1>4, Zenon

\* The shell waits for its foreground program.
LEMMA ShellWaitKeeps ==
  ASSUME ProcessAssumption, OwnInv, ShellWait
  PROVE  OwnInv'
<1>1. task[Shell].used /\ shell.pc = "launched" /\ Shell \in Tasks
  BY Zenon DEF ShellWait, Runs, ProcessAssumption
<1>2. shell.pid \in Pids \cup {0} BY Zenon DEF OwnInv, TypeOK
<1>3. ASSUME NEW s \in Find(shell.pid), WaitLoop(Shell, s, shell.pid) PROVE OwnInv'
  <2>1. s \in Slots BY Zenon DEF Find
  <2> QED BY <1>1, <1>2, <1>3, <2>1, WaitLoopKeeps, Zenon
<1>4. CASE Leaves(Shell, proc) BY <1>1, <1>4, ReturnKeeps, Zenon
<1> QED BY <1>3, <1>4, Zenon DEF ShellWait

-----------------------------------------------------------------------------
(* The arguments of a wait *)

\* Steps that leave the arguments of every wait as they are, or end it.
LEMMA WaitsWellKept ==
  ASSUME ProcessAssumption, WaitsWell,
         \A u \in Tasks : \/ task'[u].op = task[u].op /\ task'[u].target = task[u].target
                          \/ task'[u].op = "run"
  PROVE  WaitsWell'
BY Zenon DEF WaitsWell, ProcessAssumption

\* A task that ends is in no wait, and the others stay in theirs.
LEMMA ExitWaits ==
  ASSUME ProcessAssumption, OwnInv, WaitsWell, NEW t \in Tasks, NEW st, ExitTask(t, st)
  PROVE  WaitsWell'
<1> DEFINE left == [task EXCEPT ![t] = NoneTask]
           Woken(u) == \/ task[t].thread /\ left[u].chan = <<"thread_count", task[t].slot>>
                       \/ LastTask(t) /\ Notified(u, left[u].chan, task[t].slot)
<1>1. task' = [u \in Tasks |-> IF Woken(u) THEN [left[u] EXCEPT !.chan = NoChan] ELSE left[u]]
  BY Zenon DEF ExitTask
<1>2. task \in [Tasks -> TaskType] /\ NoneTask \in TaskType BY RecordTypes, Zenon DEF OwnInv, TypeOK
<1> SUFFICES ASSUME NEW u \in Tasks
             PROVE  \/ task'[u].op = task[u].op /\ task'[u].target = task[u].target
                    \/ task'[u].op = "run"
  BY WaitsWellKept, Zenon
<1> HIDE DEF Woken
<1>3. left[u] \in TaskType BY <1>2, Zenon
<1>4. (left[u].op = task[u].op /\ left[u].target = task[u].target) \/ left[u].op = "run"
  BY <1>2, Zenon DEF NoneTask
<1> HIDE DEF left
<1>5. task'[u].op = left[u].op /\ task'[u].target = left[u].target
  <2>1. CASE Woken(u)
    <3>1. task'[u] = [left[u] EXCEPT !.chan = NoChan] BY <1>1, <2>1, Zenon
    <3> QED BY <1>3, <3>1, Zenon DEF TaskType
  <2>2. CASE ~Woken(u) BY <1>1, <2>2, Zenon
  <2> QED BY <2>1, <2>2, Zenon
<1> QED BY <1>4, <1>5, Zenon

\* A call that returns is in no wait.
LEMMA LeavesWaits ==
  ASSUME ProcessAssumption, OwnInv, WaitsWell, NEW t \in Tasks, NEW P, Leaves(t, P)
  PROVE  WaitsWell'
<1>1. task' = [task EXCEPT ![t] = [task[t] EXCEPT !.op = "run", !.target = 0, !.tpid = 0, !.chan = NoChan]]
  BY Zenon DEF Leaves, Returns
<1>2. task \in [Tasks -> TaskType] /\ task[t] \in TaskType BY Zenon DEF OwnInv, TypeOK
<1>3. [task[t] EXCEPT !.op = "run", !.target = 0, !.tpid = 0, !.chan = NoChan].op = "run"
  BY <1>2, Zenon DEF TaskType
<1>4. task'[t].op = "run" /\ \A u \in Tasks \ {t} : task'[u] = task[u] BY <1>1, <1>2, <1>3, Zenon
<1> QED BY <1>4, WaitsWellKept, Zenon

\* A wait begins with the arguments that it is given.
LEMMA WaitsOrDiesWaits ==
  ASSUME ProcessAssumption, OwnInv, WaitsWell, NEW t \in Tasks,
         NEW op \in {"wait", "waitpid", "join"}, NEW s \in Slots \cup {0}, NEW pid, NEW ch,
         op = "wait" => s \in Slots, t = Shell => op = "wait", WaitsOrDies(t, op, s, pid, ch)
  PROVE  WaitsWell'
<1>1. CASE task[t].kill BY <1>1, ExitWaits, Zenon DEF WaitsOrDies
<1>2. CASE ~task[t].kill
  <2>1. task' = [task EXCEPT ![t] = [task[t] EXCEPT !.op = op, !.target = s, !.tpid = pid, !.chan = ch]]
    BY <1>2, Zenon DEF WaitsOrDies, Parks
  <2>2. task \in [Tasks -> TaskType] /\ task[t] \in TaskType BY Zenon DEF OwnInv, TypeOK
  <2>3. PICK r : r = [task[t] EXCEPT !.op = op, !.target = s, !.tpid = pid, !.chan = ch] BY Zenon
  <2>4. r.op = op /\ r.target = s BY <2>2, <2>3, Zenon DEF TaskType
  <2>5. task'[t] = r /\ \A u \in Tasks \ {t} : task'[u] = task[u] BY <2>1, <2>2, <2>3, Zenon
  <2> QED BY <2>4, <2>5, Zenon DEF WaitsWell, ProcessAssumption
<1> QED BY <1>1, <1>2, Zenon

\* The three loops.
LEMMA WaitLoopWaits ==
  ASSUME ProcessAssumption, OwnInv, WaitsWell, NEW t \in Tasks, NEW s \in Slots, NEW pid,
         WaitLoop(t, s, pid)
  PROVE  WaitsWell'
<1>1. CASE ~Used(s) \/ proc[s].pid # pid \/ proc[s].parent # PidOf(t)
  <2>1. Leaves(t, proc) BY <1>1, Zenon DEF WaitLoop
  <2> QED BY <2>1, LeavesWaits, Zenon
<1>2. CASE /\ ~(~Used(s) \/ proc[s].pid # pid \/ proc[s].parent # PidOf(t))
           /\ proc[s].state = "RUNNING"
  <2>1. WaitsOrDies(t, "wait", s, pid, <<"process", s>>) BY <1>2, Zenon DEF WaitLoop
  <2> QED BY <2>1, WaitsOrDiesWaits, Zenon
<1>3. CASE /\ ~(~Used(s) \/ proc[s].pid # pid \/ proc[s].parent # PidOf(t))
           /\ proc[s].state # "RUNNING"
  <2>1. Leaves(t, [proc EXCEPT ![s] = Unused]) BY <1>3, Zenon DEF WaitLoop
  <2> QED BY <2>1, LeavesWaits, Zenon
<1> QED BY <1>1, <1>2, <1>3, Zenon

\* ... that of process_waitpid() ...
LEMMA WaitpidLoopWaits ==
  ASSUME ProcessAssumption, OwnInv, WaitsWell, NEW t \in Tasks, t # Shell, NEW pid, WaitpidLoop(t, pid)
  PROVE  WaitsWell'
<1>1. \/ \E P : Leaves(t, P)
      \/ WaitsOrDies(t, "waitpid", 0, pid, <<"waitpid_event", task[t].slot>>)
  BY Zenon DEF WaitpidLoop
<1> QED BY <1>1, LeavesWaits, WaitsOrDiesWaits, Zenon

\* ... and that of process_thread_join().
LEMMA JoinLoopWaits ==
  ASSUME ProcessAssumption, OwnInv, WaitsWell, NEW t \in Tasks, t # Shell, JoinLoop(t)
  PROVE  WaitsWell'
<1>1. \/ Leaves(t, proc)
      \/ WaitsOrDies(t, "join", 0, 0, <<"thread_count", task[t].slot>>)
  BY Zenon DEF JoinLoop
<1> QED BY <1>1, LeavesWaits, WaitsOrDiesWaits, Zenon

\* A new task is in no wait.
LEMMA NewTaskWaits ==
  ASSUME ProcessAssumption, OwnInv, WaitsWell, NEW c \in FreeTasks, NEW s, NEW th, NEW sp,
         task' = [task EXCEPT ![c] = NewTask(s, th, sp)]
  PROVE  WaitsWell'
<1>1. NewTask(s, th, sp).op = "run" BY Zenon DEF NewTask, NoneTask
<1>2. task \in [Tasks -> TaskType] /\ c \in Tasks BY Zenon DEF OwnInv, TypeOK, FreeTasks
<1>3. task'[c].op = "run" /\ \A u \in Tasks \ {c} : task'[u] = task[u] BY <1>1, <1>2, Zenon
<1> QED BY <1>3, WaitsWellKept, Zenon

\* Steps that touch no task.
LEMMA SameTasksWait ==
  ASSUME WaitsWell, task' = task
  PROVE  WaitsWell'
BY Zenon DEF WaitsWell

\* What concerns one task keeps WaitsWell.
LEMMA TaskStepWaits ==
  ASSUME ProcessAssumption, OwnInv, WaitsWell, NEW t \in Tasks,
         \/ Exit(t) \/ TickKill(t) \/ NewProcess(t) \/ Exec(t) \/ ThreadCreate(t)
         \/ Join(t) \/ Resume(t)
         \/ \E pid \in Pids : Wait(t, pid)
         \/ \E pid \in Pids \cup {0} : Waitpid(t, pid)
  PROVE  WaitsWell'
<1>1. CASE Exit(t) BY <1>1, ExitWaits, Zenon DEF Exit
<1>2. CASE TickKill(t) BY <1>2, ExitWaits, Zenon DEF TickKill
<1>3. CASE NewProcess(t)
  <2>1. task' = task \/ \E c \in FreeTasks, sp \in Spaces :
          task' = [task EXCEPT ![c] = NewTask(FirstFree, FALSE, sp)]
    BY <1>3, Zenon DEF NewProcess
  <2> QED BY <2>1, SameTasksWait, NewTaskWaits, Zenon
<1>4. CASE Exec(t)
  <2>1. PICK sp : task' = [task EXCEPT ![t] = [task[t] EXCEPT !.space = sp]] BY <1>4, Zenon DEF Exec
  <2>2. task \in [Tasks -> TaskType] /\ task[t] \in TaskType BY Zenon DEF OwnInv, TypeOK
  <2>3. PICK r : r = [task[t] EXCEPT !.space = sp] BY Zenon
  <2>4. r.op = task[t].op /\ r.target = task[t].target BY <2>2, <2>3, Zenon DEF TaskType
  <2>5. task'[t] = r /\ \A u \in Tasks \ {t} : task'[u] = task[u] BY <2>1, <2>2, <2>3, Zenon
  <2> QED BY <2>4, <2>5, WaitsWellKept, Zenon
<1>5. CASE ThreadCreate(t)
  <2>1. PICK c \in FreeTasks : task' = [task EXCEPT ![c] = NewTask(task[t].slot, TRUE, proc[task[t].slot].space)]
    BY <1>5, Zenon DEF ThreadCreate
  <2> QED BY <2>1, NewTaskWaits, Zenon
<1>6. ASSUME RunsUser(t) PROVE t # Shell
  BY <1>6, Zenon DEF RunsUser, OwnInv, KernelTask
<1>7. CASE Join(t) BY <1>6, <1>7, JoinLoopWaits, Zenon DEF Join
<1>8. CASE Resume(t)
  <2>1. task[t].op # "run" /\ task[t].op \in {"run", "wait", "waitpid", "join"}
    BY <1>8, Zenon DEF Resume, OwnInv, TypeOK, TaskType
  <2>2. CASE task[t].kill BY <1>8, <2>2, ExitWaits, Zenon DEF Resume
  <2>3. CASE ~task[t].kill /\ task[t].op = "wait"
    <3>1. WaitLoop(t, task[t].target, task[t].tpid) BY <1>8, <2>3, Zenon DEF Resume
    <3>2. task[t].target \in Slots BY <2>3, Zenon DEF WaitsWell
    <3> QED BY <3>1, <3>2, WaitLoopWaits, Zenon
  <2>4. CASE ~task[t].kill /\ task[t].op = "waitpid"
    <3>1. WaitpidLoop(t, task[t].tpid) BY <1>8, <2>4, Zenon DEF Resume
    <3>2. t # Shell BY <2>4, Zenon DEF WaitsWell
    <3> QED BY <3>1, <3>2, WaitpidLoopWaits, Zenon
  <2>5. CASE ~task[t].kill /\ task[t].op = "join"
    <3>1. JoinLoop(t) BY <1>8, <2>5, Zenon DEF Resume
    <3>2. t # Shell BY <2>5, Zenon DEF WaitsWell
    <3> QED BY <3>1, <3>2, JoinLoopWaits, Zenon
  <2> QED BY <2>1, <2>2, <2>3, <2>4, <2>5, Zenon
<1>9. ASSUME NEW pid \in Pids, Wait(t, pid) PROVE WaitsWell'
  <2>1. PICK s \in Find(pid) : WaitLoop(t, s, pid) BY <1>9, Zenon DEF Wait
  <2>2. s \in Slots BY Zenon DEF Find
  <2> QED BY <2>1, <2>2, WaitLoopWaits, Zenon
<1>10. ASSUME NEW pid \in Pids \cup {0}, Waitpid(t, pid) PROVE WaitsWell'
  BY <1>6, <1>10, WaitpidLoopWaits, Zenon DEF Waitpid
<1> QED BY <1>1, <1>2, <1>3, <1>4, <1>5, <1>7, <1>8, <1>9, <1>10, Zenon

\* WaitsWell is inductive, with OwnInv.
LEMMA NextWaits ==
  ASSUME ProcessAssumption, OwnInv, WaitsWell, Next
  PROVE  WaitsWell'
<1>1. ASSUME NEW s \in Slots, RequestKill(s) PROVE WaitsWell'
  <2> DEFINE mine == {t \in Tasks : task[t].used /\ task[t].slot = s}
  <2>1. task' = [t \in Tasks |-> IF t \in mine THEN [task[t] EXCEPT !.kill = TRUE, !.chan = NoChan]
                                 ELSE task[t]]
    BY <1>1, Zenon DEF RequestKill
  <2> SUFFICES ASSUME NEW u \in Tasks
               PROVE  task'[u].op = task[u].op /\ task'[u].target = task[u].target
    BY WaitsWellKept, Zenon
  <2>2. task[u] \in TaskType BY Zenon DEF OwnInv, TypeOK
  <2> HIDE DEF mine
  <2>3. CASE u \in mine
    <3>1. task'[u] = [task[u] EXCEPT !.kill = TRUE, !.chan = NoChan] BY <2>1, <2>3, ZenonT(30)
    <3> QED BY <2>2, <3>1, Zenon DEF TaskType
  <2>4. CASE u \notin mine BY <2>1, <2>4, ZenonT(30)
  <2> QED BY <2>3, <2>4, Zenon
<1>2. CASE ShellPick \/ ShellInit \/ ShellSetTask \/ ShellDetach
  BY <1>2, SameTasksWait, ZenonT(30) DEF ShellPick, ShellInit, ShellSetTask, ShellDetach
<1>3. CASE ShellCreate
  <2>1. CASE task' = task BY <2>1, SameTasksWait, Zenon
  <2>2. ASSUME NEW c \in FreeTasks, task' = [task EXCEPT ![c] = NewTask(shell.slot, FALSE, shell.space)]
        PROVE  WaitsWell'
    BY <2>2, NewTaskWaits, Zenon
  <2> QED BY <1>3, <2>1, <2>2, Zenon DEF ShellCreate
<1>4. CASE ShellWait
  <2>1. Shell \in Tasks BY Zenon DEF ProcessAssumption
  <2>2. CASE Leaves(Shell, proc) BY <2>1, <2>2, LeavesWaits, Zenon
  <2>3. ASSUME NEW s \in Find(shell.pid), WaitLoop(Shell, s, shell.pid) PROVE WaitsWell'
    <3>1. s \in Slots BY Zenon DEF Find
    <3> QED BY <2>1, <2>3, <3>1, WaitLoopWaits, Zenon
  <2> QED BY <1>4, <2>2, <2>3, Zenon DEF ShellWait
<1> QED BY <1>1, <1>2, <1>3, <1>4, TaskStepWaits, Zenon DEF Next

-----------------------------------------------------------------------------
(* The invariant of ownership *)

\* OwnInv is inductive, with WaitsWell, as long as launches do not race.
LEMMA NextKeeps ==
  ASSUME ProcessAssumption, ~LaunchRaces, OwnInv, WaitsWell, Next
  PROVE  OwnInv'
<1>1. ASSUME NEW t \in Tasks, Exit(t) \/ TickKill(t) PROVE OwnInv'
  <2>1. /\ t # Shell /\ task[t].used /\ (ExitTask(t, "ok") \/ ExitTask(t, "killed"))
    BY <1>1, Zenon DEF Exit, TickKill, RunsUser, Runs, OwnInv, KernelTask
  <2> QED BY <2>1, ExitKeeps, Zenon
<1> QED BY <1>1, NewProcessKeeps, ExecKeeps, ThreadCreateKeeps, WaitCallsKeep, ResumeKeeps,
           RequestKillKeeps, ShellPickKeeps, ShellInitKeeps, ShellCreateKeeps, LaunchedKeeps,
           ShellWaitKeeps, Zenon
        DEF Next

\* The empty table and the shell's task.
LEMMA InitOwns ==
  ASSUME ProcessAssumption, Init
  PROVE  OwnInv /\ WaitsWell
<1>1. /\ proc = [s \in Slots |-> Unused] /\ spaces = {} /\ nextPid = 1 /\ shell = Prompt
      /\ task = [t \in Tasks |-> IF t = Shell THEN NewTask(0, FALSE, NoSpace) ELSE NoneTask]
      /\ Shell \in Tasks
  BY Zenon DEF Init, ProcessAssumption
<1>2. /\ task[Shell].used /\ task[Shell].slot = 0 /\ ~task[Shell].kill /\ task[Shell].op = "run"
      /\ \A t \in Tasks \ {Shell} : ~task[t].used /\ task[t].op = "run"
  BY <1>1, Zenon DEF NewTask, NoneTask
<1>3. \A s \in Slots : /\ proc[s].state = "UNUSED" /\ proc[s].space = NoSpace /\ proc[s].threads = 0
  BY <1>1, Zenon DEF Unused
<1>4. shell.pc = "prompt" BY <1>1, Zenon DEF Prompt
<1>5. \A s \in Slots : Live(s) = {} /\ ThreadsOf(s) = {}
  BY <1>2 DEF Live, ThreadsOf, Slots, ProcessAssumption
<1>6. TypeOK
  <2>1. Unused \in ProcType /\ NoneTask \in TaskType BY RecordTypes, Zenon
  <2>2. NewTask(0, FALSE, NoSpace) \in TaskType
    BY Zenon DEF NewTask, NoneTask, TaskType, NoChan
  <2>3. shell \in [pc : {"prompt", "picked", "allocated", "created", "launched"},
                   slot : Slots \cup {0}, pid : Pids \cup {0},
                   space : Spaces \cup {NoSpace}, task : Tasks \cup {NoTask}]
    BY <1>1, Zenon DEF Prompt
  <2>4. nextPid \in Pids BY <1>1 DEF Pids, ProcessAssumption
  <2>5. proc \in [Slots -> ProcType] BY <1>1, <2>1, Zenon
  <2>6. task \in [Tasks -> TaskType] BY <1>1, <2>1, <2>2, Zenon
  <2> QED BY <1>1, <2>3, <2>4, <2>5, <2>6, Zenon DEF TypeOK
<1>7. TasksHaveTheirSpace BY <1>2, Zenon DEF TasksHaveTheirSpace
<1>8. SpacesPrivate
  <2>1. {r \in Slots : proc[r].state = "RUNNING"} = {} BY <1>3, Zenon
  <2>2. spaces = {} BY <1>1, Zenon
  <2> QED BY <1>3, <1>4, <2>1, <2>2, Zenon DEF SpacesPrivate
<1>9. ThreadCountExact BY <1>3, <1>5, FS_EmptySet, Zenon DEF ThreadCountExact
<1>10. PidsUnique BY <1>3, Zenon DEF PidsUnique, Used
<1>11. KernelTask BY <1>2, Zenon DEF KernelTask
<1>12. OneMain BY <1>2, Zenon DEF OneMain
<1>13. RunningHasSpace BY <1>3, Zenon DEF RunningHasSpace
<1>14. LaunchPrivate BY <1>4, Zenon DEF LaunchPrivate
<1>15. WaitsWell BY <1>1, <1>2, Zenon DEF WaitsWell
<1> QED BY <1>6, <1>7, <1>8, <1>9, <1>10, <1>11, <1>12, <1>13, <1>14, <1>15, Zenon DEF OwnInv

\* Steps of others.
LEMMA StutterOwns ==
  ASSUME ProcessAssumption, OwnInv, WaitsWell, UNCHANGED vars
  PROVE  OwnInv' /\ WaitsWell'
<1>1. UNCHANGED <<proc, task, spaces, shell>> /\ nextPid' \in Pids BY Zenon DEF vars, OwnInv, TypeOK
<1> QED BY <1>1, PidOnlyKeeps, SameTasksWait, Zenon

-----------------------------------------------------------------------------
(* Steps that leave families alone *)

\* What a family reads of a slot, and what a wait reads of a task, is the same after the
\* step.
SameKin(r) ==
  /\ proc'[r].state = proc[r].state /\ proc'[r].pid = proc[r].pid
  /\ proc'[r].parent = proc[r].parent
SameFamily(r) == SameKin(r) /\ (proc'[r].autoReap <=> proc[r].autoReap)
SameWait(u) ==
  /\ task[u].used => task'[u].used
  /\ task'[u].slot = task[u].slot /\ task'[u].op = task[u].op
  /\ task'[u].target = task[u].target /\ task'[u].tpid = task[u].tpid
  /\ task'[u].chan = task[u].chan

\* A blocked task is in the wait of its channel, for a reason.
WaitsRight(u) ==
  task[u].chan # NoChan =>
    /\ task[u].used /\ HasReason(u)
    /\ \/ task[u].op = "wait" /\ task[u].chan = <<"process", task[u].target>>
       \/ task[u].op = "waitpid" /\ task[u].chan = <<"waitpid_event", task[u].slot>>
       \/ task[u].op = "join" /\ task[u].chan = <<"thread_count", task[u].slot>>

LEMMA WaitsRightAll ==
  ASSUME ChannelOfItsWait, BlockedForAReason
  PROVE  \A u \in Tasks : WaitsRight(u)
BY Zenon DEF WaitsRight, ChannelOfItsWait, BlockedForAReason

LEMMA WaitsRightAfter ==
  ASSUME \A u \in Tasks : WaitsRight(u)'
  PROVE  ChannelOfItsWait' /\ BlockedForAReason'
<1>1. ChannelOfItsWait' BY Zenon DEF WaitsRight, ChannelOfItsWait
<1>2. BlockedForAReason' BY DEF WaitsRight, BlockedForAReason
<1> QED BY <1>1, <1>2, Zenon

\* The children that u waits for.
Awaits(u, r) ==
  /\ proc[r].state = "RUNNING" /\ proc[r].parent = PidOf(u)
  /\ task[u].op = "wait" => task[u].target = r
  /\ task[u].op \in {"wait", "waitpid"}

\* The step leaves u what it waits for.
StillAwaits(u) ==
  /\ PidOf(u)' = PidOf(u)
  /\ \A r \in Slots : Awaits(u, r) => SameKin(r)
  /\ task[u].op = "waitpid" =>
       \A r \in Slots : proc'[r].state # "UNUSED" /\ proc'[r].parent = PidOf(u)
                          => proc'[r].state = "RUNNING" \/ SameKin(r)
  /\ task[u].op = "join" => proc'[task[u].slot].threads > 0

LEMMA ReasonKept ==
  ASSUME WaitsWell, NEW u \in Tasks, WaitsRight(u), SameWait(u), StillAwaits(u)
  PROVE  WaitsRight(u)'
<1> SUFFICES ASSUME task'[u].chan # NoChan PROVE WaitsRight(u)'
  BY Zenon DEF WaitsRight
<1>1. task[u].chan # NoChan BY Zenon DEF SameWait
<1>2. HasReason(u)
  BY <1>1, Zenon DEF WaitsRight
<1>3. ASSUME task[u].op = "wait"
      PROVE  /\ proc'[task[u].target].state = "RUNNING" /\ proc'[task[u].target].pid = task[u].tpid
             /\ proc'[task[u].target].parent = PidOf(u)
  <2>1. task[u].target \in Slots BY <1>3, Zenon DEF WaitsWell
  <2>2. /\ proc[task[u].target].state = "RUNNING" /\ proc[task[u].target].pid = task[u].tpid
        /\ proc[task[u].target].parent = PidOf(u)
    BY <1>2, <1>3, Zenon DEF HasReason
  <2>3. Awaits(u, task[u].target) BY <1>3, <2>2, Zenon DEF Awaits
  <2> QED BY <2>1, <2>2, <2>3, Zenon DEF StillAwaits, SameKin
<1>4. ASSUME task[u].op = "waitpid"
      PROVE  /\ Matching(u, task[u].tpid)' # {}
             /\ \A s \in Matching(u, task[u].tpid)' : proc'[s].state = "RUNNING"
  <2>0. PICK pid : pid = task[u].tpid /\ pid = task'[u].tpid BY Zenon DEF SameWait
  <2>1. Matching(u, pid)' = {s \in Slots : /\ proc'[s].state # "UNUSED" /\ proc'[s].parent = PidOf(u)
                                           /\ pid > 0 => proc'[s].pid = pid}
    BY Zenon DEF StillAwaits, Matching, Used
  <2>2. PICK s \in Matching(u, pid) : proc[s].state = "RUNNING"
    BY <1>2, <1>4, <2>0, Zenon DEF HasReason
  <2>3. s \in Slots /\ proc[s].parent = PidOf(u) /\ (pid > 0 => proc[s].pid = pid)
    BY Zenon DEF Matching
  <2>4. SameKin(s) BY <1>4, <2>2, <2>3, Zenon DEF StillAwaits, Awaits
  <2>5. s \in Matching(u, pid)' BY <2>1, <2>2, <2>3, <2>4 DEF SameKin
  <2>6. ASSUME NEW r \in Matching(u, pid)' PROVE proc'[r].state = "RUNNING"
    <3>1. /\ r \in Slots /\ proc'[r].state # "UNUSED" /\ proc'[r].parent = PidOf(u)
          /\ pid > 0 => proc'[r].pid = pid
      BY <2>1, <2>6, Zenon
    <3>2. CASE SameKin(r)
      <4>1. r \in Matching(u, pid) BY <3>1, <3>2, Zenon DEF SameKin, Matching, Used
      <4> QED BY <1>2, <1>4, <2>0, <3>2, <4>1, Zenon DEF HasReason, SameKin
    <3> QED BY <1>4, <3>1, <3>2, Zenon DEF StillAwaits
  <2>7. task'[u].tpid = pid /\ task[u].tpid = pid BY <2>0, Zenon
  <2> QED BY <2>5, <2>6, <2>7, Zenon DEF Matching
<1>5. HasReason(u)'
  <2>1. /\ task'[u].op = task[u].op /\ task'[u].target = task[u].target
        /\ task'[u].tpid = task[u].tpid /\ task'[u].slot = task[u].slot /\ PidOf(u)' = PidOf(u)
    BY Zenon DEF SameWait, StillAwaits
  <2>2. task'[u].op = "wait" =>
          /\ proc'[task'[u].target].state = "RUNNING" /\ proc'[task'[u].target].pid = task'[u].tpid
          /\ proc'[task'[u].target].parent = PidOf(u)'
    BY <1>3, <2>1, Zenon
  <2>3. task'[u].op = "waitpid" =>
          /\ Matching(u, task[u].tpid)' # {}
          /\ \A s \in Matching(u, task[u].tpid)' : proc'[s].state = "RUNNING"
    BY <1>4, <2>1, Zenon
  <2>4. task'[u].op = "join" => proc'[task'[u].slot].threads > 0
    BY <2>1, Zenon DEF StillAwaits
  <2> QED BY <2>2, <2>3, <2>4, Zenon DEF HasReason
<1> QED BY <1>1, <1>5, Zenon DEF WaitsRight, SameWait

\* A task that is not blocked.
LEMMA NotBlocked ==
  ASSUME NEW u \in Tasks, task'[u].chan = NoChan
  PROVE  WaitsRight(u)'
BY Zenon DEF WaitsRight

\* The pids of a user task and of the shell.
LEMMA UserPid ==
  ASSUME ProcessAssumption, OwnInv, ParentsRun, NEW u \in Tasks, u # Shell, task[u].used
  PROVE  /\ task[u].slot \in Slots /\ PidOf(u) = proc[task[u].slot].pid /\ PidOf(u) # 0
         /\ Used(task[u].slot)
         /\ \A r \in Slots \ {task[u].slot} : Used(r) => proc[r].pid # PidOf(u)
<1>1. task[u].slot \in Slots /\ proc[task[u].slot].state = "RUNNING" BY TaskSlot, Zenon
<1>2. task[u].slot # 0 BY <1>1 DEF Slots, ProcessAssumption
<1>3. Used(task[u].slot) BY <1>1, Zenon DEF Used
<1>4. PidOf(u) = proc[task[u].slot].pid BY <1>2, Zenon DEF PidOf
<1>5. PidOf(u) # 0 BY <1>1, <1>3, <1>4, Zenon DEF ParentsRun
<1> QED BY <1>1, <1>3, <1>4, <1>5, Zenon DEF OwnInv, PidsUnique

LEMMA ShellPid ==
  ASSUME OwnInv
  PROVE  PidOf(Shell) = 0
BY Zenon DEF OwnInv, KernelTask, PidOf

\* The pid of a task whose slot keeps its own.
LEMMA SamePid ==
  ASSUME NEW u, task'[u].slot = task[u].slot,
         task[u].slot = 0 \/ proc'[task[u].slot].pid = proc[task[u].slot].pid
  PROVE  PidOf(u)' = PidOf(u)
BY Zenon DEF PidOf

\* Waits stay right in steps that keep the kin of every slot.
LEMMA KinWaits ==
  ASSUME ProcessAssumption, OwnInv, WaitsWell, FamilyInv, \A r \in Slots : SameKin(r),
         \A u \in Tasks :
           \/ WaitsRight(u)'
           \/ /\ SameWait(u)
              /\ task[u].chan # NoChan /\ task[u].op = "join" => proc'[task[u].slot].threads > 0
  PROVE  \A u \in Tasks : WaitsRight(u)'
<1> SUFFICES ASSUME NEW u \in Tasks, SameWait(u),
                    task[u].chan # NoChan /\ task[u].op = "join" => proc'[task[u].slot].threads > 0
             PROVE  WaitsRight(u)'
  BY Zenon
<1>1. CASE task[u].chan = NoChan BY <1>1, NotBlocked, Zenon DEF SameWait
<1>2. CASE task[u].chan # NoChan
  <2>1. task[u].slot = 0 \/ task[u].slot \in Slots BY Zenon DEF OwnInv, TypeOK, TaskType
  <2>2. PidOf(u)' = PidOf(u) BY <2>1, SamePid, Zenon DEF SameWait, SameKin
  <2>3. StillAwaits(u) BY <1>2, <2>2, Zenon DEF StillAwaits
  <2>4. WaitsRight(u) BY WaitsRightAll, Zenon DEF FamilyInv
  <2> QED BY <2>3, <2>4, ReasonKept, Zenon
<1> QED BY <1>1, <1>2, Zenon

\* How the shell's launch goes on while nothing happens to the table.
ShellGoesOn ==
  \/ shell' = shell
  \/ shell'.pc \in {"prompt", "picked"}
  \/ /\ shell.pc \in {"allocated", "created"} /\ shell'.pc \in {"created", "launched"}
     /\ shell'.slot = shell.slot /\ shell'.pid = shell.pid

\* Steps that change nothing that a family reads, and leave every wait as it is, end it
\* or begin it with a reason.
LEMMA QuietFamily ==
  ASSUME ProcessAssumption, OwnInv, WaitsWell, FamilyInv, \A r \in Slots : SameFamily(r),
         StatusKept', ShellGoesOn,
         \A u \in Tasks :
           \/ WaitsRight(u)'
           \/ /\ SameWait(u)
              /\ task[u].chan # NoChan /\ task[u].op = "join" => proc'[task[u].slot].threads > 0
  PROVE  FamilyInv'
<1>1. \A r \in Slots : SameKin(r) /\ (proc'[r].autoReap <=> proc[r].autoReap)
  BY Zenon DEF SameFamily
<1>3. \A r \in Slots : Used(r)' <=> Used(r) BY <1>1, Zenon DEF SameKin, Used
<1>4. \A p : Find(p)' = Find(p) BY <1>1, <1>3, Zenon DEF Find, SameKin
<1>5. ParentsRun'
  <2> SUFFICES ASSUME NEW r \in Slots, Used(r)'
               PROVE  /\ proc'[r].pid # 0 /\ proc'[r].parent # proc'[r].pid
                      /\ proc'[r].parent # 0 =>
                           \E q \in Find(proc[r].parent)' : proc'[q].state = "RUNNING"
                      /\ proc'[r].autoReap => proc'[r].parent = 0 /\ proc'[r].state = "RUNNING"
    BY Zenon DEF ParentsRun
  <2>1. /\ proc[r].pid # 0 /\ proc[r].parent # proc[r].pid
        /\ proc[r].parent # 0 => \E q \in Find(proc[r].parent) : proc[q].state = "RUNNING"
        /\ proc[r].autoReap => proc[r].parent = 0 /\ proc[r].state = "RUNNING"
    BY <1>3, Zenon DEF FamilyInv, ParentsRun
  <2>2. PICK p : p = proc[r].parent BY Zenon
  <2>3. p # 0 => \E q \in Find(p)' : proc'[q].state = "RUNNING"
    <3>1. p # 0 => \E q \in Find(p) : proc[q].state = "RUNNING" BY <2>1, <2>2, Zenon
    <3>2. \A q \in Find(p) : q \in Slots BY Zenon DEF Find
    <3> QED BY <1>1, <1>4, <3>1, <3>2, Zenon DEF SameKin
  <2>4. proc'[r].parent = p BY <1>1, <2>2, Zenon DEF SameKin
  <2>5. Find(proc[r].parent)' = Find(p)' BY <2>4, Zenon DEF Find
  <2> QED BY <1>1, <2>1, <2>2, <2>3, <2>4, <2>5, Zenon DEF SameKin
<1>6. LaunchedIsTheShells'
  <2>1. LaunchedIsTheShells BY Zenon DEF FamilyInv
  <2>2. CASE shell' = shell
    BY <1>1, <1>3, <2>1, <2>2, ZenonT(30) DEF LaunchedIsTheShells, SameKin
  <2>3. CASE shell'.pc \in {"prompt", "picked"} BY <2>3 DEF LaunchedIsTheShells
  <2>4. CASE /\ shell.pc \in {"allocated", "created"} /\ shell'.pc \in {"created", "launched"}
             /\ shell'.slot = shell.slot /\ shell'.pid = shell.pid
    <3>1. shell'.pc # "allocated" BY <2>4
    <3>2. /\ shell.slot \in Slots /\ Used(shell.slot) /\ proc[shell.slot].pid = shell.pid
          /\ proc[shell.slot].parent = 0 /\ ~proc[shell.slot].autoReap
      BY <2>1, <2>4, Zenon DEF LaunchedIsTheShells
    <3>3. Used(shell.slot)' <=> proc'[shell'.slot].state # "UNUSED" BY Zenon DEF Used
    <3>4. SameKin(shell.slot) /\ ~proc'[shell.slot].autoReap BY <1>1, <3>2, Zenon
    <3> QED BY <2>4, <3>1, <3>2, <3>3, <3>4, Zenon DEF LaunchedIsTheShells, SameKin, Used
  <2> QED BY <2>2, <2>3, <2>4, Zenon DEF ShellGoesOn
<1>7. \A u \in Tasks : WaitsRight(u)' BY <1>1, KinWaits, Zenon
<1>8. ChannelOfItsWait' /\ BlockedForAReason' BY <1>7, WaitsRightAfter, Zenon
<1> QED BY <1>5, <1>6, <1>8, Zenon DEF FamilyInv

\* Steps that leave the table alone.
LEMMA QuietTable ==
  ASSUME ProcessAssumption, OwnInv, WaitsWell, FamilyInv, proc' = proc, ShellGoesOn,
         \A u \in Tasks : WaitsRight(u)' \/ SameWait(u)
  PROVE  FamilyInv'
<1>1. \A r \in Slots : SameFamily(r) BY Zenon DEF SameFamily, SameKin
<1>3. StatusKept' BY Zenon DEF FamilyInv, StatusKept
<1>2. ASSUME NEW u \in Tasks, task[u].chan # NoChan, task[u].op = "join"
      PROVE  proc'[task[u].slot].threads > 0
  BY <1>2, Zenon DEF FamilyInv, BlockedForAReason, HasReason
<1> QED BY <1>1, <1>2, <1>3, QuietFamily, Zenon

\* A task that does not change.
LEMMA SameTaskWaits ==
  ASSUME NEW u \in Tasks, task'[u] = task[u]
  PROVE  SameWait(u)
BY Zenon DEF SameWait

\* A new task is in no wait, and the others stay in theirs.
LEMMA NewTaskQuiet ==
  ASSUME ProcessAssumption, OwnInv, NEW c \in FreeTasks, NEW s, NEW th, NEW sp,
         task' = [task EXCEPT ![c] = NewTask(s, th, sp)]
  PROVE  \A u \in Tasks : IF u = c THEN WaitsRight(u)' ELSE task'[u] = task[u] /\ SameWait(u)
<1>1. task \in [Tasks -> TaskType] /\ c \in Tasks BY Zenon DEF OwnInv, TypeOK, FreeTasks
<1>2. NewTask(s, th, sp).chan = NoChan BY Zenon DEF NewTask, NoneTask
<1>3. task'[c].chan = NoChan /\ \A u \in Tasks \ {c} : task'[u] = task[u]
  BY <1>1, <1>2, Zenon
<1> QED BY <1>1, <1>3, NotBlocked, SameTaskWaits, Zenon

\* A kill request ends the waits of the process it is for.
LEMMA RequestKillFamily ==
  ASSUME ProcessAssumption, OwnInv, WaitsWell, FamilyInv, NEW s \in Slots, RequestKill(s)
  PROVE  FamilyInv'
<1> DEFINE mine == {t \in Tasks : task[t].used /\ task[t].slot = s}
<1>1. /\ proc' = proc /\ shell' = shell
      /\ task' = [t \in Tasks |-> IF t \in mine
                                  THEN [task[t] EXCEPT !.kill = TRUE, !.chan = NoChan]
                                  ELSE task[t]]
  BY Zenon DEF RequestKill
<1> HIDE DEF mine
<1>2. ASSUME NEW u \in Tasks PROVE WaitsRight(u)' \/ SameWait(u)
  <2>1. CASE u \in mine
    <3>1. task'[u] = [task[u] EXCEPT !.kill = TRUE, !.chan = NoChan] BY <1>1, <2>1, ZenonT(30)
    <3>2. task[u] \in TaskType BY Zenon DEF OwnInv, TypeOK
    <3>3. task'[u].chan = NoChan BY <3>1, <3>2, Zenon DEF TaskType
    <3> QED BY <3>3, NotBlocked, Zenon
  <2>2. CASE u \notin mine
    <3>1. task'[u] = task[u] BY <1>1, <2>2, ZenonT(30)
    <3> QED BY <3>1, SameTaskWaits, Zenon
  <2> QED BY <2>1, <2>2, Zenon
<1> QED BY <1>1, <1>2, QuietTable, Zenon DEF ShellGoesOn

\* What a call that returns does to the tasks and to the shell.
LEMMA LeavesTasks ==
  ASSUME ProcessAssumption, OwnInv, NEW t \in Tasks, NEW P, Leaves(t, P)
  PROVE  /\ proc' = P /\ ShellGoesOn /\ (t # Shell => shell' = shell)
         /\ t = Shell => shell' = Prompt
         /\ WaitsRight(t)' /\ \A u \in Tasks \ {t} : task'[u] = task[u]
<1>1. /\ proc' = P /\ shell' = IF t = Shell THEN Prompt ELSE shell
      /\ task' = [task EXCEPT ![t] = [task[t] EXCEPT !.op = "run", !.target = 0, !.tpid = 0, !.chan = NoChan]]
  BY Zenon DEF Leaves, Returns
<1>2. task \in [Tasks -> TaskType] /\ task[t] \in TaskType BY Zenon DEF OwnInv, TypeOK
<1>3. [task[t] EXCEPT !.op = "run", !.target = 0, !.tpid = 0, !.chan = NoChan].chan = NoChan
  BY <1>2, Zenon DEF TaskType
<1>4. task'[t].chan = NoChan /\ \A u \in Tasks \ {t} : task'[u] = task[u] BY <1>1, <1>2, <1>3, Zenon
<1>5. Prompt.pc = "prompt" BY Zenon DEF Prompt
<1> QED BY <1>1, <1>4, <1>5, NotBlocked, Zenon DEF ShellGoesOn

\* A call that returns without touching the table.
LEMMA ReturnFamily ==
  ASSUME ProcessAssumption, OwnInv, WaitsWell, FamilyInv, NEW t \in Tasks, Leaves(t, proc)
  PROVE  FamilyInv'
BY LeavesTasks, SameTaskWaits, QuietTable, Zenon

\* A call that parks its caller, with a reason.
LEMMA ParksFamily ==
  ASSUME ProcessAssumption, OwnInv, WaitsWell, FamilyInv, NEW t \in Tasks, task[t].used,
         NEW op, NEW s \in Slots \cup {0}, NEW pid, NEW ch, Parks(t, op, s, pid, ch),
         \/ /\ op = "wait" /\ ch = <<"process", s>> /\ proc[s].state = "RUNNING"
            /\ proc[s].pid = pid /\ proc[s].parent = PidOf(t)
         \/ /\ op = "waitpid" /\ ch = <<"waitpid_event", task[t].slot>> /\ Matching(t, pid) # {}
            /\ \A r \in Matching(t, pid) : proc[r].state = "RUNNING"
         \/ /\ op = "join" /\ ch = <<"thread_count", task[t].slot>>
            /\ proc[task[t].slot].threads > 0
  PROVE  FamilyInv'
<1>1. /\ proc' = proc /\ shell' = shell
      /\ task' = [task EXCEPT ![t] = [task[t] EXCEPT !.op = op, !.target = s, !.tpid = pid, !.chan = ch]]
  BY Zenon DEF Parks
<1>2. task \in [Tasks -> TaskType] /\ task[t] \in TaskType BY Zenon DEF OwnInv, TypeOK
<1>3. PICK r : r = [task[t] EXCEPT !.op = op, !.target = s, !.tpid = pid, !.chan = ch] BY Zenon
<1>4. /\ r.op = op /\ r.target = s /\ r.tpid = pid /\ r.chan = ch /\ r.slot = task[t].slot
      /\ r.used = task[t].used
  BY <1>2, <1>3, Zenon DEF TaskType
<1>5. task'[t] = r /\ \A u \in Tasks \ {t} : task'[u] = task[u] BY <1>1, <1>2, <1>3, Zenon
<1>6. PidOf(t)' = PidOf(t) BY <1>1, <1>4, <1>5, SamePid, Zenon
<1>7. task'[t].tpid = pid BY <1>4, <1>5, Zenon
<1>8. Matching(t, task[t].tpid)' = Matching(t, pid) BY <1>1, <1>6, <1>7, Zenon DEF Matching, Used
<1>9. HasReason(t)' BY <1>1, <1>4, <1>5, <1>6, <1>7, <1>8 DEF HasReason
<1>10. WaitsRight(t)' BY <1>4, <1>5, <1>9, Zenon DEF WaitsRight
<1> QED BY <1>1, <1>5, <1>10, SameTaskWaits, QuietTable, Zenon DEF ShellGoesOn

-----------------------------------------------------------------------------
(* The end of a task *)

\* What the end of t does to the waits of others: it wakes those that it has to, and
\* leaves the rest.
LEMMA ExitWakes ==
  ASSUME ProcessAssumption, OwnInv, NEW t \in Tasks, t # Shell, NEW st, ExitTask(t, st)
  PROVE  /\ shell' = shell /\ WaitsRight(t)'
         /\ \A u \in Tasks \ {t} :
              \/ WaitsRight(u)'
              \/ /\ task'[u] = task[u] /\ SameWait(u)
                 /\ task[t].thread => task[u].chan # <<"thread_count", task[t].slot>>
                 /\ LastTask(t) => ~Notified(u, task[u].chan, task[t].slot)
<1> DEFINE left == [task EXCEPT ![t] = NoneTask]
           Woken(u) == \/ task[t].thread /\ left[u].chan = <<"thread_count", task[t].slot>>
                       \/ LastTask(t) /\ Notified(u, left[u].chan, task[t].slot)
<1>1. /\ task' = [u \in Tasks |-> IF Woken(u) THEN [left[u] EXCEPT !.chan = NoChan] ELSE left[u]]
      /\ shell' = shell
  BY Zenon DEF ExitTask
<1>2. task \in [Tasks -> TaskType] /\ NoneTask \in TaskType BY RecordTypes, Zenon DEF OwnInv, TypeOK
<1>3. left \in [Tasks -> TaskType] /\ left[t] = NoneTask /\ \A u \in Tasks \ {t} : left[u] = task[u]
  BY <1>2, Zenon
<1>4. NoneTask.chan = NoChan BY Zenon DEF NoneTask
<1>5. \A u \in Tasks \ {t} :
        ~Woken(u) => /\ task[t].thread => task[u].chan # <<"thread_count", task[t].slot>>
                     /\ LastTask(t) => ~Notified(u, task[u].chan, task[t].slot)
  BY <1>3, Zenon
<1> HIDE DEF Woken, left
<1>6. \A u \in Tasks : Woken(u) => task'[u].chan = NoChan
  <2> SUFFICES ASSUME NEW u \in Tasks, Woken(u) PROVE task'[u].chan = NoChan
    BY Zenon
  <2>1. task'[u] = [left[u] EXCEPT !.chan = NoChan] /\ left[u] \in TaskType BY <1>1, <1>3, Zenon
  <2> QED BY <2>1, Zenon DEF TaskType
<1>7. \A u \in Tasks : ~Woken(u) => task'[u] = left[u] BY <1>1, Zenon
<1>8. WaitsRight(t)'
  <2>1. task'[t].chan = NoChan BY <1>3, <1>4, <1>6, <1>7, Zenon
  <2> QED BY <2>1, NotBlocked, Zenon
<1>9. ASSUME NEW u \in Tasks \ {t} PROVE WaitsRight(u)' \/ (~Woken(u) /\ task'[u] = task[u] /\ SameWait(u))
  <2>1. CASE Woken(u) BY <1>6, <2>1, NotBlocked, Zenon
  <2>2. CASE ~Woken(u) BY <1>3, <1>7, <2>2, SameTaskWaits, Zenon
  <2> QED BY <2>1, <2>2, Zenon
<1> QED BY <1>1, <1>5, <1>8, <1>9, Zenon

\* A task that others of its process outlive.
LEMMA LeaveFamily ==
  ASSUME ProcessAssumption, OwnInv, WaitsWell, FamilyInv, NEW t \in Tasks, t # Shell, task[t].used,
         NEW st \in {"ok", "killed"}, ExitTask(t, st), ~LastTask(t)
  PROVE  FamilyInv'
<1> SUFFICES ASSUME NEW s \in Slots, s = task[t].slot PROVE FamilyInv'
  BY TaskSlot, Zenon
<1>1. proc \in [Slots -> ProcType] /\ proc[s] \in ProcType BY Zenon DEF OwnInv, TypeOK
<1>2. /\ shell' = shell /\ WaitsRight(t)'
      /\ \A u \in Tasks \ {t} : \/ WaitsRight(u)'
                                 \/ /\ SameWait(u)
                                    /\ task[t].thread => task[u].chan # <<"thread_count", s>>
  BY ExitWakes, Zenon
<1>3. \A u \in Tasks : task[u].chan # NoChan /\ task[u].op = "join" =>
        /\ task[u].chan = <<"thread_count", task[u].slot>>
        /\ proc[task[u].slot].threads > 0
  BY DEF FamilyInv, BlockedForAReason, HasReason, ChannelOfItsWait
<1>4. CASE task[t].thread
  <2>1. proc' = [proc EXCEPT ![s] = [proc[s] EXCEPT !.threads = @ - 1]] BY <1>4, Zenon DEF ExitTask
  <2>2. PICK p : p = [proc[s] EXCEPT !.threads = @ - 1] BY Zenon
  <2>3. /\ p.state = proc[s].state /\ p.pid = proc[s].pid /\ p.parent = proc[s].parent
        /\ p.autoReap = proc[s].autoReap /\ p.mainExited = proc[s].mainExited
        /\ p.status = proc[s].status /\ p.main = proc[s].main
    BY <1>1, <2>2, Zenon DEF ProcType
  <2>4. proc'[s] = p /\ \A r \in Slots \ {s} : proc'[r] = proc[r] BY <1>1, <2>1, <2>2, Zenon
  <2>5. \A r \in Slots : SameFamily(r) BY <2>3, <2>4, Zenon DEF SameFamily, SameKin
  <2>6. StatusKept'
    <3>1. StatusRight(proc[s]) BY Zenon DEF FamilyInv, StatusKept
    <3>2. StatusRight(p) BY <2>3, <3>1, Zenon DEF StatusRight
    <3> QED BY <2>4, <3>2, Zenon DEF FamilyInv, StatusKept
  <2>7. ASSUME NEW u \in Tasks \ {t}, task[u].chan # <<"thread_count", s>>,
               task[u].chan # NoChan, task[u].op = "join"
        PROVE  proc'[task[u].slot].threads > 0
    <3>1. task[u].slot # s BY <1>3, <2>7, Zenon
    <3>2. task[u].slot \in Slots
      <4>1. task[u].used BY <2>7, Zenon DEF FamilyInv, ChannelOfItsWait
      <4>2. u # Shell BY <2>7, Zenon DEF WaitsWell
      <4> QED BY <4>1, <4>2, TaskSlot, Zenon
    <3> QED BY <1>3, <2>4, <2>7, <3>1, <3>2, Zenon
  <2> QED BY <1>2, <1>4, <2>5, <2>6, <2>7, QuietFamily, ZenonT(30) DEF ShellGoesOn
<1>5. CASE ~task[t].thread
  <2>1. proc' = [proc EXCEPT ![s] = [proc[s] EXCEPT !.mainExited = TRUE, !.status = st,
                                                   !.task = NoTask, !.main = st]]
    BY <1>5, Zenon DEF ExitTask
  <2>2. PICK p : p = [proc[s] EXCEPT !.mainExited = TRUE, !.status = st, !.task = NoTask, !.main = st]
    BY Zenon
  <2>3. /\ p.state = proc[s].state /\ p.pid = proc[s].pid /\ p.parent = proc[s].parent
        /\ p.autoReap = proc[s].autoReap /\ p.mainExited /\ p.threads = proc[s].threads
        /\ p.status = st /\ p.main = st
    BY <1>1, <2>2, ZenonT(30) DEF ProcType
  <2>4. proc'[s] = p /\ \A r \in Slots \ {s} : proc'[r] = proc[r] BY <1>1, <2>1, <2>2, Zenon
  <2>5. \A r \in Slots : SameFamily(r) BY <2>3, <2>4, Zenon DEF SameFamily, SameKin
  <2>6. st # "none" OBVIOUS
  <2>7. StatusKept'
    <3>1. StatusRight(proc[s]) BY Zenon DEF FamilyInv, StatusKept
    <3>2. proc[s].state # "ZOMBIE" BY TaskSlot
    <3>3. StatusRight(p) BY <2>3, <2>6, <3>2, Zenon DEF StatusRight
    <3> QED BY <2>4, <3>3, Zenon DEF FamilyInv, StatusKept
  <2>8. \A r \in Slots : proc'[r].threads = proc[r].threads BY <2>3, <2>4, Zenon
  <2>9. ASSUME NEW u \in Tasks, task[u].chan # NoChan, task[u].op = "join"
        PROVE  proc'[task[u].slot].threads > 0
    <3>1. task[u].used BY <2>9, Zenon DEF FamilyInv, ChannelOfItsWait
    <3>2. u # Shell BY <2>9, Zenon DEF WaitsWell
    <3>3. task[u].slot \in Slots BY <3>1, <3>2, TaskSlot, Zenon
    <3> QED BY <1>3, <2>8, <2>9, <3>3, Zenon
  <2> QED BY <1>2, <2>5, <2>7, <2>9, QuietFamily, ZenonT(30) DEF ShellGoesOn
<1> QED BY <1>4, <1>5, Zenon

\* The families after a process is finished: its children are orphans or released, and it
\* stays its parent's, or is released.
Orphan(c) ==
  /\ proc[c].state = "RUNNING" /\ proc'[c].state = "RUNNING"
  /\ proc'[c].pid = proc[c].pid /\ proc'[c].parent = 0 /\ proc'[c].autoReap
  /\ proc'[c].threads = proc[c].threads
Reaped(c) == proc[c].state = "ZOMBIE" /\ proc'[c] = Unused

LEMMA FinishedKin ==
  ASSUME ProcessAssumption, OwnInv, FamilyInv, NEW s \in Slots, NEW st,
         proc[s].state = "RUNNING", proc[s].main \in {"none", st}, proc' = FinishedProc(s, st)
  PROVE  /\ \A c \in Slots \ {s} :
              IF Used(c) /\ proc[c].parent = proc[s].pid THEN Orphan(c) \/ Reaped(c)
              ELSE proc'[c] = proc[c]
         /\ IF proc[s].autoReap THEN proc'[s] = Unused
            ELSE /\ proc'[s].state = "ZOMBIE" /\ proc'[s].pid = proc[s].pid
                 /\ proc'[s].parent = proc[s].parent /\ ~proc'[s].autoReap
         /\ StatusKept'
<1>1. \A c \in Slots : proc[c] \in ProcType BY Zenon DEF OwnInv, TypeOK
<1>2. StatusRight(Unused) BY DEF StatusRight, Unused
<1>3. ASSUME NEW c \in Slots \ {s}, Used(c), proc[c].parent = proc[s].pid
      PROVE  (Orphan(c) \/ Reaped(c)) /\ StatusRight(proc'[c])
  <2>1. proc'[c] = Orphaned(c) BY <1>3, Zenon DEF FinishedProc
  <2>2. CASE proc[c].state = "ZOMBIE" BY <1>2, <2>1, <2>2, Zenon DEF Orphaned, Reaped
  <2>3. CASE proc[c].state # "ZOMBIE"
    <3>1. proc[c].state = "RUNNING" BY <1>1, <1>3, <2>3, Zenon DEF Used, ProcType
    <3>2. proc'[c] = [proc[c] EXCEPT !.parent = 0, !.autoReap = TRUE] BY <2>1, <2>3, Zenon DEF Orphaned
    <3>3. proc[c] \in ProcType BY <1>1, Zenon
    <3>4. /\ proc'[c].state = proc[c].state /\ proc'[c].pid = proc[c].pid
          /\ proc'[c].parent = 0 /\ proc'[c].autoReap
          /\ proc'[c].threads = proc[c].threads /\ proc'[c].mainExited = proc[c].mainExited
          /\ proc'[c].status = proc[c].status /\ proc'[c].main = proc[c].main
      BY <3>2, <3>3, Zenon DEF ProcType
    <3>5. StatusRight(proc[c]) BY Zenon DEF FamilyInv, StatusKept
    <3>6. StatusRight(proc'[c]) BY <3>4, <3>5, Zenon DEF StatusRight
    <3> QED BY <3>1, <3>4, <3>6, Zenon DEF Orphan
  <2> QED BY <2>2, <2>3, Zenon
<1>4. ASSUME NEW c \in Slots \ {s}, ~(Used(c) /\ proc[c].parent = proc[s].pid)
      PROVE  proc'[c] = proc[c]
  BY <1>4, Zenon DEF FinishedProc
<1>5. CASE proc[s].autoReap
  <2>1. proc'[s] = Unused BY <1>5, Zenon DEF FinishedProc
  <2>2. StatusKept' BY <1>2, <1>3, <1>4, <2>1, Zenon DEF FamilyInv, StatusKept
  <2> QED BY <1>3, <1>4, <1>5, <2>1, <2>2, Zenon
<1>6. CASE ~proc[s].autoReap
  <2>1. proc'[s] = [proc[s] EXCEPT !.state = "ZOMBIE", !.task = NoTask, !.space = NoSpace,
                       !.threads = 0, !.status = st, !.main = IF @ = "none" THEN st ELSE @]
    BY <1>6, Zenon DEF FinishedProc
  <2>2. proc[s] \in ProcType BY <1>1, Zenon
  <2>3. /\ proc'[s].state = "ZOMBIE" /\ proc'[s].pid = proc[s].pid
        /\ proc'[s].parent = proc[s].parent /\ ~proc'[s].autoReap
    BY <1>6, <2>1, <2>2, Zenon DEF ProcType
  <2>4. proc'[s].status = st /\ proc'[s].main = IF proc[s].main = "none" THEN st ELSE proc[s].main
    BY <2>1, <2>2, Zenon DEF ProcType
  <2>5. StatusRight(proc'[s]) BY <2>3, <2>4 DEF StatusRight
  <2>6. StatusKept' BY <1>2, <1>3, <1>4, <2>5, Zenon DEF FamilyInv, StatusKept
  <2> QED BY <1>3, <1>4, <1>6, <2>3, <2>6, Zenon
<1> QED BY <1>5, <1>6, Zenon

\* A process that ends has no status of a main task yet, or ends with it.
LEMMA EndStatusRight ==
  ASSUME ProcessAssumption, OwnInv, FamilyInv, NEW t \in Tasks, t # Shell, task[t].used,
         NEW st, LastTask(t)
  PROVE  proc[task[t].slot].main \in {"none", EndStatus(t, st)}
<1>1. /\ task[t].slot \in Slots /\ proc[task[t].slot].state = "RUNNING" /\ t \in Live(task[t].slot)
      /\ shell.pc \in {"picked", "allocated"} => shell.slot # task[t].slot
  BY TaskSlot, Zenon
<1>2. StatusRight(proc[task[t].slot]) BY <1>1, Zenon DEF FamilyInv, StatusKept
<1>3. CASE task[t].thread
  <2>1. proc[task[t].slot].mainExited /\ EndStatus(t, st) = proc[task[t].slot].status
    BY <1>3, Zenon DEF LastTask, EndStatus
  <2> QED BY <1>1, <1>2, <2>1, Zenon DEF StatusRight
<1>4. CASE ~task[t].thread
  <2>1. Live(task[t].slot) # ThreadsOf(task[t].slot) BY <1>1, <1>4, Zenon DEF ThreadsOf
  <2>2. ~proc[task[t].slot].mainExited BY <1>1, <2>1, Zenon DEF OwnInv, ThreadCountExact
  <2> QED BY <1>1, <1>2, <2>2, Zenon DEF StatusRight
<1> QED BY <1>3, <1>4, Zenon

\* The last task finishes its process: whoever waits for it is woken, its children are
\* orphans, and the shell's program stays the shell's.
LEMMA FinishFamily ==
  ASSUME ProcessAssumption, OwnInv, WaitsWell, FamilyInv, NEW t \in Tasks, t # Shell, task[t].used,
         NEW st, ExitTask(t, st), LastTask(t)
  PROVE  FamilyInv'
<1> SUFFICES ASSUME NEW s \in Slots, s = task[t].slot PROVE FamilyInv'
  BY TaskSlot, Zenon
<1>0. ParentsRun /\ LaunchedIsTheShells /\ ChannelOfItsWait /\ BlockedForAReason
  BY Zenon DEF FamilyInv
<1>1. /\ proc[s].state = "RUNNING" /\ Live(s) = {t} /\ Used(s)
      /\ shell.pc \in {"picked", "allocated"} => shell.slot # s
  BY TaskSlot, LastTaskIsAlone, Zenon DEF Used
<1>2. PICK e : e = EndStatus(t, st) BY Zenon
<1>3. proc' = FinishedProc(s, e) /\ proc[s].main \in {"none", e}
  BY <1>2, EndStatusRight, Zenon DEF ExitTask
<1>4. /\ \A c \in Slots \ {s} :
           IF Used(c) /\ proc[c].parent = proc[s].pid THEN Orphan(c) \/ Reaped(c)
           ELSE proc'[c] = proc[c]
      /\ IF proc[s].autoReap THEN proc'[s] = Unused
         ELSE /\ proc'[s].state = "ZOMBIE" /\ proc'[s].pid = proc[s].pid
              /\ proc'[s].parent = proc[s].parent /\ ~proc'[s].autoReap
      /\ StatusKept'
  BY <1>1, <1>3, FinishedKin, Zenon
<1>5. proc[s].pid # 0 /\ proc[s].parent # proc[s].pid BY <1>0, <1>1, Zenon DEF ParentsRun
<1>6. Unused.state = "UNUSED" BY Zenon DEF Unused
<1>7. \A q \in Slots \ {s} : proc[q].state = "RUNNING" =>
        proc'[q].state = "RUNNING" /\ proc'[q].pid = proc[q].pid
  BY <1>4 DEF Orphan, Reaped
<1>8. \A p : p # proc[s].pid /\ (\E q \in Find(p) : proc[q].state = "RUNNING")
              => \E q \in Find(p)' : proc'[q].state = "RUNNING"
  <2> SUFFICES ASSUME NEW p, p # proc[s].pid, NEW q \in Find(p), proc[q].state = "RUNNING"
               PROVE  q \in Find(p)' /\ proc'[q].state = "RUNNING"
    BY Zenon
  <2>1. q \in Slots /\ proc[q].pid = p BY Zenon DEF Find
  <2>2. q # s BY <2>1, Zenon
  <2>3. proc'[q].state = "RUNNING" /\ proc'[q].pid = p BY <1>7, <2>1, <2>2, Zenon
  <2> QED BY <2>1, <2>3 DEF Find, Used
<1>9. \A r \in Slots \ {s} : proc'[r].state # "UNUSED" =>
        \/ Orphan(r)
        \/ Used(r) /\ proc[r].parent # proc[s].pid /\ proc'[r] = proc[r]
  BY <1>4, <1>6, Zenon DEF Reaped, Used
<1>10. ParentsRun'
  <2> SUFFICES ASSUME NEW r \in Slots, proc'[r].state # "UNUSED"
               PROVE  /\ proc'[r].pid # 0 /\ proc'[r].parent # proc'[r].pid
                      /\ proc'[r].parent # 0 =>
                           \E q \in Find(proc[r].parent)' : proc'[q].state = "RUNNING"
                      /\ proc'[r].autoReap => proc'[r].parent = 0 /\ proc'[r].state = "RUNNING"
    BY Zenon DEF ParentsRun, Used
  <2>1. PICK p : p = proc'[r].parent BY Zenon
  <2>2. Find(proc[r].parent)' = Find(p)' BY <2>1, Zenon DEF Find
  <2>3. CASE r # s /\ Orphan(r)
    <3>1. proc[r].pid # 0 BY <1>0, <2>3 DEF ParentsRun, Orphan, Used
    <3> QED BY <2>3, <3>1, Zenon DEF Orphan
  <2>4. CASE r = s \/ (Used(r) /\ proc[r].parent # proc[s].pid /\ proc'[r] = proc[r])
    <3>1. Used(r) /\ proc[r].parent # proc[s].pid BY <1>1, <1>5, <2>4, Zenon
    <3>2. /\ proc'[r].pid = proc[r].pid /\ proc'[r].parent = proc[r].parent
          /\ proc'[r].autoReap => r # s /\ proc[r].autoReap /\ proc'[r].state = proc[r].state
      BY <1>4, <1>6, <2>4, Zenon
    <3>3. /\ proc[r].pid # 0 /\ proc[r].parent # proc[r].pid
          /\ proc[r].parent # 0 => \E q \in Find(proc[r].parent) : proc[q].state = "RUNNING"
          /\ proc[r].autoReap => proc[r].parent = 0 /\ proc[r].state = "RUNNING"
      BY <1>0, <3>1, Zenon DEF ParentsRun
    <3>4. p = proc[r].parent BY <2>1, <3>2, Zenon
    <3>5. p # 0 => \E q \in Find(p)' : proc'[q].state = "RUNNING" BY <1>8, <3>1, <3>3, <3>4, Zenon
    <3> QED BY <2>1, <2>2, <3>2, <3>3, <3>5, Zenon
  <2> QED BY <1>9, <2>3, <2>4, Zenon
<1>11. shell' = shell BY ExitWakes, Zenon
<1>12. LaunchedIsTheShells'
  <2> DEFINE l == shell.slot
  <2>1. ASSUME shell.pc \in {"allocated", "created", "launched"}
        PROVE  /\ l \in Slots /\ proc'[l].state # "UNUSED" /\ proc'[l].pid = shell.pid
               /\ proc'[l].parent = 0 /\ ~proc'[l].autoReap /\ shell.pid # 0
    <3>1. /\ l \in Slots /\ Used(l) /\ proc[l].pid = shell.pid
          /\ proc[l].parent = 0 /\ ~proc[l].autoReap
      BY <1>0, <2>1, Zenon DEF LaunchedIsTheShells
    <3>2. shell.pid # 0 BY <1>0, <3>1, Zenon DEF ParentsRun
    <3>3. CASE l = s BY <1>4, <3>1, <3>2, <3>3
    <3>4. CASE l # s BY <1>4, <1>5, <3>1, <3>2, <3>4, Zenon DEF Used
    <3> QED BY <3>3, <3>4, Zenon
  <2>2. ASSUME shell.pc = "allocated", NEW c \in Slots, proc'[c].state # "UNUSED"
        PROVE  proc'[c].parent # shell.pid
    <3>1. shell.pid # 0 BY <2>1, <2>2
    <3>2. proc'[c].parent = 0 \/ (Used(c) /\ proc'[c].parent = proc[c].parent)
      BY <1>1, <1>4, <1>6, <1>9, <2>2, Zenon DEF Orphan
    <3> QED BY <1>0, <2>2, <3>1, <3>2, Zenon DEF LaunchedIsTheShells
  <2> QED BY <1>11, <2>1, <2>2, Zenon DEF LaunchedIsTheShells, Used
<1>13. \A u \in Tasks : WaitsRight(u)'
  <2> SUFFICES ASSUME NEW u \in Tasks, u # t, task[u].chan # NoChan, task'[u] = task[u], SameWait(u),
                      ~Notified(u, task[u].chan, s)
               PROVE  WaitsRight(u)'
    BY ExitWakes, NotBlocked, Zenon
  <2>1. WaitsRight(u) BY <1>0, WaitsRightAll, Zenon
  <2>2. task[u].used BY <2>1, Zenon DEF WaitsRight
  <2>3. u # Shell => /\ task[u].slot \in Slots /\ PidOf(u) = proc[task[u].slot].pid /\ PidOf(u) # 0
                     /\ Used(task[u].slot) /\ proc[task[u].slot].state = "RUNNING"
                     /\ task[u].slot # s
    <3>1. task[u].slot # s BY <1>1, <2>2, Zenon DEF Live
    <3> QED BY <1>0, <2>2, <3>1, UserPid, TaskSlot, Zenon
  <2>4. u = Shell => PidOf(u) = 0 /\ task[u].slot = 0 BY ShellPid, Zenon DEF OwnInv, KernelTask
  <2>5. PidOf(u) # proc[s].pid BY <1>1, <1>5, <2>3, <2>4, Zenon DEF OwnInv, PidsUnique
  <2>6. PidOf(u)' = PidOf(u) BY <1>7, <2>3, <2>4, SamePid, Zenon
  <2>7. task[u].op = "waitpid" =>
          u # Shell /\ task[u].chan = <<"waitpid_event", task[u].slot>>
    BY <2>1 DEF WaitsRight, WaitsWell
  <2>8. task[u].op = "wait" => task[u].chan = <<"process", task[u].target>>
    BY <2>1 DEF WaitsRight
  <2>9. task[u].op = "waitpid" => proc[s].parent # PidOf(u)
    <3> SUFFICES ASSUME task[u].op = "waitpid", proc[s].parent = PidOf(u) PROVE FALSE
      BY Zenon
    <3>1. task[u].slot \in Find(proc[s].parent) BY <2>3, <2>7, Zenon DEF Find
    <3>2. proc[s].parent > 0
      <4>1. proc[s].parent \in Pids \cup {0} BY Zenon DEF OwnInv, TypeOK, ProcType
      <4>2. proc[s].parent # 0 BY <2>3, <2>7, Zenon
      <4> QED BY <4>1, <4>2 DEF Pids
    <3> QED BY <2>7, <3>1, <3>2, Zenon DEF Notified
  <2>10. task[u].op = "wait" => task[u].target # s BY <2>8, Zenon DEF Notified
  <2>11. \A r \in Slots : Awaits(u, r) => SameKin(r)
    <3> SUFFICES ASSUME NEW r \in Slots, Awaits(u, r) PROVE SameKin(r)
      BY Zenon
    <3>1. r # s BY <2>9, <2>10 DEF Awaits
    <3>2. proc'[r] = proc[r] BY <1>4, <2>5, <3>1, Zenon DEF Awaits
    <3> QED BY <3>2, Zenon DEF SameKin
  <2>12. task[u].op = "waitpid" =>
           \A r \in Slots : proc'[r].state # "UNUSED" /\ proc'[r].parent = PidOf(u)
                              => proc'[r].state = "RUNNING" \/ SameKin(r)
    <3> SUFFICES ASSUME task[u].op = "waitpid", NEW r \in Slots, proc'[r].state # "UNUSED",
                        proc'[r].parent = PidOf(u)
                 PROVE  proc'[r].state = "RUNNING" \/ SameKin(r)
      BY Zenon
    <3>1. CASE r = s BY <1>4, <1>6, <2>9, <3>1, Zenon
    <3>2. CASE r # s BY <1>9, <3>2, Zenon DEF Orphan, SameKin
    <3> QED BY <3>1, <3>2, Zenon
  <2>13. task[u].op = "join" => proc'[task[u].slot].threads > 0
    <3> SUFFICES ASSUME task[u].op = "join" PROVE proc'[task[u].slot].threads > 0
      BY Zenon
    <3>1. u # Shell BY DEF WaitsWell
    <3>2. proc[task[u].slot].threads > 0 BY <2>1, Zenon DEF WaitsRight, HasReason
    <3>3. proc'[task[u].slot].threads = proc[task[u].slot].threads
      BY <1>4, <2>3, <3>1 DEF Orphan, Reaped
    <3> QED BY <3>2, <3>3, Zenon
  <2> QED BY <2>1, <2>6, <2>11, <2>12, <2>13, ReasonKept, Zenon DEF StillAwaits
<1>14. ChannelOfItsWait' /\ BlockedForAReason' BY <1>13, WaitsRightAfter, Zenon
<1> QED BY <1>4, <1>10, <1>12, <1>14, Zenon DEF FamilyInv

\* A task that ends keeps families as they have to be.
LEMMA ExitFamily ==
  ASSUME ProcessAssumption, OwnInv, WaitsWell, FamilyInv, NEW t \in Tasks, t # Shell, task[t].used,
         NEW st \in {"ok", "killed"}, ExitTask(t, st)
  PROVE  FamilyInv'
BY FinishFamily, LeaveFamily, Zenon
=============================================================================
