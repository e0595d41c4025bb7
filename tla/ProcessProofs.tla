--------------------------- MODULE ProcessProofs ----------------------------
(***************************************************************************)
(* The process table of process.c for any number of processes, tasks,      *)
(* threads and pids: slots that are filled in and released, waits, and the *)
(* theorems that the inductive invariant of Process gives.                 *)
(***************************************************************************)
EXTENDS ProcessFamily

-----------------------------------------------------------------------------
(* Slots that are filled in and released *)

\* Nobody waits for a slot that does not run, so that it may be filled in or released.
LEMMA SlotWaits ==
  ASSUME ProcessAssumption, OwnInv, WaitsWell, FamilyInv, NEW z \in Slots,
         proc[z].state # "RUNNING", proc'[z].state \in {"RUNNING", "UNUSED"},
         \A r \in Slots \ {z} : proc'[r] = proc[r],
         \A u \in Tasks : WaitsRight(u)' \/ task'[u] = task[u]
  PROVE  \A u \in Tasks : WaitsRight(u)'
<1> SUFFICES ASSUME NEW u \in Tasks, task[u].chan # NoChan, task'[u] = task[u]
             PROVE  WaitsRight(u)'
  BY NotBlocked, Zenon
<1>1. WaitsRight(u) /\ SameWait(u) BY WaitsRightAll, SameTaskWaits, Zenon DEF FamilyInv
<1>2. task[u].used BY <1>1, Zenon DEF WaitsRight
<1>3. u # Shell => task[u].slot \in Slots \ {z} BY <1>2, TaskSlot, Zenon
<1>4. u = Shell => task[u].slot = 0 BY Zenon DEF OwnInv, KernelTask
<1>5. PidOf(u)' = PidOf(u) BY <1>3, <1>4, SamePid, Zenon
<1>6. \A r \in Slots \ {z} : SameKin(r) BY Zenon DEF SameKin
<1>7. \A r \in Slots : Awaits(u, r) => SameKin(r) BY <1>6, Zenon DEF Awaits
<1>8. \A r \in Slots : proc'[r].state # "UNUSED" => proc'[r].state = "RUNNING" \/ SameKin(r)
  BY <1>6
<1>9. task[u].op = "join" => proc'[task[u].slot].threads > 0
  <2> SUFFICES ASSUME task[u].op = "join" PROVE proc'[task[u].slot].threads > 0
    BY Zenon
  <2>1. u # Shell BY DEF WaitsWell
  <2>2. proc[task[u].slot].threads > 0 BY <1>1, Zenon DEF WaitsRight, HasReason
  <2> QED BY <1>3, <2>1, <2>2, Zenon
<1> QED BY <1>1, <1>5, <1>7, <1>8, <1>9, ReasonKept, Zenon DEF StillAwaits

\* A slot is released whose process has ended, or has no children.
LEMMA ReleaseKin ==
  ASSUME ProcessAssumption, OwnInv, FamilyInv, NEW z \in Slots,
         \/ proc[z].state = "ZOMBIE"
         \/ \A c \in Slots : Used(c) => proc[c].parent # proc[z].pid,
         proc'[z] = Unused, \A r \in Slots \ {z} : proc'[r] = proc[r],
         \/ shell'.pc = "prompt"
         \/ /\ shell' = shell
            /\ shell.pc \in {"allocated", "created", "launched"} => shell.slot # z
  PROVE  ParentsRun' /\ StatusKept' /\ LaunchedIsTheShells'
<1>0. ParentsRun /\ LaunchedIsTheShells /\ StatusKept BY Zenon DEF FamilyInv
<1>1. Unused.state = "UNUSED" BY Zenon DEF Unused
<1>2. StatusRight(Unused) BY DEF StatusRight, Unused
<1>3. StatusKept' BY <1>0, <1>2, Zenon DEF StatusKept
<1>4. \A r \in Slots : proc'[r].state # "UNUSED" => r # z /\ Used(r) /\ proc'[r] = proc[r]
  BY <1>1, Zenon DEF Used
<1>5. ParentsRun'
  <2> SUFFICES ASSUME NEW r \in Slots, proc'[r].state # "UNUSED"
               PROVE  /\ proc'[r].pid # 0 /\ proc'[r].parent # proc'[r].pid
                      /\ proc'[r].parent # 0 =>
                           \E q \in Find(proc[r].parent)' : proc'[q].state = "RUNNING"
                      /\ proc'[r].autoReap => proc'[r].parent = 0 /\ proc'[r].state = "RUNNING"
    BY Zenon DEF ParentsRun, Used
  <2>1. proc'[r] = proc[r] /\ Used(r) BY <1>4, Zenon
  <2>2. PICK p : p = proc'[r].parent BY Zenon
  <2>3. Find(proc[r].parent)' = Find(p)' BY <2>2, Zenon DEF Find
  <2>4. p = proc[r].parent BY <2>1, <2>2, Zenon
  <2>5. /\ proc[r].pid # 0 /\ proc[r].parent # proc[r].pid
        /\ proc[r].parent # 0 => \E q \in Find(proc[r].parent) : proc[q].state = "RUNNING"
        /\ proc[r].autoReap => proc[r].parent = 0 /\ proc[r].state = "RUNNING"
    BY <1>0, <2>1, Zenon DEF ParentsRun
  <2>6. ASSUME p # 0 PROVE \E q \in Find(p)' : proc'[q].state = "RUNNING"
    <3>1. PICK q \in Find(p) : proc[q].state = "RUNNING" BY <2>4, <2>5, <2>6, Zenon
    <3>2. q \in Slots /\ Used(q) /\ proc[q].pid = p BY Zenon DEF Find
    <3>3. q # z BY <2>1, <2>4, <3>1, <3>2
    <3>4. q \in Find(p)' BY <3>2, <3>3, Zenon DEF Find, Used
    <3> QED BY <3>1, <3>2, <3>3, <3>4, Zenon
  <2> QED BY <2>1, <2>2, <2>3, <2>5, <2>6, Zenon
<1>6. LaunchedIsTheShells'
  <2>1. CASE shell'.pc = "prompt" BY <2>1 DEF LaunchedIsTheShells
  <2>2. CASE /\ shell' = shell
             /\ shell.pc \in {"allocated", "created", "launched"} => shell.slot # z
    <3>1. ASSUME shell.pc \in {"allocated", "created", "launched"}
          PROVE  /\ shell.slot \in Slots /\ proc'[shell.slot].state # "UNUSED"
                 /\ proc'[shell.slot].pid = shell.pid
                 /\ proc'[shell.slot].parent = 0 /\ ~proc'[shell.slot].autoReap
      BY <1>0, <2>2, <3>1, Zenon DEF LaunchedIsTheShells, Used
    <3>2. ASSUME shell.pc = "allocated", NEW c \in Slots, proc'[c].state # "UNUSED"
          PROVE  proc'[c].parent # shell.pid
      BY <1>0, <1>4, <3>2, Zenon DEF LaunchedIsTheShells
    <3> QED BY <2>2, <3>1, <3>2, Zenon DEF LaunchedIsTheShells, Used
  <2> QED BY <2>1, <2>2, Zenon
<1> QED BY <1>3, <1>5, <1>6, Zenon

\* A parent collects a child that has ended.
LEMMA ReapFamily ==
  ASSUME ProcessAssumption, OwnInv, WaitsWell, FamilyInv, NEW t \in Tasks, task[t].used,
         NEW z \in Slots, proc[z].state = "ZOMBIE", proc[z].parent = PidOf(t),
         Leaves(t, [proc EXCEPT ![z] = Unused])
  PROVE  FamilyInv'
<1>1. proc \in [Slots -> ProcType] BY Zenon DEF OwnInv, TypeOK
<1>2. PICK P : P = [proc EXCEPT ![z] = Unused] BY Zenon
<1>3. P[z] = Unused /\ \A r \in Slots \ {z} : P[r] = proc[r] BY <1>1, <1>2, Zenon
<1>4. Leaves(t, P) BY <1>2, Zenon
<1>5. /\ proc' = P /\ (t # Shell => shell' = shell) /\ (t = Shell => shell' = Prompt)
      /\ WaitsRight(t)' /\ \A u \in Tasks \ {t} : task'[u] = task[u]
  BY <1>4, LeavesTasks, Zenon
<1>6. ASSUME t # Shell, shell.pc \in {"allocated", "created", "launched"} PROVE shell.slot # z
  <2>1. PidOf(t) # 0 BY <1>6, UserPid, Zenon DEF FamilyInv
  <2>2. LaunchedIsTheShells BY Zenon DEF FamilyInv
  <2>3. proc[shell.slot].parent = 0 BY <1>6, <2>2, Zenon DEF LaunchedIsTheShells
  <2> QED BY <2>1, <2>3, Zenon
<1>7. Prompt.pc = "prompt" BY Zenon DEF Prompt
<1>8. ParentsRun' /\ StatusKept' /\ LaunchedIsTheShells'
  BY <1>3, <1>5, <1>6, <1>7, ReleaseKin, Zenon
<1>9. proc'[z].state \in {"RUNNING", "UNUSED"} BY <1>3, <1>5 DEF Unused
<1>10. proc[z].state # "RUNNING" OBVIOUS
<1>11. \A u \in Tasks : WaitsRight(u)' BY <1>3, <1>5, <1>9, <1>10, SlotWaits, Zenon
<1> QED BY <1>8, <1>11, WaitsRightAfter, Zenon DEF FamilyInv

\* A free slot is filled in: by fork() and spawn() for a child of a process that runs, or by
\* the shell.
LEMMA BirthFamily ==
  ASSUME ProcessAssumption, OwnInv, WaitsWell, FamilyInv, NEW s \in Slots, proc[s].state = "UNUSED",
         NEW p, p.state = "RUNNING", p.pid # 0, Find(p.pid) = {}, ~p.autoReap, StatusRight(p),
         p.parent = 0 \/ \E q \in Find(p.parent) : proc[q].state = "RUNNING",
         proc' = [proc EXCEPT ![s] = p],
         \/ shell' = shell /\ (shell.pc = "allocated" => p.parent # shell.pid)
         \/ shell'.pc = "allocated" /\ shell'.slot = s /\ shell'.pid = p.pid /\ p.parent = 0,
         \A u \in Tasks : WaitsRight(u)' \/ task'[u] = task[u]
  PROVE  FamilyInv'
<1>0. ParentsRun /\ LaunchedIsTheShells /\ StatusKept BY Zenon DEF FamilyInv
<1>1. proc'[s] = p /\ \A r \in Slots \ {s} : proc'[r] = proc[r] BY Zenon DEF OwnInv, TypeOK
<1>2. StatusKept' BY <1>0, <1>1, Zenon DEF StatusKept
<1>3. \A r \in Slots \ {s} : Used(r)' <=> Used(r) BY <1>1, Zenon DEF Used
<1>4. \A n : (\E q \in Find(n) : proc[q].state = "RUNNING")
              => \E q \in Find(n)' : proc'[q].state = "RUNNING"
  <2> SUFFICES ASSUME NEW n, NEW q \in Find(n), proc[q].state = "RUNNING"
               PROVE  q \in Find(n)' /\ proc'[q].state = "RUNNING"
    BY Zenon
  <2>1. q \in Slots /\ Used(q) /\ proc[q].pid = n BY Zenon DEF Find
  <2>2. q # s BY <2>1, Zenon DEF Used
  <2> QED BY <1>1, <2>1, <2>2, Zenon DEF Find, Used
<1>5. p.parent # p.pid
  <2>1. CASE p.parent = 0 BY <2>1, Zenon
  <2>2. CASE \E q \in Find(p.parent) : proc[q].state = "RUNNING" BY <2>2, Zenon
  <2> QED BY <2>1, <2>2, Zenon
<1>6. ParentsRun'
  <2> SUFFICES ASSUME NEW r \in Slots, Used(r)'
               PROVE  /\ proc'[r].pid # 0 /\ proc'[r].parent # proc'[r].pid
                      /\ proc'[r].parent # 0 =>
                           \E q \in Find(proc[r].parent)' : proc'[q].state = "RUNNING"
                      /\ proc'[r].autoReap => proc'[r].parent = 0 /\ proc'[r].state = "RUNNING"
    BY Zenon DEF ParentsRun
  <2>1. PICK n : n = proc'[r].parent BY Zenon
  <2>2. Find(proc[r].parent)' = Find(n)' BY <2>1, Zenon DEF Find
  <2>3. CASE r = s
    <3>1. n = p.parent BY <1>1, <2>1, <2>3, Zenon
    <3>2. n # 0 => \E q \in Find(n)' : proc'[q].state = "RUNNING" BY <1>4, <3>1, Zenon
    <3> QED BY <1>1, <1>5, <2>1, <2>2, <2>3, <3>2, Zenon
  <2>4. CASE r # s
    <3>1. proc'[r] = proc[r] /\ Used(r) BY <1>1, <1>3, <2>4, Zenon
    <3>2. /\ proc[r].pid # 0 /\ proc[r].parent # proc[r].pid
          /\ proc[r].parent # 0 => \E q \in Find(proc[r].parent) : proc[q].state = "RUNNING"
          /\ proc[r].autoReap => proc[r].parent = 0 /\ proc[r].state = "RUNNING"
      BY <1>0, <3>1, Zenon DEF ParentsRun
    <3>3. n # 0 => \E q \in Find(n)' : proc'[q].state = "RUNNING"
      BY <1>4, <2>1, <3>1, <3>2, Zenon
    <3> QED BY <2>1, <2>2, <3>1, <3>2, <3>3, Zenon
  <2> QED BY <2>3, <2>4, Zenon
<1>7. LaunchedIsTheShells'
  <2>1. CASE shell' = shell /\ (shell.pc = "allocated" => p.parent # shell.pid)
    <3>1. ASSUME shell.pc \in {"allocated", "created", "launched"}
          PROVE  /\ shell.slot \in Slots /\ proc'[shell.slot].state # "UNUSED"
                 /\ proc'[shell.slot].pid = shell.pid
                 /\ proc'[shell.slot].parent = 0 /\ ~proc'[shell.slot].autoReap
      BY <1>0, <1>1, <3>1, Zenon DEF LaunchedIsTheShells, Used
    <3>2. ASSUME shell.pc = "allocated", NEW c \in Slots, proc'[c].state # "UNUSED"
          PROVE  proc'[c].parent # shell.pid
      BY <1>0, <1>1, <2>1, <3>2, ZenonT(30) DEF LaunchedIsTheShells, Used
    <3> QED BY <2>1, <3>1, <3>2, Zenon DEF LaunchedIsTheShells, Used
  <2>2. CASE shell'.pc = "allocated" /\ shell'.slot = s /\ shell'.pid = p.pid /\ p.parent = 0
    <3>1. ASSUME NEW c \in Slots, Used(c)' PROVE proc'[c].parent # p.pid
      <4>1. CASE c = s BY <1>1, <1>5, <4>1, Zenon
      <4>2. CASE c # s
        <5>1. proc'[c] = proc[c] /\ Used(c) BY <1>1, <1>3, <3>1, <4>2, Zenon
        <5>2. proc[c].parent = 0 \/ Find(proc[c].parent) # {} BY <1>0, <5>1, Zenon DEF ParentsRun
        <5> QED BY <5>1, <5>2, Zenon
      <4> QED BY <4>1, <4>2, Zenon
    <3>2. proc'[s].state # "UNUSED" BY <1>1
    <3> QED BY <1>1, <2>2, <3>1, <3>2, Zenon DEF LaunchedIsTheShells, Used
  <2> QED BY <2>1, <2>2, Zenon
<1>8. \A u \in Tasks : WaitsRight(u)'
  <2>1. proc[s].state # "RUNNING" /\ proc'[s].state \in {"RUNNING", "UNUSED"} BY <1>1, Zenon
  <2> QED BY <1>1, <2>1, SlotWaits, Zenon
<1> QED BY <1>2, <1>6, <1>7, <1>8, WaitsRightAfter, Zenon DEF FamilyInv

\* fork() and spawn().
LEMMA NewProcessFamily ==
  ASSUME ProcessAssumption, OwnInv, WaitsWell, FamilyInv, NEW t \in Tasks, NewProcess(t)
  PROVE  FamilyInv'
<1>0. ParentsRun /\ LaunchedIsTheShells BY Zenon DEF FamilyInv
<1>1. /\ RunsUser(t) /\ FreeSlots # {} /\ Attempts # {} /\ shell' = shell
  BY Zenon DEF NewProcess
<1>2. t # Shell /\ task[t].used BY <1>1, Zenon DEF RunsUser, Runs, OwnInv, KernelTask
<1>3. nextPid \in Pids BY Zenon DEF OwnInv, TypeOK
<1>4. FirstFree \in Slots /\ proc[FirstFree].state = "UNUSED" BY <1>1, FirstFreeIsFree, Zenon
<1>5. Candidate(Attempt) \in Pids /\ Find(Candidate(Attempt)) = {} BY <1>1, <1>3, PidIsFree, Zenon
<1>6. Candidate(Attempt) # 0 BY <1>5 DEF Pids
<1>7. /\ task[t].slot \in Slots /\ PidOf(t) = proc[task[t].slot].pid /\ Used(task[t].slot)
      /\ proc[task[t].slot].state = "RUNNING"
      /\ \A r \in Slots \ {task[t].slot} : Used(r) => proc[r].pid # PidOf(t)
      /\ shell.pc = "allocated" => shell.slot # task[t].slot
  BY <1>0, <1>2, UserPid, TaskSlot, Zenon
<1>8. \E q \in Find(PidOf(t)) : proc[q].state = "RUNNING" BY <1>7, Zenon DEF Find
<1>9. shell.pc = "allocated" => PidOf(t) # shell.pid
  BY <1>0, <1>7, Zenon DEF LaunchedIsTheShells
<1>10. PICK sp \in Spaces \ spaces :
        \/ \E c \in FreeTasks :
             /\ proc' = [proc EXCEPT ![FirstFree] =
                           [Allocated(FirstFree, Candidate(Attempt), PidOf(t)) EXCEPT
                              !.task = c, !.space = sp]]
             /\ task' = [task EXCEPT ![c] = NewTask(FirstFree, FALSE, sp)]
        \/ UNCHANGED <<proc, task, spaces>>
  BY Zenon DEF NewProcess
<1>11. CASE UNCHANGED <<proc, task, spaces>>
  <2>1. \A u \in Tasks : SameWait(u) BY <1>11, Zenon DEF SameWait
  <2> QED BY <1>1, <1>11, <2>1, QuietTable, Zenon DEF ShellGoesOn
<1>12. ASSUME NEW c \in FreeTasks,
              proc' = [proc EXCEPT ![FirstFree] =
                         [Allocated(FirstFree, Candidate(Attempt), PidOf(t)) EXCEPT
                            !.task = c, !.space = sp]],
              task' = [task EXCEPT ![c] = NewTask(FirstFree, FALSE, sp)]
       PROVE  FamilyInv'
  <2>1. PICK p : p = [Allocated(FirstFree, Candidate(Attempt), PidOf(t)) EXCEPT !.task = c, !.space = sp]
    BY Zenon
  <2>2. /\ p.state = "RUNNING" /\ p.pid = Candidate(Attempt) /\ p.parent = PidOf(t)
        /\ ~p.autoReap /\ ~p.mainExited /\ p.main = "none"
    BY <2>1, Zenon DEF Allocated, Unused
  <2>3. StatusRight(p) BY <2>2 DEF StatusRight
  <2>4. proc' = [proc EXCEPT ![FirstFree] = p] BY <1>12, <2>1, Zenon
  <2>5. \A u \in Tasks : WaitsRight(u)' \/ task'[u] = task[u] BY <1>12, NewTaskQuiet, Zenon
  <2> QED BY <1>1, <1>4, <1>5, <1>6, <1>8, <1>9, <2>2, <2>3, <2>4, <2>5, BirthFamily, Zenon
<1> QED BY <1>10, <1>11, <1>12, ZenonT(30)

\* The shell fills in the slot it has picked.
LEMMA ShellInitFamily ==
  ASSUME ProcessAssumption, OwnInv, WaitsWell, FamilyInv, ShellInit
  PROVE  FamilyInv'
<1>1. /\ shell.pc = "picked" /\ task' = task
      /\ proc' = [proc EXCEPT ![shell.slot] = [Allocated(shell.slot, shell.pid, 0) EXCEPT
                                                 !.space = shell.space]]
      /\ shell' = [shell EXCEPT !.pc = "allocated"]
  BY Zenon DEF ShellInit
<1>2. shell' = [shell EXCEPT !.pc = "allocated"] /\ shell \in [pc : {"prompt", "picked", "allocated", "created", "launched"},
                slot : Slots \cup {0}, pid : Pids \cup {0},
                space : Spaces \cup {NoSpace}, task : Tasks \cup {NoTask}]
  BY <1>1, Zenon DEF OwnInv, TypeOK
<1>3. shell'.pc = "allocated" /\ shell'.slot = shell.slot /\ shell'.pid = shell.pid
  BY <1>2, Zenon
<1>4. /\ shell.slot \in Slots /\ proc[shell.slot].state = "UNUSED" /\ shell.pid \in Pids
      /\ Find(shell.pid) = {}
  BY <1>1, Zenon DEF OwnInv, LaunchPrivate
<1>5. shell.pid # 0 BY <1>4 DEF Pids
<1>6. PICK p : p = [Allocated(shell.slot, shell.pid, 0) EXCEPT !.space = shell.space] BY Zenon
<1>7. /\ p.state = "RUNNING" /\ p.pid = shell.pid /\ p.parent = 0
      /\ ~p.autoReap /\ ~p.mainExited /\ p.main = "none"
  BY <1>6, Zenon DEF Allocated, Unused
<1>8. StatusRight(p) BY <1>7 DEF StatusRight
<1>9. proc' = [proc EXCEPT ![shell.slot] = p] BY <1>1, <1>6, Zenon
<1>10. PICK s : s = shell.slot BY Zenon
<1> QED BY <1>1, <1>3, <1>4, <1>5, <1>7, <1>8, <1>9, <1>10, BirthFamily, Zenon

\* A slot changes in what families do not read.
LEMMA FieldFamily ==
  ASSUME ProcessAssumption, OwnInv, WaitsWell, FamilyInv, NEW s \in Slots, NEW p,
         proc' = [proc EXCEPT ![s] = p],
         p.state = proc[s].state, p.pid = proc[s].pid, p.parent = proc[s].parent,
         p.autoReap <=> proc[s].autoReap, p.mainExited <=> proc[s].mainExited,
         p.status = proc[s].status, p.main = proc[s].main,
         proc[s].threads > 0 => p.threads > 0, ShellGoesOn,
         \A u \in Tasks : WaitsRight(u)' \/ SameWait(u)
  PROVE  FamilyInv'
<1>1. proc'[s] = p /\ \A r \in Slots \ {s} : proc'[r] = proc[r] BY Zenon DEF OwnInv, TypeOK
<1>2. \A r \in Slots : SameFamily(r) BY <1>1, Zenon DEF SameFamily, SameKin
<1>3. StatusKept'
  <2>1. StatusRight(proc[s]) BY Zenon DEF FamilyInv, StatusKept
  <2>2. StatusRight(p) BY <2>1, Zenon DEF StatusRight
  <2> QED BY <1>1, <2>2, Zenon DEF FamilyInv, StatusKept
<1>4. ASSUME NEW u \in Tasks, task[u].chan # NoChan, task[u].op = "join"
      PROVE  proc'[task[u].slot].threads > 0
  <2>1. task[u].used BY <1>4, Zenon DEF FamilyInv, ChannelOfItsWait
  <2>2. u # Shell BY <1>4, Zenon DEF WaitsWell
  <2>3. task[u].slot \in Slots BY <2>1, <2>2, TaskSlot, Zenon
  <2>4. proc[task[u].slot].threads > 0 BY <1>4, Zenon DEF FamilyInv, BlockedForAReason, HasReason
  <2> QED BY <1>1, <2>3, <2>4, Zenon
<1> QED BY <1>2, <1>3, <1>4, QuietFamily, ZenonT(30)

\* exec(), and a new thread.
LEMMA ExecFamily ==
  ASSUME ProcessAssumption, OwnInv, WaitsWell, FamilyInv, NEW t \in Tasks, Exec(t)
  PROVE  FamilyInv'
<1>1. PICK sp : /\ proc' = [proc EXCEPT ![task[t].slot] = [proc[task[t].slot] EXCEPT !.space = sp]]
                /\ task' = [task EXCEPT ![t] = [task[t] EXCEPT !.space = sp]] /\ shell' = shell
  BY Zenon DEF Exec
<1>2. t # Shell /\ task[t].used BY Zenon DEF Exec, RunsUser, Runs, OwnInv, KernelTask
<1>3. task[t].slot \in Slots BY <1>2, TaskSlot, Zenon
<1>4. /\ task \in [Tasks -> TaskType] /\ task[t] \in TaskType /\ proc[task[t].slot] \in ProcType
  BY <1>3, Zenon DEF OwnInv, TypeOK
<1>5. PICK p : p = [proc[task[t].slot] EXCEPT !.space = sp] BY Zenon
<1>6. PICK r : r = [task[t] EXCEPT !.space = sp] BY Zenon
<1>7. /\ p.state = proc[task[t].slot].state /\ p.pid = proc[task[t].slot].pid
      /\ p.parent = proc[task[t].slot].parent /\ p.autoReap = proc[task[t].slot].autoReap
      /\ p.mainExited = proc[task[t].slot].mainExited /\ p.status = proc[task[t].slot].status
      /\ p.main = proc[task[t].slot].main /\ p.threads = proc[task[t].slot].threads
  BY <1>4, <1>5, Zenon DEF ProcType
<1>8. /\ r.used = task[t].used /\ r.slot = task[t].slot /\ r.op = task[t].op
      /\ r.target = task[t].target /\ r.tpid = task[t].tpid /\ r.chan = task[t].chan
  BY <1>4, <1>6, Zenon DEF TaskType
<1>9. task'[t] = r /\ \A u \in Tasks \ {t} : task'[u] = task[u] BY <1>1, <1>4, <1>6, Zenon
<1>10. \A u \in Tasks : SameWait(u) BY <1>8, <1>9, Zenon DEF SameWait
<1>11. PICK s : s = task[t].slot BY Zenon
<1>12. proc' = [proc EXCEPT ![s] = p] BY <1>1, <1>5, <1>11, Zenon
<1> QED BY <1>1, <1>3, <1>7, <1>10, <1>11, <1>12, FieldFamily, Zenon DEF ShellGoesOn

\* A thread is one more for those who join.
LEMMA ThreadCreateFamily ==
  ASSUME ProcessAssumption, OwnInv, WaitsWell, FamilyInv, NEW t \in Tasks, ThreadCreate(t)
  PROVE  FamilyInv'
<1>1. PICK s : s = task[t].slot BY Zenon
<1>2. PICK c \in FreeTasks :
        /\ proc' = [proc EXCEPT ![s] = [proc[s] EXCEPT !.threads = proc[s].threads + 1]]
        /\ task' = [task EXCEPT ![c] = NewTask(s, TRUE, proc[s].space)] /\ shell' = shell
  BY <1>1, Zenon DEF ThreadCreate
<1>3. t # Shell /\ task[t].used BY Zenon DEF ThreadCreate, RunsUser, Runs, OwnInv, KernelTask
<1>4. s \in Slots BY <1>1, <1>3, TaskSlot, Zenon
<1>5. proc[s] \in ProcType BY <1>4, Zenon DEF OwnInv, TypeOK
<1>6. PICK p : p = [proc[s] EXCEPT !.threads = proc[s].threads + 1] BY Zenon
<1>7. /\ p.state = proc[s].state /\ p.pid = proc[s].pid /\ p.parent = proc[s].parent
      /\ p.autoReap = proc[s].autoReap /\ p.mainExited = proc[s].mainExited
      /\ p.status = proc[s].status /\ p.main = proc[s].main /\ p.threads = proc[s].threads + 1
  BY <1>5, <1>6, Zenon DEF ProcType
<1>8. proc[s].threads \in Nat BY <1>5, Zenon DEF ProcType
<1>9. p.threads > 0 BY <1>7, <1>8
<1>10. \A u \in Tasks : WaitsRight(u)' \/ SameWait(u) BY <1>2, NewTaskQuiet, Zenon
<1>11. proc' = [proc EXCEPT ![s] = p] BY <1>2, <1>6, Zenon
<1> QED BY <1>2, <1>4, <1>7, <1>9, <1>10, <1>11, FieldFamily, Zenon DEF ShellGoesOn

\* The shell picks a slot, and enters the task of the program that it launches.
LEMMA ShellPickFamily ==
  ASSUME ProcessAssumption, OwnInv, WaitsWell, FamilyInv, ShellPick
  PROVE  FamilyInv'
<1>1. proc' = proc /\ task' = task BY Zenon DEF ShellPick
<1>2. PICK sp : shell' = [pc |-> "picked", slot |-> FirstFree, pid |-> Candidate(Attempt),
                          space |-> sp, task |-> NoTask]
  BY Zenon DEF ShellPick
<1>3. \A u \in Tasks : SameWait(u) BY <1>1, Zenon DEF SameWait
<1>4. shell'.pc = "picked" BY <1>2, Zenon
<1>5. shell'.pc \in {"prompt", "picked"} BY <1>4, Zenon
<1> QED BY <1>1, <1>3, <1>5, QuietTable, Zenon DEF ShellGoesOn

\* ... which is not what a family reads.
LEMMA ShellSetTaskFamily ==
  ASSUME ProcessAssumption, OwnInv, WaitsWell, FamilyInv, ShellSetTask
  PROVE  FamilyInv'
<1>1. /\ shell.pc = "created" /\ task' = task
      /\ proc' = [proc EXCEPT ![shell.slot] = [proc[shell.slot] EXCEPT !.task = shell.task]]
      /\ shell' = [shell EXCEPT !.pc = "launched"]
  BY Zenon DEF ShellSetTask
<1>2. PICK s : s = shell.slot BY Zenon
<1>3. s \in Slots BY <1>1, <1>2, Zenon DEF OwnInv, LaunchPrivate
<1>4. proc[s] \in ProcType BY <1>3, Zenon DEF OwnInv, TypeOK
<1>5. PICK p : p = [proc[s] EXCEPT !.task = shell.task] BY Zenon
<1>6. /\ p.state = proc[s].state /\ p.pid = proc[s].pid /\ p.parent = proc[s].parent
      /\ p.autoReap = proc[s].autoReap /\ p.mainExited = proc[s].mainExited
      /\ p.status = proc[s].status /\ p.main = proc[s].main /\ p.threads = proc[s].threads
  BY <1>4, <1>5, Zenon DEF ProcType
<1>7. \A u \in Tasks : SameWait(u) BY <1>1, Zenon DEF SameWait
<1>8. proc' = [proc EXCEPT ![s] = p] BY <1>1, <1>2, <1>5, Zenon
<1>9. shell \in [pc : {"prompt", "picked", "allocated", "created", "launched"},
                 slot : Slots \cup {0}, pid : Pids \cup {0},
                 space : Spaces \cup {NoSpace}, task : Tasks \cup {NoTask}]
  BY Zenon DEF OwnInv, TypeOK
<1>10. shell'.pc = "launched" /\ shell'.slot = shell.slot /\ shell'.pid = shell.pid
  BY <1>1, <1>9, Zenon
<1>11. ShellGoesOn BY <1>1, <1>10, Zenon DEF ShellGoesOn
<1> QED BY <1>3, <1>6, <1>7, <1>8, <1>11, FieldFamily, Zenon

\* The shell creates the task of the program, or releases its slot, for which nobody waits.
LEMMA ShellCreateFamily ==
  ASSUME ProcessAssumption, OwnInv, WaitsWell, FamilyInv, ShellCreate
  PROVE  FamilyInv'
<1>0. ParentsRun /\ LaunchedIsTheShells BY Zenon DEF FamilyInv
<1>1. shell.pc = "allocated" BY Zenon DEF ShellCreate
<1>2. ASSUME NEW c \in FreeTasks, proc' = proc,
             task' = [task EXCEPT ![c] = NewTask(shell.slot, FALSE, shell.space)],
             shell' = [shell EXCEPT !.pc = "created", !.task = c]
      PROVE  FamilyInv'
  <2>1. \A u \in Tasks : WaitsRight(u)' \/ SameWait(u) BY <1>2, NewTaskQuiet, Zenon
  <2>2. shell \in [pc : {"prompt", "picked", "allocated", "created", "launched"},
                   slot : Slots \cup {0}, pid : Pids \cup {0},
                   space : Spaces \cup {NoSpace}, task : Tasks \cup {NoTask}]
    BY Zenon DEF OwnInv, TypeOK
  <2>3. shell'.pc = "created" /\ shell'.slot = shell.slot /\ shell'.pid = shell.pid
    BY <1>2, <2>2, Zenon
  <2>4. ShellGoesOn BY <1>1, <2>3, Zenon DEF ShellGoesOn
  <2> QED BY <1>2, <2>1, <2>4, QuietTable, Zenon
<1>3. ASSUME proc' = [proc EXCEPT ![shell.slot] = Unused], shell' = Prompt, task' = task
      PROVE  FamilyInv'
  <2>1. PICK z : z = shell.slot BY Zenon
  <2>2. /\ z \in Slots /\ proc[z].pid = shell.pid /\ proc[z].parent = 0
        /\ \A c \in Slots : Used(c) => proc[c].parent # shell.pid
    BY <1>0, <1>1, <2>1, Zenon DEF LaunchedIsTheShells
  <2>3. proc'[z] = Unused /\ \A r \in Slots \ {z} : proc'[r] = proc[r]
    BY <1>3, <2>1, <2>2, Zenon DEF OwnInv, TypeOK
  <2>4. shell'.pc = "prompt" BY <1>3, Zenon DEF Prompt
  <2>5. ParentsRun' /\ StatusKept' /\ LaunchedIsTheShells'
    <3>1. \A c \in Slots : Used(c) => proc[c].parent # proc[z].pid BY <2>2, Zenon
    <3> QED BY <2>2, <2>3, <2>4, <3>1, ReleaseKin, Zenon
  <2>6. ASSUME NEW u \in Tasks, task[u].chan # NoChan PROVE WaitsRight(u)'
    <3>1. WaitsRight(u) /\ SameWait(u)
      BY <1>3, WaitsRightAll, SameTaskWaits, Zenon DEF FamilyInv
    <3>2. task[u].used /\ task[u].op # "run" BY <2>6, <3>1, SMTT(20) DEF WaitsRight
    <3>3. u # Shell BY <1>1, <3>2 DEF OwnInv, KernelTask
    <3>4. task[u].slot \in Slots /\ PidOf(u) # 0 BY <1>0, <3>2, <3>3, UserPid, Zenon
    <3>5. task[u].slot # z
      <4>1. shell.pc \in {"picked", "allocated"} BY <1>1, Zenon
      <4> QED BY <2>1, <3>2, <3>3, <4>1, TaskSlot, Zenon
    <3>6. task'[u].slot = task[u].slot BY <1>3, Zenon
    <3>7. PidOf(u)' = PidOf(u) BY <2>3, <3>4, <3>5, <3>6, SamePid, Zenon
    <3>8. \A r \in Slots \ {z} : SameKin(r) BY <2>3, Zenon DEF SameKin
    <3>9. \A r \in Slots : Awaits(u, r) => SameKin(r) BY <2>2, <3>4, <3>8, Zenon DEF Awaits
    <3>10. \A r \in Slots : proc'[r].state # "UNUSED" => SameKin(r)
      <4>1. Unused.state = "UNUSED" BY Zenon DEF Unused
      <4> QED BY <2>3, <3>8, <4>1, Zenon
    <3>11. task[u].op = "join" => proc'[task[u].slot].threads > 0
      BY <2>3, <2>6, <3>1, <3>4, <3>5, Zenon DEF WaitsRight, HasReason
    <3> QED BY <3>1, <3>7, <3>9, <3>10, <3>11, ReasonKept, Zenon DEF StillAwaits
  <2>7. \A u \in Tasks : WaitsRight(u)'
    <3>1. ASSUME NEW u \in Tasks, task[u].chan = NoChan PROVE WaitsRight(u)'
      BY <1>3, <3>1, NotBlocked, Zenon
    <3> QED BY <2>6, <3>1, Zenon
  <2> QED BY <2>5, <2>7, WaitsRightAfter, Zenon DEF FamilyInv
<1> QED BY <1>2, <1>3, Zenon DEF ShellCreate

\* A background job: a zombie is released, and one that runs becomes an orphan; its parent
\* was the shell before.
LEMMA ShellDetachFamily ==
  ASSUME ProcessAssumption, OwnInv, WaitsWell, FamilyInv, ShellDetach
  PROVE  FamilyInv'
<1>0. ParentsRun /\ LaunchedIsTheShells /\ StatusKept BY Zenon DEF FamilyInv
<1>1. /\ shell.pc = "launched" /\ task' = task /\ shell' = Prompt
      /\ proc' = [s \in Slots |->
                    IF s \notin Find(shell.pid) THEN proc[s]
                    ELSE IF proc[s].state = "ZOMBIE" THEN Unused
                         ELSE [proc[s] EXCEPT !.parent = 0, !.autoReap = TRUE]]
  BY Zenon DEF ShellDetach
<1>2. PICK z : z = shell.slot BY Zenon
<1>3. /\ z \in Slots /\ Used(z) /\ proc[z].pid = shell.pid /\ proc[z].parent = 0
  BY <1>0, <1>1, <1>2, Zenon DEF LaunchedIsTheShells
<1>4. z \in Find(shell.pid) BY <1>3, Zenon DEF Find
<1>5. \A r \in Slots \ {z} : r \notin Find(shell.pid)
  BY <1>3, Zenon DEF Find, OwnInv, PidsUnique
<1>6. \A r \in Slots \ {z} : proc'[r] = proc[r] BY <1>1, <1>5, Zenon
<1>7. shell'.pc = "prompt" BY <1>1, Zenon DEF Prompt
<1>8. CASE proc[z].state = "ZOMBIE"
  <2>1. proc'[z] = Unused BY <1>1, <1>3, <1>4, <1>8, Zenon
  <2>2. ParentsRun' /\ StatusKept' /\ LaunchedIsTheShells'
    BY <1>3, <1>6, <1>7, <1>8, <2>1, ReleaseKin, Zenon
  <2>3. proc[z].state # "RUNNING" BY <1>8
  <2>4. proc'[z].state \in {"RUNNING", "UNUSED"} BY <2>1 DEF Unused
  <2>5. \A u \in Tasks : WaitsRight(u)' BY <1>1, <1>3, <1>6, <2>3, <2>4, SlotWaits, Zenon
  <2> QED BY <2>2, <2>5, WaitsRightAfter, Zenon DEF FamilyInv
<1>9. CASE proc[z].state = "RUNNING"
  <2>1. proc[z].state # "ZOMBIE" BY <1>9
  <2>2. proc'[z] = [proc[z] EXCEPT !.parent = 0, !.autoReap = TRUE]
    BY <1>1, <1>3, <1>4, <2>1, Zenon
  <2>3. proc[z] \in ProcType BY <1>3, Zenon DEF OwnInv, TypeOK
  <2>4. PICK p : p = [proc[z] EXCEPT !.parent = 0, !.autoReap = TRUE] BY Zenon
  <2>5. /\ p.state = proc[z].state /\ p.pid = proc[z].pid /\ p.parent = 0
        /\ p.mainExited = proc[z].mainExited /\ p.status = proc[z].status
        /\ p.main = proc[z].main /\ p.threads = proc[z].threads
    BY <2>3, <2>4, Zenon DEF ProcType
  <2>6. proc'[z] = p BY <2>2, <2>4, Zenon
  <2>7. \A r \in Slots : SameKin(r) BY <1>3, <1>6, <2>5, <2>6, Zenon DEF SameKin
  <2>8. StatusKept'
    <3>1. StatusRight(proc[z]) BY <1>0, <1>3, Zenon DEF StatusKept
    <3>2. StatusRight(p) BY <2>5, <3>1, Zenon DEF StatusRight
    <3> QED BY <1>0, <1>6, <2>6, <3>2, Zenon DEF StatusKept
  <2>9. LaunchedIsTheShells' BY <1>7 DEF LaunchedIsTheShells
  <2>10. ParentsRun'
    <3> SUFFICES ASSUME NEW r \in Slots, proc'[r].state # "UNUSED"
                 PROVE  /\ proc'[r].pid # 0 /\ proc'[r].parent # proc'[r].pid
                        /\ proc'[r].parent # 0 =>
                             \E q \in Find(proc[r].parent)' : proc'[q].state = "RUNNING"
                        /\ proc'[r].autoReap => proc'[r].parent = 0 /\ proc'[r].state = "RUNNING"
      BY Zenon DEF ParentsRun, Used
    <3>1. SameKin(r) /\ Used(r) BY <2>7, Zenon DEF SameKin, Used
    <3>2. PICK n : n = proc'[r].parent BY Zenon
    <3>3. Find(proc[r].parent)' = Find(n)' BY <3>2, Zenon DEF Find
    <3>4. /\ proc[r].pid # 0 /\ proc[r].parent # proc[r].pid
          /\ proc[r].parent # 0 => \E q \in Find(proc[r].parent) : proc[q].state = "RUNNING"
          /\ proc[r].autoReap => proc[r].parent = 0 /\ proc[r].state = "RUNNING"
      BY <1>0, <3>1, Zenon DEF ParentsRun
    <3>5. ASSUME n # 0 PROVE \E q \in Find(n)' : proc'[q].state = "RUNNING"
      <4>1. PICK q \in Find(n) : proc[q].state = "RUNNING" BY <3>1, <3>2, <3>4, <3>5, Zenon DEF SameKin
      <4>2. q \in Slots BY Zenon DEF Find
      <4> QED BY <2>7, <4>1, <4>2, Zenon DEF Find, Used, SameKin
    <3>6. proc'[r].autoReap => proc'[r].parent = 0 /\ proc'[r].state = "RUNNING"
      <4>1. CASE r = z BY <1>9, <2>5, <2>6, <4>1, Zenon
      <4>2. CASE r # z BY <1>6, <3>4, <4>2, Zenon
      <4> QED BY <4>1, <4>2, Zenon
    <3> QED BY <3>1, <3>2, <3>3, <3>4, <3>5, <3>6, Zenon DEF SameKin
  <2>11. ASSUME NEW u \in Tasks, task[u].chan # NoChan, task[u].op = "join"
         PROVE  proc'[task[u].slot].threads > 0
    <3>1. proc[task[u].slot].threads > 0 /\ task[u].used
      BY <2>11, Zenon DEF FamilyInv, BlockedForAReason, HasReason, ChannelOfItsWait
    <3>2. u # Shell BY <2>11 DEF WaitsWell
    <3>3. task[u].slot \in Slots BY <3>1, <3>2, TaskSlot, Zenon
    <3> QED BY <1>6, <2>5, <2>6, <3>1, <3>3, Zenon
  <2>12. \A u \in Tasks : SameWait(u) BY <1>1, Zenon DEF SameWait
  <2>13. \A u \in Tasks : WaitsRight(u)' BY <2>7, <2>11, <2>12, KinWaits, Zenon
  <2> QED BY <2>8, <2>9, <2>10, <2>13, WaitsRightAfter, Zenon DEF FamilyInv
<1>10. proc[z].state \in {"RUNNING", "ZOMBIE"}
  BY <1>3, SMTT(20) DEF OwnInv, TypeOK, ProcType, Used
<1> QED BY <1>8, <1>9, <1>10, Zenon

-----------------------------------------------------------------------------
(* Waits *)

\* A wait that begins or goes on with a reason, or the end of the caller.
LEMMA WaitsOrDiesFamily ==
  ASSUME ProcessAssumption, OwnInv, WaitsWell, FamilyInv, NEW t \in Tasks, task[t].used,
         NEW op, NEW s \in Slots \cup {0}, NEW pid, NEW ch, WaitsOrDies(t, op, s, pid, ch),
         \/ /\ op = "wait" /\ ch = <<"process", s>> /\ proc[s].state = "RUNNING"
            /\ proc[s].pid = pid /\ proc[s].parent = PidOf(t)
         \/ /\ op = "waitpid" /\ ch = <<"waitpid_event", task[t].slot>> /\ Matching(t, pid) # {}
            /\ \A r \in Matching(t, pid) : proc[r].state = "RUNNING"
         \/ /\ op = "join" /\ ch = <<"thread_count", task[t].slot>>
            /\ proc[task[t].slot].threads > 0
  PROVE  FamilyInv'
<1>1. CASE task[t].kill
  <2>1. t # Shell BY <1>1, Zenon DEF OwnInv, KernelTask
  <2>2. ExitTask(t, "killed") BY <1>1, Zenon DEF WaitsOrDies
  <2> QED BY <2>1, <2>2, ExitFamily, Zenon
<1>2. CASE ~task[t].kill
  <2>1. Parks(t, op, s, pid, ch) BY <1>2, Zenon DEF WaitsOrDies
  <2> QED BY <2>1, ParksFamily, ZenonT(30)
<1> QED BY <1>1, <1>2, Zenon

\* The loop of process_wait() ...
LEMMA WaitLoopFamily ==
  ASSUME ProcessAssumption, OwnInv, WaitsWell, FamilyInv, NEW t \in Tasks, task[t].used,
         NEW s \in Slots, NEW pid, WaitLoop(t, s, pid)
  PROVE  FamilyInv'
<1>1. CASE ~Used(s) \/ proc[s].pid # pid \/ proc[s].parent # PidOf(t)
  <2>1. Leaves(t, proc) BY <1>1, Zenon DEF WaitLoop
  <2> QED BY <2>1, ReturnFamily, Zenon
<1>2. CASE /\ ~(~Used(s) \/ proc[s].pid # pid \/ proc[s].parent # PidOf(t))
           /\ proc[s].state = "RUNNING"
  <2>1. WaitsOrDies(t, "wait", s, pid, <<"process", s>>) BY <1>2, Zenon DEF WaitLoop
  <2>2. proc[s].state = "RUNNING" /\ proc[s].pid = pid /\ proc[s].parent = PidOf(t) BY <1>2, Zenon
  <2> QED BY <2>1, <2>2, WaitsOrDiesFamily, Zenon
<1>3. CASE /\ ~(~Used(s) \/ proc[s].pid # pid \/ proc[s].parent # PidOf(t))
           /\ proc[s].state # "RUNNING"
  <2>1. Leaves(t, [proc EXCEPT ![s] = Unused]) BY <1>3, Zenon DEF WaitLoop
  <2>2. proc[s].state = "ZOMBIE" BY <1>3, Zenon DEF Used, OwnInv, TypeOK, ProcType
  <2>3. proc[s].parent = PidOf(t) BY <1>3, Zenon
  <2> QED BY <2>1, <2>2, <2>3, ReapFamily, Zenon
<1> QED BY <1>1, <1>2, <1>3, Zenon

\* ... that of process_waitpid(), which has looked for zombies ...
LEMMA WaitpidLoopFamily ==
  ASSUME ProcessAssumption, OwnInv, WaitsWell, FamilyInv, NEW t \in Tasks, task[t].used, t # Shell,
         NEW pid, WaitpidLoop(t, pid)
  PROVE  FamilyInv'
<1> DEFINE zombies == {s \in Matching(t, pid) : proc[s].state = "ZOMBIE"}
<1>1. CASE zombies # {}
  <2>1. zombies \in SUBSET Nat BY DEF Matching, Slots, ProcessAssumption
  <2>2. \E s \in zombies : \A r \in zombies : s <= r BY <1>1, <2>1, LeastExists, Zenon
  <2>3. PICK z : z = CHOOSE s \in zombies : \A r \in zombies : s <= r BY Zenon
  <2>4. z \in zombies BY <2>2, <2>3, Zenon
  <2>5. Leaves(t, [proc EXCEPT ![z] = Unused]) BY <1>1, <2>3, Zenon DEF WaitpidLoop
  <2>6. z \in Slots /\ proc[z].state = "ZOMBIE" /\ proc[z].parent = PidOf(t)
    BY <2>4, Zenon DEF Matching
  <2> QED BY <2>5, <2>6, ReapFamily, Zenon
<1>2. CASE zombies = {} /\ Matching(t, pid) = {}
  <2>1. Leaves(t, proc) BY <1>2, Zenon DEF WaitpidLoop
  <2> QED BY <2>1, ReturnFamily, Zenon
<1>3. CASE zombies = {} /\ Matching(t, pid) # {}
  <2>1. WaitsOrDies(t, "waitpid", 0, pid, <<"waitpid_event", task[t].slot>>)
    BY <1>3, Zenon DEF WaitpidLoop
  <2>2. ASSUME NEW r \in Matching(t, pid) PROVE proc[r].state = "RUNNING"
    <3>1. r \in Slots /\ Used(r) /\ proc[r].state # "ZOMBIE" BY <1>3, <2>2, Zenon DEF Matching
    <3> QED BY <3>1, Zenon DEF Used, OwnInv, TypeOK, ProcType
  <2>3. 0 \in Slots \cup {0} BY Zenon
  <2> QED BY <1>3, <2>1, <2>2, <2>3, WaitsOrDiesFamily, Zenon
<1> QED BY <1>1, <1>2, <1>3, Zenon

\* ... and that of process_thread_join().
LEMMA JoinLoopFamily ==
  ASSUME ProcessAssumption, OwnInv, WaitsWell, FamilyInv, NEW t \in Tasks, task[t].used, t # Shell,
         JoinLoop(t)
  PROVE  FamilyInv'
<1>1. CASE proc[task[t].slot].threads > 0
  <2>1. WaitsOrDies(t, "join", 0, 0, <<"thread_count", task[t].slot>>) BY <1>1, Zenon DEF JoinLoop
  <2>2. 0 \in Slots \cup {0} BY Zenon
  <2> QED BY <1>1, <2>1, <2>2, WaitsOrDiesFamily, Zenon
<1>2. CASE ~(proc[task[t].slot].threads > 0)
  <2>1. Leaves(t, proc) BY <1>2, Zenon DEF JoinLoop
  <2> QED BY <2>1, ReturnFamily, Zenon
<1> QED BY <1>1, <1>2, Zenon

\* What concerns one task keeps families as they have to be.
LEMMA TaskStepFamily ==
  ASSUME ProcessAssumption, OwnInv, WaitsWell, FamilyInv, NEW t \in Tasks,
         \/ Exit(t) \/ TickKill(t) \/ NewProcess(t) \/ Exec(t) \/ ThreadCreate(t)
         \/ Join(t) \/ Resume(t)
         \/ \E pid \in Pids : Wait(t, pid)
         \/ \E pid \in Pids \cup {0} : Waitpid(t, pid)
  PROVE  FamilyInv'
<1>1. ASSUME RunsUser(t) PROVE t # Shell /\ task[t].used
  BY <1>1, Zenon DEF RunsUser, Runs, OwnInv, KernelTask
<1>2. CASE Exit(t) \/ TickKill(t)
  <2>1. RunsUser(t) /\ (ExitTask(t, "ok") \/ ExitTask(t, "killed")) BY <1>2, Zenon DEF Exit, TickKill
  <2> QED BY <1>1, <2>1, ExitFamily, Zenon
<1>3. CASE Join(t) BY <1>1, <1>3, JoinLoopFamily, Zenon DEF Join
<1>4. CASE Resume(t)
  <2>1. task[t].used /\ task[t].op # "run" /\ task[t].op \in {"run", "wait", "waitpid", "join"}
    BY <1>4, Zenon DEF Resume, OwnInv, TypeOK, TaskType
  <2>2. CASE task[t].kill
    <3>1. t # Shell BY <2>2, Zenon DEF OwnInv, KernelTask
    <3>2. ExitTask(t, "killed") BY <1>4, <2>2, Zenon DEF Resume
    <3> QED BY <2>1, <3>1, <3>2, ExitFamily, Zenon
  <2>3. CASE ~task[t].kill /\ task[t].op = "wait"
    <3>1. WaitLoop(t, task[t].target, task[t].tpid) BY <1>4, <2>3, Zenon DEF Resume
    <3>2. task[t].target \in Slots BY <2>3, Zenon DEF WaitsWell
    <3> QED BY <2>1, <3>1, <3>2, WaitLoopFamily, Zenon
  <2>4. CASE ~task[t].kill /\ task[t].op = "waitpid"
    <3>1. WaitpidLoop(t, task[t].tpid) BY <1>4, <2>4, Zenon DEF Resume
    <3>2. t # Shell BY <2>4, Zenon DEF WaitsWell
    <3> QED BY <2>1, <3>1, <3>2, WaitpidLoopFamily, Zenon
  <2>5. CASE ~task[t].kill /\ task[t].op = "join"
    <3>1. JoinLoop(t) BY <1>4, <2>5, Zenon DEF Resume
    <3>2. t # Shell BY <2>5, Zenon DEF WaitsWell
    <3> QED BY <2>1, <3>1, <3>2, JoinLoopFamily, Zenon
  <2> QED BY <2>1, <2>2, <2>3, <2>4, <2>5, Zenon
<1>5. ASSUME NEW pid \in Pids, Wait(t, pid) PROVE FamilyInv'
  <2>1. PICK s \in Find(pid) : WaitLoop(t, s, pid) BY <1>5, Zenon DEF Wait
  <2>2. s \in Slots BY Zenon DEF Find
  <2>3. RunsUser(t) BY <1>5, Zenon DEF Wait
  <2> QED BY <1>1, <2>1, <2>2, <2>3, WaitLoopFamily, Zenon
<1>6. ASSUME NEW pid \in Pids \cup {0}, Waitpid(t, pid) PROVE FamilyInv'
  BY <1>1, <1>6, WaitpidLoopFamily, Zenon DEF Waitpid
<1> QED BY <1>2, <1>3, <1>4, <1>5, <1>6, NewProcessFamily, ExecFamily, ThreadCreateFamily, Zenon

-----------------------------------------------------------------------------
(* The theorems *)

\* FamilyInv is inductive, with OwnInv and WaitsWell.
LEMMA NextFamily ==
  ASSUME ProcessAssumption, OwnInv, WaitsWell, FamilyInv, Next
  PROVE  FamilyInv'
<1>1. CASE ShellWait
  <2>1. Shell \in Tasks /\ task[Shell].used BY Zenon DEF ProcessAssumption, OwnInv, KernelTask
  <2>2. CASE Leaves(Shell, proc) BY <2>1, <2>2, ReturnFamily, Zenon
  <2>3. ASSUME NEW s \in Find(shell.pid), WaitLoop(Shell, s, shell.pid) PROVE FamilyInv'
    <3>1. s \in Slots BY Zenon DEF Find
    <3> QED BY <2>1, <2>3, <3>1, WaitLoopFamily, Zenon
  <2> QED BY <1>1, <2>2, <2>3, Zenon DEF ShellWait
<1> QED BY <1>1, TaskStepFamily, RequestKillFamily, ShellPickFamily, ShellInitFamily,
           ShellCreateFamily, ShellSetTaskFamily, ShellDetachFamily, Zenon
        DEF Next

\* The empty table.
LEMMA InitFamily ==
  ASSUME ProcessAssumption, Init
  PROVE  FamilyInv
<1>1. /\ proc = [s \in Slots |-> Unused] /\ shell = Prompt
      /\ task = [t \in Tasks |-> IF t = Shell THEN NewTask(0, FALSE, NoSpace) ELSE NoneTask]
  BY Zenon DEF Init
<1>2. \A t \in Tasks : task[t].chan = NoChan BY <1>1, Zenon DEF NewTask, NoneTask
<1>3. \A s \in Slots : proc[s].state = "UNUSED" BY <1>1, Zenon DEF Unused
<1>4. shell.pc = "prompt" BY <1>1, Zenon DEF Prompt
<1>5. StatusRight(Unused) BY DEF StatusRight, Unused
<1>6. ParentsRun BY <1>3, Zenon DEF ParentsRun, Used
<1>7. StatusKept BY <1>1, <1>5, Zenon DEF StatusKept
<1>8. LaunchedIsTheShells BY <1>4 DEF LaunchedIsTheShells
<1>9. ChannelOfItsWait /\ BlockedForAReason BY <1>2, Zenon DEF ChannelOfItsWait, BlockedForAReason
<1> QED BY <1>6, <1>7, <1>8, <1>9, Zenon DEF FamilyInv

\* Steps of others.
LEMMA StutterFamily ==
  ASSUME ProcessAssumption, OwnInv, WaitsWell, FamilyInv, UNCHANGED vars
  PROVE  FamilyInv'
<1>1. proc' = proc /\ task' = task /\ shell' = shell BY Zenon DEF vars
<1>2. \A u \in Tasks : SameWait(u) BY <1>1, Zenon DEF SameWait
<1> QED BY <1>1, <1>2, QuietTable, Zenon DEF ShellGoesOn

\* The whole inductive invariant: what OwnInv says of owners, and FamilyInv of parents.
LEMMA ProcessInductive ==
  ASSUME ProcessAssumption, ~LaunchRaces
  PROVE  Spec => [](OwnInv /\ WaitsWell /\ FamilyInv)
<1>1. Init => OwnInv /\ WaitsWell /\ FamilyInv BY InitOwns, InitFamily, Zenon
<1>2. OwnInv /\ WaitsWell /\ FamilyInv /\ [Next]_vars => OwnInv' /\ WaitsWell' /\ FamilyInv'
  BY NextKeeps, NextWaits, NextFamily, StutterOwns, StutterFamily, Zenon
<1> QED BY <1>1, <1>2, PTL DEF Spec

\* No task ever runs on an address space that has been destroyed, and none is shared by
\* two processes or leaked.  This holds for every number of slots, pids, tasks and threads,
\* over fork, exec, threads, exit with its deferred teardown (process_task_exit(),
\* thread_on_exit()), kills at any point and the preemptible launch by the shell, if no
\* process is created between the two halves of the shell's process_allocate().
THEOREM ProcessSafe ==
  ASSUME ProcessAssumption, ~LaunchRaces
  PROVE  Spec => []SpacesOwned
<1>1. OwnInv => SpacesOwned BY Zenon DEF OwnInv, SpacesOwned
<1> QED BY <1>1, ProcessInductive, PTL

\* Under the same assumptions the process table of process.c is exact: thread_count is the
\* number of threads, and a process is RUNNING exactly as long as it has a task; pids are
\* unique after the wrap of next_pid; every zombie is one that the shell or a parent that
\* still runs can collect, and it reports the status of its main task although a thread may
\* have finished the process (process_finish_exit()).
THEOREM TableSafe ==
  ASSUME ProcessAssumption, ~LaunchRaces
  PROVE  Spec => []TableExact
<1>1. ASSUME OwnInv, WaitsWell, FamilyInv PROVE TableExact
  <2>1. ParentsRun /\ StatusKept BY <1>1, Zenon DEF FamilyInv
  <2>2. ZombiesReapable
    <3> SUFFICES ASSUME NEW s \in Slots, proc[s].state = "ZOMBIE"
                 PROVE  /\ ~proc[s].autoReap
                        /\ proc[s].parent = 0 \/ \E q \in Find(proc[s].parent) : proc[q].state = "RUNNING"
      BY Zenon DEF ZombiesReapable
    <3>1. Used(s) /\ proc[s].state # "RUNNING" BY DEF Used
    <3> QED BY <2>1, <3>1, Zenon DEF ParentsRun
  <2>3. StatusIsMains BY <2>1, Zenon DEF StatusIsMains, StatusKept, StatusRight
  <2> QED BY <1>1, <2>2, <2>3, Zenon DEF TableExact, OwnInv, FamilyInv
<1> QED BY <1>1, ProcessInductive, PTL

\* Under the same assumptions no wake-up of the process table is lost: a task blocked in
\* process_wait() has a child there that still runs, one in process_waitpid() has children
\* and none of them to collect, and one in process_thread_join() has threads left, whatever
\* exits, kills, detaches and launches come in between.
THEOREM WaitersHaveReasons ==
  ASSUME ProcessAssumption, ~LaunchRaces
  PROVE  Spec => []BlockedForAReason
<1>1. FamilyInv => BlockedForAReason BY Zenon DEF FamilyInv
<1> QED BY <1>1, ProcessInductive, PTL
=============================================================================
