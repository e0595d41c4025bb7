# miniOS in TLA+

A verification development for the miniOS kernel: TLA+ models of its components,
configurations that model-check them with TLC, and theorems about them whose proofs
TLAPS checks. Every definition is translated from the C code under `src/`;
`PROJECT.json` maps each definition to the lines it models and lists, at the lines where
they bite, the hazards the properties are aimed at.

## The system

miniOS is a 32-bit x86 kernel for one CPU. Four facts shape every model:

* **One thing at a time.** A system call, an interrupt handler and a page fault run with
  interrupts disabled, so each is one step *up to the point where it blocks*. A task that
  blocks continues later, in a state that others have changed.
* **Preemption.** A user task loses the CPU only in user mode, at a timer tick. The kernel
  shell is different: it runs in ring 0 with interrupts *enabled* (`kernel.c:1119`), so a
  tick can interrupt it between any two statements outside a `save_irq` section. The shell's
  part is split, with programs running in between, in `Process` (launch), `FileTable`
  (redirection), `Pipeline`, `Pmm`, `Loader`, `Procfs`, `Terminal` and `Vfs` (`cp` and `mv`), in
  `Heap` if a constant says so. A tick in the middle of the shell's calls of `ramfs.c`,
  `diskfs.c`, `fat16.c` and `paging.c` is not modelled: there its call is one step, as a
  program's is.
* **Waiting** is `task_block_current()` on a channel and `task_wake_*()` on the same
  channel, always in a loop that tests its condition again.
* **Killing** sets a flag. The victim ends when it next leaves a killable wait or when a
  tick lands on it.

| Part | Source | Depends on |
|---|---|---|
| scheduler, task lists | `task.c`, `switch_s.s` | frames for stacks |
| processes, threads, signals | `process.c`, `syscall.c` | scheduler, address spaces, descriptors |
| semaphores, pipes, keyboard, timer | `sem.c`, `pipe.c`, `kb.c`, `timer.c` | scheduler channels |
| frames, address spaces, kernel heap | `pmm.c`, `paging.c`, `heap.c` | memory map from the boot loader |
| user heap, stack, mmap, pointer checks | `syscall.c`, `process.c`, `paging.c` | address spaces |
| ELF loader | `elf_loader.c` | address spaces, file systems |
| descriptors and redirection | `syscall.c`, `process.c`, `fs.c` | file systems, pipes |
| paths, file systems | `fs.c`, `ramfs.c`, `diskfs.c`, `fat16.c`, `procfs.c` | heap, ATA driver |
| disk driver, clock, screen | `ata.c`, `rtc.c`, `vga.c` | devices (external) |
| kernel shell | `kernel.c` | all of the above |
| user shell, user allocator | `user/ush.c`, `user/umalloc.h` | system calls |
| CPU set-up, utilities | `gdt.c`, `idt.c`, `isr.c`, `utils.c` | hardware |

The interactions that matter are ownership (who frees an address space, a stack, a pipe
end or a frame, and when), wake-ups (who owes whom one), and the order in which a failing
or interrupted operation has changed memory and disk.

## Modules

Variables and actions keep the names of the code where TLA+ allows it (`sem_wait` is
`SemWait`). A comment at each definition names its function. Variables called *history* in
the comments exist only to state properties. "Faulty variant" definitions are wrong
versions of a definition; replacing the definition by one of them must break a property.

| Module | Models | State | Steps |
|---|---|---|---|
| `Task` | `task.c`, `task.h` | ready ring and blocked list as sequences, retired task, control blocks | create, block, resume, wake one/all/task, kill, tick, exit |
| `Scheduler` | the promise of `task.c` | the same lists as sets | the same steps, next task left open |
| `Process` | `process.c` life cycle, the shell's launch | process table, tasks, address spaces, `next_pid` | fork/spawn, exec, thread create and join, exit, wait, waitpid, kill, tick; six steps of the shell |
| `Signals` | signal parts of `process.c`, `syscall.c` | pending, handlers, `in_signal`, `stopped` | send, delivery on return to user mode, pause, stop, return of a handler and sigreturn at any time, exec, exit |
| `FileTable` | descriptors, dup2, redirection | tables, standard streams, node and pipe-end counts, the shell's command line | open, create, unlink, pipe, dup, dup2, close, fork, exit; the shell's look-ups, spawn and redirection |
| `Pipeline` | the shell's `a \| b \| c` | shell position, stages, pipe ends | create, spawn, wire, abort, wait, detach; stages read, write, quit |
| `Semaphore` | `sem.c` | count, blocked, woken, flagged and dead tasks | init, wait, resume, post, signal, kill, tick |
| `Timer` | `timer.c`, alarms | wrapping tick counter, sleep slots, alarms | sleep, alarm, resume, tick, signal or kill, reuse of a task |
| `Pipe` | `pipe.c` | ring, positions, end counts, calls in progress | read, write, close, reference, resume, signal, kill |
| `Keyboard` | `kb.c` | ring, modifier, foreground, queue of readers | key presses, Ctrl+C, read, try-read, resume |
| `Ata` | `ata.c` and the drive | driver position, drive registers, sectors | start, poll, drain, transfer, flush, give up; the drive's steps |
| `Pmm`, `PmmScan` | `pmm.c`, memory map of `kernel.c` | bitmap as a set of frames, counter, the shell's call in progress | boot regions, allocate, free; the shell's find, mark, clear and count; the search loop as a recursive function |
| `Paging` | `paging.c` | page tables, reference counts, TLB, contents | create, load, clone, destroy, activate, read/write with their faults, unmap, share |
| `UserMemory` | layout, sbrk, mmap, faults | break, bitmap, mapped pages | load, sbrk, mmap, munmap, `sys_shm()`, touch an address |
| `Heap` | `heap.c` | list of blocks, pages owned | kmalloc (whole, or split at the shell's preemption), kfree |
| `Ramfs` | `ramfs.c` | node table, buffers with capacities | create, unlink, rmdir, open, close, write with growth |
| `DiskFS` | `diskfs.c` | directory and data on disk, cached directory, the operation in progress | format, mount, create, remove, write, one step per sector written; power loss, device errors |
| `Fat16` | `fat16.c` | FAT, clusters, root directory, node pool | lookup, open, close, create, unlink, write |
| `Paths` | `vfs_resolve_path()` of `fs.c` | none: operators over texts of slashes and components | the loop over the text, as recursion |
| `Vfs` | the resolvers and path calls of `fs.c`, `cp` and `mv` of `kernel.c` | tree of nodes, working directories, the copy in progress | create, mkdir, unlink, rmdir, write, chdir, inherit; `cp` and `mv` call by call |
| `Procfs` | the process list of `procfs.c` | process table, the shared text buffer, where the shell is in it | fork and exit, a call's list in one step, the shell's line by line |
| `Loader` | `elf_loader.c` | the file, its reference, position, headers read, pages, bytes copied | look-up, open, check, reread, map, copy chunks, stack, argv, every failure; rewriting of the file |
| `UserArgs` | pointer checks of `syscall.c`, `paging.c` | mapped pages, zero bytes | map, unmap, write |
| `Umalloc` | `user/umalloc.h` | free ring, blocks given, break | malloc, free, the program's own sbrk |
| `Environment` | `setenv`, `getenv` of `process.c` | variable tables | setenv, getenv, fork, exec, exit, launch |
| `Ush` | pipelines and jobs of `user/ush.c` | the shell's position, descriptor tables, children, pipes | pipe, fork, close, wait, reap; each child's dup2 and close, exec, read, write, quit, kill |
| `Rtc` | `rtc.c` and the chip | registers, update flag, selected register, the reader's passes | the chip's update, each port access, `time()` by another task |
| `Terminal` | cursor of `vga.c` | row, column, the shell's registers, the cell written | loads and stores of the shell, whole characters of others |

Theorems are in `TaskProofs` (scheduler, signals, terminal, timer), `IpcProofs` (semaphores,
pipes), `CountProofs` (frames, descriptors), `PagingProofs`, `LoaderProofs` (loader, layout of
user memory), and `ProcessOwners`, `ProcessFamily` and `ProcessProofs`, which build on each
other.

Compositions: `Process` is a process table *on* the scheduler's promise (any
ready task may run, which `Task` is shown to implement); `Pipeline` puts the kernel shell,
processes and pipes together, `Ush` the user shell, its children, their descriptor tables
and pipes; `FileTable` puts descriptor tables, file nodes, pipe ends and the shell's
redirection together; `Vfs` puts path resolution, the tree, its mounts and the shell's
commands together; `Ata` and `Rtc` put a driver and its device together; `Timer` has the
tick handler, sleeping tasks and the alarms of processes.

### What is abstracted

Data is reduced to what the properties tell apart. File names, tasks, pids, channels and
address spaces are model values or small numbers. A byte of a file is the name of the file
it was written to, or zero, which is what detects foreign bytes. Bytes of pipes and keys
are numbered, which is what detects loss and reordering. The user stack frame of a signal
handler is one saved context. The bitmap of `pmm.c` is the set of set bits; the
loop that finds a run is in `PmmScan`, where it is compared with that set view.
A path is a sequence of slashes and components, each with its length. Of the text of `/proc`
and of environment variables only lengths and identities remain. An image in memory is
the set of its pages and of the file bytes copied into them. The clock's registers are the
fast one and one that stands for the slower ones. Conditions, early returns, error paths
and their order are kept.

### Model values for TLC

Components that share no state are checked by one run. `MCTasks`, `MCKernel`, `MCLive`,
`MCMemory` and `MCStorage` put them side by side; a variable `part` says which one a
behaviour runs, and the others do not move. This explores each component alone (a sum of
state spaces, not a product). `MCTasks` extends `Scheduler`, `MCKernel` extends `Process`,
`Semaphore` and `FileTable`, and `MCMemory` extends `Pmm` (by way of `PmmScan`) and `Paging`,
so that the definitions the runs check there are those the theorems are about; the variables of
these modules keep their initial values in the other parts. The rest is instantiated, and a
property of it starts with `part = "..." =>` or is a `CASE` on `part`.

## Runs

Passing runs, with the number of distinct states:

| Run | Checks | States |
|---|---|---|
| `tasks` | lists of `task.c` and the scheduler's promise | 43 thousand |
| `kernel` | `Process`, `Signals` with and without a thread, `FileTable`, `Environment`, `Pipeline`, `Ush`, `Semaphore`, `Timer`, `Pipe`, `Keyboard`, with kills | 484 thousand |
| `live` | liveness of `Process`, `Signals`, `Pipeline`, `Ush`, `Semaphore`, `Timer`, `Pipe`, `Ata` | 34 thousand |
| `memory` | `Pmm`, `PmmScan`, `Paging`, `UserMemory`, `UserArgs`, `Heap`, `Umalloc`, `Loader`, `Ata`, `Rtc`, `Terminal` | 315 thousand |
| `storage` | `DiskFS`, `Fat16`, `Ramfs`, `Procfs`, `Paths`, `Vfs` | 833 thousand |

**tasks.** `SchedInv` (the inductive invariant of the promise, below) and
`FreedOnlyWhenLeft` (no step frees a stack that is running or can run) about `Scheduler`;
`ListsPartitionTasks` about the real lists; `ImplementsScheduler`: every step of the
lists is a step of the promise under the mapping of sequences to sets, and
`task_wake_one()` wakes the one that waited longest; `RoundRobin` and `KilledTaskDies`.

**kernel.** `SpacesOwned`: no task runs on a destroyed address space, none is shared or
leaked. `TableExact`: thread counts are exact, pids are unique across the wrap of
`next_pid`, and every zombie has somebody who can collect it, with the main task's status.
`BlockedForAReason`: nobody is blocked in `wait`, `waitpid` or `join` after what it waits for
has happened. `SignalStateTrue`: with a thread, a stopped process has a task in
the stop loop and the main task is not blocked in `pause` or a stop with what ends it pending;
without, also `in_signal` is set exactly while the one handler runs and a stopped process runs
no user code. `RefsExact`: counts of nodes and pipe ends equal the pointers at them, and no
process points at a freed node, with programs running between the shell's steps (see Findings
for what is excepted). `EnvironmentExact`: `getenv()` answers with what was
last set, here or in an ancestor before the fork. `PostsHaveTakers`: a blocked waiter next to a
positive count implies a woken task on its way, or one killed on its way. `RingExact`: pipe and
keyboard bytes come out once and in order, a pipe is freed exactly when unreachable, and nobody
sleeps in a pipe or at the keyboard next to what it waits for; a running stage of a pipeline, of
either shell, has its ends, under `ush` no others, and at the prompt of `ush` no pipe is left;
descriptor tables keep `FilesInv`. `TimersExact`: sleeps and alarms are exact over the wrap of
the counter. Where there is a proof, the run checks the inductive invariant itself
(`SignalsInv`, `PipeInv`, `FilesInv`, `TimerInv`; for `Process`, `TableExact` is
everything that is inductive beside `SpacesOwned` and `BlockedForAReason`).

**live.** `ExitObserved`, `KillCompletes` (without threads), `SignalsTaken`,
`PipelineEnds` (the kernel shell returns to its prompt, all stages end, all pipes are
freed, whichever spawn fails; with the shell not preempted, see Findings),
`PromptReturns` (the same of `ush`, which needs no such restriction: a child wires its own
ends, so nothing has to happen before it runs), `WaitsEnd` (waiters of a positive semaphore
and of a closed pipe go on), `SlotsComeBack`, `CallsReturn`.

**memory.** `PmmInv` and `AllocFresh` (the counter is exact and no frame is given twice, as long
as no program calls the manager in the middle of a call of the shell), `FramesExact` (what is
free was called available by the memory map and lies outside kernel and user window, and the
search finds the first run that fits; and `PagingInv`); `PageRefsExact` and `Isolation`
(copy-on-write never shows a process another one's write; the TLB is never stale); `UserLayout`
(heap, stack and mappings stay apart, as `LayoutInv` says it, and a pointer is accepted exactly
if all its bytes are the program's); `AllocatorsExact` (blocks of the kernel heap and of
`umalloc` are disjoint, large enough, and none is lost); `LoadSafe` (an image stays in its window
although the file is rewritten between the two readings of its headers or a read fails, a failure
leaves nothing behind, and a file that was not rewritten is in memory as its headers say);
`ClockAndCursor` (the time read is one the clock showed during the call, in each of the four
encodings; the cursor leaves the screen only while the shell scrolls); `DiskFaithful` (a disk
call that reports success did what it says, even after calls that timed out while the drive kept
working).

**storage.** `ContentsExact`: what is read is what was written, with zeros in gaps, never
bytes of a previous owner. `DirectoryAtomic`: after the first power loss or write error the
disk mounts, with the directory of before or after. `VolumeSound`; `TreeSound`, with the end
of the doubling loop near 2^32; `OpenStays`. `PathsExact`: a path resolves to the one
canonical path that it denotes or to none, never to another because a component was cut or
dropped; a call changes only the node its path denotes; a `cp` or `mv` between two
files that succeeds has done what it says, unless a program changed one of the files in between
or a read failed. `ListFits`: the list of processes stays in its buffer, whatever the table does
while the shell makes it.

### Bounds

* Tasks: the two kernel tasks and three more give rings with a neighbour on each side, two
  waiters on one channel, and a retired task while another ends. Two channels tell a wrong
  channel from the right one.
* Processes: a table of two slots with `PidMax = 2` makes every fork meet a full table or
  the wrap; four tasks are a shell, two mains and a thread.
* Pipelines: three stages (a first, a middle and a last one), two under `ush` in the
  liveness run, and a background job; pipes of one byte, so that every stage blocks.
* Signals: besides the job control signals one below and one above them (17 and 20), and one
  (10) where there is a thread. A task's handlers are counted up to `MaxNested = 2`, enough to
  see one inside another.
* Files: two processes with tables of two descriptors, one node and one pipe, three references
  at a time (`MaxRefs`), and one of the shell's mishaps (below) per behaviour.
* Environment: two variables fill the table; keys and values that are empty, as long as
  possible and too long; buffers of `getenv()` that take nothing and that cut a value off.
* Semaphores: four tasks, counts to 3: two waiters, a poster and a killer.
* Timer: a counter modulo `2 * Half`; every start value and every delay below `Half` is
  tried, so all positions relative to the wrap occur. Two tasks compete for one sleep slot.
  `MaxSkips` bounds consecutive ticks
  that end a task.
* Pipes: buffer of 2, calls of up to 3 bytes, so calls are partial and both ends block.
* Frames: 5 frames with kernel, user window and usable memory on both sides, map entries at
  every byte offset. Paging: three spaces are a parent, a child and a grandchild; three
  frames run out. User memory: program headers below, at and above each limit, all
  addresses, and all increments of `sbrk` in a 48-byte address space.
* Heap: three pages, sizes that split, fit exactly and need two pages. `umalloc`: ten
  units, requests up to more than half of the address space, a break the program moves.
* Loader: two program headers out of ten, which share a page, fit exactly, or miss each
  limit by one; the file may be rewritten before each read.
* Pointers: all addresses and all sizes of a 32-byte space with three regions.
* Clock: hours around noon and midnight in all four encodings, two updates or one foreign
  `time()` during a call. Screen: 3 by 2 cells; `MaxRow` bounds how far output of others
  gets while the shell scrolls.
* Paths: all texts of five parts from each working directory that a buffer of eight bytes holds.
  `Vfs`: the shell and one program, files of two chunks; names that are the same to FAT16 and not
  elsewhere, and paths that stop fitting as the working directory grows.
* `/proc`: three processes whose lines do not all fit, pids that get a digit longer.
* File systems: sectors and clusters of 2 bytes, so that writes cross them; two files
  compete for slots, clusters and names; one power loss or device error per behaviour.

Symmetry is used for model values that are alike, in runs without liveness properties.

### Fairness

* `Task`: weak fairness of `Resume` (the CPU goes on) and strong fairness of `Tick` (a tick
  comes again and again while a task runs). `RoundRobin` needs one more assumption, stated
  in `CalmSpec`: again and again a tick lands on an unmarked task. A program could
  otherwise keep the ring from going round: each task that gets the CPU creates a successor
  and is killed before its tick, for ever.
* `Process`, `Semaphore`, `Pipe`, `Signals`, `Pipeline`: weak fairness of the continuation
  of each woken task, which is what `RoundRobin` says, and of the tick that ends a marked
  one. There is no fairness for anything a program decides (to exit, close, post, quit),
  except that handlers return.
* `Ush`: weak fairness of the shell and of each child, all of them processes in the ring.
  A line may never come, a program may never quit by itself.
* `Timer`: the tick keeps coming. `Ata`: the driver takes its next step, since its polling
  loops are bounded; nothing is assumed of the drive.

Deadlock is checked in `tasks`, `storage`, `fat16_pool`, `user_memory_top`, `mv` and
`terminal`. The others may stop: all tasks dead, a table in which everybody exited, a waiter
nobody posts to, or a memory map that left no frame to allocate.

## Findings

Seven runs are expected to end in a counterexample. Each checks a statement of a comment or
a test of the repository; `PROJECT.json` quotes it.

| Run | The code |
|---|---|
| `process_kill_thread` | SIGKILL "always force-terminates", but a flagged task can still create a thread before a tick lands on it; the new thread is not flagged and keeps the process alive. |
| `pipeline_race` | A stage that ends before the preempted shell calls `process_pipe()` never closes its ends; the next stage never sees end of file. |
| `semaphore_kill` | A waiter that is woken by a post and killed before it runs takes the wake-up with it; another waiter sleeps next to a positive count. |
| `fat16_pool` | With all pool nodes open, a lookup misses an existing file and create adds a second entry with its name. |
| `user_memory_top` | An image that ends in the page below the stack puts the break above the heap's ceiling; the unsigned difference wraps and `sbrk()` accepts any increment. |
| `mv` | For equal paths `shell_copy()` reports success without copying, and `mv` then removes the file. |
| `terminal` | `terminal_putchar()` increments the row before it scrolls. Characters that others print while the preempted shell is in between are written below the last row. |

The passing runs avoid these cases by a constant (`MaxThreads = 0` in `live`, `ShellPreempted`,
`Kills`, `TopImages`) or state the weaker property that holds (`PostsHaveTakers` counts killed
takers, `NamesUnique` is checked with pool nodes to spare, `CopiesExact` is about two different
paths, and `ClockAndCursor` leaves out what is printed while the shell scrolls). The models show
more of the same kind, some of it when a constant is changed:

* `Heap`, `ShellPreempted = TRUE`: `kmalloc()` takes no lock, and the shell can be preempted
  between finding a block and taking it; `HeldAreTaken` fails.
* `Pmm`: the same without a lock there. Behind a program's call in the middle of one of the
  shell's (`overlapped`), a frame can be given twice, a freed one stay taken, and the counter be
  wrong; `PmmInv` and `AllocFresh` say nothing of these states, and the model ends with that call.
* The shell looks redirection targets and programs up without a reference. A program that
  unlinks the file in between, or `a < f | b > f`, where the shell itself does so, leaves it with
  a freed node. What follows has no defined result: `FileTable` (`Freed`) and `Loader` (`lost`)
  end there.
* `process_redirect()` of a process that has already ended takes references that nobody gives
  back (`leaked`), and of one that has made the stream a pipe with `dup2()` leaves both set
  (`mixed`).
* `shell_copy()` keeps two nodes without references as well. When a program unlinks one of them,
  or the target is the source under another name (`cp a A` on the FAT volume), `Vfs` ends. A read
  that fails returns 0 like the end of the file: the copy succeeds, short, and `mv` removes the
  source.
* `Rtc`, two foreign calls, or one and an update: `rtc_read()` compares two passes, and both
  can be wrong in the same way, since the register is selected and read in two port
  accesses; the time is then one the clock never showed.
* `Process`, `LaunchRaces = TRUE` with three spaces: a slot picked by the preempted shell is
  handed out again.
* `DiskFS`, `MaxFaults = 2`: one entry lies across the two directory sectors; a second
  interruption while the first is not repaired makes `AlwaysMountable` and
  `NoForeignBytes` fail.
* `Signals` with a thread: `in_signal` and `stopped` belong to the process while handlers
  and stops belong to tasks. A task that leaves the stop loop takes its signal although another
  one runs a handler; the first `sigreturn` clears the flag for both; other tasks of a stopped
  process go on. `InSignalTrue` is therefore about processes without threads.
* SIGCONT does not cancel a pending SIGSTOP; signals are taken in the order of their
  numbers.
* A sleep that a signal ends early returns like a full one. `SleepsExactly` excludes it.
* `umalloc`: the rounding of a request near 2^32 to units wraps (`UmallocAssumption` leaves
  those requests out).
* Two users of `/proc` share one buffer: the text the preempted shell shows may be a mixture,
  though it stays in its bounds.
* Ctrl+C that kills a woken reader costs one keyboard wake-up, as with semaphores.

## Proofs

| Theorem | Statement | Module |
|---|---|---|
| `SchedulerSafe` | `Scheduler`: `Spec => []SchedInv` | `TaskProofs` |
| `KilledTaskNeverWaits` | `Spec => []KilledNeverWaits` | |
| `FreesOnlyStacksLeft` | `Spec => FreedOnlyWhenLeft`, an action property | |
| `SignalsSafe` | `Signals`: `Spec => []SignalsInv` | |
| `CursorSafe` | `Terminal`: `Spec => []CursorReturns` | |
| `TimerSafe` | `Timer`: `Spec => []TimerInv` | |
| `AlarmsNeverEarly` | `Spec => AlarmNotEarly`, an action property | |
| `ProcessSafe` | `Process`, without `LaunchRaces`: `Spec => []SpacesOwned` | `ProcessProofs`, on `ProcessOwners` and `ProcessFamily` |
| `TableSafe` | the same: `Spec => []TableExact` | |
| `WaitersHaveReasons` | the same: `Spec => []BlockedForAReason` | |
| `FrameCountsExact` | `Paging`: `PagingSpec => [](PagingTypeOK /\ PageRefsExact)` | `PagingProofs` |
| `WritesIsolated` | `PagingSpec => []Isolation` | |
| `PmmSafe` | `Pmm`: `Spec => []PmmInv` | `CountProofs` |
| `AllocationsFresh` | `Spec => AllocFresh`, an action property | |
| `FilesSafe` | `FileTable`: `FileTableSpec => [](FileTableTypeOK /\ RefsExact)` | |
| `PostsNotLost` | `Semaphore`: `SemaphoreSpec => [](SemaphoreTypeOK /\ PostsHaveTakers)` | `IpcProofs` |
| `NoPostLostWithoutKills` | without kills the count never exceeds the woken tasks while somebody waits | |
| `PipeDelivers` | `Pipe`: `Spec => []RingExact` | |
| `PipeWaitersWoken` | `Spec => []BlockedForAReason` | |
| `LoadsSafe` | `Loader`: `Spec => [](PagesInWindow /\ Balanced /\ Startable)` | `LoaderProofs` |
| `LayoutSafe` | `UserMemory`, without `TopImages`: `Spec => [](HeapBounds /\ GuardPageAbsent /\ ExtMappedReserved)` | |

Each assumes of the constants only what the module's `...Assumption` says, which TLC evaluates
in the runs:

* `Scheduler`: any set of tasks, processes and channels; the two kernel tasks exist and
  differ, the null values are none of the real ones.
* `Process`: any size of the table with at least as many pids, any finite number of tasks, any
  number of spaces and threads. `~LaunchRaces`: no process is created between the two halves of
  the shell's `process_allocate()`; otherwise the theorems are false (see Findings).
* `Signals`: any threads and any catchable signals below `NSIG`. `Semaphore`, `Pipe`: any
  finite set of tasks; any largest count, any buffer, number of descriptors and length of calls.
* `Timer`: any number of tasks and slots, any range of the counter; fewer consecutive ticks end
  a task than half that range, without which an alarm could be passed over for so long that its
  tick seems to lie ahead.
* `Pmm`: any number and size of frames and any layout. `Paging`: any finite number of spaces and
  pages, any frames and values. `FileTable`: any finite number of processes, any number of
  descriptors, nodes, pipes and references.
* `Loader`, `UserMemory`: any page size, window, width of addresses, set of program headers and
  arguments; for `UserMemory` the stack and the mmap region begin and end on pages, as the
  constants of the code do, and `~TopImages` leaves out the images of the finding
  `user_memory_top`. `Terminal`: any screen.

*Scheduler.* That a marked task never waits is not inductive alone. `SchedInv` adds the types,
that `ready`, `waiting` and the retired task partition the allocated control blocks, that the
running and the idle task are ready, that a waiting task's continuation is parked inside
`task_block_current()`, and that the kernel tasks are never marked. The partition is what makes
the deferred free safe: the block freed when a task ends is the retired one, which is on no list.
`TaskExit` and `Wake` occur in several actions and are lemmas of their own; `NextSchedInv` has
one step per action.

*Semaphore.* `PostsHaveTakers` counts `woken \cup dead`; a wake adds one to it only if the task
was in neither. So `SemInv` adds that the sets of blocked, woken and dead tasks are pairwise
disjoint, and that nobody waits on a semaphore that is not in use. A post adds one to the count
and, if somebody is blocked, one to `woken`; a taker takes one from each; a kill moves a task
from `woken` to `dead`.

*Frames.* `PmmInv` says that `used_blocks` is the number of set bits, frame 0 is set and held
frames are set; of a call of the shell that nobody has disturbed it says that the run found is
still free, that the words read are still those of the map, and that the counter it will store is
the right one (`CallSound`, `Accounting`). During boot nothing is held, which is why releasing
regions is harmless; that conjunct is the strengthening. The counter's updates are cardinality
facts: `ReleaseCounts` for the release of a region that puts frame 0 back, `MarkCounts` and
`ClearCounts` for the setting and clearing of a run. The shell's calls have a lemma per step.

*Loader.* `LoaderInv` adds what the loader knows at each point of its program: the count of
headers it kept fits the file, which does not get shorter; the space exists from its
creation on; while segments are loaded every page begins below `heap_base`, and afterwards
every page of the image ends there. That pages stay in the window does not follow from the
first check of the headers, since the file may be rewritten behind it; it is the second
check, on the header just read, that carries the step. That the file is there
while it is read needs `FoundInv`: what was looked up is linked until it is opened, or is lost. The
lemmas before it are about rounding to pages.

*Terminal.* The shell works on copies of row and column in registers. `TerminalInv` adds
that these are a column and a row of the screen wherever the shell is, so that what others
print meanwhile cannot make its next store leave the screen. At the optimisation level of the
build the column is in a register until it is stored once, after the test for the end of the
line; so `Advance` stores the column once.

*Process.* Three layers, one module each. `OwnInv` (`ProcessOwners`, `ProcessFamily`) is about
tasks, slots and spaces: besides `SpacesOwned` it needs exact thread counts (they decide who
destroys the space), at most one main task per process, that exactly the RUNNING processes have
a space, and that the slot, pid and space the shell has picked are nobody's (`LaunchPrivate`,
where `~LaunchRaces` is used). `WaitsWell` says that a wait in progress has a slot as its target.
`FamilyInv` (`ProcessFamily`, `ProcessProofs`) relates parents to children: a parent is the
shell or a process that runs, the launched process stays the shell's until it is waited for or
detached, the status in the table is the main task's from when that ends, and a blocked task is on
the channel of its own wait. A waiter has its reason because the step that takes the reason away
(the last thread's exit, a child's exit, a kill) wakes exactly the channel of that wait. Each
action has a lemma for each layer; `process_task_exit()`, where most can go wrong, is split into
the cases of a task that leaves others behind and of the last one.

*Paging.* The proof has two halves. `FramesInv` is about counts: `page_ref` is one less than the
number of mappings, a free frame has none, and spaces that share a frame have it at the same
address, so that cloning adds one mapping per page; it rests on cardinality lemmas (`OneMore`,
`OneLess`, `SameCount`). The other half takes from the counts only that a frame with
`page_ref = 0` has one owner (`SoleOwner`), and shows that a store reaches no page of anybody else.
`PagingInv` adds that a space being loaded shares nothing, that the TLB has only entries the page
table has, and who the sharers of shared memory are.

*Signals.* Besides the types, `SignalsInv` is made of what it promises; the part for processes
without threads needs that one stops outside its handlers only. Delivery picks the least
deliverable signal (`LeastSignal`); `LoopOutcome` lists what one delivery can do,
`DeliveredKeeps` takes the cases.

*Pipe.* `PipeInv` is `RingExact` and `BlockedForAReason` together, since neither is inductive
alone: a blocked call holds a reference, and whether it may sleep depends on the counts. That
bytes come out in order is stated with the bytes' numbers: from `read_pos` on, the ring holds
those from `rcvd` up to `sent`, counted modulo `Cap + 1`, which tells apart the bytes that are
in the ring and the next one. `GetOrder` and `PutPlace` are the arithmetic of its positions.

*Descriptors.* `FilesInv` adds that a process that does not exist has an empty table and that the
nodes the shell has looked up are linked, until one of them is freed. Every call changes single
slots; `HoldersStep` and `ReplaceTallied` say how the number of holders of an object changes when
a slot does. A redirection changes two slots of a table others may have filled (`GivenTable`), or
counts references for a table that nobody has (`RedirectEndedKeeps`).

*Timer.* That sleeps are exact does not follow from the states of the tasks; `SlotsDue` and
`AlarmsDue` tie each deadline, modulo the range of the counter, to the ticks that remain. The
signed comparison of `timer.c` then decides rightly because every deadline lies less than half
the range ahead, or fewer than `MaxSkips` ticks behind (`Wraps`, `NextTick`, `LateTick`).

*User memory.* `LayoutInv` adds where a present page can be: below the guard page, in the stack
or the page of `sys_shm()` above it, or a reserved page of the mmap region. For the break it is
the unsigned test of `sys_sbrk()` that carries the step, and it does so only because the break
starts below the heap's ceiling; that is what `~TopImages` gives.

Only model-checked:

* liveness under fairness;
* the refinement of `Scheduler` by `Task`: `task.c` moves the woken tasks over one by one, which
  `Task` writes with `SelectSeq` and a fold; that these keep the members of a list is an
  induction over its length. For the same reason `Keyboard`, whose queue is filtered so;
* what a loop computes: `PmmScan`, `MmapFirstFit` (the scan of `process_ext_alloc()` is a
  recursive function), path resolution, and `ImageExact` of `Loader`;
* chains, rings and buffers in `Fat16`, `Ramfs`, `DiskFS`, `Heap` and `Umalloc`;
* `Pipeline`, `Ush`, `Vfs`, `Procfs`, `Environment`, `UserArgs`, `Ata` and `Rtc`.

## Not modelled

* `gdt.c`, `idt.c`, `isr.c` and the assembly stubs: hardware set-up and register saving.
  Their effect, one handler at a time, is the step granularity of the models.
* `utils.c`, and number and colour formatting of `vga.c`: string and memory functions.
* The order of initialisation in `kernel.c`, which is straight-line code, and the shell's
  commands that only print or test.
* Parts of modelled components: CPU accounting and names of processes; FAT16 subdirectories, long
  names and boot sector checks; which processes share the page of `sys_shm()`, beyond the one
  page of `Paging`; copying of argument vectors from user memory; the files of `/proc` other than
  the list of processes, each one short line; file offsets, which dup and fork copy, and the
  bytes that reads and writes of a descriptor move (the file systems have the contents);
  variables and built-ins of `ush`; `calloc()`.
* Calls of the preempted shell to `ramfs.c`, `diskfs.c`, `fat16.c` and `paging.c` in the middle of
  which a program calls the same code. None of the four has a lock.
* The small user programs, which only call the system.

## Plan

1. Extend the models: FAT16 subdirectories; the shell's calls of the file systems split where a
   tick can fall; self-join and the
   default action that ends one thread only.
2. Compose: `DiskFS` over `Ata` (a sector write that times out may still be stored later);
   kernel shell, descriptor tables and pipelines in one module; `Process` over `Paging` for
   exec and exit while copies are pending.
3. Prove: that stages of a pipeline have their ends (`Pipeline`, `Ush`), what `Ata` promises
   of a call that reports success, and the bound of `Procfs`.
