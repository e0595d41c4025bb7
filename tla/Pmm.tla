--------------------------------- MODULE Pmm ---------------------------------
(***************************************************************************)
(* The physical memory manager (pmm.c): a bitmap of frames with a counter  *)
(* of the used ones, filled at boot from the memory map (kernel.c) and     *)
(* then asked for runs of frames.  Addresses are counted in bytes of which *)
(* a frame has B.  The manager never looks into a frame.                   *)
(*                                                                         *)
(* It has no lock.  A call from a system call or a page fault is one step: *)
(* interrupts are off.  The shell's calls (elf_spawn_argv(), the heap, the *)
(* memory tests) run with interrupts on, so they are split where a tick    *)
(* can let a process make a call of its own.  When one does, the shell     *)
(* goes on with what it read before, its call ends, and the model with it. *)
(***************************************************************************)
EXTENDS Integers, FiniteSets, FiniteSetsExt

CONSTANTS
  MaxBlocks,   \* max_blocks
  B,           \* PMM_BLOCK_SIZE
  FreeStart,   \* first byte behind the kernel image, rounded up to a frame
  UserBase,    \* USER_LOAD_BASE: from here ...
  UserTop      \* ... to here memory is kept for user programs' low addresses

ASSUME PmmAssumption ==
  /\ MaxBlocks \in Nat \ {0} /\ B \in Nat \ {0}
  /\ FreeStart \in Nat /\ UserBase \in Nat /\ UserTop \in Nat

VARIABLES
  booting,       \* the memory map is still being read
  memory_map,    \* the frames whose bit is set: reserved or in use
  used_blocks,
  avail,         \* history: the bytes the memory map calls available, after the boot
                 \*   those of the frames that it left free
  held,          \* history: the frames that callers have got and not freed
  shellPc,       \* where the shell is in a call: "idle", "found" a run, "freeing" one, or
                 \*   "counting", with the bits done and the counter not yet stored
  shellRun,      \* the frames the shell's call is about
  shellUsed,     \* used_blocks, in a register of the shell's call
  shellMap,      \* the words of the bitmap that its free has read
  overlapped     \* history: somebody made a call in the middle of one of the shell's

shellVars == <<shellPc, shellRun, shellUsed, shellMap>>
vars == <<booting, memory_map, used_blocks, avail, held, shellVars, overlapped>>

Frames == 0 .. MaxBlocks - 1
Bytes(f) == f * B .. f * B + B - 1
Cap(n) == IF n > MaxBlocks THEN MaxBlocks ELSE n
RoundUp(n) == (n + B - 1) \div B

\* pmm_init(): everything is reserved.
Init ==
  /\ booting = TRUE
  /\ memory_map = Frames /\ used_blocks = MaxBlocks
  /\ avail = {} /\ held = {}
  /\ shellPc = "idle" /\ shellRun = {} /\ shellUsed = 0 /\ shellMap = {}
  /\ overlapped = FALSE

-----------------------------------------------------------------------------
(* Boot *)

\* Faulty variant: frames that lie only partly in the region are released too.
RegionFramesOutward(base, size) == base \div B .. Cap(RoundUp(base + size)) - 1

\* The frames that lie wholly in a region.
RegionFrames(base, size) == RoundUp(base) .. Cap((base + size) \div B) - 1

\* What reserving frame 0 again adds to the counter.
ReservedAgain(map) == IF 0 \in map THEN 0 ELSE 1

\* pmm_init_region(): release the frames of a region, but never frame 0.
Released(map, base, size) == (map \ RegionFrames(base, size)) \cup {0}

UsedAfterRelease(map, used, base, size) ==
  LET gone == map \cap RegionFrames(base, size) IN
  used - Cardinality(gone) + ReservedAgain(map \ gone)

\* free_usable_subrange(): the part of a region between two limits.
Subrange(base, size, lo, hi) ==
  LET start == IF base > lo THEN base ELSE lo
      end == IF base + size > hi THEN hi ELSE base + size
  IN [base |-> start, size |-> IF end > start THEN end - start ELSE 0]

\* free_usable_memory() on an available entry of the memory map: what lies between
\* the kernel and the user window, and what lies above the window.
FreeUsableMemory(base, size) ==
  LET low  == Subrange(base, size, FreeStart, UserBase)
      high == Subrange(base, size, UserTop, MaxBlocks * B)
      map1 == IF low.size = 0 THEN memory_map ELSE Released(memory_map, low.base, low.size)
      use1 == IF low.size = 0 THEN used_blocks
              ELSE UsedAfterRelease(memory_map, used_blocks, low.base, low.size)
  IN
  /\ booting
  /\ memory_map' = IF high.size = 0 THEN map1 ELSE Released(map1, high.base, high.size)
  /\ used_blocks' = IF high.size = 0 THEN use1
                    ELSE UsedAfterRelease(map1, use1, high.base, high.size)
  /\ avail' = avail \cup base .. base + size - 1
  /\ UNCHANGED <<booting, held, shellVars, overlapped>>

\* pmm_deinit_region(): reserve every frame a region touches.  The kernel does not
\* call it; its callers are the tests, which do so before they allocate.
DeinitRegion(base, size) ==
  LET gone == (base \div B .. Cap(RoundUp(base + size)) - 1) \ memory_map IN
  /\ booting
  /\ memory_map' = memory_map \cup gone
  /\ used_blocks' = used_blocks + Cardinality(gone)
  /\ UNCHANGED <<booting, avail, held, shellVars, overlapped>>

\* The memory map has been read.  From now on only what is free may ever be free.
EndBoot ==
  /\ booting /\ booting' = FALSE
  /\ avail' = UNION {Bytes(f) : f \in Frames \ memory_map}
  /\ UNCHANGED <<memory_map, used_blocks, held, shellVars, overlapped>>

-----------------------------------------------------------------------------
(* Allocation *)

Run(first, count) == first .. first + count - 1

\* Faulty variant: only the ends of a run are looked at.
FreeRunsEnds(count) ==
  {f \in Frames \ {0} : f + count <= MaxBlocks /\ {f, f + count - 1} \cap memory_map = {}}

\* The places where mmap_first_free_run() may find a run: its loop starts at frame 1
\* and ends before max_blocks (PmmScan compares it with the loop).
FreeRuns(count) ==
  {f \in Frames \ {0} : f + count <= MaxBlocks /\ Run(f, count) \cap memory_map = {}}

\* A system call or a page fault calls the manager, which may be in the middle of a call
\* of the shell.
Called ==
  /\ ~booting /\ (overlapped => shellPc # "idle")
  /\ overlapped' = (overlapped \/ shellPc # "idle")
  /\ UNCHANGED <<booting, avail, shellVars>>

\* The first run of the length asked for, if the counter and the map have one; otherwise
\* pmm_alloc_blocks() returns NULL and changes nothing.
IsFirstRun(first, count) ==
  /\ count > 0 /\ count <= MaxBlocks - used_blocks
  /\ first \in FreeRuns(count) /\ \A f \in FreeRuns(count) : first <= f

\* pmm_alloc_blocks() of a system call or a page fault.
AllocBlocks(count) ==
  /\ Called
  /\ \E first \in Frames :
       /\ IsFirstRun(first, count)
       /\ memory_map' = memory_map \cup Run(first, count)
       /\ held' = held \cup Run(first, count)
  /\ used_blocks' = used_blocks + count

\* Faulty variant: frames are counted as freed whether or not they were in use.
GivenBackAll(run, map) == run

\* The frames of a run that are in use.
GivenBack(run, map) == run \cap map

\* Callers free frames they hold, or that are free already; a malformed call is ignored.
Freeable(addr, count) ==
  /\ addr % B = 0 /\ count > 0
  /\ addr \div B # 0 /\ addr \div B < MaxBlocks /\ count <= MaxBlocks - addr \div B
  /\ Run(addr \div B, count) \cap memory_map \subseteq held

\* pmm_free_blocks() of a system call.  What the shell is being given is not freed by
\* somebody else.
FreeBlocks(addr, count) ==
  LET run == Run(addr \div B, count)
      gone == GivenBack(run, memory_map)
  IN
  /\ Called /\ Freeable(addr, count)
  /\ (shellPc = "counting" => run \cap shellRun = {})
  /\ memory_map' = memory_map \ gone
  /\ used_blocks' = used_blocks - Cardinality(gone)
  /\ held' = held \ run

-----------------------------------------------------------------------------
(* The shell's calls *)

\* The shell has nothing to do with the manager, and no call of its was disturbed.
ShellIdle == ~booting /\ shellPc = "idle" /\ ~overlapped

\* pmm_alloc_blocks(): the counter is read, the map searched.  What a tick in the middle
\* of the search can do, it can also do at its end.
ShellFind(count) ==
  /\ ShellIdle
  /\ \E first \in Frames : IsFirstRun(first, count) /\ shellRun' = Run(first, count)
  /\ shellPc' = "found" /\ shellUsed' = used_blocks
  /\ UNCHANGED <<booting, memory_map, used_blocks, avail, held, shellMap, overlapped>>

\* The bits of the run are set, each by one instruction.
ShellMark ==
  /\ shellPc = "found" /\ shellPc' = "counting"
  /\ memory_map' = memory_map \cup shellRun
  /\ held' = held \cup shellRun
  /\ shellUsed' = shellUsed + Cardinality(shellRun)
  /\ UNCHANGED <<booting, used_blocks, avail, shellRun, shellMap, overlapped>>

\* pmm_free_blocks(): the shell gives up the frames, the counter and the map are read.
ShellFree(addr, count) ==
  LET run == Run(addr \div B, count) IN
  /\ ShellIdle /\ Freeable(addr, count)
  /\ shellPc' = "freeing" /\ shellRun' = run
  /\ shellUsed' = used_blocks /\ shellMap' = memory_map
  /\ held' = held \ run
  /\ UNCHANGED <<booting, memory_map, used_blocks, avail, overlapped>>

\* The bits are cleared, each in a word that is read and written back: a word that was
\* read before somebody else's call undoes what that call did to it.  The counter is
\* stored only if a frame was in use.
ShellClear ==
  /\ shellPc = "freeing"
  /\ \E stale \in SUBSET Frames :
       LET map == (memory_map \ stale) \cup (shellMap \cap stale)
           gone == GivenBack(shellRun, map)
       IN /\ memory_map' = map \ gone
          /\ shellUsed' = shellUsed - Cardinality(gone)
          /\ shellPc' = IF gone = {} THEN "idle" ELSE "counting"
  /\ shellMap' = {}
  /\ UNCHANGED <<booting, used_blocks, avail, held, shellRun, overlapped>>

\* The counter is stored, from the value that was read at the start.
ShellCount ==
  /\ shellPc = "counting" /\ shellPc' = "idle"
  /\ used_blocks' = shellUsed
  /\ shellRun' = {} /\ shellUsed' = 0
  /\ UNCHANGED <<booting, memory_map, avail, held, shellMap, overlapped>>

Next ==
  \/ \E base \in 0 .. MaxBlocks * B : \E size \in 1 .. MaxBlocks * B + 1 - base :
       FreeUsableMemory(base, size) \/ DeinitRegion(base, size)
  \/ EndBoot
  \/ \E count \in 1 .. MaxBlocks : AllocBlocks(count)
  \/ \E count \in 1 .. MaxBlocks : ShellFind(count)
  \/ \E addr \in 0 .. MaxBlocks * B - 1, count \in 1 .. MaxBlocks :
       FreeBlocks(addr, count) \/ ShellFree(addr, count)
  \/ ShellMark \/ ShellClear \/ ShellCount

Spec == Init /\ [][Next]_vars

-----------------------------------------------------------------------------
(* Properties *)

\* Every variable has its type.
TypeOK ==
  /\ booting \in BOOLEAN
  /\ memory_map \in SUBSET Frames
  /\ used_blocks \in Int
  /\ held \in SUBSET Frames
  /\ shellPc \in {"idle", "found", "freeing", "counting"}
  /\ shellRun \in SUBSET Frames
  /\ shellUsed \in Int
  /\ shellMap \in SUBSET Frames
  /\ overlapped \in BOOLEAN

\* The counter is honest: it counts the bits that are set, through overlapping
\* regions of the memory map, regions that hold frame 0 and repeated frees.  In the
\* middle of one of the shell's calls the number it is about to store is.
Accounting ==
  /\ shellPc # "counting" => used_blocks = Cardinality(memory_map)
  /\ shellPc # "idle" => shellUsed = Cardinality(memory_map)

\* A frame somebody holds is never free, so it is never handed out a second time,
\* and frame 0, which would read as NULL, is never handed out.
HeldStayUsed == held \subseteq memory_map /\ 0 \notin held /\ 0 \in memory_map

\* The run the shell has found is still free, the one it frees is nobody's, and what it
\* has read of the map is still so.
CallSound ==
  /\ 0 \notin shellRun
  /\ shellPc = "found" => shellRun \cap memory_map = {}
  /\ shellPc = "freeing" => shellRun \cap held = {} /\ shellMap = memory_map

\* Unless a process has called the manager in the middle of one of the shell's calls, the
\* counter is exact and what is held stays taken.  While booting nobody holds a frame:
\* the memory map is read before any allocation.
PmmInv ==
  /\ TypeOK
  /\ booting => held = {} /\ shellPc = "idle" /\ ~overlapped
  /\ ~overlapped => Accounting /\ HeldStayUsed /\ CallSound

\* A frame that can be handed out is memory the boot loader calls available, and
\* lies neither in the kernel image nor in the window of user programs.
FreeFramesUsable ==
  \A f \in Frames \ memory_map :
    /\ Bytes(f) \subseteq avail
    /\ f * B >= FreeStart
    /\ f * B + B <= UserBase \/ f * B >= UserTop

\* An allocation never hands out a frame that is in use, or frame 0, unless a process
\* has called the manager in the middle of one of the shell's calls.
AllocFresh ==
  [][~overlapped => \A f \in held' \ held : f \notin memory_map /\ f # 0]_vars
=============================================================================
