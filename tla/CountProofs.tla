---------------------------- MODULE CountProofs -----------------------------
(***************************************************************************)
(* Proofs about what the kernel counts. The physical memory manager counts *)
(* its frames honestly and never hands one out twice, for any memory size, *)
(* layout and memory map. The reference counts in files and pipe ends are  *)
(* exact through every call of any number of processes.                    *)
(***************************************************************************)
EXTENDS Pmm, FileTable, FiniteSetTheorems, WellFoundedInduction, TLAPS

(* Frames *)

\* There are MaxBlocks frames.
LEMMA FrameCount == IsFiniteSet(Frames) /\ Cardinality(Frames) = MaxBlocks
<1> USE PmmAssumption
<1>1. 0 \in Int /\ MaxBlocks - 1 \in Int
  OBVIOUS
<1> QED
  BY <1>1, FS_Interval DEF Frames

\* Sets of frames are finite, and at most MaxBlocks many.
LEMMA FramesFinite ==
  ASSUME NEW S \in SUBSET Frames
  PROVE  IsFiniteSet(S) /\ Cardinality(S) \in 0 .. MaxBlocks
<1> USE PmmAssumption
<1>1. IsFiniteSet(Frames) /\ Cardinality(Frames) = MaxBlocks
  BY FrameCount, Zenon
<1>2. IsFiniteSet(S) /\ Cardinality(S) <= MaxBlocks
  BY <1>1, FS_Subset, Zenon
<1>3. Cardinality(S) \in Nat
  BY <1>2, FS_CardinalityType, Zenon
<1> QED
  BY <1>2, <1>3

\* pmm_init_region() counts what it releases, and what it reserves again.
LEMMA ReleaseCounts ==
  ASSUME NEW map \in SUBSET Frames, NEW base, NEW size
  PROVE  /\ Released(map, base, size) \in SUBSET Frames
         /\ 0 \in Released(map, base, size)
         /\ UsedAfterRelease(map, Cardinality(map), base, size)
              = Cardinality(Released(map, base, size))
<1> DEFINE gone == map \cap RegionFrames(base, size)
           left == map \ RegionFrames(base, size)
<1>1. left = map \ gone /\ left \in SUBSET Frames /\ gone \in SUBSET Frames
  BY Zenon
<1>2. 0 \in Frames
  BY PmmAssumption DEF Frames
<1>3. IsFiniteSet(map) /\ IsFiniteSet(left) /\ IsFiniteSet(gone)
  BY <1>1, FramesFinite, Zenon
<1>4. Cardinality(left) = Cardinality(map) - Cardinality(gone)
  <2>1. map \cap RegionFrames(base, size) = gone
    BY Zenon
  <2> QED
    BY <1>3, FS_Difference, Zenon
<1>5. Cardinality(left \cup {0}) = IF 0 \in left THEN Cardinality(left) ELSE Cardinality(left) + 1
  BY <1>3, FS_AddElement, Zenon
<1>6. Cardinality(map) \in Nat /\ Cardinality(gone) \in Nat /\ Cardinality(left) \in Nat
  BY <1>3, FS_CardinalityType, Zenon
<1>7. UsedAfterRelease(map, Cardinality(map), base, size)
        = Cardinality(map) - Cardinality(gone) + (IF 0 \in left THEN 0 ELSE 1)
  BY <1>1, Zenon DEF UsedAfterRelease, ReservedAgain
<1>8. Released(map, base, size) = left \cup {0}
  BY Zenon DEF Released
<1> HIDE DEF gone, left
<1> QED
  BY <1>1, <1>2, <1>4, <1>5, <1>6, <1>7, <1>8

\* Setting the bits of frames that are free adds as many ...
LEMMA MarkCounts ==
  ASSUME NEW map \in SUBSET Frames, NEW run \in SUBSET Frames, map \cap run = {}
  PROVE  Cardinality(map \cup run) = Cardinality(map) + Cardinality(run)
<1>1. IsFiniteSet(map) /\ IsFiniteSet(run) /\ Cardinality({}) = 0
  BY FramesFinite, FS_EmptySet, Zenon
<1>2. Cardinality(map) \in Nat /\ Cardinality(run) \in Nat
  BY <1>1, FS_CardinalityType, Zenon
<1>3. Cardinality(map \cup run) = Cardinality(map) + Cardinality(run) - Cardinality(map \cap run)
  BY <1>1, FS_Union, Zenon
<1>4. Cardinality(map \cap run) = 0
  BY <1>1, Zenon
<1> QED
  BY <1>2, <1>3, <1>4

\* ... and clearing those of a run takes away as many as were set.
LEMMA ClearCounts ==
  ASSUME NEW map \in SUBSET Frames, NEW run
  PROVE  /\ map \ GivenBack(run, map) = map \ run
         /\ GivenBack(run, map) \in SUBSET Frames
         /\ Cardinality(map \ run) = Cardinality(map) - Cardinality(GivenBack(run, map))
<1>1. IsFiniteSet(map)
  BY FramesFinite, Zenon
<1>2. map \cap run = GivenBack(run, map)
  BY Zenon DEF GivenBack
<1>3. Cardinality(map \ run) = Cardinality(map) - Cardinality(map \cap run)
  BY <1>1, FS_Difference, Zenon
<1> QED
  BY <1>2, <1>3, Zenon DEF GivenBack

\* The manager starts with the invariant ...
LEMMA InitPmmInv == Init => PmmInv
<1> SUFFICES ASSUME Init PROVE PmmInv
  BY Zenon
<1>1. 0 \in Frames /\ MaxBlocks \in Int /\ 0 \in Int
  BY PmmAssumption DEF Frames
<1>2. Cardinality(Frames) = MaxBlocks
  BY FrameCount, Zenon
<1> QED
  BY <1>1, <1>2, Zenon DEF Init, PmmInv, TypeOK, Accounting, HeldStayUsed, CallSound

\* ... and while it boots nobody calls it ...
LEMMA BootFacts ==
  ASSUME PmmInv, booting
  PROVE  /\ memory_map \in SUBSET Frames /\ used_blocks = Cardinality(memory_map)
         /\ 0 \in memory_map /\ held = {} /\ shellPc = "idle" /\ ~overlapped
BY Zenon DEF PmmInv, TypeOK, Accounting, HeldStayUsed

\* ... so that only the map and its counter matter.
LEMMA BootKeeps ==
  ASSUME PmmInv, booting,
         memory_map' \in SUBSET Frames, used_blocks' = Cardinality(memory_map'), 0 \in memory_map',
         UNCHANGED <<booting, held, shellVars, overlapped>>
  PROVE  PmmInv'
<1>1. held = {} /\ shellPc = "idle" /\ ~overlapped /\ 0 \notin shellRun
  BY BootFacts, Zenon DEF PmmInv, CallSound
<1>2. Cardinality(memory_map') \in Int
  <2>1. Cardinality(memory_map') \in 0 .. MaxBlocks
    BY FramesFinite, Zenon
  <2> QED
    BY <2>1, PmmAssumption
<1>3. shellPc' = shellPc /\ shellRun' = shellRun /\ shellUsed' = shellUsed /\ shellMap' = shellMap
  BY Zenon DEF shellVars
<1> QED
  BY <1>1, <1>2, <1>3, Zenon DEF PmmInv, TypeOK, Accounting, HeldStayUsed, CallSound

\* ... each entry of the memory map keeps it ...
LEMMA FreeUsableMemoryPmmInv ==
  ASSUME PmmInv, NEW base, NEW size, FreeUsableMemory(base, size)
  PROVE  PmmInv'
<1> DEFINE low  == Subrange(base, size, FreeStart, UserBase)
           high == Subrange(base, size, UserTop, MaxBlocks * B)
           map1 == IF low.size = 0 THEN memory_map ELSE Released(memory_map, low.base, low.size)
           use1 == IF low.size = 0 THEN used_blocks
                   ELSE UsedAfterRelease(memory_map, used_blocks, low.base, low.size)
<1>1. /\ memory_map \in SUBSET Frames /\ used_blocks = Cardinality(memory_map)
      /\ 0 \in memory_map /\ booting /\ held = {}
  BY BootFacts, Zenon DEF FreeUsableMemory
<1>2. map1 \in SUBSET Frames /\ use1 = Cardinality(map1) /\ 0 \in map1
  <2>1. CASE low.size = 0
    BY <2>1, <1>1, Zenon
  <2>2. CASE low.size # 0
    BY <2>2, <1>1, ReleaseCounts, Zenon
  <2> QED
    BY <2>1, <2>2, Zenon
<1>3. /\ memory_map' = IF high.size = 0 THEN map1 ELSE Released(map1, high.base, high.size)
      /\ used_blocks' = IF high.size = 0 THEN use1
                        ELSE UsedAfterRelease(map1, use1, high.base, high.size)
      /\ booting' = booting /\ held' = held /\ UNCHANGED <<shellVars, overlapped>>
  BY Zenon DEF FreeUsableMemory
<1> HIDE DEF map1, use1
<1>4. memory_map' \in SUBSET Frames /\ used_blocks' = Cardinality(memory_map') /\ 0 \in memory_map'
  <2>1. CASE high.size = 0
    BY <2>1, <1>2, <1>3, Zenon
  <2>2. CASE high.size # 0
    BY <2>2, <1>2, <1>3, ReleaseCounts, Zenon
  <2> QED
    BY <2>1, <2>2, Zenon
<1> QED
  BY <1>1, <1>3, <1>4, BootKeeps, Zenon

\* ... and so does reserving a region ...
LEMMA DeinitRegionPmmInv ==
  ASSUME PmmInv, NEW base \in Nat, NEW size \in Nat, DeinitRegion(base, size)
  PROVE  PmmInv'
<1> USE PmmAssumption
<1> DEFINE touched == base \div B .. Cap(RoundUp(base + size)) - 1
           gone == touched \ memory_map
<1>1. touched \subseteq Frames
  <2>1. base \div B \in Nat /\ RoundUp(base + size) \in Int
    BY DEF RoundUp
  <2>2. Cap(RoundUp(base + size)) \in Int /\ Cap(RoundUp(base + size)) <= MaxBlocks
    BY <2>1 DEF Cap
  <2> QED
    BY <2>1, <2>2 DEF Frames
<1>2. memory_map' = memory_map \cup gone /\ used_blocks' = used_blocks + Cardinality(gone)
      /\ booting' = booting /\ held' = held /\ UNCHANGED <<shellVars, overlapped>>
      /\ booting
  BY Zenon DEF DeinitRegion
<1>3. /\ memory_map \in SUBSET Frames /\ gone \in SUBSET Frames
      /\ used_blocks = Cardinality(memory_map) /\ 0 \in memory_map /\ held = {}
  BY <1>1, <1>2, BootFacts, Zenon
<1>4. memory_map \cap gone = {}
  BY Zenon
<1> HIDE DEF gone
<1>5. Cardinality(memory_map') = Cardinality(memory_map) + Cardinality(gone)
  BY <1>2, <1>3, <1>4, MarkCounts, Zenon
<1>6. memory_map' \in SUBSET Frames /\ 0 \in memory_map'
  BY <1>2, <1>3, Zenon
<1> QED
  BY <1>2, <1>3, <1>5, <1>6, BootKeeps, Zenon

\* The run a search finds is free, and as long as it was asked to be.
LEMMA FirstRunFacts ==
  ASSUME NEW count \in Nat, NEW first \in Frames, IsFirstRun(first, count)
  PROVE  /\ Run(first, count) \in SUBSET Frames /\ 0 \notin Run(first, count)
         /\ memory_map \cap Run(first, count) = {}
         /\ Cardinality(Run(first, count)) = count
<1> USE PmmAssumption
<1>1. first \in FreeRuns(count) /\ count > 0
  BY Zenon DEF IsFirstRun
<1>2. /\ first \in Nat /\ first > 0 /\ first + count <= MaxBlocks
      /\ Run(first, count) \cap memory_map = {}
  BY <1>1 DEF FreeRuns, Frames
<1>3. Run(first, count) \in SUBSET Frames /\ 0 \notin Run(first, count)
  BY <1>2 DEF Run, Frames
<1>4. Cardinality(Run(first, count)) = count
  <2>1. first \in Int /\ first + count - 1 \in Int
    BY <1>2
  <2> QED
    BY <2>1, <1>1, FS_Interval DEF Run
<1> QED
  BY <1>2, <1>3, <1>4, Zenon

\* A system call's allocation: in the middle of one of the shell's calls only the types
\* are left, otherwise the frames it hands out were free and are counted ...
LEMMA AllocBlocksPmmInv ==
  ASSUME PmmInv, NEW count \in Nat, AllocBlocks(count)
  PROVE  PmmInv' /\ \A f \in held' \ held : f \notin memory_map /\ f # 0
<1> USE PmmAssumption
<1>1. PICK first \in Frames : /\ IsFirstRun(first, count)
                              /\ memory_map' = memory_map \cup Run(first, count)
                              /\ held' = held \cup Run(first, count)
  BY Zenon DEF AllocBlocks
<1>2. /\ used_blocks' = used_blocks + count /\ ~booting /\ booting' = booting
      /\ overlapped' = (overlapped \/ shellPc # "idle") /\ UNCHANGED shellVars
  BY Zenon DEF AllocBlocks, Called
<1>3. /\ Run(first, count) \in SUBSET Frames /\ 0 \notin Run(first, count)
      /\ memory_map \cap Run(first, count) = {}
      /\ Cardinality(Run(first, count)) = count
  BY <1>1, FirstRunFacts, Zenon
<1>4. TypeOK'
  <2>1. used_blocks' \in Int
    BY <1>2 DEF PmmInv, TypeOK
  <2> QED
    BY <1>1, <1>2, <1>3, <2>1, Zenon DEF PmmInv, TypeOK, shellVars
<1>5. ASSUME ~overlapped, shellPc = "idle"
      PROVE  Accounting' /\ HeldStayUsed' /\ CallSound'
  <2>1. /\ memory_map \in SUBSET Frames /\ used_blocks = Cardinality(memory_map)
        /\ HeldStayUsed /\ 0 \notin shellRun
    BY <1>5, Zenon DEF PmmInv, TypeOK, Accounting, CallSound
  <2>2. used_blocks' = Cardinality(memory_map')
    BY <1>1, <1>2, <1>3, <2>1, MarkCounts, Zenon
  <2>3. shellPc' = "idle" /\ 0 \notin shellRun'
    BY <1>2, <1>5, <2>1, Zenon DEF shellVars
  <2> QED
    BY <1>1, <1>3, <2>1, <2>2, <2>3, Zenon DEF Accounting, HeldStayUsed, CallSound
<1>6. PmmInv'
  BY <1>2, <1>4, <1>5, Zenon DEF PmmInv
<1> QED
  BY <1>1, <1>3, <1>6, Zenon

\* Frames that may be freed are not frame 0.
LEMMA FreeableFacts ==
  ASSUME NEW addr \in Nat, NEW count \in Nat, Freeable(addr, count)
  PROVE  Run(addr \div B, count) \in SUBSET Frames /\ 0 \notin Run(addr \div B, count)
<1> USE PmmAssumption
<1>1. /\ addr \div B \in Nat /\ addr \div B # 0
      /\ addr \div B < MaxBlocks /\ count <= MaxBlocks - (addr \div B)
  BY DEF Freeable
<1> HIDE DEF Freeable
<1> DEFINE first == addr \div B
<1>2. first \in Nat /\ first # 0 /\ first < MaxBlocks /\ count <= MaxBlocks - first
  BY <1>1, Zenon
<1> HIDE DEF first
<1>3. Run(first, count) \in SUBSET Frames /\ 0 \notin Run(first, count)
  BY <1>2 DEF Run, Frames
<1> QED
  BY <1>3, Zenon DEF first

\* ... likewise a free, also of frames that are free already.
LEMMA FreeBlocksPmmInv ==
  ASSUME PmmInv, NEW addr \in Nat, NEW count \in Nat, FreeBlocks(addr, count)
  PROVE  PmmInv' /\ held' \subseteq held
<1> DEFINE run == Run(addr \div B, count)
           gone == GivenBack(run, memory_map)
<1>1. /\ memory_map' = memory_map \ gone /\ used_blocks' = used_blocks - Cardinality(gone)
      /\ held' = held \ run /\ booting' = booting /\ ~booting
      /\ overlapped' = (overlapped \/ shellPc # "idle") /\ UNCHANGED shellVars
  BY Zenon DEF FreeBlocks, Called
<1>2. 0 \notin run
  BY FreeableFacts, Zenon DEF FreeBlocks
<1> HIDE DEF run
<1>3. memory_map \in SUBSET Frames /\ used_blocks \in Int
  BY Zenon DEF PmmInv, TypeOK
<1>4. /\ memory_map' = memory_map \ run /\ gone \in SUBSET Frames
      /\ Cardinality(memory_map') = Cardinality(memory_map) - Cardinality(gone)
  BY <1>1, <1>3, ClearCounts, Zenon
<1> HIDE DEF gone
<1>5. TypeOK'
  <2>1. used_blocks' \in Int
    <3>1. Cardinality(gone) \in 0 .. MaxBlocks
      BY <1>4, FramesFinite, Zenon
    <3> QED
      BY <1>1, <1>3, <3>1, PmmAssumption
  <2>2. memory_map' \in SUBSET Frames /\ held' \in SUBSET Frames
    BY <1>1, <1>3, <1>4, Zenon DEF PmmInv, TypeOK
  <2> QED
    BY <1>1, <2>1, <2>2, Zenon DEF PmmInv, TypeOK, shellVars
<1>6. ASSUME ~overlapped, shellPc = "idle"
      PROVE  Accounting' /\ HeldStayUsed' /\ CallSound'
  <2>1. used_blocks = Cardinality(memory_map) /\ HeldStayUsed /\ 0 \notin shellRun
    BY <1>6, Zenon DEF PmmInv, Accounting, CallSound
  <2>2. shellPc' = "idle" /\ 0 \notin shellRun'
    BY <1>1, <1>6, <2>1, Zenon DEF shellVars
  <2> QED
    BY <1>1, <1>2, <1>4, <2>1, <2>2, Zenon DEF Accounting, HeldStayUsed, CallSound
<1> QED
  BY <1>1, <1>5, <1>6, Zenon DEF PmmInv

\* The shell's allocation finds a run that is free ...
LEMMA ShellFindPmmInv ==
  ASSUME PmmInv, NEW count \in Nat, ShellFind(count)
  PROVE  PmmInv' /\ held' = held
<1>1. PICK first \in Frames : IsFirstRun(first, count) /\ shellRun' = Run(first, count)
  BY Zenon DEF ShellFind
<1>2. /\ ~booting /\ shellPc = "idle" /\ ~overlapped
      /\ shellPc' = "found" /\ shellUsed' = used_blocks
      /\ UNCHANGED <<booting, memory_map, used_blocks, avail, held, shellMap, overlapped>>
  BY Zenon DEF ShellFind, ShellIdle
<1>3. /\ shellRun' \in SUBSET Frames /\ 0 \notin shellRun' /\ shellRun' \cap memory_map = {}
  BY <1>1, FirstRunFacts, Zenon
<1> QED
  BY <1>2, <1>3, Zenon DEF PmmInv, TypeOK, Accounting, HeldStayUsed, CallSound

\* ... which it marks if nobody has come in between ...
LEMMA ShellMarkPmmInv ==
  ASSUME PmmInv, ShellMark
  PROVE  PmmInv' /\ (~overlapped => \A f \in held' \ held : f \notin memory_map /\ f # 0)
<1>1. /\ shellPc = "found" /\ shellPc' = "counting"
      /\ memory_map' = memory_map \cup shellRun /\ held' = held \cup shellRun
      /\ shellUsed' = shellUsed + Cardinality(shellRun)
      /\ UNCHANGED <<booting, used_blocks, avail, shellRun, shellMap, overlapped>>
  BY Zenon DEF ShellMark
<1>2. memory_map \in SUBSET Frames /\ shellRun \in SUBSET Frames /\ ~booting
  BY <1>1, Zenon DEF PmmInv, TypeOK
<1>3. TypeOK'
  <2>1. shellUsed' \in Int
    <3>1. Cardinality(shellRun) \in 0 .. MaxBlocks
      BY <1>2, FramesFinite, Zenon
    <3> QED
      BY <1>1, <3>1, PmmAssumption DEF PmmInv, TypeOK
  <2> QED
    BY <1>1, <1>2, <2>1, Zenon DEF PmmInv, TypeOK
<1>4. ASSUME ~overlapped
      PROVE  /\ Accounting' /\ HeldStayUsed' /\ CallSound'
             /\ \A f \in held' \ held : f \notin memory_map /\ f # 0
  <2>1. /\ shellUsed = Cardinality(memory_map) /\ HeldStayUsed
        /\ 0 \notin shellRun /\ memory_map \cap shellRun = {}
    BY <1>1, <1>4, Zenon DEF PmmInv, Accounting, CallSound
  <2>2. shellUsed' = Cardinality(memory_map')
    BY <1>1, <1>2, <2>1, MarkCounts, Zenon
  <2> QED
    BY <1>1, <2>1, <2>2, Zenon DEF Accounting, HeldStayUsed, CallSound
<1> QED
  BY <1>1, <1>2, <1>3, <1>4, Zenon DEF PmmInv

\* ... its free gives the frames up first ...
LEMMA ShellFreePmmInv ==
  ASSUME PmmInv, NEW addr \in Nat, NEW count \in Nat, ShellFree(addr, count)
  PROVE  PmmInv' /\ held' \subseteq held
<1> DEFINE run == Run(addr \div B, count)
<1>1. /\ ~booting /\ shellPc = "idle" /\ ~overlapped
      /\ shellPc' = "freeing" /\ shellRun' = run
      /\ shellUsed' = used_blocks /\ shellMap' = memory_map /\ held' = held \ run
      /\ UNCHANGED <<booting, memory_map, used_blocks, avail, overlapped>>
  BY Zenon DEF ShellFree, ShellIdle
<1>2. run \in SUBSET Frames /\ 0 \notin run
  BY FreeableFacts, Zenon DEF ShellFree
<1> HIDE DEF run
<1> QED
  BY <1>1, <1>2, Zenon DEF PmmInv, TypeOK, Accounting, HeldStayUsed, CallSound

\* ... and clears their bits, in words that are as it read them if nobody has come in
\* between ...
LEMMA ShellClearPmmInv ==
  ASSUME PmmInv, ShellClear
  PROVE  PmmInv' /\ held' = held
<1>1. PICK stale \in SUBSET Frames :
        LET map == (memory_map \ stale) \cup (shellMap \cap stale)
            gone == GivenBack(shellRun, map)
        IN /\ memory_map' = map \ gone
           /\ shellUsed' = shellUsed - Cardinality(gone)
           /\ shellPc' = IF gone = {} THEN "idle" ELSE "counting"
  BY Zenon DEF ShellClear
<1> DEFINE map == (memory_map \ stale) \cup (shellMap \cap stale)
           gone == GivenBack(shellRun, map)
<1>2. /\ memory_map' = map \ gone /\ shellUsed' = shellUsed - Cardinality(gone)
      /\ shellPc' = IF gone = {} THEN "idle" ELSE "counting"
  BY <1>1, Zenon
<1>3. /\ shellPc = "freeing" /\ shellMap' = {}
      /\ UNCHANGED <<booting, used_blocks, avail, held, shellRun, overlapped>>
  BY Zenon DEF ShellClear
<1>4. map \in SUBSET Frames /\ shellUsed \in Int /\ ~booting
  BY <1>3, Zenon DEF PmmInv, TypeOK
<1>5. ~overlapped => map = memory_map
  <2>1. ~overlapped => shellMap = memory_map
    BY <1>3, Zenon DEF PmmInv, CallSound
  <2> QED
    BY <2>1, Zenon
<1> HIDE DEF map
<1>6. /\ memory_map' = map \ shellRun /\ gone \in SUBSET Frames
      /\ Cardinality(memory_map') = Cardinality(map) - Cardinality(gone)
  BY <1>2, <1>4, ClearCounts, Zenon
<1>7. gone = shellRun \cap map
  BY Zenon DEF GivenBack
<1>8. Cardinality(gone) \in Int /\ Cardinality(map) \in Int /\ Cardinality(memory_map') \in Int
  <2>1. /\ Cardinality(gone) \in 0 .. MaxBlocks /\ Cardinality(map) \in 0 .. MaxBlocks
    BY <1>4, <1>6, FramesFinite, Zenon
  <2> QED
    BY <2>1, <1>6, PmmAssumption
<1> HIDE DEF gone
<1>9. TypeOK'
  <2>1. shellUsed' \in Int
    BY <1>2, <1>4, <1>8
  <2>2. shellPc' \in {"idle", "found", "freeing", "counting"}
    BY <1>2, Zenon
  <2> QED
    BY <1>3, <1>4, <1>6, <2>1, <2>2, Zenon DEF PmmInv, TypeOK
<1>10. ASSUME ~overlapped PROVE Accounting' /\ HeldStayUsed' /\ CallSound'
  <2>1. /\ used_blocks = Cardinality(memory_map) /\ shellUsed = Cardinality(memory_map)
        /\ HeldStayUsed /\ 0 \notin shellRun /\ shellRun \cap held = {}
    BY <1>3, <1>10, Zenon DEF PmmInv, Accounting, CallSound
  <2>2. shellUsed' = Cardinality(memory_map')
    BY <1>2, <1>5, <1>6, <1>10, <2>1, Zenon
  <2>3. shellPc' # "counting" => used_blocks' = Cardinality(memory_map')
    <3>1. ASSUME shellPc' # "counting" PROVE memory_map' = memory_map
      BY <3>1, <1>2, <1>5, <1>10, Zenon
    <3> QED
      BY <3>1, <1>3, <2>1, Zenon
  <2>4. shellPc' # "found" /\ shellPc' # "freeing"
    BY <1>2, Zenon
  <2> QED
    BY <1>3, <1>5, <1>6, <1>10, <2>1, <2>2, <2>3, <2>4, Zenon
    DEF Accounting, HeldStayUsed, CallSound
<1> QED
  BY <1>3, <1>4, <1>9, <1>10, Zenon DEF PmmInv

\* ... and the number it stores is that of the bits that are set.
LEMMA ShellCountPmmInv ==
  ASSUME PmmInv, ShellCount
  PROVE  PmmInv' /\ held' = held
<1>1. /\ shellPc = "counting" /\ shellPc' = "idle" /\ used_blocks' = shellUsed
      /\ shellRun' = {} /\ shellUsed' = 0
      /\ UNCHANGED <<booting, memory_map, avail, held, shellMap, overlapped>>
  BY Zenon DEF ShellCount
<1>2. 0 \in Int /\ ~booting
  BY <1>1 DEF PmmInv
<1> QED
  BY <1>1, <1>2, Zenon DEF PmmInv, TypeOK, Accounting, HeldStayUsed, CallSound

\* Every step keeps the invariant, and hands out only frames that are free.
LEMMA NextPmmInv ==
  PmmInv /\ [Next]_vars
    => PmmInv' /\ (~overlapped => \A f \in held' \ held : f \notin memory_map /\ f # 0)
<1> DEFINE Fresh == ~overlapped => \A f \in held' \ held : f \notin memory_map /\ f # 0
<1> SUFFICES ASSUME PmmInv, [Next]_vars PROVE PmmInv' /\ Fresh
  BY Zenon
<1> USE PmmAssumption
<1>1. ASSUME NEW base \in 0 .. MaxBlocks * B, NEW size \in 1 .. MaxBlocks * B + 1 - base,
             FreeUsableMemory(base, size) \/ DeinitRegion(base, size)
      PROVE  PmmInv' /\ Fresh
  <2>1. base \in Nat /\ size \in Nat
    OBVIOUS
  <2>2. held' = held
    BY <1>1, Zenon DEF FreeUsableMemory, DeinitRegion
  <2> QED
    BY <1>1, <2>1, <2>2, FreeUsableMemoryPmmInv, DeinitRegionPmmInv, Zenon
<1>2. ASSUME EndBoot PROVE PmmInv' /\ Fresh
  BY <1>2, Zenon DEF EndBoot, PmmInv, TypeOK, Accounting, HeldStayUsed, CallSound, shellVars
<1>3. ASSUME NEW count \in 1 .. MaxBlocks, AllocBlocks(count) \/ ShellFind(count)
      PROVE  PmmInv' /\ Fresh
  <2>1. count \in Nat
    OBVIOUS
  <2> QED
    BY <1>3, <2>1, AllocBlocksPmmInv, ShellFindPmmInv, Zenon
<1>4. ASSUME NEW addr \in 0 .. MaxBlocks * B - 1, NEW count \in 1 .. MaxBlocks,
             FreeBlocks(addr, count) \/ ShellFree(addr, count)
      PROVE  PmmInv' /\ Fresh
  <2>1. addr \in Nat /\ count \in Nat
    OBVIOUS
  <2>2. PmmInv' /\ held' \subseteq held
    BY <1>4, <2>1, FreeBlocksPmmInv, ShellFreePmmInv, Zenon
  <2> QED
    BY <2>2, Zenon
<1>5. ASSUME ShellMark \/ ShellClear \/ ShellCount PROVE PmmInv' /\ Fresh
  BY <1>5, ShellMarkPmmInv, ShellClearPmmInv, ShellCountPmmInv, Zenon
<1>6. ASSUME UNCHANGED vars PROVE PmmInv' /\ Fresh
  BY <1>6, Zenon DEF vars, shellVars, PmmInv, TypeOK, Accounting, HeldStayUsed, CallSound
<1> QED
  BY <1>1, <1>2, <1>3, <1>4, <1>5, <1>6, Zenon DEF Next

\* The counter of pmm.c equals the number of frames that are not free, and a frame
\* that is held is never free: for every memory size, memory map and history of
\* allocations and frees by system calls and, step by step, by the shell, up to a call
\* that comes in the middle of one of the shell's.
THEOREM PmmSafe == Spec => []PmmInv
<1> QED
  BY InitPmmInv, NextPmmInv, PTL DEF Spec

\* pmm_alloc_blocks() never hands out a frame that is in use, or frame 0, up to a call
\* that comes in the middle of one of the shell's.
THEOREM AllocationsFresh == Spec => AllocFresh
<1>1. PmmInv /\ [Next]_vars
        => [~overlapped => \A f \in held' \ held : f \notin memory_map /\ f # 0]_vars
  BY NextPmmInv, Zenon
<1> QED
  BY <1>1, PmmSafe, PTL DEF Spec, AllocFresh

-----------------------------------------------------------------------------
(* References *)

\* A set of natural numbers that is not empty has a least element.
LEMMA LeastSlot ==
  ASSUME NEW S \in SUBSET Nat, S # {}
  PROVE  Min(S) \in S
<1>1. PICK x \in S : \A y \in S : ~(<<y, x>> \in OpToRel(<, Nat))
  BY NatLessThanWellFounded, WFMin, Zenon
<1>2. \A y \in S : ~(y < x)
  BY <1>1, Zenon DEF OpToRel
<1>3. \A y \in S : x <= y
  BY <1>2
<1> QED BY <1>3, Zenon DEF Min

\* The slots of a table.
LEMMA SlotFacts ==
  ASSUME FileTableAssumption
  PROVE  /\ IsFiniteSet(FileSlots) /\ Index \subseteq FileSlots /\ Std \subseteq FileSlots /\ Index \subseteq Nat
         /\ Index \cap Std = {} /\ Empty \in [FileSlots -> Objects \cup {None}] /\ None \notin Objects
         /\ \A s \in FileSlots : Empty[s] = None
<1>1. MaxOpen \in Nat /\ IsFiniteSet(Index)
  BY FS_Interval DEF FileTableAssumption, Index
<1>2. IsFiniteSet(Std)
  <2>1. Std = ((({} \cup {stdin_node}) \cup {stdin_pipe}) \cup {stdout_node}) \cup {stdout_pipe}
    BY Zenon DEF Std
  <2>2. IsFiniteSet({} \cup {stdin_node})
    BY FS_EmptySet, FS_AddElement, Zenon
  <2>3. IsFiniteSet(({} \cup {stdin_node}) \cup {stdin_pipe})
    BY <2>2, FS_AddElement, Zenon
  <2>4. IsFiniteSet((({} \cup {stdin_node}) \cup {stdin_pipe}) \cup {stdout_node})
    BY <2>3, FS_AddElement, Zenon
  <2> QED BY <2>1, <2>4, FS_AddElement, Zenon
<1>3. IsFiniteSet(FileSlots)
  BY <1>1, <1>2, FS_Union, Zenon DEF FileSlots
<1>4. Index \cap Std = {} /\ Index \subseteq Nat
  BY <1>1
     DEF Index, Std, stdin_node, stdin_pipe, stdout_node, stdout_pipe
<1> QED BY <1>3, <1>4, Zenon DEF FileSlots, Empty, FileTableAssumption

\* The pairs of a process and a slot that hold o.
Holders(f, o) == {ps \in Procs \X FileSlots : f[ps[1]][ps[2]] = o}

\* They are finitely many, and so are the slots of one table.
LEMMA HoldersCount ==
  ASSUME FileTableAssumption, NEW f, NEW o
  PROVE  /\ IsFiniteSet(Holders(f, o)) /\ Cardinality(Holders(f, o)) \in Nat
         /\ (Cardinality(Holders(f, o)) = 0) <=> (\A p \in Procs, s \in FileSlots : f[p][s] # o)
<1>1. IsFiniteSet(Procs \X FileSlots)
  BY SlotFacts, FS_Product, Zenon DEF FileTableAssumption
<1>2. IsFiniteSet(Holders(f, o))
  BY <1>1, FS_Subset, Zenon DEF Holders
<1>3. Cardinality(Holders(f, o)) \in Nat
  BY <1>2, FS_CardinalityType, Zenon
<1>4. (Holders(f, o) = {}) <=> (\A p \in Procs, s \in FileSlots : f[p][s] # o)
  <2>1. ASSUME NEW p \in Procs, NEW s \in FileSlots, f[p][s] = o PROVE <<p, s>> \in Holders(f, o)
    BY <2>1, Zenon DEF Holders
  <2>2. ASSUME NEW ps \in Holders(f, o) PROVE ps[1] \in Procs /\ ps[2] \in FileSlots /\ f[ps[1]][ps[2]] = o
    BY Zenon DEF Holders
  <2> QED BY <2>1, <2>2, Zenon
<1>5. (Cardinality(Holders(f, o)) = 0) <=> (Holders(f, o) = {})
  BY <1>2, FS_EmptySet, Zenon
<1> QED BY <1>2, <1>3, <1>4, <1>5, Zenon

\* The slots S of table t that hold o.
SlotsWith(t, S, o) == {s \in S : t[s] = o}

\* Uses counts them.
LEMMA UsesCount ==
  ASSUME FileTableAssumption, NEW t, NEW S \in SUBSET FileSlots, NEW o
  PROVE  /\ Uses(t, S, o) = Cardinality(SlotsWith(t, S, o)) /\ Uses(t, S, o) \in Nat
         /\ IsFiniteSet(SlotsWith(t, S, o))
         /\ (\A s \in S : t[s] # o) => Uses(t, S, o) = 0
<1>1. IsFiniteSet(SlotsWith(t, S, o))
  BY SlotFacts, FS_Subset, Zenon DEF SlotsWith
<1>2. Cardinality(SlotsWith(t, S, o)) \in Nat
  BY <1>1, FS_CardinalityType, Zenon
<1>3. (\A s \in S : t[s] # o) => SlotsWith(t, S, o) = {}
  BY Zenon DEF SlotsWith
<1> QED BY <1>1, <1>2, <1>3, FS_EmptySet, Zenon DEF Uses, SlotsWith

\* The pairs that hold o outside the slots S of process p.
Outside(f, p, S, o) == {ps \in Holders(f, o) : ~(ps[1] = p /\ ps[2] \in S)}

\* The others are those of the table.
LEMMA PairsInTable ==
  ASSUME FileTableAssumption, NEW f, NEW p \in Procs, NEW S \in SUBSET FileSlots, NEW o
  PROVE  /\ IsFiniteSet(Outside(f, p, S, o))
         /\ Cardinality(Holders(f, o)) = Cardinality(Outside(f, p, S, o)) + Uses(f[p], S, o)
<1> DEFINE R == Outside(f, p, S, o)
           X == SlotsWith(f[p], S, o)
           Q == {p} \X X
<1>1. IsFiniteSet(X) /\ Uses(f[p], S, o) = Cardinality(X) /\ Cardinality(X) \in Nat
  BY UsesCount, Zenon
<1>2. IsFiniteSet({p}) /\ Cardinality({p}) = 1
  BY FS_Singleton, Zenon
<1>3. IsFiniteSet(Q) /\ Cardinality(Q) = Cardinality({p}) * Cardinality(X)
  BY <1>1, <1>2, FS_Product, Zenon
<1>4. Cardinality(Q) = Cardinality(X)
  BY <1>1, <1>2, <1>3
<1>5. IsFiniteSet(Holders(f, o))
  BY HoldersCount, Zenon
<1>6. IsFiniteSet(R) /\ Cardinality(R) \in Nat
  BY <1>5, FS_Subset, FS_CardinalityType, Zenon DEF Outside
<1>7. Holders(f, o) = R \cup Q
  BY Zenon DEF Outside, Holders, SlotsWith
<1>8. R \cap Q = {}
  BY Zenon DEF Outside, Holders, SlotsWith
<1>9. Cardinality(R \cup Q) = Cardinality(R) + Cardinality(Q) - Cardinality(R \cap Q)
  BY <1>3, <1>6, FS_Union, Zenon
<1>10. Cardinality(R \cap Q) = 0
  BY <1>8, FS_EmptySet, Zenon
<1> HIDE DEF R, X, Q
<1>11. Cardinality(Holders(f, o)) = Cardinality(R) + Cardinality(Q) - 0
  BY ONLY <1>7, <1>9, <1>10, Zenon
<1>12. Cardinality(Holders(f, o)) = Cardinality(R) + Uses(f[p], S, o)
  BY ONLY <1>1, <1>4, <1>6, <1>11
<1> QED BY <1>6, <1>12, Zenon DEF R

\* A table that changes in the slots S changes the counts by what they held and hold.
LEMMA HoldersStep ==
  ASSUME FileTableAssumption, NEW f, NEW g, NEW p \in Procs, NEW S \in SUBSET FileSlots, NEW o,
         \A c \in Procs \ {p} : g[c] = f[c],
         \A s \in FileSlots \ S : g[p][s] = f[p][s]
  PROVE  Cardinality(Holders(g, o)) = Cardinality(Holders(f, o)) - Uses(f[p], S, o) + Uses(g[p], S, o)
<1> DEFINE R == Outside(f, p, S, o)
<1>2. R = Outside(g, p, S, o)
  BY DEF Outside, Holders
<1>3. IsFiniteSet(R) /\ Cardinality(Holders(f, o)) = Cardinality(R) + Uses(f[p], S, o)
  BY PairsInTable, Zenon
<1>4. Cardinality(Holders(g, o)) = Cardinality(Outside(g, p, S, o)) + Uses(g[p], S, o)
  BY PairsInTable, Zenon
<1> HIDE DEF R
<1>5. Cardinality(R) \in Nat
  BY <1>3, FS_CardinalityType, Zenon
<1>6. Uses(f[p], S, o) \in Nat /\ Uses(g[p], S, o) \in Nat
  BY UsesCount, Zenon
<1> QED BY ONLY <1>2, <1>3, <1>4, <1>5, <1>6

-----------------------------------------------------------------------------
(* The actions *)

Tables == [FileSlots -> Objects \cup {None}]

\* Process p gets the table t, which differs in the slots S at most, and the counts follow.
Tallied(p, t, S) ==
  /\ files' = [files EXCEPT ![p] = t] /\ (\A s \in FileSlots \ S : t[s] = files[p][s])
  /\ refs' = [o \in Objects |-> refs'[o]] /\ leaked' = leaked
  /\ \A o \in Objects : refs'[o] = refs[o] - Uses(files[p], S, o) + Uses(t, S, o)

\* What such a step does.
TableStep(p, t) ==
  /\ CountsExact' /\ files' \in [Procs -> Tables] /\ refs' \in [Objects -> Nat]
  /\ files'[p] = t /\ (\A c \in Procs \ {p} : files'[c] = files[c]) /\ leaked' = leaked

\* The counts stay exact.
LEMMA TalliedExact ==
  ASSUME FileTableAssumption, FilesInv, NEW p \in Procs, NEW t \in Tables, NEW S \in SUBSET FileSlots,
         Tallied(p, t, S)
  PROVE  TableStep(p, t)
<1>1. /\ files \in [Procs -> Tables] /\ leaked \in [Objects -> Nat] /\ leaked' = leaked
      /\ \A o \in Objects : refs[o] = Cardinality(Holders(files, o)) + leaked[o]
  BY Zenon DEF FilesInv, FileTableTypeOK, CountsExact, Holders, Tables, Tallied
<1>2. PICK g \in [Procs -> Tables] : g = files'
  BY <1>1, Zenon DEF Tallied
<1>3. /\ g[p] = t /\ (\A c \in Procs \ {p} : g[c] = files[c])
      /\ \A s \in FileSlots \ S : g[p][s] = files[p][s]
  BY <1>1, <1>2, Zenon DEF Tallied
<1>4. ASSUME NEW o \in Objects
      PROVE  refs'[o] = Cardinality(Holders(g, o)) + leaked[o] /\ refs'[o] \in Nat
  <2>1. Cardinality(Holders(g, o)) = Cardinality(Holders(files, o)) - Uses(files[p], S, o) + Uses(g[p], S, o)
    BY <1>3, HoldersStep
  <2>2. refs'[o] = refs[o] - Uses(files[p], S, o) + Uses(t, S, o)
    BY Zenon DEF Tallied
  <2>3. /\ Cardinality(Holders(g, o)) \in Nat /\ Cardinality(Holders(files, o)) \in Nat
        /\ Uses(files[p], S, o) \in Nat /\ Uses(t, S, o) \in Nat /\ leaked[o] \in Nat
    BY <1>1, HoldersCount, UsesCount, Zenon
  <2>4. refs[o] = Cardinality(Holders(files, o)) + leaked[o] /\ g[p] = t
    BY <1>1, <1>3, Zenon
  <2> QED BY ONLY <2>1, <2>2, <2>3, <2>4
<1>5. refs' \in [Objects -> Nat]
  BY <1>4, Zenon DEF Tallied
<1>6. CountsExact'
  <2>1. \A o \in Objects :
          refs'[o] = Cardinality({ps \in Procs \X FileSlots : files'[ps[1]][ps[2]] = o}) + leaked'[o]
    BY <1>1, <1>2, <1>4, Zenon DEF Holders
  <2> QED BY <2>1, Zenon DEF CountsExact
<1> QED BY <1>1, <1>2, <1>3, <1>5, <1>6, Zenon DEF TableStep

\* Replacing a table counts both.
LEMMA ReplaceTallied ==
  ASSUME FileTableAssumption, FilesInv, NEW p \in Procs, NEW t \in Tables, NEW S \in SUBSET FileSlots,
         Replace(p, t, S), \A s \in FileSlots \ S : t[s] = files[p][s], leaked' = leaked
  PROVE  TableStep(p, t)
<1>1. Tallied(p, t, S)
  BY Zenon DEF Replace, Tallied
<1> QED BY <1>1, TalliedExact, Zenon

\* The streams of one table are one thing each, unless the shell has mixed them.
StreamsOnce(t, m) ==
  /\ m \/ OneEach(t)
  /\ \A q \in Pipes : t[stdin_pipe] # End("w", q) /\ t[stdout_pipe] # End("r", q)

\* Every file in a table is linked.
Linked(t, P) == \A s \in FileSlots, n \in Nodes : t[s] = File(n) => n \in P

\* So is every node the shell has looked up.
LookedUp(r, P) ==
  /\ r \in {None, Freed} \cup
       [line : {"simple", "pipeline", "last"}, out : Nodes \cup {None}, in : Nodes \cup {None},
        child : Procs \cup {None}]
  /\ r \notin {None, Freed} => {r.out, r.in} \subseteq P \cup {None}

\* A step with a sound new table keeps the invariant.
LEMMA TableKeeps ==
  ASSUME FileTableAssumption, FilesInv, NEW p \in Procs, NEW t \in Tables, TableStep(p, t),
         StreamsOnce(t, mixed'), mixed' \in BOOLEAN, mixed => mixed', Linked(t, present'),
         alive' \subseteq Procs, p \in alive' \/ t = Empty,
         \A c \in Procs \ {p} : c \in alive => c \in alive',
         present \subseteq present', present' \subseteq Nodes, LookedUp(redirect', present')
  PROVE  FilesInv'
<1>1. FileTableTypeOK'
  BY Zenon DEF TableStep, Tables, FilesInv, FileTableTypeOK, LookedUp
<1>2. OneStream'
  <2>1. ASSUME NEW c \in Procs PROVE StreamsOnce(files'[c], mixed')
    <3>1. CASE c = p BY <3>1, Zenon DEF TableStep
    <3>2. CASE c # p
      <4>1. StreamsOnce(files[c], mixed) /\ files'[c] = files[c]
        BY <3>2, Zenon DEF TableStep, FilesInv, OneStream, StreamsOnce
      <4> QED BY <4>1, Zenon DEF StreamsOnce
    <3> QED BY <3>1, <3>2, Zenon
  <2> QED BY <2>1, Zenon DEF OneStream, StreamsOnce, OneEach
<1>3. \A c \in Procs \ alive' : files'[c] = Empty
  BY Zenon DEF TableStep, FilesInv
<1>4. NoDanglingNode'
  BY Zenon DEF FilesInv, NoDanglingNode, TableStep, Linked
<1> QED BY <1>1, <1>2, <1>3, <1>4, Zenon DEF TableStep, FilesInv, LookedUp

\* What the invariant says of the table of one process, and of the shell.
LEMMA TableFacts ==
  ASSUME FileTableAssumption, FilesInv
  PROVE  /\ \A p \in Procs : /\ files[p] \in Tables /\ StreamsOnce(files[p], mixed)
                            /\ Linked(files[p], present)
         /\ alive \subseteq Procs /\ present \subseteq Nodes /\ mixed \in BOOLEAN
         /\ LookedUp(redirect, present)
BY Zenon
   DEF FilesInv, FileTableTypeOK, Tables, OneStream, StreamsOnce, NoDanglingNode,
       Linked, LookedUp

\* The shell's nodes stay linked when files are added.
LEMMA LookedUpGrows ==
  ASSUME NEW r, NEW P, NEW Q, LookedUp(r, P), P \subseteq Q
  PROVE  LookedUp(r, Q)
BY Zenon DEF LookedUp

\* Files and pipe ends are objects, and different ones.
LEMMA ObjectFacts ==
  /\ \A n \in Nodes : File(n) \in Objects /\ File(n).kind = "file"
  /\ \A k \in {"r", "w"}, q \in Pipes : End(k, q) \in Objects /\ End(k, q).kind = k
  /\ \A o \in Objects : \/ o.kind = "file" /\ \E n \in Nodes : o = File(n)
                        \/ o.kind \in {"r", "w"} /\ \E q \in Pipes : o = End(o.kind, q)
  /\ \A n, m \in Nodes : File(n) = File(m) => n = m
<1>1. \A n, m \in Nodes : File(n) = File(m) => n = m
  <2> TAKE n, m \in Nodes
  <2>1. File(n).obj = n /\ File(m).obj = m
    BY Zenon DEF File
  <2> QED BY <2>1, Zenon
<1>2. \A n \in Nodes : File(n) \in Objects /\ File(n).kind = "file"
  BY DEF Objects, File
<1>3. \A k \in {"r", "w"}, q \in Pipes : End(k, q) \in Objects /\ End(k, q).kind = k
  BY DEF Objects, End
<1>4. ASSUME NEW o \in Objects
      PROVE  \/ o.kind = "file" /\ \E n \in Nodes : o = File(n)
             \/ o.kind \in {"r", "w"} /\ \E q \in Pipes : o = End(o.kind, q)
  <2>1. CASE \E n \in Nodes : o = File(n)
    BY <1>2, <2>1, Zenon
  <2>2. CASE \E k \in {"r", "w"}, q \in Pipes : o = End(k, q)
    BY <1>3, <2>2, Zenon
  <2> QED BY <2>1, <2>2 DEF Objects
<1> QED BY <1>1, <1>2, <1>3, <1>4, Zenon

\* A descriptor goes into a slot of the table.
LEMMA SlotKeeps ==
  ASSUME FileTableAssumption, FilesInv, NEW p \in Procs, p \in alive, NEW x \in Index,
         NEW o \in Objects \cup {None}, Replace(p, [files[p] EXCEPT ![x] = o], {x}),
         alive' = alive, UNCHANGED <<redirect, leaked, mixed>>,
         present \subseteq present', present' \subseteq Nodes,
         \A n \in Nodes : o = File(n) => n \in present'
  PROVE  FilesInv'
<1>1. /\ files[p] \in Tables /\ StreamsOnce(files[p], mixed) /\ alive \subseteq Procs
      /\ Linked(files[p], present) /\ mixed \in BOOLEAN /\ LookedUp(redirect, present')
  BY TableFacts, LookedUpGrows, Zenon
<1>2. x \in FileSlots /\ x \notin Std /\ {x} \in SUBSET FileSlots
  BY SlotFacts, Zenon
<1>3. PICK t \in Tables : t = [files[p] EXCEPT ![x] = o]
  BY <1>1, Zenon DEF Tables
<1>4. t[x] = o /\ \A s \in FileSlots \ {x} : t[s] = files[p][s]
  BY <1>1, <1>2, <1>3, Zenon DEF Tables
<1>5. TableStep(p, t)
  BY <1>2, <1>3, <1>4, ReplaceTallied, Zenon
<1>6. StreamsOnce(t, mixed)
  <2>1. \A s \in Std : s # x /\ s \in FileSlots
    BY <1>2, SlotFacts, Zenon
  <2>2. /\ t[stdin_node] = files[p][stdin_node] /\ t[stdin_pipe] = files[p][stdin_pipe]
        /\ t[stdout_node] = files[p][stdout_node] /\ t[stdout_pipe] = files[p][stdout_pipe]
    BY <1>4, <2>1, Zenon DEF Std
  <2> QED BY <1>1, <2>2, Zenon DEF StreamsOnce, OneEach
<1>7. Linked(t, present')
  BY <1>1, <1>4, Zenon DEF Linked
<1> QED BY <1>1, <1>5, <1>6, <1>7, TableKeeps, Zenon

\* The lowest free slot.
LEMMA FreeSlot ==
  ASSUME FileTableAssumption, NEW p \in Procs, NEW S \in SUBSET Free(p), S # {}
  PROVE  Min(S) \in S /\ Min(S) \in Index
<1>1. S \in SUBSET Nat /\ S \subseteq Index
  BY SlotFacts, Zenon DEF Free
<1> QED BY <1>1, LeastSlot, Zenon

\* An object goes into a free slot.
LEMMA InstallKeeps ==
  ASSUME FileTableAssumption, FilesInv, NEW p \in Procs, p \in alive, NEW o \in Objects, Install(p, o),
         alive' = alive, UNCHANGED <<redirect, leaked, mixed>>,
         present \subseteq present', present' \subseteq Nodes,
         \A n \in Nodes : o = File(n) => n \in present'
  PROVE  FilesInv'
<1>1. PICK x : x = Min(Free(p))
  BY Zenon
<1>2. Free(p) # {} /\ Replace(p, [files[p] EXCEPT ![x] = o], {x})
  BY <1>1, Zenon DEF Install
<1>3. x \in Index
  BY <1>1, <1>2, FreeSlot, Zenon
<1> QED BY <1>2, <1>3, SlotKeeps, Zenon

\* open and create
LEMMA OpenKeeps ==
  ASSUME FileTableAssumption, FilesInv, NEW p \in Procs, NEW n \in Nodes, Open(p, n) \/ Create(p, n)
  PROVE  FilesInv'
<1>1. /\ p \in alive /\ Install(p, File(n)) /\ alive' = alive /\ UNCHANGED <<redirect, leaked, mixed>>
      /\ n \in present' /\ present \subseteq present' /\ present' \subseteq present \cup {n}
  BY Zenon DEF Open, Create
<1>2. present' \subseteq Nodes /\ File(n) \in Objects
  BY <1>1, TableFacts, ObjectFacts, Zenon
<1>3. \A m \in Nodes : File(n) = File(m) => m \in present'
  BY <1>1, ObjectFacts, Zenon
<1> QED BY <1>1, <1>2, <1>3, InstallKeeps, Zenon

\* unlink: nobody holds the file, and what the shell has looked up is another one.
LEMMA UnlinkKeeps ==
  ASSUME FileTableAssumption, FilesInv, Defined, NEW p \in Procs, NEW n \in Nodes, Unlink(p, n)
  PROVE  FilesInv'
<1>1. /\ refs[File(n)] = 0 /\ present' = present \ {n} /\ alive' = alive /\ files' = files
      /\ refs' = refs /\ redirect' = Lose(n) /\ leaked' = leaked /\ mixed' = mixed
  BY Zenon DEF Unlink, MayUnlink
<1>2. LookedUp(redirect', present')
  <2>1. CASE redirect # None /\ n \in {redirect.out, redirect.in}
    BY <1>1, <2>1, Zenon DEF Lose, LookedUp
  <2>2. CASE ~(redirect # None /\ n \in {redirect.out, redirect.in})
    <3>1. redirect' = redirect /\ LookedUp(redirect, present)
      BY <1>1, <2>2, TableFacts, Zenon DEF Lose
    <3> QED BY <1>1, <2>2, <3>1, Zenon DEF LookedUp
  <2> QED BY <2>1, <2>2, Zenon
<1>3. \A c \in Procs, s \in FileSlots : files[c][s] # File(n)
  <2>1. /\ refs[File(n)] = Cardinality(Holders(files, File(n))) + leaked[File(n)]
        /\ leaked[File(n)] \in Nat
    BY ObjectFacts, Zenon DEF FilesInv, FileTableTypeOK, CountsExact, Holders
  <2>2. Cardinality(Holders(files, File(n))) \in Nat
    BY HoldersCount, ObjectFacts, Zenon
  <2>3. Cardinality(Holders(files, File(n))) = 0
    BY ONLY <1>1, <2>1, <2>2
  <2> QED BY <2>3, HoldersCount, ObjectFacts, Zenon
<1>4. NoDanglingNode'
  BY <1>1, <1>3, Zenon DEF FilesInv, NoDanglingNode
<1>5. FileTableTypeOK' /\ CountsExact' /\ OneStream'
  BY <1>1, <1>2, Zenon DEF FilesInv, FileTableTypeOK, CountsExact, OneStream, OneEach, LookedUp
<1> QED BY <1>1, <1>2, <1>4, <1>5, Zenon DEF FilesInv, LookedUp

\* dup, dup2 onto the table and close
LEMMA DupKeeps ==
  ASSUME FileTableAssumption, FilesInv, NEW p \in Procs, NEW x \in Index, NEW y \in Index,
         Dup(p, x) \/ Dup2(p, x, y) \/ Close(p, x)
  PROVE  FilesInv'
<1>1. /\ p \in alive /\ files[p][x] # None /\ alive' = alive /\ present' = present
      /\ UNCHANGED <<redirect, leaked, mixed>>
  BY Zenon DEF Dup, Dup2, Close
<1>2. files[p][x] \in Objects /\ (\A n \in Nodes : files[p][x] = File(n) => n \in present)
  BY <1>1, TableFacts, SlotFacts, Zenon DEF Tables, Linked
<1>3. present' \subseteq Nodes /\ present \subseteq present'
  BY <1>1, TableFacts, Zenon
<1>4. CASE Dup(p, x)
  BY <1>1, <1>2, <1>3, <1>4, InstallKeeps, Zenon DEF Dup
<1>5. CASE Dup2(p, x, y)
  BY <1>1, <1>2, <1>3, <1>5, SlotKeeps, Zenon DEF Dup2
<1>6. CASE Close(p, x)
  <2>1. \A n \in Nodes : None # File(n)
    BY SlotFacts, ObjectFacts, Zenon
  <2> QED BY <1>1, <1>3, <1>6, <2>1, SlotKeeps, Zenon DEF Close
<1> QED BY <1>4, <1>5, <1>6, Zenon

\* pipe: both ends go into free slots.
LEMMA PipeCallKeeps ==
  ASSUME FileTableAssumption, FilesInv, NEW p \in Procs, NEW q \in Pipes, PipeCall(p, q)
  PROVE  FilesInv'
<1>1. PICK r : r = Min(Free(p))
  BY Zenon
<1>2. PICK w : w = Min(Free(p) \ {r})
  BY Zenon
<1>3. /\ p \in alive /\ Cardinality(Free(p)) >= 2
      /\ Replace(p, [files[p] EXCEPT ![r] = End("r", q), ![w] = End("w", q)], {r, w})
      /\ UNCHANGED <<alive, present, redirect, leaked, mixed>>
  BY <1>1, <1>2, Zenon DEF PipeCall
<1>4. IsFiniteSet(Free(p)) /\ Free(p) \subseteq Index
  BY SlotFacts, FS_Subset, Zenon DEF Free
<1>5. Free(p) # {} /\ Free(p) \ {r} # {}
  <2>1. Free(p) # {}
    BY <1>3, FS_EmptySet
  <2>2. Cardinality({r}) = 1
    BY FS_Singleton, Zenon
  <2>3. Free(p) # {r}
    BY <1>3, <2>2
  <2> QED BY <2>1, <2>3, Zenon
<1>6. r \in Index /\ w \in Index /\ r # w
  BY <1>1, <1>2, <1>5, FreeSlot, SMTT(30)
<1>7. /\ files[p] \in Tables /\ StreamsOnce(files[p], mixed) /\ alive \subseteq Procs /\ present \subseteq Nodes
      /\ Linked(files[p], present) /\ mixed \in BOOLEAN /\ LookedUp(redirect, present)
  BY TableFacts, Zenon
<1>8. End("r", q) \in Objects /\ End("w", q) \in Objects /\ End("r", q).kind = "r" /\ End("w", q).kind = "w"
  BY ObjectFacts, Zenon
<1>9. PICK t \in Tables : t = [files[p] EXCEPT ![r] = End("r", q), ![w] = End("w", q)]
  BY <1>7, <1>8, Zenon DEF Tables
<1>10. {r, w} \in SUBSET FileSlots /\ r \notin Std /\ w \notin Std
  BY <1>6, SlotFacts, Zenon
<1>11. t[r] = End("r", q) /\ t[w] = End("w", q) /\ \A s \in FileSlots \ {r, w} : t[s] = files[p][s]
  BY <1>6, <1>7, <1>9, <1>10, Zenon DEF Tables
<1>12. TableStep(p, t)
  BY <1>3, <1>9, <1>10, <1>11, ReplaceTallied, Zenon
<1>13. StreamsOnce(t, mixed)
  <2>1. \A s \in Std : s \in FileSlots \ {r, w}
    BY <1>10, SlotFacts, Zenon
  <2>2. /\ t[stdin_node] = files[p][stdin_node] /\ t[stdin_pipe] = files[p][stdin_pipe]
        /\ t[stdout_node] = files[p][stdout_node] /\ t[stdout_pipe] = files[p][stdout_pipe]
    BY <1>11, <2>1, Zenon DEF Std
  <2> QED BY <1>7, <2>2, Zenon DEF StreamsOnce, OneEach
<1>14. Linked(t, present')
  <2>1. \A n \in Nodes : End("r", q) # File(n) /\ End("w", q) # File(n)
    BY <1>8, ObjectFacts, Zenon
  <2> QED BY <1>3, <1>7, <1>11, <2>1, Zenon DEF Linked
<1> QED BY <1>3, <1>7, <1>12, <1>13, <1>14, TableKeeps, Zenon

\* dup2 onto a stream: what it was before is closed.
LEMMA Dup2StdKeeps ==
  ASSUME FileTableAssumption, FilesInv, NEW p \in Procs, NEW x \in Index, NEW node, NEW pipe, NEW end,
         \/ node = stdin_node /\ pipe = stdin_pipe /\ end = "r"
         \/ node = stdout_node /\ pipe = stdout_pipe /\ end = "w",
         Dup2Std(p, x, node, pipe, end)
  PROVE  FilesInv'
<1>1. PICK o : o = files[p][x]
  BY Zenon
<1>2. /\ p \in alive /\ o # None /\ o.kind \in {"file", end}
      /\ Replace(p, Stream(files[p], node, pipe, o), {node, pipe})
      /\ UNCHANGED <<alive, present, redirect, leaked, mixed>>
  BY <1>1, Zenon DEF Dup2Std
<1>3. /\ files[p] \in Tables /\ StreamsOnce(files[p], mixed) /\ alive \subseteq Procs /\ present \subseteq Nodes
      /\ Linked(files[p], present) /\ mixed \in BOOLEAN /\ LookedUp(redirect, present)
  BY TableFacts, Zenon
<1>4. o \in Objects /\ (\A n \in Nodes : o = File(n) => n \in present)
  BY <1>1, <1>2, <1>3, SlotFacts, Zenon DEF Tables, Linked
<1>5. node \in FileSlots /\ pipe \in FileSlots /\ node # pipe /\ {node, pipe} \in SUBSET FileSlots
  BY SlotFacts
     DEF Std, stdin_node, stdin_pipe, stdout_node, stdout_pipe
<1>6. PICK t \in Tables : t = Stream(files[p], node, pipe, o)
  BY <1>3, <1>4, ZenonT(30) DEF Tables, Stream
<1>7. /\ \A s \in FileSlots \ {node, pipe} : t[s] = files[p][s]
      /\ \/ o.kind = "file" /\ t[node] = o /\ t[pipe] = None
         \/ o.kind = end /\ t[node] = None /\ t[pipe] = o
  BY <1>2, <1>3, <1>5, <1>6, Zenon DEF Tables, Stream
<1>8. TableStep(p, t)
  BY <1>2, <1>5, <1>6, <1>7, ReplaceTallied, Zenon
<1>9. \A s \in Std : s \in FileSlots
  BY SlotFacts, Zenon
<1>10. StreamsOnce(t, mixed)
  <2>1. \A q \in Pipes : End("r", q).kind = "r" /\ End("w", q).kind = "w" /\ None # End("r", q) /\ None # End("w", q)
    BY SlotFacts, ObjectFacts, Zenon
  <2>2. CASE node = stdin_node /\ pipe = stdin_pipe /\ end = "r"
    <3>1. t[stdout_node] = files[p][stdout_node] /\ t[stdout_pipe] = files[p][stdout_pipe]
      BY <1>7, <1>9, <2>2, SMTT(30)
         DEF Std, stdin_node, stdin_pipe, stdout_node, stdout_pipe
    <3>2. t[stdin_node] = None \/ t[stdin_pipe] = None
      BY <1>7, <2>2, Zenon
    <3>3. \A q \in Pipes : t[stdin_pipe] # End("w", q)
      BY <1>7, <2>1, <2>2, Zenon
    <3> QED BY <1>3, <3>1, <3>2, <3>3, Zenon DEF StreamsOnce, OneEach
  <2>3. CASE node = stdout_node /\ pipe = stdout_pipe /\ end = "w"
    <3>1. t[stdin_node] = files[p][stdin_node] /\ t[stdin_pipe] = files[p][stdin_pipe]
      BY <1>7, <1>9, <2>3, SMTT(30)
         DEF Std, stdin_node, stdin_pipe, stdout_node, stdout_pipe
    <3>2. t[stdout_node] = None \/ t[stdout_pipe] = None
      BY <1>7, <2>3, Zenon
    <3>3. \A q \in Pipes : t[stdout_pipe] # End("r", q)
      BY <1>7, <2>1, <2>3, Zenon
    <3> QED BY <1>3, <3>1, <3>2, <3>3, Zenon DEF StreamsOnce, OneEach
  <2> QED BY <2>2, <2>3, Zenon
<1>11. Linked(t, present')
  <2>1. \A n \in Nodes : None # File(n)
    BY SlotFacts, ObjectFacts, Zenon
  <2>2. \A s \in FileSlots : t[s] \in {files[p][s], o, None}
    BY <1>7, Zenon
  <2> QED BY <1>2, <1>3, <1>4, <2>1, <2>2, Zenon DEF Linked
<1> QED BY <1>2, <1>3, <1>8, <1>10, <1>11, TableKeeps, Zenon

\* An empty table counts nothing.
LEMMA EmptyUses ==
  ASSUME FileTableAssumption, NEW S \in SUBSET FileSlots, NEW o \in Objects
  PROVE  Uses(Empty, S, o) = 0
<1>1. \A s \in S : Empty[s] # o
  BY SlotFacts, Zenon
<1> QED BY <1>1, UsesCount, Zenon

\* fork: the table of a process that did not run was empty.
LEMMA NewTableKeeps ==
  ASSUME FileTableAssumption, FilesInv, NEW p \in Procs, p \notin alive, NEW t \in Tables,
         NEW S \in SUBSET FileSlots, \A s \in FileSlots \ S : t[s] = None,
         files' = [files EXCEPT ![p] = t], refs' = Acquire(t, S),
         StreamsOnce(t, mixed), Linked(t, present),
         alive' = alive \cup {p}, UNCHANGED <<present, redirect, leaked, mixed>>
  PROVE  FilesInv'
<1>1. files[p] = Empty /\ refs \in [Objects -> Nat]
  BY Zenon DEF FilesInv, FileTableTypeOK
<1>2. \A s \in FileSlots \ S : t[s] = files[p][s]
  BY <1>1, SlotFacts, Zenon
<1>3. ASSUME NEW o \in Objects PROVE refs'[o] = refs[o] - Uses(files[p], S, o) + Uses(t, S, o)
  <2>1. refs'[o] = refs[o] + Uses(t, S, o) /\ refs[o] \in Nat
    BY <1>1, Zenon DEF Acquire
  <2>2. Uses(files[p], S, o) = 0
    BY <1>1, EmptyUses, Zenon
  <2>3. Uses(t, S, o) \in Nat
    BY UsesCount, Zenon
  <2> QED BY ONLY <2>1, <2>2, <2>3, SMTT(30)
<1>4. refs' = [o \in Objects |-> refs'[o]]
  BY Zenon DEF Acquire
<1>5. Tallied(p, t, S)
  BY <1>2, <1>3, <1>4, Zenon DEF Tallied
<1>6. TableStep(p, t)
  BY <1>5, TalliedExact, Zenon
<1>7. alive' \subseteq Procs /\ present \subseteq Nodes /\ mixed \in BOOLEAN /\ LookedUp(redirect, present)
  BY TableFacts, Zenon
<1> QED BY <1>6, <1>7, TableKeeps, Zenon

\* exit
LEMMA ExitKeeps ==
  ASSUME FileTableAssumption, FilesInv, NEW p \in Procs, ExitFiles(p)
  PROVE  FilesInv'
<1>1. /\ alive' = alive \ {p} /\ files' = [files EXCEPT ![p] = Empty]
      /\ refs' = Release(files[p], FileSlots) /\ UNCHANGED <<present, redirect, leaked, mixed>>
  BY Zenon DEF ExitFiles, Dropped
<1>2. /\ Empty \in Tables /\ FileSlots \in SUBSET FileSlots /\ alive \subseteq Procs
      /\ present \subseteq Nodes /\ mixed \in BOOLEAN /\ LookedUp(redirect, present)
  BY SlotFacts, TableFacts, Zenon DEF Tables
<1>3. ASSUME NEW o \in Objects PROVE refs'[o] = refs[o] - Uses(files[p], FileSlots, o) + Uses(Empty, FileSlots, o)
  <2>1. refs'[o] = refs[o] - Uses(files[p], FileSlots, o) /\ refs[o] \in Nat
    BY <1>1, Zenon DEF Release, FilesInv, FileTableTypeOK
  <2>2. Uses(files[p], FileSlots, o) \in Nat
    BY <1>2, UsesCount, Zenon
  <2>3. Uses(Empty, FileSlots, o) = 0
    BY <1>2, EmptyUses, Zenon
  <2> QED BY ONLY <2>1, <2>2, <2>3, SMTT(30)
<1>4. Tallied(p, Empty, FileSlots)
  <2>1. refs' = [o \in Objects |-> refs'[o]]
    BY <1>1, Zenon DEF Release
  <2> QED BY <1>1, <1>3, <2>1, Zenon DEF Tallied
<1>5. TableStep(p, Empty)
  BY <1>2, <1>4, TalliedExact, Zenon
<1>6. \A o \in Objects, s \in FileSlots : Empty[s] # o
  BY SlotFacts, Zenon
<1>7. StreamsOnce(Empty, mixed) /\ Linked(Empty, present')
  BY <1>6, SlotFacts, ObjectFacts, Zenon DEF StreamsOnce, OneEach, Linked, Std
<1> QED BY <1>1, <1>2, <1>5, <1>7, TableKeeps, Zenon

\* fork: the child starts with the table of its parent.
LEMMA ForkKeeps ==
  ASSUME FileTableAssumption, FilesInv, NEW p \in Procs, NEW c \in Procs, Fork(p, c)
  PROVE  FilesInv'
<1>1. /\ c \notin alive /\ alive' = alive \cup {c} /\ files' = [files EXCEPT ![c] = files[p]]
      /\ refs' = Acquire(files[p], FileSlots) /\ UNCHANGED <<present, redirect, leaked, mixed>>
  BY Zenon DEF Fork, Inherited
<1>2. /\ files[p] \in Tables /\ StreamsOnce(files[p], mixed) /\ FileSlots \in SUBSET FileSlots
      /\ Linked(files[p], present)
  BY TableFacts, Zenon
<1> QED BY <1>1, <1>2, NewTableKeeps, Zenon

\* The shell looks nodes up, makes processes, or gives up: no table changes.
LEMMA ShellKeeps ==
  ASSUME FileTableAssumption, FilesInv, UNCHANGED <<files, refs, leaked, mixed>>,
         alive \subseteq alive', alive' \subseteq Procs,
         present \subseteq present', present' \subseteq Nodes, LookedUp(redirect', present')
  PROVE  FilesInv'
<1>1. FileTableTypeOK'
  BY Zenon DEF FilesInv, FileTableTypeOK, LookedUp
<1>2. CountsExact' /\ OneStream'
  BY Zenon DEF FilesInv, CountsExact, OneStream, OneEach
<1>3. NoDanglingNode' /\ \A p \in Procs \ alive' : files'[p] = Empty
  BY Zenon DEF FilesInv, NoDanglingNode
<1> QED BY <1>1, <1>2, <1>3, Zenon DEF FilesInv, LookedUp

\* What the shell knows of the command line while it carries it out.
LEMMA LineFacts ==
  ASSUME FileTableAssumption, FilesInv, Defined, redirect # None
  PROVE  /\ redirect \in [line : {"simple", "pipeline", "last"}, out : Nodes \cup {None},
                          in : Nodes \cup {None}, child : Procs \cup {None}]
         /\ redirect.out \in present \cup {None} /\ redirect.in \in present \cup {None}
BY TableFacts, Zenon DEF Defined, LookedUp

\* A command line, its nodes, its end and its processes
LEMMA LookUpKeeps ==
  ASSUME FileTableAssumption, FilesInv, Defined,
         \/ \E line \in {"simple", "pipeline"} : Command(line)
         \/ \E n \in Nodes : ShellOpenOut(n) \/ ShellOpenIn(n)
         \/ GiveUp
         \/ \E p \in Procs : Spawn(p) \/ SpawnStage(p)
  PROVE  FilesInv'
<1>1. alive \subseteq Procs /\ present \subseteq Nodes
  BY TableFacts, Zenon
<1>2. ASSUME NEW line \in {"simple", "pipeline"}, Command(line) PROVE FilesInv'
  <2>1. LookedUp(redirect', present')
    BY <1>2, SMTT(30) DEF Command, LookedUp
  <2> QED BY <1>1, <1>2, <2>1, ShellKeeps, Zenon DEF Command
<1>3. ASSUME NEW n \in Nodes, ShellOpenOut(n) PROVE FilesInv'
  <2>1. redirect # None /\ present' = present \cup {n}
        /\ (redirect' = Freed \/ redirect' = [redirect EXCEPT !.out = n])
    BY <1>3, Zenon DEF ShellOpenOut, LooksUp
  <2>2. LookedUp(redirect', present')
    BY <2>1, LineFacts, SMTT(30) DEF LookedUp
  <2> QED BY <1>1, <1>3, <2>1, <2>2, ShellKeeps, Zenon DEF ShellOpenOut
<1>4. ASSUME NEW n \in Nodes, ShellOpenIn(n) PROVE FilesInv'
  <2>1. redirect # None /\ n \in present /\ present' = present /\ redirect' = [redirect EXCEPT !.in = n]
    BY <1>4, Zenon DEF ShellOpenIn, LooksUp
  <2>2. LookedUp(redirect', present')
    BY <2>1, LineFacts, SMTT(30) DEF LookedUp
  <2> QED BY <1>1, <1>4, <2>1, <2>2, ShellKeeps, Zenon DEF ShellOpenIn
<1>5. CASE GiveUp
  BY <1>1, <1>5, ShellKeeps, Zenon DEF GiveUp, LookedUp
<1>6. ASSUME NEW p \in Procs, Spawn(p) \/ SpawnStage(p) PROVE FilesInv'
  <2>1. /\ redirect # None /\ alive' = alive \cup {p} /\ UNCHANGED <<files, refs, present, leaked, mixed>>
        /\ redirect' \in {[redirect EXCEPT !.child = p], [redirect EXCEPT !.line = "last"]}
    BY <1>6, Zenon DEF Spawn, SpawnStage, LooksUp
  <2>2. LookedUp(redirect', present')
    BY <2>1, LineFacts, SMTT(30) DEF LookedUp
  <2> QED BY <1>1, <2>1, <2>2, ShellKeeps, Zenon
<1> QED BY <1>2, <1>3, <1>4, <1>5, <1>6, Zenon

\* The shell goes on with the last process of a pipeline.
LEMMA NextStage ==
  ASSUME FileTableAssumption, FilesInv, Defined, redirect # None
  PROVE  LookedUp([line |-> "last", out |-> redirect.out, in |-> None, child |-> None], present)
<1>1. redirect.out \in Nodes \cup {None} /\ redirect.out \in present \cup {None}
  BY LineFacts, SMTT(30)
<1> QED BY <1>1, SMTT(30) DEF LookedUp

\* The table that process_redirect() makes.
LEMMA GivenTable ==
  ASSUME FileTableAssumption, FilesInv, Defined, redirect # None, NEW u \in Tables,
         Linked(u, present),
         \A q \in Pipes : u[stdin_pipe] # End("w", q) /\ u[stdout_pipe] # End("r", q)
  PROVE  /\ Given(u) \in Tables /\ Linked(Given(u), present) /\ NodeSlots \in SUBSET FileSlots
         /\ \A s \in FileSlots \ NodeSlots : Given(u)[s] = u[s]
         /\ \A q \in Pipes : /\ Given(u)[stdin_pipe] # End("w", q)
                             /\ Given(u)[stdout_pipe] # End("r", q)
<1> DEFINE pointer(n) == IF n = None THEN None ELSE File(n)
<1>1. PICK a, b : a = pointer(GivenOut) /\ b = pointer(GivenIn)
  BY Zenon
<1>2. Given(u) = [u EXCEPT ![stdout_node] = a, ![stdin_node] = b]
  BY <1>1, Zenon DEF Given
<1>3. GivenOut \in present \cup {None} /\ GivenIn \in present \cup {None} /\ present \subseteq Nodes
  BY LineFacts, TableFacts, Zenon DEF GivenOut, GivenIn
<1>4. \A n \in present \cup {None} : /\ pointer(n) \in Objects \cup {None}
                                     /\ \A m \in Nodes : pointer(n) = File(m) => m \in present
  <2> TAKE n \in present \cup {None}
  <2>1. CASE n = None
    <3>1. pointer(n) = None
      BY <2>1, Zenon
    <3> HIDE DEF pointer
    <3> QED BY <3>1, SlotFacts, ObjectFacts, Zenon
  <2>2. CASE n \in present /\ n # None
    <3>1. pointer(n) = File(n)
      BY <2>2, Zenon
    <3> HIDE DEF pointer
    <3> QED BY <1>3, <2>2, <3>1, ObjectFacts, Zenon
  <2> QED BY <2>1, <2>2, Zenon
<1> HIDE DEF pointer
<1>5. a \in Objects \cup {None} /\ b \in Objects \cup {None}
      /\ \A m \in Nodes : a = File(m) \/ b = File(m) => m \in present
  BY <1>1, <1>3, <1>4, Zenon
<1>6. Std \subseteq FileSlots
  BY SlotFacts, Zenon
<1>7. PICK t \in Tables : t = Given(u)
  BY <1>2, <1>5, Zenon DEF Tables
<1>8. \A s \in FileSlots \ NodeSlots : t[s] = u[s]
  BY <1>2, <1>7, Zenon DEF Tables, NodeSlots
<1>9. \A s \in FileSlots : t[s] \in {a, b, u[s]}
  BY <1>2, <1>7, Zenon DEF Tables
<1>10. Linked(t, present)
  BY <1>5, <1>9, Zenon DEF Linked
<1>11. t[stdin_pipe] = u[stdin_pipe] /\ t[stdout_pipe] = u[stdout_pipe]
  BY <1>6, <1>8, SMTT(30) DEF Std, NodeSlots, stdin_node, stdin_pipe, stdout_node, stdout_pipe
<1>12. NodeSlots \in SUBSET FileSlots
  BY <1>6, Zenon DEF NodeSlots, Std
<1> QED BY <1>7, <1>8, <1>10, <1>11, <1>12, Zenon

\* process_redirect() of a process that runs
LEMMA RedirectKeeps ==
  ASSUME FileTableAssumption, FilesInv, Defined, NEW p \in Procs, Redirect(p)
  PROVE  FilesInv'
<1>1. /\ redirect # None /\ p \in alive /\ Replace(p, Given(files[p]), NodeSlots)
      /\ mixed' = (mixed \/ ~OneEach(Given(files[p]))) /\ UNCHANGED <<alive, present, leaked>>
      /\ redirect' \in {None, [line |-> "last", out |-> redirect.out, in |-> None, child |-> None]}
  BY Zenon DEF Redirect, CallsRedirect
<1>2. LookedUp(redirect', present')
  <2>1. LookedUp(None, present)
    BY Zenon DEF LookedUp
  <2> QED BY <1>1, <2>1, NextStage, Zenon
<1>3. /\ files[p] \in Tables /\ StreamsOnce(files[p], mixed) /\ Linked(files[p], present)
      /\ alive \subseteq Procs /\ present \subseteq Nodes /\ mixed \in BOOLEAN
  BY TableFacts, Zenon
<1>4. /\ Given(files[p]) \in Tables /\ Linked(Given(files[p]), present)
      /\ NodeSlots \in SUBSET FileSlots
      /\ \A s \in FileSlots \ NodeSlots : Given(files[p])[s] = files[p][s]
      /\ \A q \in Pipes : /\ Given(files[p])[stdin_pipe] # End("w", q)
                          /\ Given(files[p])[stdout_pipe] # End("r", q)
  BY <1>1, <1>3, GivenTable, Zenon DEF StreamsOnce
<1>5. PICK t \in Tables : t = Given(files[p])
  BY <1>4, Zenon
<1>6. TableStep(p, t)
  BY <1>1, <1>4, <1>5, ReplaceTallied, Zenon
<1>7. StreamsOnce(t, mixed') /\ mixed' \in BOOLEAN /\ (mixed => mixed')
  BY <1>1, <1>4, <1>5, Zenon DEF StreamsOnce
<1> QED BY <1>1, <1>2, <1>3, <1>4, <1>5, <1>6, <1>7, TableKeeps, Zenon

\* process_redirect() of a process that has ended: both sides of the count grow.
LEMMA RedirectEndedKeeps ==
  ASSUME FileTableAssumption, FilesInv, Defined, NEW p \in Procs, RedirectEnded(p)
  PROVE  FilesInv'
<1>1. /\ redirect # None /\ UNCHANGED <<alive, files, present, mixed>>
      /\ refs' = Acquire(Given(Empty), NodeSlots)
      /\ leaked' = [o \in Objects |-> leaked[o] + Uses(Given(Empty), NodeSlots, o)]
      /\ redirect' \in {None, [line |-> "last", out |-> redirect.out, in |-> None, child |-> None]}
  BY Zenon DEF RedirectEnded, CallsRedirect
<1>2. LookedUp(redirect', present')
  <2>1. LookedUp(None, present)
    BY Zenon DEF LookedUp
  <2> QED BY <1>1, <2>1, NextStage, Zenon
<1>3. Given(Empty) \in Tables /\ NodeSlots \in SUBSET FileSlots
  <2>1. Empty \in Tables /\ \A o \in Objects, s \in FileSlots : Empty[s] # o
    BY SlotFacts, Zenon DEF Tables
  <2>2. /\ Linked(Empty, present)
        /\ \A q \in Pipes : Empty[stdin_pipe] # End("w", q) /\ Empty[stdout_pipe] # End("r", q)
    BY <2>1, SlotFacts, ObjectFacts, Zenon DEF Linked, Std
  <2> QED BY <1>1, <2>1, <2>2, GivenTable, Zenon
<1>4. ASSUME NEW o \in Objects
      PROVE  /\ refs'[o] \in Nat /\ leaked'[o] \in Nat
             /\ refs'[o] = Cardinality(Holders(files, o)) + leaked'[o]
  <2>1. /\ refs'[o] = refs[o] + Uses(Given(Empty), NodeSlots, o)
        /\ leaked'[o] = leaked[o] + Uses(Given(Empty), NodeSlots, o)
        /\ refs[o] = Cardinality(Holders(files, o)) + leaked[o]
        /\ refs[o] \in Nat /\ leaked[o] \in Nat
    BY <1>1, Zenon DEF Acquire, FilesInv, FileTableTypeOK, CountsExact, Holders
  <2>2. Uses(Given(Empty), NodeSlots, o) \in Nat /\ Cardinality(Holders(files, o)) \in Nat
    BY <1>3, UsesCount, HoldersCount, Zenon
  <2> QED BY ONLY <2>1, <2>2
<1>5. CountsExact' /\ refs' \in [Objects -> Nat] /\ leaked' \in [Objects -> Nat]
  <2>1. refs' = [o \in Objects |-> refs'[o]] /\ leaked' = [o \in Objects |-> leaked'[o]]
    BY <1>1, Zenon DEF Acquire
  <2> QED BY <1>1, <1>4, <2>1, Zenon DEF CountsExact, Holders
<1>6. FileTableTypeOK'
  BY <1>1, <1>2, <1>5, Zenon DEF FilesInv, FileTableTypeOK, LookedUp
<1>7. OneStream' /\ NoDanglingNode'
  BY <1>1, Zenon DEF FilesInv, OneStream, OneEach, NoDanglingNode
<1> QED BY <1>1, <1>2, <1>5, <1>6, <1>7, Zenon DEF FilesInv, LookedUp

LEMMA FilesInit ==
  ASSUME FileTableAssumption, FileTableInit
  PROVE  FilesInv
<1>1. Empty \in [FileSlots -> Objects \cup {None}] /\ \A s \in FileSlots : Empty[s] = None
  BY SlotFacts, Zenon
<1>2. FileTableTypeOK
  BY <1>1, Zenon DEF FileTableInit, FileTableTypeOK
<1>3. \A p \in Procs : files[p] = Empty
  BY Zenon DEF FileTableInit
<1>4. \A o \in Objects : None # o
  BY SlotFacts, Zenon
<1>5. \A o \in Objects : \A p \in Procs, s \in FileSlots : files[p][s] # o
  BY <1>1, <1>3, <1>4, Zenon
<1>6. CountsExact
  <2>1. \A o \in Objects : Cardinality(Holders(files, o)) = 0
    BY <1>5, HoldersCount, Zenon
  <2>2. \A o \in Objects : refs[o] = 0 /\ leaked[o] = 0
    BY Zenon DEF FileTableInit
  <2>3. \A o \in Objects : refs[o] = Cardinality(Holders(files, o)) + leaked[o]
    BY ONLY <2>1, <2>2
  <2> QED BY <2>3, Zenon DEF CountsExact, Holders
<1>7. OneStream
  BY <1>1, <1>3, <1>4, SlotFacts, ObjectFacts, SMTT(30) DEF OneStream, OneEach, Std
<1>8. NoDanglingNode
  BY <1>5, ObjectFacts, Zenon DEF NoDanglingNode
<1> QED BY <1>2, <1>3, <1>6, <1>7, <1>8, Zenon DEF FilesInv, FileTableInit

\* Every step of the descriptor tables keeps the invariant.
LEMMA FilesStep ==
  ASSUME FileTableAssumption, FilesInv, [FileTableNext]_fileVars
  PROVE  FilesInv'
<1>1. CASE UNCHANGED fileVars
  BY <1>1, Zenon
     DEF fileVars, FilesInv, FileTableTypeOK, CountsExact, OneStream, OneEach, NoDanglingNode
<1> SUFFICES ASSUME FileTableNext PROVE FilesInv'
  BY <1>1, Zenon
<1>d. Defined
  BY Zenon DEF FileTableNext
<1>2. CASE \E p \in Procs, n \in Nodes : Open(p, n) \/ Create(p, n) \/ Unlink(p, n)
  BY <1>d, <1>2, OpenKeeps, UnlinkKeeps, Zenon
<1>3. CASE \E p \in Procs, q \in Pipes : PipeCall(p, q)
  BY <1>3, PipeCallKeeps, Zenon
<1>4. CASE \E p \in Procs, x \in Index :
             \/ Dup(p, x) \/ Close(p, x)
             \/ Dup2Std(p, x, stdin_node, stdin_pipe, "r")
             \/ Dup2Std(p, x, stdout_node, stdout_pipe, "w")
  BY <1>4, DupKeeps, Dup2StdKeeps, Zenon
<1>5. CASE \E p \in Procs, x, y \in Index : Dup2(p, x, y)
  BY <1>5, DupKeeps, Zenon
<1>6. CASE \E p, c \in Procs : Fork(p, c)
  BY <1>6, ForkKeeps, Zenon
<1>7. CASE \E p \in Procs : ExitFiles(p) \/ Redirect(p) \/ RedirectEnded(p)
  BY <1>d, <1>7, ExitKeeps, RedirectKeeps, RedirectEndedKeeps, Zenon
<1>8. CASE \/ \E line \in {"simple", "pipeline"} : Command(line)
           \/ \E n \in Nodes : ShellOpenOut(n) \/ ShellOpenIn(n)
           \/ GiveUp
           \/ \E p \in Procs : Spawn(p) \/ SpawnStage(p)
  BY <1>d, <1>8, LookUpKeeps, Zenon
<1> QED BY <1>2, <1>3, <1>4, <1>5, <1>6, <1>7, <1>8, Zenon DEF FileTableNext, FileTableStep

\* Whatever the processes open, pass on and close between the steps of the shell, the count
\* in every node and every pipe end is the number of descriptors and streams that point at
\* it, and of those that the shell took for processes that had ended; a stream is one thing
\* unless the shell mixed it; and nobody points at a file that has been unlinked, up to
\* the moment at which a node that the shell has looked up is freed.
THEOREM FilesSafe ==
  ASSUME FileTableAssumption
  PROVE  FileTableSpec => [](FileTableTypeOK /\ RefsExact)
<1>1. FileTableInit => FilesInv
  BY FilesInit, Zenon
<1>2. FilesInv /\ [FileTableNext]_fileVars => FilesInv'
  BY FilesStep, Zenon
<1>3. FilesInv => FileTableTypeOK /\ RefsExact
  BY Zenon DEF FilesInv, RefsExact
<1> QED BY <1>1, <1>2, <1>3, PTL DEF FileTableSpec
=============================================================================
