------------------------------- MODULE PmmScan -------------------------------
(***************************************************************************)
(* The bitmap scan of pmm.c as the loop it is, next to what it promises.   *)
(***************************************************************************)
EXTENDS Pmm

\* Faulty variant: a frame in use does not end the run.
RunLengthKept(frame, length) == IF frame \in memory_map THEN length ELSE length + 1

\* The length of the free run that ends with this frame.
RunLength(frame, length) == IF frame \in memory_map THEN 0 ELSE length + 1

\* mmap_first_free_run(): the loop over the frames from 1 on, which carries the start
\* and the length of the run it is in and stops when the run is long enough; -1 when
\* there is none.
FirstFreeRun(count) ==
  LET Step(acc, frame) ==
        IF acc.found # -1 THEN acc
        ELSE LET start == IF acc.length = 0 THEN frame ELSE acc.start
                 length == RunLength(frame, acc.length)
             IN [start |-> start, length |-> length,
                 found |-> IF length = count THEN start ELSE -1]
      Loop[n \in 0 .. MaxBlocks - 1] ==
        IF n = 0 THEN [start |-> 0, length |-> 0, found |-> -1] ELSE Step(Loop[n - 1], n)
  IN IF count = 0 \/ count > MaxBlocks THEN -1 ELSE Loop[MaxBlocks - 1].found

\* The scan finds the first run of free frames that is long enough, whenever there is
\* one, and the test of the counter before it never refuses such a run, unless it comes
\* in the middle of one of the shell's calls or the counter was lost there.
ScanIsFirstFit ==
  \A count \in 0 .. MaxBlocks + 1 :
    /\ FirstFreeRun(count) =
         IF count = 0 \/ count > MaxBlocks \/ FreeRuns(count) = {} THEN -1
         ELSE Min(FreeRuns(count))
    /\ FirstFreeRun(count) # -1 /\ ~overlapped /\ shellPc # "counting"
         => count <= MaxBlocks - used_blocks
=============================================================================
