--------------------------------- MODULE Heap --------------------------------
(***************************************************************************)
(* The kernel heap: kmalloc() takes the first free block that is large     *)
(* enough and splits it, growing the heap by whole pages when there is     *)
(* none; kfree() marks a block free and merges neighbours.  There is no    *)
(* lock: system calls run with interrupts disabled, but the kernel shell   *)
(* calls kmalloc() with interrupts enabled and can be preempted between    *)
(* finding a block and taking it.                                          *)
(***************************************************************************)
EXTENDS Integers, Sequences, FiniteSets, SequencesExt

CONSTANTS
  Pages,            \* physical pages, each of PageSize bytes
  PageSize,         \* PMM_BLOCK_SIZE
  Header,           \* sizeof(heap_block_t)
  Align,            \* HEAP_ALIGNMENT
  Sizes,            \* the sizes that are asked for
  ShellPreempted    \* whether a tick may fall into the shell's kmalloc()

\* What the constants have to satisfy.
HeapAssumption ==
  /\ {Pages, PageSize, Header, Align} \subseteq Nat \ {0} /\ Sizes \subseteq Nat
  /\ PageSize > Header + Align /\ ShellPreempted \in BOOLEAN

VARIABLES
  heap,     \* the block list from heap_head on
  owned,    \* the pages the heap has taken from the frame allocator
  held,     \* the blocks given out, by address, with the size that was asked for
  found     \* the block the shell's search has found, and the size; none if it is not searching

vars == <<heap, owned, held, found>>

Block(a, n, free) == [addr |-> a, size |-> n, free |-> free]
EndOf(b) == b.addr + Header + b.size
NoneFound == [addr |-> 0, size |-> 0]

-----------------------------------------------------------------------------
(* Blocks *)

Mergeable(b, c) == b.free /\ c.free /\ EndOf(b) = c.addr

Merged(b, c) == Block(b.addr, b.size + Header + c.size, TRUE)

\* merge_free_blocks(), one pass over the list
Merge(s) ==
  FoldLeft(LAMBDA done, c :
             IF done # <<>> /\ Mergeable(Last(done), c)
             THEN Append(Front(done), Merged(Last(done), c))
             ELSE Append(done, c),
           <<>>, s)

\* insert_block(): the list is in the order of the addresses.
InsertBlock(s, b) ==
  SelectSeq(s, LAMBDA c : c.addr < b.addr) \o <<b>> \o SelectSeq(s, LAMBDA c : c.addr > b.addr)

\* Faulty variant: rounds down.
RoundDown(n) == (n \div Align) * Align

RoundUp(n) == ((n + Align - 1) \div Align) * Align

\* The pages heap_grow() asks for, for a payload of n bytes.
PageCount(n) == (n + Header + PageSize - 1) \div PageSize

\* The positions pmm_alloc_blocks() may give a run of n pages; page 0 is never free.
FreeRuns(n) == {f \in 1 .. Pages - n : (f .. f + n - 1) \cap owned = {}}

\* heap_grow(): the new pages are one free block, merged with its neighbours.
Grown(s, first, n) == Merge(InsertBlock(s, Block(first * PageSize, n * PageSize - Header, TRUE)))

\* The first-fit search: the index of the block, 0 when there is none.
FirstFit(s, n) == SelectInSeq(s, LAMBDA b : b.free /\ b.size >= n)

\* A block is split when another header and a payload fit.
Splits(b, n) == b.size > n + Header + 4

\* Block x of the list is taken for n bytes.
Taken(s, x, n) ==
  LET b == s[x] IN
  IF Splits(b, n)
  THEN SubSeq(s, 1, x - 1)
         \o <<Block(b.addr, n, FALSE),
              Block(b.addr + Header + n, b.size - n - Header, TRUE)>>
         \o SubSeq(s, x + 1, Len(s))
  ELSE [s EXCEPT ![x].free = FALSE]

-----------------------------------------------------------------------------
(* Steps *)

\* heap_init()
Init ==
  /\ \E f \in 1 .. Pages - 1 : owned = {f} /\ heap = Grown(<<>>, f, 1)
  /\ held = {} /\ found = NoneFound

Idle == found = NoneFound \/ ShellPreempted

\* The payload address a caller gets for block x of s, and the size it asked for.
Given(s, x, size) == [addr |-> s[x].addr + Header, size |-> size]

\* kmalloc() in a system call.  When the frame allocator has no run it fails.
Kmalloc(size) ==
  LET n == RoundUp(size)
      x == FirstFit(heap, n)
  IN
  /\ Idle /\ size > 0
  /\ IF x # 0
     THEN /\ heap' = Taken(heap, x, n)
          /\ held' = held \cup {Given(heap, x, size)}
          /\ UNCHANGED owned
     ELSE \E f \in FreeRuns(PageCount(n)) :
            LET s == Grown(heap, f, PageCount(n))
                y == FirstFit(s, n)
            IN
            /\ y # 0
            /\ owned' = owned \cup f .. f + PageCount(n) - 1
            /\ heap' = Taken(s, y, n)
            /\ held' = held \cup {Given(s, y, size)}
  /\ UNCHANGED found

\* kmalloc() in the shell, when a block is there: the search, and then the split.
ShellSearch(size) ==
  LET x == FirstFit(heap, RoundUp(size)) IN
  /\ found = NoneFound /\ size > 0 /\ x # 0
  /\ found' = [addr |-> heap[x].addr, size |-> size]
  /\ UNCHANGED <<heap, owned, held>>

\* The block as it is now.  (When it was merged into another one meanwhile, the model goes
\* no further.)
ShellTake ==
  /\ found # NoneFound
  /\ \E x \in DOMAIN heap :
       /\ heap[x].addr = found.addr
       /\ heap' = Taken(heap, x, RoundUp(found.size))
       /\ held' = held \cup {Given(heap, x, found.size)}
  /\ found' = NoneFound
  /\ UNCHANGED owned

AfterFree(s) == Merge(s)

\* kfree() of a block that was given out
Kfree(b) ==
  /\ Idle
  /\ \E x \in DOMAIN heap :
       /\ heap[x].addr + Header = b.addr
       /\ heap' = AfterFree([heap EXCEPT ![x].free = TRUE])
  /\ held' = held \ {b}
  /\ UNCHANGED <<owned, found>>

Next ==
  \/ \E size \in Sizes : Kmalloc(size) \/ ShellSearch(size)
  \/ ShellTake
  \/ \E b \in held : Kfree(b)

Spec == Init /\ [][Next]_vars

-----------------------------------------------------------------------------
(* Properties *)

\* Every variable has its type; blocks and payloads are aligned.
TypeOK ==
  /\ owned \subseteq 1 .. Pages - 1
  /\ \A x \in DOMAIN heap : heap[x].addr % Align = 0 /\ heap[x].size \in Nat /\ heap[x].free \in BOOLEAN
  /\ \A b \in held \cup {found} : b.addr \in Nat /\ b.size \in Nat

\* The blocks lie in the pages of the heap one after another, each in pages that the heap
\* owns, and together they use every byte of those.
BlocksTile ==
  /\ \A x \in 1 .. Len(heap) - 1 : EndOf(heap[x]) <= heap[x + 1].addr
  /\ \A x \in DOMAIN heap :
       heap[x].addr \div PageSize .. (EndOf(heap[x]) - 1) \div PageSize \subseteq owned
  /\ FoldLeft(LAMBDA bytes, b : bytes + Header + b.size, 0, heap) = Cardinality(owned) * PageSize

\* What the callers hold are the blocks that are not free, one each, of the size that
\* was asked for at least.
HeldAreTaken ==
  /\ \A b \in held : \E x \in DOMAIN heap :
       ~heap[x].free /\ heap[x].addr + Header = b.addr /\ heap[x].size >= b.size
  /\ \A x \in DOMAIN heap : ~heap[x].free => \E b \in held : heap[x].addr + Header = b.addr

\* Neighbouring free blocks are merged, so a request fails only when no run of free
\* bytes is long enough.
Coalesced == \A x \in 1 .. Len(heap) - 1 : ~Mergeable(heap[x], heap[x + 1])
=============================================================================
