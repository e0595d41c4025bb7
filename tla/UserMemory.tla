----------------------------- MODULE UserMemory ------------------------------
(***************************************************************************)
(* The layout of a process's address space: where the ELF loader puts the  *)
(* image, sbrk(), the page of shared memory, the bitmap of the mmap        *)
(* region, and which page faults bring a page in.  Addresses are words     *)
(* modulo W, with P bytes to a page.                                       *)
(***************************************************************************)
EXTENDS Integers, FiniteSets, FiniteSetsExt

CONSTANTS
  W,                        \* 2^32
  P,                        \* page size
  LoadBase,                 \* USER_LOAD_BASE
  StackBottom, StackTop,    \* USER_STACK_BOTTOM, USER_STACK_TOP
  Premap,                   \* USER_STACK_PREMAP
  LowTop,                   \* end of the low page table, 4 MB
  ExtBase, ExtPages,        \* USER_EXT_BASE, USER_EXT_PAGES
  Segments,                 \* the program headers images are made of
  TopImages                 \* whether images end in the page below the stack

\* What the constants have to satisfy.
UserMemoryAssumption ==
  /\ {W, P, LoadBase, StackBottom, StackTop, Premap, LowTop, ExtBase, ExtPages} \subseteq Nat \ {0}
  /\ LoadBase < StackBottom - P /\ StackBottom < StackTop /\ StackTop < LowTop
  /\ Premap * P < StackTop - StackBottom + P /\ LowTop < ExtBase
  /\ ExtBase + ExtPages * P < W
  /\ {StackBottom, StackTop, ExtBase} \subseteq {n * P : n \in 1 .. W}
  /\ Segments \subseteq [vaddr : Nat, memsz : Nat] /\ TopImages \in BOOLEAN

HeapMax == StackBottom - P      \* USER_HEAP_MAX: a guard page below the stack
ExtIndex == 0 .. ExtPages - 1

VARIABLES
  loaded,                 \* the process has an image
  image,                  \* the pages of the image
  heap_start, heap_break,
  ext_map,                \* the reserved pages of the mmap region
  mapped                  \* the pages that are present

vars == <<loaded, image, heap_start, heap_break, ext_map, mapped>>

Word(x) == x % W
PageOf(a) == a \div P
PagesOf(a, size) == PageOf(a) .. PageOf(a + size + P - 1) - 1
PageUp(a) == ((a + P - 1) \div P) * P

Init ==
  /\ loaded = FALSE /\ image = {} /\ heap_start = 0 /\ heap_break = 0
  /\ ext_map = {} /\ mapped = {}

-----------------------------------------------------------------------------
(* The loader *)

\* phdr_in_user_range()
InUserRange(seg) ==
  /\ seg.vaddr >= LoadBase /\ seg.vaddr < StackBottom
  /\ seg.memsz <= Word(StackBottom - seg.vaddr)

\* load_segments(): the heap begins on the first page behind the highest segment.
HeapBase(segs) == PageUp(Max({LoadBase} \cup {seg.vaddr + seg.memsz : seg \in segs}))

\* elf_load_image() for a new process, or followed by process_exec_reset(): an image of
\* the segments segs.  The entry point lies in a segment that is not empty; of the stack
\* the top pages are there.
Load(segs) ==
  LET pages == UNION {PagesOf(seg.vaddr, seg.memsz) : seg \in segs} IN
  /\ \A seg \in segs : InUserRange(seg)
  /\ \E seg \in segs : seg.memsz > 0
  /\ TopImages \/ \A seg \in segs : seg.vaddr + seg.memsz \notin HeapMax + 1 .. StackBottom
  /\ loaded' = TRUE
  /\ image' = pages
  /\ heap_start' = HeapBase(segs) /\ heap_break' = HeapBase(segs)
  /\ ext_map' = {}
  /\ mapped' = pages \cup PagesOf(StackTop - Premap * P, Premap * P)

-----------------------------------------------------------------------------
(* sbrk() *)

\* Faulty variant: shrinking is not limited by the start of the heap.
MayShrinkAlways(dec) == dec <= heap_break

MayShrink(dec) == dec <= Word(heap_break - heap_start)
MayGrow(inc) == inc <= Word(HeapMax - heap_break)

\* sys_sbrk(): the break moves; pages come in when they are touched.
Sbrk(inc) ==
  /\ loaded /\ inc # 0
  /\ IF inc < 0 THEN MayShrink(-inc) ELSE MayGrow(inc)
  /\ heap_break' = Word(heap_break + inc)
  /\ UNCHANGED <<loaded, image, heap_start, ext_map, mapped>>

-----------------------------------------------------------------------------
(* Shared memory *)

\* USER_SHM_BASE is USER_STACK_TOP: the page is the first one above the stack.
ShmPage == PageOf(StackTop)

\* sys_shm(): the page is brought in at once; a second call finds it there.
SysShm ==
  /\ loaded /\ ShmPage \notin mapped
  /\ mapped' = mapped \cup {ShmPage}
  /\ UNCHANGED <<loaded, image, heap_start, heap_break, ext_map>>

-----------------------------------------------------------------------------
(* mmap() and munmap() *)

ExtPage(i) == PageOf(ExtBase) + i

\* The run of free pages that ends with page i.
NextRun(i, run) == IF i \in ext_map THEN 0 ELSE run + 1

\* The scan of process_ext_alloc(): the last page of the first free run of n pages, or
\* ExtPages when there is none.
ScanEnd(n) ==
  LET Loop[i \in -1 .. ExtPages - 1] ==
        IF i = -1 THEN [run |-> 0, end |-> ExtPages]
        ELSE LET before == Loop[i - 1]
                 run == NextRun(i, before.run)
             IN IF before.end < ExtPages THEN before
                ELSE [run |-> run, end |-> IF run = n THEN i ELSE ExtPages]
  IN Loop[ExtPages - 1].end

\* sys_mmap()
Mmap(n) ==
  LET end == ScanEnd(n) IN
  /\ loaded /\ end < ExtPages
  /\ ext_map' = ext_map \cup end + 1 - n .. end
  /\ UNCHANGED <<loaded, image, heap_start, heap_break, mapped>>

\* paging_unmap_user_page() on each page of a run.
Unmapped(first, n) == mapped \ {ExtPage(i) : i \in first .. first + n - 1}

\* sys_munmap(): all pages of the range have to be reserved.
Munmap(first, n) ==
  /\ loaded /\ n <= ExtPages - first
  /\ first .. first + n - 1 \subseteq ext_map
  /\ ext_map' = ext_map \ (first .. first + n - 1)
  /\ mapped' = Unmapped(first, n)
  /\ UNCHANGED <<loaded, image, heap_start, heap_break>>

-----------------------------------------------------------------------------
\* page_fault_handler(): the accesses that bring a page in.  Any other one ends the
\* process.
DemandPaged(a) ==
  /\ a < LowTop \/ (a >= ExtBase /\ a < ExtBase + ExtPages * P)
  /\ \/ a >= StackBottom /\ a < StackTop
     \/ a >= heap_start /\ a < heap_break
     \/ a >= ExtBase /\ PageOf(a) - PageOf(ExtBase) \in ext_map

Touch(a) ==
  /\ loaded /\ DemandPaged(a) /\ PageOf(a) \notin mapped
  /\ mapped' = mapped \cup {PageOf(a)}
  /\ UNCHANGED <<loaded, image, heap_start, heap_break, ext_map>>

Next ==
  \/ \E seg1, seg2 \in Segments : Load({seg1, seg2})
  \/ \E inc \in -(W \div 2) .. (W \div 2) - 1 : Sbrk(inc)
  \/ SysShm
  \/ \E n \in 1 .. ExtPages : Mmap(n)
  \/ \E first \in ExtIndex, n \in 1 .. ExtPages : Munmap(first, n)
  \/ \E a \in 0 .. W - 1 : Touch(a)

Spec == Init /\ [][Next]_vars

-----------------------------------------------------------------------------
(* Properties *)

\* Every variable has its type.
TypeOK ==
  /\ loaded \in BOOLEAN /\ image \subseteq 0 .. PageOf(W)
  /\ heap_start \in {p * P : p \in 0 .. PageOf(W)} /\ heap_break \in 0 .. W - 1
  /\ ext_map \subseteq ExtIndex /\ mapped \subseteq 0 .. PageOf(W)

\* "One guard page is kept between the heap ceiling and the stack bottom": the break
\* stays between the end of the image and the guard page, whatever is added to it and
\* taken from it.
HeapBounds == loaded => heap_start <= heap_break /\ heap_break <= HeapMax

\* The same without the break's own limits: no address of the guard page or of the
\* stack is an address of the heap.
HeapClearOfStack == \A a \in HeapMax .. StackTop - 1 : ~ (heap_start <= a /\ a < heap_break)

\* The guard page is never brought in, so a heap overrun faults before it reaches the
\* stack; and between the stack and the mmap region only the shared page is ever present.
GuardPageAbsent ==
  /\ PageOf(HeapMax) \notin mapped
  /\ \A p \in mapped : p <= ShmPage \/ p >= PageOf(ExtBase)

\* A page of the mmap region is present only while it is reserved: a page that was
\* released never comes back with its old contents.
ExtMappedReserved == \A i \in ExtIndex : ExtPage(i) \in mapped => i \in ext_map

\* With what makes it inductive: a present page lies below the guard page, in the stack, is
\* the shared page or a reserved page of the mmap region.
LayoutInv ==
  /\ HeapBounds /\ GuardPageAbsent /\ ExtMappedReserved
  /\ loaded \in BOOLEAN /\ heap_start \in Nat /\ heap_break \in Nat
  /\ \A p \in mapped :
       /\ p \in Int
       /\ \/ p < PageOf(HeapMax)
          \/ p \in PageOf(StackBottom) .. ShmPage
          \/ p >= PageOf(ExtBase) /\ p - PageOf(ExtBase) \in ext_map

\* process_ext_alloc() finds the first free run that is long enough, whenever there is
\* one.
MmapFirstFit ==
  \A n \in 1 .. ExtPages :
    LET runs == {f \in ExtIndex : f + n <= ExtPages /\ (f .. f + n - 1) \cap ext_map = {}} IN
    ScanEnd(n) = IF runs = {} THEN ExtPages ELSE Min(runs) + n - 1
=============================================================================
