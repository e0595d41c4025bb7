------------------------------ MODULE MCMemory ------------------------------
(***************************************************************************)
(* Memory and the devices, for TLC: Pmm with PmmScan, Paging, UserMemory,  *)
(* Heap, Loader, Umalloc and UserArgs; Ata, Rtc and Terminal.  They share  *)
(* no state, so a behaviour runs one of them, part.  The variables of Pmm  *)
(* and Paging stay in their initial state in the other parts, and those of *)
(* the other modules are Off where they are not used.                      *)
(***************************************************************************)
EXTENDS PmmScan, Paging, TLC

CONSTANTS
  Segments,                  \* UserMemory
  Headers,                   \* Loader
  Sectors, Values, Garbage   \* Ata

VARIABLES
  part,
  loaded, image, heap_start, heap_break, ext_map, mapped,
  heap, owned, given, found,
  linked, file, refs, loader, ehdr, index, phdr, copied, entry_mapped, heap_base, space,
  args, rewritten, lost,
  ring, taken, brk, gaps,
  present, zeros,
  dev, store, driver, request, available, last, written,
  mode, now, low, hour, uip, phase, select, reader, cur, prev, out, seen, updates, intruded,
  row, column, printing, x, y, cell

userVars == <<loaded, image, heap_start, heap_break, ext_map, mapped>>
heapVars == <<heap, owned, given, found>>
loaderVars == <<linked, file, refs, loader, ehdr, index, phdr, copied, entry_mapped,
                heap_base, space, args, rewritten, lost>>
mallocVars == <<ring, taken, brk, gaps>>
argVars == <<present, zeros>>
ataVars == <<dev, store, driver, request, available, last, written>>
rtcVars == <<mode, now, low, hour, uip, phase, select, reader, cur, prev, out, seen, updates,
             intruded>>
termVars == <<row, column, printing, x, y, cell>>
all == <<part, vars, pagingVars, userVars, heapVars, loaderVars, mallocVars, argVars,
         ataVars, rtcVars, termVars>>

\* Pages of two bytes in a space of 48: image and heap from 4 to 10, the guard page, the
\* stack from 12 to 16, and the mmap region of four pages from 24.
U == INSTANCE UserMemory WITH
       W <- 48, P <- 2, LoadBase <- 4, StackBottom <- 12, StackTop <- 16, Premap <- 1,
       LowTop <- 20, ExtBase <- 24, ExtPages <- 4, TopImages <- FALSE

\* Three pages for the heap, and sizes that need one and two of them.
H == INSTANCE Heap WITH Pages <- 4, PageSize <- 32, Header <- 8, Align <- 4,
                        Sizes <- {0, 3, 8, 30}, ShellPreempted <- FALSE, held <- given

\* Pages of 16 bytes: the image from 32 on, the stack from 80 to 128, two pages of which
\* are mapped at once; a file is copied four bytes at a time.
L == INSTANCE Loader WITH
       P <- 16, LoadBase <- 32, StackBottom <- 80, StackTop <- 128, Premap <- 2, Chunk <- 4,
       FileLength <- 12, MaxHeaders <- 2, Entries <- {33, 53},
       ArgSizes <- {<<1>>, <<5, 2>>, <<8, 1, 2>>, <<8>>, <<9>>}, pc <- loader

\* Requests of no unit, of one to three, of more than the heap has, and one so large that
\* its bytes are more than half of the address space.
M == INSTANCE Umalloc WITH
       HeaderSize <- 2, MoreCore <- 4, Word <- 32, HeapUnits <- 10,
       Requests <- {0, 1, 2, 3, 5, 17, 30}, MaxGap <- 1, given <- taken

\* Two regions with a hole between them, and one near the top of the addresses.
A == INSTANCE UserArgs WITH
       Word <- 32, P <- 4, Regions <- {<<4, 12>>, <<16, 20>>, <<24, 28>>}, MaxString <- 5,
       mapped <- present

Disk == INSTANCE Ata WITH pc <- driver, op <- request, ready <- available, asked <- written

\* Of the fast register one value with one digit and one with two; of the hours those
\* around noon and midnight, and one more with one digit.
Clock == INSTANCE Rtc WITH
           LowValues <- <<9, 59>>, HourValues <- <<0, 9, 11, 12, 23>>, MaxUpdates <- 2,
           Intrusions <- 1, Overlap <- FALSE, pc <- reader
Term == INSTANCE Terminal WITH Width <- 3, Height <- 2, MaxRow <- 4, pc <- printing

ASSUME MemoryConstants ==
  /\ PagingAssumption /\ U!UserMemoryAssumption /\ H!HeapAssumption
  /\ L!LoaderAssumption /\ M!UmallocAssumption /\ A!UserArgsAssumption
  /\ Disk!AtaAssumption /\ Clock!RtcAssumption /\ Term!TerminalAssumption

\* Segments below, at and above every limit of the layout.
SmallSegments == [vaddr : {3, 4, 9, 12}, memsz : {0, 1, 6}]

\* The address spaces are alike.
Symmetry == Permutations(Spaces)

\* Of the loader's program headers: two that fit and share a page, the longest one that
\* fits and one that is longer; one below the window, one above it, one with more bytes in
\* the file than in memory, one beyond the end of the file, an empty one, and one that is
\* not loaded.
Segment(vaddr, memsz, filesz, offset) ==
  [load |-> TRUE, vaddr |-> vaddr, memsz |-> memsz, filesz |-> filesz, offset |-> offset]
SmallHeaders ==
  {Segment(32, 20, 10, 0), Segment(52, 6, 2, 8), Segment(40, 40, 0, 0), Segment(40, 41, 0, 0),
   Segment(31, 4, 0, 0), Segment(80, 4, 0, 0), Segment(32, 2, 4, 0), Segment(32, 20, 10, 8),
   Segment(36, 0, 0, 0), [Segment(0, 9, 9, 9) EXCEPT !.load = FALSE]}

Parts == {"frames", "paging", "user", "heap", "loader", "malloc", "args", "ata", "rtc",
          "terminal"}

\* A step of one part.
Step(name, Act) ==
  /\ part = name /\ Act /\ UNCHANGED part
  /\ (name # "frames" => UNCHANGED vars)
  /\ (name # "paging" => UNCHANGED pagingVars)
  /\ (name # "user" => UNCHANGED userVars)
  /\ (name # "heap" => UNCHANGED heapVars)
  /\ (name # "loader" => UNCHANGED loaderVars)
  /\ (name # "malloc" => UNCHANGED mallocVars)
  /\ (name # "args" => UNCHANGED argVars)
  /\ (name # "ata" => UNCHANGED ataVars)
  /\ (name # "rtc" => UNCHANGED rtcVars)
  /\ (name # "terminal" => UNCHANGED termVars)

Off == {}
UserOff ==
  /\ loaded = Off /\ image = Off /\ heap_start = Off /\ heap_break = Off
  /\ ext_map = Off /\ mapped = Off
HeapOff == heap = Off /\ owned = Off /\ given = Off /\ found = Off

LoaderOff ==
  /\ linked = Off /\ file = Off /\ refs = Off /\ loader = Off /\ ehdr = Off /\ index = Off
  /\ phdr = Off /\ copied = Off /\ entry_mapped = Off /\ heap_base = Off /\ space = Off
  /\ args = Off /\ rewritten = Off /\ lost = Off
MallocOff == ring = Off /\ taken = Off /\ brk = Off /\ gaps = Off
ArgsOff == present = Off /\ zeros = Off
AtaOff ==
  /\ dev = Off /\ store = Off /\ driver = Off /\ request = Off /\ available = Off
  /\ last = Off /\ written = Off
RtcOff ==
  /\ mode = Off /\ now = Off /\ low = Off /\ hour = Off /\ uip = Off /\ phase = Off
  /\ select = Off /\ reader = Off /\ cur = Off /\ prev = Off /\ out = Off /\ seen = Off
  /\ updates = Off /\ intruded = Off
TermOff == row = Off /\ column = Off /\ printing = Off /\ x = Off /\ y = Off /\ cell = Off

MemoryInit ==
  /\ part \in Parts /\ Init /\ PagingInit
  /\ IF part = "user" THEN U!Init ELSE UserOff
  /\ IF part = "heap" THEN H!Init ELSE HeapOff
  /\ IF part = "loader" THEN L!Init ELSE LoaderOff
  /\ IF part = "malloc" THEN M!Init ELSE MallocOff
  /\ IF part = "args" THEN A!Init ELSE ArgsOff
  /\ IF part = "ata" THEN Disk!Init ELSE AtaOff
  /\ IF part = "rtc" THEN Clock!Init ELSE RtcOff
  /\ IF part = "terminal" THEN Term!Init ELSE TermOff

MemoryNext ==
  \/ Step("frames", Next) \/ Step("paging", PagingNext) \/ Step("user", U!Next)
  \/ Step("heap", H!Next) \/ Step("loader", L!Next) \/ Step("malloc", M!Next)
  \/ Step("args", A!Next)
  \/ Step("ata", Disk!Next) \/ Step("rtc", Clock!Next) \/ Step("terminal", Term!Next)

MemorySpec == MemoryInit /\ [][MemoryNext]_all

-----------------------------------------------------------------------------
(* Properties, besides PmmInv and AllocFresh of Pmm, and PageRefsExact and
   Isolation of Paging *)

\* What pmm.c gives out is memory: a frame that is free lies in an available region and in
\* no reserved range, whatever the boot loader's map looks like, and the scan of
\* pmm_alloc_blocks() finds the first run that is long enough, if there is one.  The page
\* tables, the reference counts and the free frames of paging.c fit together, in the form in
\* which every step keeps it.
FramesExact == FreeFramesUsable /\ ScanIsFirstFit /\ (part = "paging" => PagingInv)

\* The layout of a process holds: the break stays between the image and the guard page,
\* which is never present, a page of the mmap region is present only while it is
\* reserved, and mmap() finds the first free run that is long enough.  The check of a
\* system call's buffer accepts exactly those whose every byte is in user memory and
\* mapped, also around a hole and where the sum would wrap; that of a string exactly
\* those that end within the limit and are mapped up to there.
UserLayout ==
  /\ part = "user" => U!TypeOK /\ U!LayoutInv /\ U!MmapFirstFit
  /\ part = "args" => A!ArgsExact

\* The two allocators.  The blocks of the kernel heap tile its pages, free neighbours are
\* merged, and the blocks that are not free are what the callers of kmalloc() hold, one
\* each, and as long as they asked for.  Of a program's malloc(), every unit that sbrk()
\* has given it is in one block, free or held, the free list is in order with no two
\* neighbours, and a block that is held is as long as the program asked for.
AllocatorsExact ==
  /\ part = "heap" => H!TypeOK /\ H!BlocksTile /\ H!HeldAreTaken /\ H!Coalesced
  /\ part = "malloc" => M!UnitsExact /\ M!LongEnough /\ M!RingSorted

\* A program that starts has its entry point mapped, its arguments on its stack and every
\* page within the limits, and a load that fails leaves neither a page nor a reference
\* behind, also when the file is written to between the two readings of its headers.
\* Unless it is written to during the load, memory holds what its segments say, and zeros
\* in the rest of their pages.
LoadSafe ==
  part = "loader" =>
    L!LoaderInv /\ L!Startable /\ L!ArgvOnStack /\ L!ImageExact

\* A disk call that reports success did what it was asked to, also after calls that gave
\* up while the drive was still working for them: a read returns its sector, a write is
\* stored, and a sector changes only to a value that a call asked to write there.
DiskFaithful ==
  /\ [](part = "ata" => Disk!TypeOK /\ Disk!ReadIsRight /\ Disk!WriteIsStored)
  /\ [][part = "ata" => \A s \in Sectors : store'[s] # store[s] => <<s, store'[s]>> \in written]_all

\* rtc_read() returns a time that the clock showed during the call, in each of the chip's
\* encodings, although the chip changes its registers one by one.  Whatever is printed in
\* the middle of one of the shell's characters, the cursor is on the screen again when
\* that is done.
ClockAndCursor ==
  /\ part = "rtc" => Clock!NotTorn
  /\ part = "terminal" => Term!CursorReturns
=============================================================================
