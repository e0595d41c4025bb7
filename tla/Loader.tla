------------------------------- MODULE Loader --------------------------------
(***************************************************************************)
(* The ELF loader (elf_loader.c): elf_load_image() from the look-up of the  *)
(* file to the stack with the arguments.  It reads the file many times, and *)
(* in a load of the kernel shell, which can be preempted, another task may  *)
(* run between any two reads.  The reference that the loader holds keeps    *)
(* the file from being unlinked, not from being written.  It is taken after *)
(* the look-up; a file that is unlinked in between is freed, and what the   *)
(* loader then does with it is undefined: the model ends there.             *)
(*                                                                         *)
(* Of a file's bytes only the offset matters.  An address space is the set  *)
(* of its pages and the file bytes that were copied into it; all other      *)
(* bytes of a mapped page are zero.                                         *)
(***************************************************************************)
EXTENDS Integers, Sequences, FiniteSets, FiniteSetsExt

CONSTANTS
  P,                       \* page size
  LoadBase,                \* USER_LOAD_BASE
  StackBottom, StackTop,   \* USER_STACK_BOTTOM, USER_STACK_TOP
  Premap,                  \* USER_STACK_PREMAP
  Chunk,                   \* size of the copy buffer
  FileLength,              \* length of the files
  Headers,                 \* the program headers
  MaxHeaders,              \* bound: headers of a file
  Entries,                 \* entry points
  ArgSizes                 \* the lengths of argument strings, terminator included

\* What the constants have to satisfy.
LoaderAssumption ==
  /\ {P, LoadBase, StackBottom, StackTop, Premap, Chunk} \subseteq Nat \ {0}
  /\ LoadBase < StackBottom /\ StackBottom + Premap * P <= StackTop
  /\ {LoadBase, StackBottom, StackTop} \subseteq {n * P : n \in 1 .. StackTop}
  /\ Headers \subseteq [load : BOOLEAN, vaddr : Nat, memsz : Nat, filesz : Nat, offset : Nat]
  /\ Entries \subseteq Nat /\ ArgSizes \subseteq Seq(Nat \ {0})

Nil == [none |-> TRUE]
Files == [valid : BOOLEAN, entry : Entries,
          phdrs : UNION {[1 .. n -> Headers] : n \in 0 .. MaxHeaders}]

VARIABLES
  linked, file,      \* whether the file is there, and what it holds
  refs,              \* its open references
  pc,                \* where the loader is
  ehdr,              \* the ELF header it has read
  index,             \* the program header it is at
  phdr, copied,      \* the segment it is copying, and how far
  entry_mapped,
  heap_base,
  space,             \* the address space, or Nil
  args,              \* where the strings and words of argv lie
  rewritten,         \* history: the file was written during this load
  lost               \* history: a file was unlinked between look-up and opening

vars == <<linked, file, refs, pc, ehdr, index, phdr, copied, entry_mapped, heap_base,
          space, args, rewritten, lost>>

Init ==
  /\ linked = TRUE /\ file \in Files /\ refs = 0 /\ pc = "idle"
  /\ ehdr = Nil /\ index = 0 /\ phdr = Nil /\ copied = 0
  /\ entry_mapped = FALSE /\ heap_base = 0 /\ space = Nil /\ args = <<>>
  /\ rewritten = FALSE /\ lost = FALSE

-----------------------------------------------------------------------------
(* Checks and sizes *)

\* phdr_in_user_range(): the segment lies in the window and its bytes in the file.
InUserRange(h) ==
  /\ h.vaddr >= LoadBase /\ h.vaddr < StackBottom
  /\ h.memsz <= StackBottom - h.vaddr /\ h.filesz <= h.memsz
  /\ h.offset <= FileLength /\ h.filesz <= FileLength - h.offset

\* phdr_maps_entry()
MapsEntry(h, entry) == entry >= h.vaddr /\ entry - h.vaddr < h.memsz

\* Faulty variant: what validate_segments() has approved is not checked again.
RecheckedNever(h) == TRUE
\* The check of load_segments() on its own reading of the header.
Rechecked(h) == InUserRange(h)

PageOf(a) == a \div P
PageUp(a) == ((a + P - 1) \div P) * P
SegmentPages(h) == PageOf(h.vaddr) .. PageOf(PageUp(h.vaddr + h.memsz)) - 1
StackPages == PageOf(StackTop) - Premap .. PageOf(StackTop) - 1

Grown(base, h) == Max({base, h.vaddr + h.memsz})

-----------------------------------------------------------------------------
(* elf_load_image() *)

\* resolve_fs(): the caller's name leads to a file.
Find ==
  /\ pc = "idle" /\ linked
  /\ pc' = "found"
  /\ UNCHANGED <<linked, file, refs, ehdr, index, phdr, copied, entry_mapped, heap_base,
                 space, args, rewritten, lost>>

\* open_fs(), for the whole load.
Open ==
  /\ pc = "found" /\ ~lost
  /\ refs' = refs + 1 /\ pc' = "header" /\ rewritten' = FALSE
  /\ UNCHANGED <<linked, file, ehdr, index, phdr, copied, entry_mapped, heap_base, space, args, lost>>

\* Faulty variant: the space of a load that failed stays.
SpaceAfterFailureKept == space
\* paging_destroy_user_address_space() on every way out.
SpaceAfterFailure == Nil

\* The locals of elf_load_from_node() and the functions it calls.
NoLocals ==
  /\ ehdr' = Nil /\ index' = 0 /\ phdr' = Nil /\ copied' = 0
  /\ entry_mapped' = FALSE /\ heap_base' = 0

Fail ==
  /\ pc' = "close" /\ space' = SpaceAfterFailure /\ NoLocals
  /\ UNCHANGED <<linked, file, refs, args, rewritten, lost>>

\* elf_valid() and the checks on the table of program headers.  Here and below, read_exact()
\* fails when the file system does.
ReadHeader ==
  /\ pc = "header"
  /\ \/ Fail
     \/ /\ file.valid
        /\ ehdr' = [entry |-> file.entry, phnum |-> Len(file.phdrs)]
        /\ index' = 1 /\ entry_mapped' = FALSE /\ pc' = "validate"
        /\ UNCHANGED <<linked, file, refs, phdr, copied, heap_base, space, args, rewritten, lost>>

\* A turn of the loop in validate_segments().
Validate ==
  /\ pc = "validate" /\ index <= ehdr.phnum
  /\ LET h == file.phdrs[index] IN
     \/ Fail
     \/ /\ h.load => InUserRange(h)
        /\ index' = index + 1
        /\ entry_mapped' = (entry_mapped \/ (h.load /\ MapsEntry(h, ehdr.entry)))
        /\ UNCHANGED <<linked, file, refs, pc, ehdr, phdr, copied, heap_base, space, args,
                       rewritten, lost>>

\* The end of validate_segments(), and paging_create_user_address_space().
CreateSpace ==
  /\ pc = "validate" /\ index > ehdr.phnum
  /\ \/ Fail
     \/ /\ entry_mapped
        /\ space' = [pages |-> {}, bytes |-> {}]
        /\ index' = 1 /\ entry_mapped' = FALSE /\ heap_base' = LoadBase /\ pc' = "segment"
        /\ UNCHANGED <<linked, file, refs, ehdr, phdr, copied, args, rewritten, lost>>

\* The bytes of a space without those at the addresses A.
Without(A) == {b \in space.bytes : b[1] \notin A}

\* A turn of the loop in load_segments(), up to the zeroing of the segment.
\* paging_map_user_page() keeps a page that is there; it fails without a free frame.
MapSegment ==
  /\ pc = "segment" /\ index <= ehdr.phnum
  /\ LET h == file.phdrs[index] IN
     \/ Fail
     \/ /\ ~h.load
        /\ index' = index + 1
        /\ UNCHANGED <<linked, file, refs, pc, ehdr, phdr, copied, entry_mapped, heap_base,
                       space, args, rewritten, lost>>
     \/ /\ h.load /\ Rechecked(h)
        /\ entry_mapped' = (entry_mapped \/ MapsEntry(h, ehdr.entry))
        /\ heap_base' = Grown(heap_base, h)
        /\ space' = [pages |-> space.pages \cup SegmentPages(h),
                     bytes |-> Without(h.vaddr .. h.vaddr + h.memsz - 1)]
        /\ phdr' = h /\ copied' = 0 /\ pc' = "copy"
        /\ UNCHANGED <<linked, file, refs, ehdr, index, args, rewritten, lost>>

\* A turn of the copy loop: read_exact() and paging_copy_to_user().
CopyChunk ==
  /\ pc = "copy" /\ copied < phdr.filesz
  /\ LET n == Min({Chunk, phdr.filesz - copied})
         first == phdr.vaddr + copied
     IN \/ Fail
        \/ /\ space' = [space EXCEPT !.bytes = Without(first .. first + n - 1) \cup
                           {<<first + i, phdr.offset + copied + i>> : i \in 0 .. n - 1}]
           /\ copied' = copied + n
           /\ UNCHANGED <<linked, file, refs, pc, ehdr, index, phdr, entry_mapped, heap_base,
                          args, rewritten, lost>>

CopyDone ==
  /\ pc = "copy" /\ copied >= phdr.filesz
  /\ index' = index + 1 /\ pc' = "segment"
  /\ UNCHANGED <<linked, file, refs, ehdr, phdr, copied, entry_mapped, heap_base, space,
                 args, rewritten, lost>>

\* The end of load_segments(), and the pages of the stack.
MapStack ==
  /\ pc = "segment" /\ index > ehdr.phnum
  /\ \/ Fail
     \/ /\ entry_mapped
        /\ heap_base' = PageUp(heap_base)
        /\ space' = [space EXCEPT !.pages = @ \cup StackPages]
        /\ pc' = "argv"
        /\ UNCHANGED <<linked, file, refs, ehdr, index, phdr, copied, entry_mapped, args,
                       rewritten, lost>>

\* The stack pointer for a string of len bytes: aligned down to a word.
Below(esp, len) == ((esp - len) \div 4) * 4

\* setup_user_argv(): the pieces it stores, as <<address, size>>: the strings, the last
\* one first, argv[argc] = NULL, the pointers, argc.
Words(n, esp) == [i \in 1 .. n |-> <<esp - 4 * i, 4>>]
ArgvPieces(sizes) ==
  LET n == Len(sizes)
      esp[i \in 1 .. n + 1] == IF i = n + 1 THEN StackTop - 4 ELSE Below(esp[i + 1], sizes[i])
  IN  [j \in 1 .. n |-> <<esp[n + 1 - j], sizes[n + 1 - j]>>] \o Words(n + 2, esp[1])

Fits(piece) ==
  \A a \in piece[1] .. piece[1] + piece[2] - 1 : a >= 0 /\ PageOf(a) \in space.pages

SetupArgv(sizes) ==
  /\ pc = "argv"
  /\ IF \A i \in DOMAIN ArgvPieces(sizes) : Fits(ArgvPieces(sizes)[i])
     THEN /\ args' = ArgvPieces(sizes) /\ pc' = "close"
          /\ UNCHANGED <<linked, file, refs, ehdr, index, phdr, copied, entry_mapped,
                         heap_base, space, rewritten, lost>>
     ELSE Fail

\* close_fs() at the end of elf_load_image(), with and without a space.
CloseFile ==
  /\ pc = "close"
  /\ refs' = refs - 1
  /\ pc' = IF space = Nil THEN "idle" ELSE "run"
  /\ UNCHANGED <<linked, file, ehdr, index, phdr, copied, entry_mapped, heap_base, space,
                 args, rewritten, lost>>

\* The program ends, or process_launch() or process_exec_reset() has failed and the
\* caller destroys the space.
Exit ==
  /\ pc = "run"
  /\ pc' = "idle" /\ space' = Nil /\ args' = <<>> /\ NoLocals
  /\ UNCHANGED <<linked, file, refs, rewritten, lost>>

-----------------------------------------------------------------------------
(* Other tasks *)

\* Somebody writes a program header of the file; files do not become shorter.
Rewrite(i, h) ==
  /\ linked /\ pc \notin {"idle", "found", "run"} /\ ~rewritten
  /\ i \in DOMAIN file.phdrs
  /\ file' = [file EXCEPT !.phdrs[i] = h] /\ rewritten' = TRUE
  /\ UNCHANGED <<linked, refs, pc, ehdr, index, phdr, copied, entry_mapped, heap_base,
                 space, args, lost>>

\* unlink(): refused by every file system while the file is open.  The look-up alone does
\* not keep it.
MayUnlink == refs = 0
Unlink ==
  /\ linked /\ MayUnlink
  /\ linked' = FALSE /\ lost' = (lost \/ pc = "found")
  /\ UNCHANGED <<file, refs, pc, ehdr, index, phdr, copied, entry_mapped, heap_base, space,
                 args, rewritten>>

\* The file is created again.
Create ==
  /\ ~linked
  /\ linked' = TRUE
  /\ UNCHANGED <<file, refs, pc, ehdr, index, phdr, copied, entry_mapped, heap_base, space,
                 args, rewritten, lost>>

Load ==
  \/ Find \/ Open \/ ReadHeader \/ Validate \/ CreateSpace \/ MapSegment \/ CopyChunk \/ CopyDone
  \/ MapStack \/ CloseFile \/ Exit
  \/ \E sizes \in ArgSizes : SetupArgv(sizes)

Next ==
  \/ Load
  \/ \E i \in 1 .. MaxHeaders, h \in Headers : Rewrite(i, h)
  \/ Unlink \/ Create

Spec == Init /\ [][Next]_vars

-----------------------------------------------------------------------------
(* Properties *)

\* The loader is somewhere in its program.
TypeOK ==
  /\ file \in Files /\ linked \in BOOLEAN /\ rewritten \in BOOLEAN /\ lost \in BOOLEAN
  /\ pc \in {"idle", "found", "header", "validate", "segment", "copy", "argv", "close", "run"}

\* No page outside the window from USER_LOAD_BASE to the top of the stack is ever
\* mapped, whoever rewrites the program headers between their two readings.
PagesInWindow ==
  space # Nil => space.pages \subseteq PageOf(LoadBase) .. PageOf(StackTop) - 1

\* From its opening on the file is there as long as it is read; it is released exactly once,
\* and an address space outlives the load only if the load succeeded.
Balanced ==
  /\ refs = IF pc \in {"idle", "found", "run"} THEN 0 ELSE 1
  /\ refs > 0 => linked
  /\ pc = "idle" => space = Nil

\* A program that is started has its entry point on one of its pages, and its heap begins
\* behind every page of its image and not beyond the stack.
Startable ==
  pc = "run" =>
    /\ PageOf(ehdr.entry) \in space.pages
    /\ \A p \in space.pages \ StackPages : (p + 1) * P <= heap_base
    /\ heap_base <= StackBottom

\* Its argv lies on the stack in pieces that do not overlap, with argc, where the stack
\* pointer points, on a word.
ArgvOnStack ==
  pc = "run" =>
    /\ args[Len(args)][1] % 4 = 0
    /\ \A i \in DOMAIN args : args[i][1] >= StackBottom /\ args[i][1] + args[i][2] <= StackTop
    /\ \A i \in 2 .. Len(args) : args[i][1] + args[i][2] <= args[i - 1][1]

\* The byte a program finds at an address: from the last segment that covers it.
Covering(a) ==
  {i \in DOMAIN file.phdrs : LET h == file.phdrs[i] IN
     h.load /\ a >= h.vaddr /\ a < h.vaddr + h.memsz}
Source(a) == file.phdrs[Max(Covering(a))]
ImageBytes ==
  {<<a, Source(a).offset + (a - Source(a).vaddr)>> :
     a \in {b \in {c \in LoadBase .. StackBottom - 1 : Covering(c) # {}} :
             b - Source(b).vaddr < Source(b).filesz}}

\* A program that nobody wrote meanwhile is loaded as the file says: the bytes of the
\* file where a segment has them, zeros where it has none.
ImageExact == pc = "run" /\ ~rewritten => space.bytes = ImageBytes

-----------------------------------------------------------------------------
(* The inductive invariant behind the first four *)

\* The header that elf_load_image() keeps fits the file, which does not get shorter.
HeaderInv ==
  pc \in {"validate", "segment", "copy"} => ehdr.phnum = Len(file.phdrs) /\ index \in Nat \ {0}

\* A space is there from its creation on, and its pages lie below heap_base, which is
\* rounded up to a page when the segments are loaded.
SpaceInv ==
  /\ pc \in {"found", "header", "validate"} => space = Nil
  /\ pc \in {"segment", "copy", "argv", "run"} => space # Nil
  /\ pc \in {"validate", "segment", "copy"} \/ space # Nil => ehdr # Nil /\ ehdr.entry \in Nat
  /\ space # Nil =>
       /\ space = [pages |-> space.pages, bytes |-> space.bytes]
       /\ heap_base \in Nat /\ heap_base <= StackBottom
       /\ IF pc \in {"segment", "copy"}
          THEN /\ entry_mapped => PageOf(ehdr.entry) \in space.pages
               /\ \A p \in space.pages : p * P < heap_base
          ELSE /\ PageOf(ehdr.entry) \in space.pages
               /\ \A p \in space.pages \ StackPages : (p + 1) * P <= heap_base

\* What the loader has found is there until it opens it, or is lost.
FoundInv == pc = "found" => linked \/ lost

LoaderInv == TypeOK /\ Balanced /\ FoundInv /\ PagesInWindow /\ HeaderInv /\ SpaceInv
=============================================================================
