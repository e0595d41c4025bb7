---------------------------- MODULE MCUserMemory ----------------------------
(* UserMemory for TLC, with images that end in the page below the stack. *)
EXTENDS UserMemory

\* Program headers below, at and above every limit of the layout.
Headers == [vaddr : {3, 4, 7, 9, 12}, memsz : {0, 1, 3, 6}]
=============================================================================
