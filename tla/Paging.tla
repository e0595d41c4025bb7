------------------------------- MODULE Paging --------------------------------
(***************************************************************************)
(* User address spaces (paging.c): demand-zero pages, copy-on-write fork   *)
(* with a count of extra references for each frame, a page of shared       *)
(* memory, and the translation cache of the CPU, which the code must keep  *)
(* coherent.  A memory access includes the page faults it takes.  The      *)
(* frames are those of user pages; which free frame the physical memory    *)
(* manager hands out makes no difference here.                             *)
(***************************************************************************)
EXTENDS Integers, FiniteSets

CONSTANTS
  Spaces, NoSpace,    \* address_space_t; NoSpace is kernel_space
  Pages,              \* user pages with demand paging: stack, heap, mmap region
  Shm,                \* the page at USER_SHM_BASE
  PageFrames, NoFrame,
  Vals, Zero          \* contents of a page

\* What the constants have to satisfy.
PagingAssumption ==
  /\ Zero \in Vals /\ Shm \notin Pages /\ NoFrame \notin PageFrames /\ NoSpace \notin Spaces
  /\ IsFiniteSet(Spaces) /\ IsFiniteSet(Pages)

AllPages == Pages \cup {Shm}
Absent == [frame |-> NoFrame, rw |-> FALSE, shared |-> FALSE]

VARIABLES
  live,      \* the address spaces that exist
  loading,   \* those that the ELF loader is still filling
  pte,       \* the user entries of the page tables
  page_ref,  \* references to a frame beyond the first
  free,      \* frames the physical memory manager has free
  active,    \* active_space
  tlb,       \* the translations the CPU has cached
  mem,       \* contents of the frames
  view,      \* history: what each program has last put on its pages
  peers      \* history: the spaces that share a space's page of shared memory

pagingVars == <<live, loading, pte, page_ref, free, active, tlb, mem, view, peers>>

PagingInit ==
  /\ live = {} /\ loading = {} /\ active = NoSpace
  /\ pte = [s \in Spaces |-> [p \in AllPages |-> Absent]]
  /\ page_ref = [f \in PageFrames |-> 0]
  /\ free = PageFrames
  /\ tlb = [p \in AllPages |-> Absent]
  /\ mem = [f \in PageFrames |-> Zero]
  /\ view = [s \in Spaces |-> [p \in AllPages |-> Zero]]
  /\ peers = [s \in Spaces |-> {}]

-----------------------------------------------------------------------------
\* load_cr3() and paging_flush_tlb() drop every translation, paging_invlpg() one.
NoTlb == [p \in AllPages |-> Absent]
Invlpg(p) == [tlb EXCEPT ![p] = Absent]

Entry(f, rw, shared) == [frame |-> f, rw |-> rw, shared |-> shared]

\* paging_create_user_address_space()
Create(s) ==
  /\ s \notin live
  /\ live' = live \cup {s} /\ loading' = loading \cup {s}
  /\ UNCHANGED <<pte, page_ref, free, active, tlb, mem, view, peers>>

\* The loader maps a page of a space that has not run yet and fills it:
\* paging_map_user_page() and paging_copy_to_user().
Load(s, p, v) ==
  /\ s \in loading /\ p \in Pages
  /\ IF pte[s][p] = Absent
     THEN \E f \in free :
            /\ pte' = [pte EXCEPT ![s][p] = Entry(f, TRUE, FALSE)]
            /\ free' = free \ {f}
            /\ mem' = [mem EXCEPT ![f] = v]
     ELSE mem' = [mem EXCEPT ![pte[s][p].frame] = v] /\ UNCHANGED <<pte, free>>
  /\ view' = [view EXCEPT ![s][p] = v]
  /\ UNCHANGED <<live, loading, page_ref, active, tlb, peers>>

\* paging_activate_address_space() when the scheduler switches tasks.
Activate(s) ==
  /\ s \in live \cup {NoSpace} /\ s # active
  /\ active' = s /\ tlb' = NoTlb
  /\ loading' = loading \ {s}
  /\ UNCHANGED <<live, pte, page_ref, free, mem, view, peers>>

\* What paging_cow_clone_table() makes of an entry, in both spaces.
Cloned(e) == IF e = Absent \/ e.shared THEN e ELSE [e EXCEPT !.rw = FALSE]

\* Faulty variant: the translations of the parent stay in the cache.
FlushedNone == tlb

\* paging_flush_tlb() in paging_clone_address_space().
Flushed == NoTlb

\* paging_clone_address_space(): fork() of the active process.
Clone(c) ==
  /\ active # NoSpace /\ c \notin live
  /\ live' = live \cup {c}
  /\ LET t == [p \in AllPages |-> Cloned(pte[active][p])] IN
     pte' = [pte EXCEPT ![active] = t, ![c] = t]
  /\ page_ref' = [f \in PageFrames |->
                    page_ref[f] + Cardinality({p \in AllPages : pte[active][p].frame = f})]
  /\ tlb' = Flushed
  /\ view' = [view EXCEPT ![c] = view[active]]
  /\ peers' = [s \in Spaces |-> IF s = c THEN peers[active] \cup (IF peers[active] = {} THEN {} ELSE {c})
                                ELSE IF s \in peers[active] THEN peers[s] \cup {c} ELSE peers[s]]
  /\ UNCHANGED <<loading, free, active, mem>>

\* Faulty variant: the frame is freed although others use it.
ReleasesAlways(f) == TRUE

\* cow_ref_release(): whether the frame loses its last reference.
Releases(f) == page_ref[f] = 0

\* What is left of the reference counts and the free frames when the entries E of a
\* space, no two with one frame, are released.
RefAfter(E) ==
  [f \in PageFrames |-> IF page_ref[f] > 0 /\ \E e \in E : e.frame = f THEN page_ref[f] - 1
                    ELSE page_ref[f]]
FreeAfter(E) == free \cup {f \in PageFrames : Releases(f) /\ \E e \in E : e.frame = f}

\* paging_destroy_user_address_space(): exit, exec, or a load that failed.
Destroy(s) ==
  LET E == {pte[s][p] : p \in AllPages} IN
  /\ s \in live
  /\ live' = live \ {s} /\ loading' = loading \ {s}
  /\ page_ref' = RefAfter(E) /\ free' = FreeAfter(E)
  /\ pte' = [pte EXCEPT ![s] = [p \in AllPages |-> Absent]]
  /\ IF s = active THEN active' = NoSpace /\ tlb' = NoTlb ELSE UNCHANGED <<active, tlb>>
  /\ view' = [view EXCEPT ![s] = [p \in AllPages |-> Zero]]
  /\ peers' = [t \in Spaces |-> IF t = s THEN {} ELSE peers[t] \ {s}]
  /\ UNCHANGED mem

\* paging_unmap_user_page() for munmap() of the active process; the next touch of the
\* page, once it is reserved again, finds zeros.
Unmap(p) ==
  /\ active # NoSpace /\ p \in Pages /\ pte[active][p] # Absent
  /\ page_ref' = RefAfter({pte[active][p]}) /\ free' = FreeAfter({pte[active][p]})
  /\ pte' = [pte EXCEPT ![active][p] = Absent]
  /\ tlb' = Invlpg(p)
  /\ view' = [view EXCEPT ![active][p] = Zero]
  /\ UNCHANGED <<live, loading, active, mem, peers>>

\* paging_share_page()
Share ==
  /\ active # NoSpace /\ pte[active][Shm] = Absent
  /\ \E f \in free :
       /\ pte' = [pte EXCEPT ![active][Shm] = Entry(f, TRUE, TRUE)]
       /\ free' = free \ {f}
       /\ mem' = [mem EXCEPT ![f] = Zero]
  /\ tlb' = Invlpg(Shm)
  /\ peers' = [peers EXCEPT ![active] = {active}]
  /\ UNCHANGED <<live, loading, page_ref, active, view>>

-----------------------------------------------------------------------------
(* Memory accesses of the active process, in user mode or in a system call *)

\* The translation the CPU uses: the cached one, or that of the page table.
Translation(p) == IF tlb[p] # Absent THEN tlb[p] ELSE pte[active][p]

\* An access that needs no help: the CPU caches the translation.
Hit(p, e) ==
  /\ tlb' = [tlb EXCEPT ![p] = e]
  /\ UNCHANGED <<pte, page_ref, free>>

\* paging_demand_map(): the page comes in, filled with zeros, and the access is made
\* again.
DemandMap(p, f, v) ==
  /\ Translation(p) = Absent /\ pte[active][p] = Absent
  /\ pte' = [pte EXCEPT ![active][p] = Entry(f, TRUE, FALSE)]
  /\ free' = free \ {f}
  /\ tlb' = [tlb EXCEPT ![p] = Entry(f, TRUE, FALSE)]
  /\ mem' = [mem EXCEPT ![f] = v]
  /\ UNCHANGED page_ref

\* Whether paging_try_cow() has to copy the frame.
MustCopy(f) == page_ref[f] > 0

\* paging_try_cow() on a read-only page, then the write of v.
TryCow(p, v) ==
  LET f == pte[active][p].frame IN
  /\ ~Translation(p).rw /\ pte[active][p] # Absent /\ ~pte[active][p].rw
  /\ IF MustCopy(f)
     THEN \E g \in free :
            /\ free' = free \ {g}
            /\ page_ref' = [page_ref EXCEPT ![f] = @ - 1]
            /\ mem' = [mem EXCEPT ![g] = v]
            /\ pte' = [pte EXCEPT ![active][p] = [@ EXCEPT !.frame = g, !.rw = TRUE]]
            /\ tlb' = [tlb EXCEPT ![p] = [pte[active][p] EXCEPT !.frame = g, !.rw = TRUE]]
     ELSE /\ mem' = [mem EXCEPT ![f] = v]
          /\ pte' = [pte EXCEPT ![active][p].rw = TRUE]
          /\ tlb' = [tlb EXCEPT ![p] = [pte[active][p] EXCEPT !.rw = TRUE]]
          /\ UNCHANGED <<free, page_ref>>

\* The program writes v: on a page of shared memory all its sharers see it.
Seen(p, v) ==
  view' = [s \in Spaces |-> IF s = active \/ (p = Shm /\ s \in peers[active])
                            THEN [view[s] EXCEPT ![p] = v] ELSE view[s]]

Write(p, v) ==
  /\ active # NoSpace
  /\ \/ Translation(p).rw /\ Hit(p, Translation(p))
        /\ mem' = [mem EXCEPT ![Translation(p).frame] = v]
     \/ p \in Pages /\ \E f \in free : DemandMap(p, f, v)
     \/ TryCow(p, v)
  /\ Seen(p, v)
  /\ UNCHANGED <<live, loading, active, peers>>

Read(p) ==
  /\ active # NoSpace
  /\ \/ Translation(p) # Absent /\ Hit(p, Translation(p)) /\ UNCHANGED mem
     \/ p \in Pages /\ \E f \in free : DemandMap(p, f, Zero)
  /\ UNCHANGED <<live, loading, active, view, peers>>

\* The CPU drops a translation of its own accord.
Evict(p) ==
  /\ tlb[p] # Absent /\ tlb' = Invlpg(p)
  /\ UNCHANGED <<live, loading, pte, page_ref, free, active, mem, view, peers>>

PagingNext ==
  \/ \E s \in Spaces : Create(s) \/ Clone(s) \/ Destroy(s)
  \/ \E s \in Spaces, p \in Pages, v \in Vals : Load(s, p, v)
  \/ \E s \in Spaces \cup {NoSpace} : Activate(s)
  \/ Share
  \/ \E p \in AllPages : Unmap(p) \/ Read(p) \/ Evict(p) \/ \E v \in Vals : Write(p, v)

PagingSpec == PagingInit /\ [][PagingNext]_pagingVars

-----------------------------------------------------------------------------
(* Properties *)

Entries == [frame : PageFrames \cup {NoFrame}, rw : BOOLEAN, shared : BOOLEAN]

\* Every variable has its type.
PagingTypeOK ==
  /\ loading \subseteq live /\ live \subseteq Spaces /\ active \in live \cup {NoSpace}
  /\ pte \in [Spaces -> [AllPages -> Entries]] /\ tlb \in [AllPages -> Entries]
  /\ page_ref \in [PageFrames -> Nat] /\ free \in SUBSET PageFrames
  /\ mem \in [PageFrames -> Vals] /\ view \in [Spaces -> [AllPages -> Vals]]
  /\ peers \in [Spaces -> SUBSET Spaces]

Mappings(f) == {sp \in live \X AllPages : pte[sp[1]][sp[2]].frame = f}

\* The reference counts are exact through forks, copies, unmaps and exits: a frame in
\* use has one mapping more than its count says, a free frame has none.  So no frame
\* is freed under a process and none is lost.
PageRefsExact ==
  \A f \in PageFrames :
    Cardinality(Mappings(f)) = IF f \in free THEN 0 ELSE page_ref[f] + 1

\* A program finds on each page what it last wrote there, and zeros before: after a
\* fork neither side sees the other's writes, except in shared memory, where all see
\* every write.
OwnWrites ==
  \A s \in live, p \in AllPages :
    IF pte[s][p] = Absent THEN view[s][p] = Zero ELSE mem[pte[s][p].frame] = view[s][p]

\* The CPU never holds a translation that the page table does not grant.
TlbCoherent ==
  \A p \in AllPages : tlb[p] # Absent => active # NoSpace /\ tlb[p] = pte[active][p]

\* A page that can be written without a fault belongs to nobody else, unless it is
\* shared memory.
WritableIsPrivate ==
  \A s \in live, p \in AllPages :
    pte[s][p].rw /\ ~pte[s][p].shared => page_ref[pte[s][p].frame] = 0

\* Copy-on-write keeps processes apart: a program finds what it wrote, the CPU has no stale
\* translation, and a page that is written without a fault has no other owner.
Isolation == OwnWrites /\ TlbCoherent /\ WritableIsPrivate

(* What makes the properties inductive *)

\* An entry without a frame is empty; the page of shared memory, and no other, is marked
\* as shared, and is always writable; a space that does not exist has nothing mapped.
EntriesSound ==
  \A s \in Spaces, p \in AllPages :
    /\ pte[s][p].frame = NoFrame => pte[s][p] = Absent
    /\ pte[s][p].shared <=> p = Shm /\ pte[s][p] # Absent
    /\ pte[s][p].shared => pte[s][p].rw
    /\ s \notin live => pte[s][p] = Absent

\* Spaces that have a frame in common have it at the same address, so that no space has a
\* frame twice.
OnePlace ==
  \A s, t \in Spaces, p, q \in AllPages :
    pte[s][p].frame = pte[t][q].frame /\ pte[s][p].frame # NoFrame => p = q

\* The entries, the counts and the free frames fit together.
FramesInv ==
  /\ live \subseteq Spaces /\ pte \in [Spaces -> [AllPages -> Entries]]
  /\ page_ref \in [PageFrames -> Nat] /\ free \in SUBSET PageFrames
  /\ \A f \in free : page_ref[f] = 0
  /\ EntriesSound /\ OnePlace /\ PageRefsExact /\ WritableIsPrivate

\* A space that is being loaded is not active yet and has no frame in common with others.
LoadingApart ==
  /\ active \notin loading
  /\ \A s \in loading, p \in AllPages : pte[s][p] # Absent => pte[s][p].rw /\ p # Shm

\* A space that does not exist is blank.
UnusedBlank == \A s \in Spaces \ live, p \in AllPages : view[s][p] = Zero

\* The sharers of a space's page of shared memory are those who have its frame mapped.
PeersExact ==
  \A s \in Spaces :
    peers[s] = {t \in live : pte[s][Shm] # Absent /\ pte[t][Shm].frame = pte[s][Shm].frame}

PagingInv ==
  /\ PagingTypeOK /\ FramesInv /\ LoadingApart /\ UnusedBlank /\ PeersExact
  /\ TlbCoherent /\ OwnWrites
=============================================================================
