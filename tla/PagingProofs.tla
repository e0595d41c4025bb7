---------------------------- MODULE PagingProofs ----------------------------
(***************************************************************************)
(* Proof that the page tables keep processes apart, for any number of      *)
(* address spaces, pages and frames: the reference counts of the frames    *)
(* are exact through forks, copies on write, shared pages, unmaps and      *)
(* exits, a program finds on each page what it last wrote there, and the   *)
(* CPU holds no translation that the page table does not grant.            *)
(***************************************************************************)
EXTENDS Paging, TLAPS

-----------------------------------------------------------------------------
(* Owners *)

\* What the reference counts say of the owners of a frame: a free frame has none, and one
\* without further references has one.
OwnersKnown ==
  /\ \A f \in free, s \in Spaces, p \in AllPages : pte[s][p].frame # f
  /\ \A s, t \in Spaces, p, q \in AllPages :
       /\ pte[s][p].frame = pte[t][q].frame /\ pte[s][p].frame \in PageFrames
       /\ page_ref[pte[s][p].frame] = 0
       => s = t /\ p = q

LEMMA FreeUnmapped ==
  ASSUME OwnersKnown, NEW f \in free
  PROVE  \A s \in Spaces, p \in AllPages : pte[s][p].frame # f
BY Zenon DEF OwnersKnown

LEMMA SoleOwner ==
  ASSUME OwnersKnown, NEW s \in Spaces, NEW p \in AllPages,
         NEW t \in Spaces, NEW q \in AllPages, NEW f \in PageFrames,
         pte[s][p].frame = f, pte[t][q].frame = f, page_ref[f] = 0
  PROVE  s = t /\ p = q
BY Zenon DEF OwnersKnown

-----------------------------------------------------------------------------
(* Contents of the pages *)

\* What the invariant says of an entry: a page that is present has a frame, in use, and the
\* active space exists.
LEMMA EntryFacts ==
  ASSUME PagingAssumption, PagingInv, OwnersKnown, NEW s \in Spaces, NEW p \in AllPages
  PROVE  /\ pte[s][p] \in Entries
         /\ pte[s][p] # Absent => pte[s][p].frame \in PageFrames \ free /\ s \in live
         /\ pte[s][p] = Absent => pte[s][p].frame = NoFrame /\ ~pte[s][p].rw /\ ~pte[s][p].shared
<1>1. pte[s][p] \in Entries /\ FramesInv /\ EntriesSound /\ free \in SUBSET PageFrames
  BY Zenon DEF PagingInv, FramesInv
<1>2. ASSUME pte[s][p] # Absent
      PROVE  pte[s][p].frame \in PageFrames \ free /\ s \in live
  <2>1. s \in live /\ pte[s][p].frame # NoFrame
    BY <1>1, <1>2, Zenon DEF EntriesSound
  <2>2. pte[s][p].frame \in PageFrames
    BY <1>1, <2>1, Zenon DEF Entries
  <2> QED BY <1>1, <2>1, <2>2, FreeUnmapped, Zenon
<1>3. ASSUME pte[s][p] = Absent
      PROVE  pte[s][p].frame = NoFrame /\ ~pte[s][p].rw /\ ~pte[s][p].shared
  BY <1>3 DEF Absent
<1> QED BY <1>1, <1>2, <1>3, Zenon

\* A page that comes in holds what is stored there, and nothing else changes.
LEMMA MapKeepsContents ==
  ASSUME PagingAssumption, PagingInv, OwnersKnown, NEW s \in live, NEW p \in AllPages,
         NEW f \in free,
         NEW e \in Entries, NEW v \in Vals, e.frame = f, live' = live,
         pte' = [pte EXCEPT ![s][p] = e], mem' = [mem EXCEPT ![f] = v],
         view'[s][p] = v,
         \A t \in Spaces, q \in AllPages : (t # s \/ q # p) => view'[t][q] = view[t][q]
  PROVE  OwnWrites'
<1>1. /\ live \subseteq Spaces /\ pte \in [Spaces -> [AllPages -> Entries]] /\ f \in PageFrames
      /\ mem \in [PageFrames -> Vals] /\ FramesInv /\ OwnWrites
  BY Zenon DEF PagingInv, PagingTypeOK
<1>2. /\ pte'[s][p] = e
      /\ \A t \in Spaces, q \in AllPages : (t # s \/ q # p) => pte'[t][q] = pte[t][q]
  BY <1>1, Zenon
<1>3. mem'[f] = v /\ \A g \in PageFrames \ {f} : mem'[g] = mem[g]
  BY <1>1, Zenon
<1>4. e # Absent
  BY <1>1 DEF Absent, PagingAssumption
<1> SUFFICES ASSUME NEW t \in live, NEW q \in AllPages
             PROVE  IF pte'[t][q] = Absent THEN view'[t][q] = Zero
                    ELSE mem'[pte'[t][q].frame] = view'[t][q]
  BY Zenon DEF OwnWrites
<1>5. CASE t = s /\ q = p
  BY <1>2, <1>3, <1>4, <1>5, Zenon
<1>6. CASE t # s \/ q # p
  <2>1. pte'[t][q] = pte[t][q] /\ view'[t][q] = view[t][q] /\ t \in Spaces
    BY <1>1, <1>2, <1>6, Zenon
  <2>2. CASE pte[t][q] = Absent
    BY <1>1, <2>1, <2>2, Zenon DEF OwnWrites
  <2>3. CASE pte[t][q] # Absent
    <3>1. pte[t][q].frame \in PageFrames \ {f}
      BY <2>1, <2>3, EntryFacts, Zenon
    <3> QED BY <1>1, <1>3, <2>1, <2>3, <3>1 DEF OwnWrites
  <2> QED BY <2>2, <2>3, Zenon
<1> QED BY <1>5, <1>6, Zenon

\* What is stored in a frame is what all who have it see, and nobody else.
LEMMA StoreKeepsContents ==
  ASSUME PagingAssumption, PagingInv, OwnersKnown, NEW f \in PageFrames, NEW v \in Vals,
         live' = live,
         mem' = [mem EXCEPT ![f] = v],
         \A t \in Spaces, q \in AllPages :
           /\ pte'[t][q].frame = pte[t][q].frame
           /\ pte'[t][q] = Absent <=> pte[t][q] = Absent
           /\ pte[t][q].frame = f => view'[t][q] = v
           /\ pte[t][q].frame # f => view'[t][q] = view[t][q]
  PROVE  OwnWrites'
<1>1. /\ live \subseteq Spaces /\ mem \in [PageFrames -> Vals] /\ OwnWrites
  BY Zenon DEF PagingInv, PagingTypeOK
<1>2. mem'[f] = v /\ \A g \in PageFrames \ {f} : mem'[g] = mem[g]
  BY <1>1, Zenon
<1> SUFFICES ASSUME NEW t \in live, NEW q \in AllPages
             PROVE  IF pte'[t][q] = Absent THEN view'[t][q] = Zero
                    ELSE mem'[pte'[t][q].frame] = view'[t][q]
  BY Zenon DEF OwnWrites
<1>3. t \in Spaces
  BY <1>1, Zenon
<1>4. CASE pte[t][q] = Absent
  <2>1. pte[t][q].frame # f
    BY <1>4 DEF Absent, PagingAssumption
  <2> QED BY <1>1, <1>3, <1>4, <2>1, Zenon DEF OwnWrites
<1>5. CASE pte[t][q] # Absent
  <2>1. pte[t][q].frame \in PageFrames
    BY <1>3, <1>5, EntryFacts, Zenon
  <2>2. mem[pte[t][q].frame] = view[t][q]
    BY <1>1, <1>5, Zenon DEF OwnWrites
  <2> QED BY <1>2, <1>3, <1>5, <2>1, <2>2
<1> QED BY <1>4, <1>5, Zenon

-----------------------------------------------------------------------------
(* The actions *)

\* Who shares a page of shared memory does not change when nobody maps or unmaps one.
LEMMA SamePeers ==
  ASSUME PagingAssumption, PagingInv, peers' = peers, live' = live,
         \A t \in Spaces : pte'[t][Shm] = pte[t][Shm]
  PROVE  PeersExact'
<1>1. live \subseteq Spaces /\ PeersExact
  BY Zenon DEF PagingInv, PagingTypeOK
<1> SUFFICES ASSUME NEW s \in Spaces
             PROVE  peers[s] = {t \in live : /\ pte'[s][Shm] # Absent
                                             /\ pte'[t][Shm].frame = pte'[s][Shm].frame}
  BY Zenon DEF PeersExact
<1>2. \A t \in live : pte'[t][Shm] = pte[t][Shm]
  BY <1>1, Zenon
<1>3. peers[s] = {t \in live : pte[s][Shm] # Absent /\ pte[t][Shm].frame = pte[s][Shm].frame}
  BY <1>1, Zenon DEF PeersExact
<1> QED BY <1>2, <1>3, Zenon

\* paging_create_user_address_space() keeps the invariant.
LEMMA CreateKeeps ==
  ASSUME PagingAssumption, PagingInv, OwnersKnown, FramesInv', NEW s \in Spaces, Create(s)
  PROVE  PagingInv'
<1>1. /\ PagingTypeOK /\ FramesInv /\ LoadingApart /\ UnusedBlank /\ PeersExact
      /\ TlbCoherent /\ OwnWrites
  BY Zenon DEF PagingInv
<1>2. /\ s \notin live /\ live' = live \cup {s} /\ loading' = loading \cup {s}
      /\ pte' = pte /\ page_ref' = page_ref /\ free' = free /\ active' = active
      /\ tlb' = tlb /\ mem' = mem /\ view' = view /\ peers' = peers
  BY Zenon DEF Create
<1>3. \A p \in AllPages : pte[s][p] = Absent
  BY <1>1, <1>2, Zenon DEF FramesInv, EntriesSound
<1>4. PagingTypeOK'
  BY <1>1, <1>2, Zenon DEF PagingTypeOK
<1>5. FramesInv'
  BY Zenon
<1>6. LoadingApart'
  BY <1>1, <1>2, <1>3, Zenon DEF LoadingApart, PagingTypeOK, PagingAssumption
<1>7. UnusedBlank' /\ TlbCoherent'
  BY <1>1, <1>2, Zenon DEF UnusedBlank, TlbCoherent
<1>8. OwnWrites'
  BY <1>1, <1>2, <1>3, Zenon DEF OwnWrites, UnusedBlank
<1>9. PeersExact'
  <2> SUFFICES ASSUME NEW t \in Spaces
               PROVE  peers[t] = {u \in live \cup {s} : /\ pte[t][Shm] # Absent
                                                        /\ pte[u][Shm].frame = pte[t][Shm].frame}
    BY <1>2, Zenon DEF PeersExact
  <2>1. Shm \in AllPages
    BY Zenon DEF AllPages
  <2>2. pte[t][Shm] # Absent => pte[s][Shm].frame # pte[t][Shm].frame
    BY <1>3, <2>1, EntryFacts DEF PagingAssumption
  <2> QED BY <1>1, <2>2, Zenon DEF PeersExact
<1> QED BY <1>4, <1>5, <1>6, <1>7, <1>8, <1>9, Zenon DEF PagingInv

\* paging_activate_address_space() keeps it.
LEMMA ActivateKeeps ==
  ASSUME PagingAssumption, PagingInv, OwnersKnown, FramesInv',
         NEW s \in Spaces \cup {NoSpace}, Activate(s)
  PROVE  PagingInv'
<1>1. /\ PagingTypeOK /\ FramesInv /\ LoadingApart /\ UnusedBlank /\ PeersExact /\ OwnWrites
  BY Zenon DEF PagingInv
<1>2. /\ s \in live \cup {NoSpace} /\ active' = s /\ tlb' = NoTlb /\ loading' = loading \ {s}
      /\ live' = live /\ pte' = pte /\ page_ref' = page_ref /\ free' = free
      /\ mem' = mem /\ view' = view /\ peers' = peers
  BY Zenon DEF Activate
<1>3. Absent \in Entries
  BY Zenon DEF Absent, Entries
<1>4. PagingTypeOK'
  BY <1>1, <1>2, <1>3, Zenon DEF PagingTypeOK, NoTlb
<1>5. FramesInv'
  BY Zenon
<1>6. LoadingApart' /\ UnusedBlank' /\ PeersExact' /\ OwnWrites'
  BY <1>1, <1>2 DEF LoadingApart, UnusedBlank, PeersExact, OwnWrites
<1>7. TlbCoherent'
  BY <1>2, Zenon DEF TlbCoherent, NoTlb
<1> QED BY <1>4, <1>5, <1>6, <1>7, Zenon DEF PagingInv

\* The CPU may drop a translation.
LEMMA EvictKeeps ==
  ASSUME PagingAssumption, PagingInv, OwnersKnown, FramesInv', NEW p \in AllPages, Evict(p)
  PROVE  PagingInv'
<1>1. /\ PagingTypeOK /\ FramesInv /\ LoadingApart /\ UnusedBlank /\ PeersExact /\ OwnWrites
      /\ TlbCoherent
  BY Zenon DEF PagingInv
<1>2. /\ tlb' = Invlpg(p) /\ active' = active /\ loading' = loading
      /\ live' = live /\ pte' = pte /\ page_ref' = page_ref /\ free' = free
      /\ mem' = mem /\ view' = view /\ peers' = peers
  BY Zenon DEF Evict
<1>3. Absent \in Entries
  BY Zenon DEF Absent, Entries
<1>4. PagingTypeOK'
  BY <1>1, <1>2, <1>3, Zenon DEF PagingTypeOK, Invlpg
<1>5. FramesInv'
  BY Zenon
<1>6. LoadingApart' /\ UnusedBlank' /\ PeersExact' /\ OwnWrites'
  BY <1>1, <1>2, ZenonT(30) DEF LoadingApart, UnusedBlank, PeersExact, OwnWrites
<1>7. TlbCoherent'
  BY <1>1, <1>2, Zenon DEF TlbCoherent, Invlpg, PagingTypeOK
<1> QED BY <1>4, <1>5, <1>6, <1>7, Zenon DEF PagingInv

\* The loader keeps it: nobody else has the frames that it fills.
LEMMA LoadKeeps ==
  ASSUME PagingAssumption, PagingInv, OwnersKnown, FramesInv', NEW s \in Spaces,
         NEW p \in Pages, NEW v \in Vals, Load(s, p, v)
  PROVE  PagingInv'
<1>1. /\ PagingTypeOK /\ FramesInv /\ LoadingApart /\ UnusedBlank /\ PeersExact
      /\ TlbCoherent /\ OwnWrites
  BY Zenon DEF PagingInv
<1>2. /\ s \in loading /\ view' = [view EXCEPT ![s][p] = v] /\ live' = live /\ loading' = loading
      /\ page_ref' = page_ref /\ active' = active /\ tlb' = tlb /\ peers' = peers
  BY Zenon DEF Load
<1>3. s \in live /\ s # active /\ p \in AllPages /\ p # Shm /\ Shm \in AllPages /\ live \subseteq Spaces
  BY <1>1, <1>2, Zenon DEF PagingTypeOK, LoadingApart, AllPages, PagingAssumption
<1>4. /\ view' \in [Spaces -> [AllPages -> Vals]] /\ view'[s][p] = v
      /\ \A t \in Spaces, q \in AllPages : (t # s \/ q # p) => view'[t][q] = view[t][q]
  BY <1>1, <1>2, <1>3, Zenon DEF PagingTypeOK
<1>5. UnusedBlank'
  BY <1>1, <1>2, <1>3, <1>4 DEF UnusedBlank
<1>6. CASE pte[s][p] = Absent
  <2>1. PICK f \in free : /\ pte' = [pte EXCEPT ![s][p] = Entry(f, TRUE, FALSE)]
                          /\ free' = free \ {f} /\ mem' = [mem EXCEPT ![f] = v]
    BY <1>6, Zenon DEF Load
  <2>2. FramesInv'
    BY Zenon
  <2>3. OwnWrites'
    <3>1. Entry(f, TRUE, FALSE).frame = f /\ Entry(f, TRUE, FALSE) \in Entries
      BY <1>1, Zenon DEF Entry, Entries, PagingTypeOK
    <3>2. live' = live
      BY <1>2, Zenon
    <3> QED BY <1>3, <1>4, <2>1, <3>1, <3>2, MapKeepsContents, Zenon
  <2>4. /\ pte'[s][p] = Entry(f, TRUE, FALSE)
        /\ \A t \in Spaces, q \in AllPages : (t # s \/ q # p) => pte'[t][q] = pte[t][q]
    BY <1>1, <1>3, <2>1, Zenon DEF PagingTypeOK
  <2>5. PagingTypeOK'
    <3>1. pte' \in [Spaces -> [AllPages -> Entries]] /\ free' \in SUBSET PageFrames
      BY <2>2, Zenon DEF FramesInv
    <3>2. mem' \in [PageFrames -> Vals]
      BY <1>1, <2>1, Zenon DEF PagingTypeOK
    <3> QED BY <1>1, <1>2, <1>4, <3>1, <3>2, Zenon DEF PagingTypeOK
  <2>6. LoadingApart'
    BY <1>1, <1>2, <1>3, <2>4, SMTT(30) DEF LoadingApart, Entry, PagingTypeOK
  <2>7. PeersExact'
    BY <1>2, <1>3, <2>4, SamePeers, Zenon
  <2>8. TlbCoherent'
    BY <1>1, <1>2, <1>3, <2>4, Zenon DEF TlbCoherent, PagingTypeOK
  <2> QED BY <1>5, <2>2, <2>3, <2>5, <2>6, <2>7, <2>8, Zenon DEF PagingInv
<1>7. CASE pte[s][p] # Absent
  <2>1. mem' = [mem EXCEPT ![pte[s][p].frame] = v] /\ pte' = pte /\ free' = free
    BY <1>7, Zenon DEF Load
  <2>2. PICK f \in PageFrames : f = pte[s][p].frame
    BY <1>3, <1>7, EntryFacts, Zenon
  <2>3. pte[s][p].rw /\ ~pte[s][p].shared /\ page_ref[f] = 0
    BY <1>1, <1>2, <1>3, <1>7, <2>2, Zenon
       DEF LoadingApart, FramesInv, EntriesSound, WritableIsPrivate
  <2>4. \A t \in Spaces, q \in AllPages : pte[t][q].frame = f => t = s /\ q = p
    BY <1>1, <1>3, <2>2, <2>3, SoleOwner, Zenon
  <2>5. FramesInv'
    BY Zenon
  <2>6. OwnWrites'
    <3>1. \A t \in Spaces, q \in AllPages :
            /\ pte[t][q].frame = f => view'[t][q] = v
            /\ pte[t][q].frame # f => view'[t][q] = view[t][q]
      BY <1>4, <2>2, <2>4, Zenon
    <3>2. live' = live /\ mem' = [mem EXCEPT ![f] = v]
      BY <1>2, <2>1, <2>2, Zenon
    <3>3. \A t \in Spaces, q \in AllPages :
            /\ pte'[t][q].frame = pte[t][q].frame
            /\ pte'[t][q] = Absent <=> pte[t][q] = Absent
            /\ pte[t][q].frame = f => view'[t][q] = v
            /\ pte[t][q].frame # f => view'[t][q] = view[t][q]
      BY <2>1, <3>1, Zenon
    <3> QED BY <3>2, <3>3, StoreKeepsContents, ZenonT(30)
  <2>7. PagingTypeOK'
    <3>1. mem' \in [PageFrames -> Vals]
      BY <1>1, <2>1, <2>2, Zenon DEF PagingTypeOK
    <3> QED BY <1>1, <1>2, <1>4, <2>1, <3>1, Zenon DEF PagingTypeOK
  <2>8. LoadingApart' /\ PeersExact' /\ TlbCoherent'
    BY <1>1, <1>2, <2>1, Zenon DEF LoadingApart, PeersExact, TlbCoherent
  <2> QED BY <1>5, <2>5, <2>6, <2>7, <2>8, Zenon DEF PagingInv
<1> QED BY <1>6, <1>7, Zenon

\* paging_share_page() keeps it.
LEMMA ShareKeeps ==
  ASSUME PagingAssumption, PagingInv, OwnersKnown, FramesInv', Share
  PROVE  PagingInv'
<1>1. /\ PagingTypeOK /\ FramesInv /\ LoadingApart /\ UnusedBlank /\ PeersExact
      /\ TlbCoherent /\ OwnWrites
  BY Zenon DEF PagingInv
<1>2. /\ active # NoSpace /\ pte[active][Shm] = Absent /\ live' = live /\ loading' = loading
      /\ page_ref' = page_ref /\ active' = active /\ view' = view /\ tlb' = Invlpg(Shm)
      /\ peers' = [peers EXCEPT ![active] = {active}]
  BY Zenon DEF Share
<1>3. PICK a \in Spaces : a = active /\ a \in live /\ a \notin loading
  BY <1>1, <1>2, Zenon DEF PagingTypeOK, LoadingApart
<1>4. PICK f \in free : /\ pte' = [pte EXCEPT ![a][Shm] = Entry(f, TRUE, TRUE)]
                        /\ free' = free \ {f} /\ mem' = [mem EXCEPT ![f] = Zero]
  BY <1>3, Zenon DEF Share
<1>5. Shm \in AllPages /\ live \subseteq Spaces
  BY <1>1, Zenon DEF AllPages, PagingTypeOK
<1>6. FramesInv'
  BY Zenon
<1>7. view[a][Shm] = Zero
  BY <1>1, <1>2, <1>3, <1>5, Zenon DEF OwnWrites
<1>8. OwnWrites'
  <2>1. Entry(f, TRUE, TRUE).frame = f /\ Entry(f, TRUE, TRUE) \in Entries /\ Zero \in Vals
    BY <1>1, Zenon DEF Entry, Entries, PagingTypeOK, PagingAssumption
  <2> QED BY <1>2, <1>3, <1>4, <1>5, <1>7, <2>1, MapKeepsContents, Zenon
<1>9. /\ pte'[a][Shm] = Entry(f, TRUE, TRUE)
      /\ \A t \in Spaces, q \in AllPages : (t # a \/ q # Shm) => pte'[t][q] = pte[t][q]
  BY <1>1, <1>3, <1>4, <1>5, Zenon DEF PagingTypeOK
<1>10. PagingTypeOK'
  <2>1. pte' \in [Spaces -> [AllPages -> Entries]] /\ free' \in SUBSET PageFrames
    BY <1>6, Zenon DEF FramesInv
  <2>2. mem' \in [PageFrames -> Vals] /\ tlb' \in [AllPages -> Entries]
    BY <1>1, <1>2, <1>4, ZenonT(30) DEF PagingTypeOK, PagingAssumption, Invlpg, Absent, Entries
  <2>3. peers' \in [Spaces -> SUBSET Spaces]
    BY <1>1, <1>2, <1>3, Zenon DEF PagingTypeOK
  <2> QED BY <1>1, <1>2, <2>1, <2>2, <2>3, Zenon DEF PagingTypeOK
<1>11. LoadingApart' /\ UnusedBlank'
  BY <1>1, <1>2, <1>3, <1>9 DEF LoadingApart, UnusedBlank, PagingTypeOK
<1>12. TlbCoherent'
  BY <1>1, <1>2, <1>3, <1>9, Zenon DEF TlbCoherent, PagingTypeOK, Invlpg
<1>13. PeersExact'
  <2> SUFFICES ASSUME NEW s \in Spaces
               PROVE  peers'[s] = {t \in live : /\ pte'[s][Shm] # Absent
                                                /\ pte'[t][Shm].frame = pte'[s][Shm].frame}
    BY <1>2, Zenon DEF PeersExact
  <2>1. \A t \in Spaces : pte[t][Shm].frame # f
    BY <1>1, <1>5, FreeUnmapped, Zenon
  <2>2. pte'[a][Shm].frame = f /\ pte'[a][Shm] # Absent
    BY <1>1, <1>4, <1>9 DEF Entry, Absent, PagingAssumption, PagingTypeOK
  <2>3. CASE s = a
    <3>1. peers'[s] = {a}
      BY <1>1, <1>2, <1>3, <2>3, Zenon DEF PagingTypeOK
    <3>2. \A t \in live : pte'[t][Shm].frame = f <=> t = a
      BY <1>5, <1>9, <2>1, <2>2, Zenon
    <3> QED BY <1>3, <2>2, <2>3, <3>1, <3>2, Zenon
  <2>4. CASE s # a
    <3>1. peers'[s] = peers[s]
      BY <1>1, <1>2, <1>3, <2>4, Zenon DEF PagingTypeOK
    <3>2. peers[s] = {t \in live : pte[s][Shm] # Absent /\ pte[t][Shm].frame = pte[s][Shm].frame}
      BY <1>1, Zenon DEF PeersExact
    <3>3. pte'[s][Shm] = pte[s][Shm]
      BY <1>5, <1>9, <2>4, Zenon
    <3>4. pte[s][Shm] # Absent => pte[a][Shm].frame # pte[s][Shm].frame
      BY <1>2, <1>3, <1>5, EntryFacts, Zenon DEF PagingAssumption
    <3>5. ASSUME NEW t \in live
          PROVE  /\ pte[s][Shm] # Absent /\ pte[t][Shm].frame = pte[s][Shm].frame
                 <=> pte'[s][Shm] # Absent /\ pte'[t][Shm].frame = pte'[s][Shm].frame
      <4>1. CASE t = a
        BY <2>1, <2>2, <3>3, <3>4, <4>1, Zenon
      <4>2. CASE t # a
        <5>1. pte'[t][Shm] = pte[t][Shm]
          BY <1>5, <1>9, <4>2, Zenon
        <5> QED BY <3>3, <5>1, Zenon
      <4> QED BY <4>1, <4>2, Zenon
    <3> QED BY <3>1, <3>2, <3>5, Zenon
  <2> QED BY <2>3, <2>4, Zenon
<1> QED BY <1>6, <1>8, <1>10, <1>11, <1>12, <1>13, Zenon DEF PagingInv

\* paging_unmap_user_page() keeps it.
LEMMA UnmapKeeps ==
  ASSUME PagingAssumption, PagingInv, OwnersKnown, FramesInv', NEW p \in AllPages, Unmap(p)
  PROVE  PagingInv'
<1>1. /\ PagingTypeOK /\ FramesInv /\ LoadingApart /\ UnusedBlank /\ PeersExact
      /\ TlbCoherent /\ OwnWrites
  BY Zenon DEF PagingInv
<1>2. /\ active # NoSpace /\ p \in Pages /\ live' = live /\ loading' = loading
      /\ active' = active /\ mem' = mem /\ peers' = peers /\ tlb' = Invlpg(p)
  BY Zenon DEF Unmap
<1>3. PICK a \in Spaces : a = active /\ a \in live /\ a \notin loading
  BY <1>1, <1>2, Zenon DEF PagingTypeOK, LoadingApart
<1>4. /\ pte[a][p] # Absent /\ pte' = [pte EXCEPT ![a][p] = Absent]
      /\ page_ref' = RefAfter({pte[a][p]}) /\ free' = FreeAfter({pte[a][p]})
      /\ view' = [view EXCEPT ![a][p] = Zero]
  BY <1>3, Zenon DEF Unmap
<1>5. p # Shm /\ Shm \in AllPages /\ live \subseteq Spaces
  BY <1>1, <1>2, Zenon DEF AllPages, PagingTypeOK, PagingAssumption
<1>6. FramesInv'
  BY Zenon
<1>7. /\ pte'[a][p] = Absent
      /\ \A t \in Spaces, q \in AllPages : (t # a \/ q # p) => pte'[t][q] = pte[t][q]
  BY <1>1, <1>3, <1>4, Zenon DEF PagingTypeOK
<1>8. /\ view' \in [Spaces -> [AllPages -> Vals]] /\ view'[a][p] = Zero
      /\ \A t \in Spaces, q \in AllPages : (t # a \/ q # p) => view'[t][q] = view[t][q]
  BY <1>1, <1>3, <1>4, Zenon DEF PagingTypeOK, PagingAssumption
<1>9. PagingTypeOK'
  <2>1. /\ pte' \in [Spaces -> [AllPages -> Entries]] /\ free' \in SUBSET PageFrames
        /\ page_ref' \in [PageFrames -> Nat]
    BY <1>6, Zenon DEF FramesInv
  <2>2. tlb' \in [AllPages -> Entries]
    BY <1>1, <1>2, Zenon DEF PagingTypeOK, Invlpg, Absent, Entries
  <2> QED BY <1>1, <1>2, <1>8, <2>1, <2>2, Zenon DEF PagingTypeOK
<1>10. LoadingApart' /\ UnusedBlank'
  <2>1. LoadingApart'
    BY <1>1, <1>2, <1>3, <1>7 DEF LoadingApart, PagingTypeOK
  <2>2. UnusedBlank'
    BY <1>1, <1>2, <1>3, <1>8 DEF UnusedBlank
  <2> QED BY <2>1, <2>2, Zenon
<1>11. TlbCoherent'
  BY <1>1, <1>2, <1>3, <1>7, Zenon DEF TlbCoherent, PagingTypeOK, Invlpg
<1>12. PeersExact'
  BY <1>2, <1>5, <1>7, SamePeers, Zenon
<1>13. OwnWrites'
  <2> SUFFICES ASSUME NEW t \in live, NEW q \in AllPages
               PROVE  IF pte'[t][q] = Absent THEN view'[t][q] = Zero
                      ELSE mem[pte'[t][q].frame] = view'[t][q]
    BY <1>2, Zenon DEF OwnWrites
  <2>1. CASE t = a /\ q = p
    BY <1>7, <1>8, <2>1, Zenon
  <2>2. CASE t # a \/ q # p
    <3>1. pte'[t][q] = pte[t][q] /\ view'[t][q] = view[t][q]
      BY <1>5, <1>7, <1>8, <2>2, Zenon
    <3> QED BY <1>1, <3>1 DEF OwnWrites
  <2> QED BY <2>1, <2>2, Zenon
<1> QED BY <1>6, <1>9, <1>10, <1>11, <1>12, <1>13, Zenon DEF PagingInv

\* paging_destroy_user_address_space() keeps it.
LEMMA DestroyKeeps ==
  ASSUME PagingAssumption, PagingInv, OwnersKnown, FramesInv', NEW s \in Spaces, Destroy(s)
  PROVE  PagingInv'
<1>1. /\ PagingTypeOK /\ FramesInv /\ LoadingApart /\ UnusedBlank /\ PeersExact
      /\ TlbCoherent /\ OwnWrites
  BY Zenon DEF PagingInv
<1>2. /\ s \in live /\ live' = live \ {s} /\ loading' = loading \ {s} /\ mem' = mem
      /\ s = active => active' = NoSpace /\ tlb' = NoTlb
      /\ s # active => active' = active /\ tlb' = tlb
  BY Zenon DEF Destroy
<1>3. /\ pte' = [pte EXCEPT ![s] = [p \in AllPages |-> Absent]]
      /\ page_ref' = RefAfter({pte[s][p] : p \in AllPages})
      /\ free' = FreeAfter({pte[s][p] : p \in AllPages})
      /\ view' = [view EXCEPT ![s] = [p \in AllPages |-> Zero]]
      /\ peers' = [t \in Spaces |-> IF t = s THEN {} ELSE peers[t] \ {s}]
  BY Zenon DEF Destroy
<1>4. live \subseteq Spaces /\ Shm \in AllPages
  BY <1>1, Zenon DEF PagingTypeOK, AllPages
<1>5. FramesInv'
  BY Zenon
<1>6. /\ \A q \in AllPages : pte'[s][q] = Absent /\ view'[s][q] = Zero
      /\ \A t \in Spaces \ {s}, q \in AllPages : pte'[t][q] = pte[t][q] /\ view'[t][q] = view[t][q]
      /\ view' \in [Spaces -> [AllPages -> Vals]]
  BY <1>1, <1>3, Zenon DEF PagingTypeOK, PagingAssumption
<1>7. /\ peers'[s] = {} /\ \A t \in Spaces \ {s} : peers'[t] = peers[t] \ {s}
      /\ peers' \in [Spaces -> SUBSET Spaces]
  BY <1>1, <1>3, Zenon DEF PagingTypeOK
<1>8. PagingTypeOK'
  <2>1. /\ pte' \in [Spaces -> [AllPages -> Entries]] /\ free' \in SUBSET PageFrames
        /\ page_ref' \in [PageFrames -> Nat]
    BY <1>5, Zenon DEF FramesInv
  <2>2. NoTlb \in [AllPages -> Entries]
    BY Zenon DEF NoTlb, Absent, Entries
  <2>3. tlb' \in [AllPages -> Entries]
    BY <1>1, <1>2, <2>2, Zenon DEF PagingTypeOK
  <2>4. active' \in live' \cup {NoSpace}
    BY <1>1, <1>2, Zenon DEF PagingTypeOK
  <2> QED BY <1>1, <1>2, <1>6, <1>7, <2>1, <2>3, <2>4, Zenon DEF PagingTypeOK
<1>9. LoadingApart' /\ UnusedBlank'
  BY <1>1, <1>2, <1>6 DEF LoadingApart, UnusedBlank, PagingTypeOK, PagingAssumption
<1>10. TlbCoherent'
  <2>1. CASE s = active
    BY <1>2, <2>1, Zenon DEF TlbCoherent, NoTlb
  <2>2. CASE s # active
    BY <1>1, <1>2, <1>6, <2>2 DEF TlbCoherent, PagingTypeOK
  <2> QED BY <2>1, <2>2, Zenon
<1>11. PeersExact'
  <2> SUFFICES ASSUME NEW t \in Spaces
               PROVE  peers'[t] = {u \in live' : /\ pte'[t][Shm] # Absent
                                                 /\ pte'[u][Shm].frame = pte'[t][Shm].frame}
    BY Zenon DEF PeersExact
  <2>1. CASE t = s
    BY <1>4, <1>6, <1>7, <2>1, Zenon
  <2>2. CASE t # s
    <3>1. peers[t] = {u \in live : pte[t][Shm] # Absent /\ pte[u][Shm].frame = pte[t][Shm].frame}
      BY <1>1, Zenon DEF PeersExact
    <3>2. pte'[t][Shm] = pte[t][Shm] /\ \A u \in live' : pte'[u][Shm] = pte[u][Shm]
      BY <1>2, <1>4, <1>6, <2>2, Zenon
    <3>3. peers'[t] = peers[t] \ {s} /\ live' = live \ {s}
      BY <1>2, <1>7, <2>2, Zenon
    <3> QED BY <3>1, <3>2, <3>3, Zenon
  <2> QED BY <2>1, <2>2, Zenon
<1>12. OwnWrites'
  BY <1>1, <1>2, <1>4, <1>6 DEF OwnWrites
<1> QED BY <1>5, <1>8, <1>9, <1>10, <1>11, <1>12, Zenon DEF PagingInv

\* Two entries have the same frame, or both have none.
SameFrame(d, e) == d.frame = e.frame /\ (d = Absent <=> e = Absent)

\* fork() keeps it: what the two sides have in common is read-only, or shared memory.
LEMMA CloneKeeps ==
  ASSUME PagingAssumption, PagingInv, OwnersKnown, FramesInv', NEW c \in Spaces, Clone(c)
  PROVE  PagingInv'
<1>1. /\ PagingTypeOK /\ FramesInv /\ LoadingApart /\ UnusedBlank /\ PeersExact
      /\ TlbCoherent /\ OwnWrites
  BY Zenon DEF PagingInv
<1>2. /\ active # NoSpace /\ c \notin live /\ live' = live \cup {c} /\ tlb' = NoTlb
      /\ loading' = loading /\ free' = free /\ active' = active /\ mem' = mem
  BY Zenon DEF Clone, Flushed
<1>3. PICK a \in Spaces : a = active /\ a \in live /\ a \notin loading
  BY <1>1, <1>2, Zenon DEF PagingTypeOK, LoadingApart
<1>4. /\ pte' = [pte EXCEPT ![a] = [p \in AllPages |-> Cloned(pte[a][p])],
                            ![c] = [p \in AllPages |-> Cloned(pte[a][p])]]
      /\ page_ref' = [f \in PageFrames |->
                        page_ref[f] + Cardinality({p \in AllPages : pte[a][p].frame = f})]
      /\ view' = [view EXCEPT ![c] = view[a]]
      /\ peers' = [s \in Spaces |->
                     IF s = c THEN peers[a] \cup (IF peers[a] = {} THEN {} ELSE {c})
                     ELSE IF s \in peers[a] THEN peers[s] \cup {c} ELSE peers[s]]
  BY <1>3, Zenon DEF Clone
<1>5. live \subseteq Spaces /\ Shm \in AllPages /\ a # c /\ c # NoSpace
  BY <1>1, <1>2, <1>3, Zenon DEF PagingTypeOK, AllPages, PagingAssumption
<1>6. FramesInv'
  BY Zenon
<1>7. \A q \in AllPages : SameFrame(Cloned(pte[a][q]), pte[a][q])
  <2> SUFFICES ASSUME NEW q \in AllPages
               PROVE  /\ Cloned(pte[a][q]).frame = pte[a][q].frame
                      /\ Cloned(pte[a][q]) = Absent <=> pte[a][q] = Absent
    BY Zenon DEF SameFrame
  <2>1. PICK e \in Entries : e = pte[a][q] /\ (e # Absent => e.frame # NoFrame)
    BY EntryFacts, Zenon DEF PagingAssumption
  <2>2. CASE e = Absent \/ e.shared
    BY <2>1, <2>2, Zenon DEF Cloned
  <2>3. CASE e # Absent /\ ~e.shared
    BY <2>1, <2>3, Zenon DEF Cloned, Absent, Entries
  <2> QED BY <2>2, <2>3, Zenon
<1>8. /\ \A q \in AllPages : pte'[a][q] = Cloned(pte[a][q]) /\ pte'[c][q] = Cloned(pte[a][q])
      /\ \A s \in Spaces \ {a, c}, q \in AllPages : pte'[s][q] = pte[s][q]
  BY <1>1, <1>3, <1>4, <1>5, Zenon DEF PagingTypeOK
<1>9. /\ \A q \in AllPages : SameFrame(pte'[c][q], pte[a][q])
      /\ \A s \in Spaces \ {c}, q \in AllPages : SameFrame(pte'[s][q], pte[s][q])
  <2>1. \A s \in Spaces, q \in AllPages : SameFrame(pte[s][q], pte[s][q])
    BY Zenon DEF SameFrame
  <2> QED BY <1>7, <1>8, <2>1, Zenon
<1>10. /\ view' \in [Spaces -> [AllPages -> Vals]]
       /\ \A q \in AllPages : view'[c][q] = view[a][q]
       /\ \A s \in Spaces \ {c}, q \in AllPages : view'[s][q] = view[s][q]
  BY <1>1, <1>3, <1>4, Zenon DEF PagingTypeOK
<1>11. /\ peers' \in [Spaces -> SUBSET Spaces]
       /\ peers[a] = {} => peers'[c] = {}
       /\ peers[a] # {} => peers'[c] = peers[a] \cup {c}
       /\ \A s \in Spaces : s # c /\ s \in peers[a] => peers'[s] = peers[s] \cup {c}
       /\ \A s \in Spaces : s # c /\ s \notin peers[a] => peers'[s] = peers[s]
  BY <1>1, <1>3, <1>4, Zenon DEF PagingTypeOK
<1>12. PagingTypeOK'
  <2>1. /\ pte' \in [Spaces -> [AllPages -> Entries]] /\ free' \in SUBSET PageFrames
        /\ page_ref' \in [PageFrames -> Nat]
    BY <1>6, Zenon DEF FramesInv
  <2>2. NoTlb \in [AllPages -> Entries]
    BY Zenon DEF NoTlb, Absent, Entries
  <2> QED BY <1>1, <1>2, <1>10, <1>11, <2>1, <2>2, Zenon DEF PagingTypeOK
<1>13. LoadingApart'
  BY <1>1, <1>2, <1>3, <1>5, <1>8 DEF LoadingApart, PagingTypeOK
<1>14. UnusedBlank'
  BY <1>1, <1>2, <1>10 DEF UnusedBlank
<1>15. TlbCoherent'
  BY <1>2, Zenon DEF TlbCoherent, NoTlb
<1>16. OwnWrites'
  <2> SUFFICES ASSUME NEW s \in live', NEW q \in AllPages
               PROVE  IF pte'[s][q] = Absent THEN view'[s][q] = Zero
                      ELSE mem[pte'[s][q].frame] = view'[s][q]
    BY <1>2, Zenon DEF OwnWrites
  <2>1. PICK u \in live : SameFrame(pte'[s][q], pte[u][q]) /\ view'[s][q] = view[u][q]
    <3>1. CASE s = c
      BY <1>3, <1>9, <1>10, <3>1, Zenon
    <3>2. CASE s # c
      BY <1>2, <1>5, <1>9, <1>10, <3>2, Zenon
    <3> QED BY <3>1, <3>2, Zenon
  <2> QED BY <1>1, <2>1, Zenon DEF OwnWrites, SameFrame
<1>17. PeersExact'
  <2> SUFFICES ASSUME NEW s \in Spaces
               PROVE  peers'[s] = {t \in live' : /\ pte'[s][Shm] # Absent
                                                 /\ pte'[t][Shm].frame = pte'[s][Shm].frame}
    BY Zenon DEF PeersExact
  <2>1. \A t \in Spaces :
          peers[t] = {u \in live : pte[t][Shm] # Absent /\ pte[u][Shm].frame = pte[t][Shm].frame}
    BY <1>1, Zenon DEF PeersExact
  <2>2. /\ SameFrame(pte'[c][Shm], pte[a][Shm])
        /\ \A t \in Spaces \ {c} : SameFrame(pte'[t][Shm], pte[t][Shm])
    BY <1>5, <1>9, Zenon
  <2>3. CASE s = c
    <3>1. CASE pte[a][Shm] = Absent
      BY <1>3, <1>11, <2>1, <2>2, <2>3, <3>1, Zenon DEF SameFrame
    <3>2. CASE pte[a][Shm] # Absent
      <4>1. a \in peers[a]
        BY <1>3, <2>1, <3>2, Zenon
      <4>2. peers'[c] = peers[a] \cup {c}
        BY <1>11, <4>1, Zenon
      <4>3. ASSUME NEW t \in live'
            PROVE  t \in peers[a] \cup {c} <=> /\ pte'[c][Shm] # Absent
                                                /\ pte'[t][Shm].frame = pte'[c][Shm].frame
        <5>1. CASE t = c
          BY <2>2, <3>2, <5>1, Zenon DEF SameFrame
        <5>2. CASE t # c
          <6>1. t \in live /\ SameFrame(pte'[t][Shm], pte[t][Shm])
            BY <1>2, <1>5, <2>2, <5>2, Zenon
          <6>2. t \in peers[a] <=> pte[t][Shm].frame = pte[a][Shm].frame
            BY <1>3, <2>1, <3>2, <6>1, Zenon
          <6> QED BY <2>2, <3>2, <5>2, <6>1, <6>2, Zenon DEF SameFrame
        <5> QED BY <5>1, <5>2, Zenon
      <4>4. peers[a] \cup {c} \subseteq live'
        BY <1>2, <2>1, Zenon
      <4> QED BY <2>3, <4>2, <4>3, <4>4, Zenon
    <3> QED BY <3>1, <3>2, Zenon
  <2>4. CASE s # c
    <3>1. SameFrame(pte'[s][Shm], pte[s][Shm])
      BY <2>2, <2>4, Zenon
    <3>0. /\ s \in peers[a] => peers'[s] = peers[s] \cup {c}
          /\ s \notin peers[a] => peers'[s] = peers[s]
      BY <1>11, <2>4, Zenon
    <3>2. s \in peers[a] <=> /\ pte[s][Shm] # Absent /\ pte[a][Shm].frame = pte[s][Shm].frame
      <4>1. pte[s][Shm] # Absent => s \in live
        BY <1>5, EntryFacts, Zenon
      <4>2. pte[a][Shm] = Absent <=> pte[a][Shm].frame = NoFrame
        BY <1>5, EntryFacts, Zenon DEF PagingAssumption
      <4>3. pte[s][Shm] = Absent <=> pte[s][Shm].frame = NoFrame
        BY <1>5, EntryFacts, Zenon DEF PagingAssumption
      <4> QED BY <2>1, <4>1, <4>2, <4>3, Zenon
    <3>3. ASSUME NEW t \in live'
          PROVE  t \in peers'[s] <=> /\ pte'[s][Shm] # Absent
                                     /\ pte'[t][Shm].frame = pte'[s][Shm].frame
      <4>1. CASE t = c
        <5>1. c \notin peers[s]
          BY <1>2, <2>1, Zenon
        <5>2. c \in peers'[s] <=> s \in peers[a]
          BY <3>0, <5>1, Zenon
        <5> QED BY <2>2, <3>1, <3>2, <4>1, <5>2, Zenon DEF SameFrame
      <4>2. CASE t # c
        <5>1. t \in peers'[s] <=> t \in peers[s]
          BY <3>0, <4>2, Zenon
        <5>2. t \in live /\ SameFrame(pte'[t][Shm], pte[t][Shm])
          BY <1>2, <1>5, <2>2, <4>2, Zenon
        <5>3. t \in peers[s] <=> pte[s][Shm] # Absent /\ pte[t][Shm].frame = pte[s][Shm].frame
          BY <2>1, <5>2, Zenon
        <5> QED BY <3>1, <5>1, <5>2, <5>3, Zenon DEF SameFrame
      <4> QED BY <4>1, <4>2, Zenon
    <3>4. peers'[s] \subseteq live'
      BY <1>2, <2>1, <3>0, Zenon
    <3> QED BY <3>3, <3>4, Zenon
  <2> QED BY <2>3, <2>4, Zenon
<1> QED BY <1>6, <1>12, <1>13, <1>14, <1>15, <1>16, <1>17, Zenon DEF PagingInv

\* The CPU uses what the page table says.
LEMMA TranslationIsEntry ==
  ASSUME PagingAssumption, PagingInv, NEW p \in AllPages
  PROVE  Translation(p) = pte[active][p]
BY Zenon DEF PagingInv, TlbCoherent, Translation

\* A page that the program touches for the first time keeps the invariant.
LEMMA DemandMapKeeps ==
  ASSUME PagingAssumption, PagingInv, OwnersKnown, FramesInv', NEW a \in live, a = active,
         NEW p \in Pages, NEW f \in free,
         NEW v \in Vals, DemandMap(p, f, v), live' = live, loading' = loading, active' = active,
         peers' = peers, view' \in [Spaces -> [AllPages -> Vals]], view'[a][p] = v,
         \A t \in Spaces, q \in AllPages : (t # a \/ q # p) => view'[t][q] = view[t][q]
  PROVE  PagingInv'
<1>1. /\ PagingTypeOK /\ FramesInv /\ LoadingApart /\ UnusedBlank /\ PeersExact
      /\ TlbCoherent /\ OwnWrites
  BY Zenon DEF PagingInv
<1>2. /\ pte[a][p] = Absent /\ pte' = [pte EXCEPT ![a][p] = Entry(f, TRUE, FALSE)]
      /\ free' = free \ {f} /\ tlb' = [tlb EXCEPT ![p] = Entry(f, TRUE, FALSE)]
      /\ mem' = [mem EXCEPT ![f] = v] /\ page_ref' = page_ref
  BY Zenon DEF DemandMap
<1>3. /\ a \in Spaces /\ a \notin loading /\ p \in AllPages /\ p # Shm /\ Shm \in AllPages
      /\ live \subseteq Spaces /\ f \in PageFrames /\ loading \subseteq Spaces
  BY <1>1, Zenon DEF PagingTypeOK, LoadingApart, AllPages, PagingAssumption
<1>4. FramesInv'
  BY Zenon
<1>5. Entry(f, TRUE, FALSE).frame = f /\ Entry(f, TRUE, FALSE) \in Entries
  BY <1>3, Zenon DEF Entry, Entries
<1>6. OwnWrites'
  BY <1>2, <1>3, <1>5, MapKeepsContents, ZenonT(30)
<1>7. /\ pte'[a][p] = Entry(f, TRUE, FALSE)
      /\ \A t \in Spaces, q \in AllPages : (t # a \/ q # p) => pte'[t][q] = pte[t][q]
  BY <1>1, <1>2, <1>3, Zenon DEF PagingTypeOK
<1>8. /\ tlb' \in [AllPages -> Entries] /\ tlb'[p] = Entry(f, TRUE, FALSE)
      /\ \A q \in AllPages \ {p} : tlb'[q] = tlb[q]
  BY <1>1, <1>2, <1>3, <1>5, ZenonT(30) DEF PagingTypeOK
<1>9. PagingTypeOK'
  <2>1. /\ pte' \in [Spaces -> [AllPages -> Entries]] /\ free' \in SUBSET PageFrames
        /\ page_ref' \in [PageFrames -> Nat]
    BY <1>4, Zenon DEF FramesInv
  <2>2. mem' \in [PageFrames -> Vals]
    BY <1>1, <1>2, Zenon DEF PagingTypeOK
  <2> QED BY <1>1, <1>8, <2>1, <2>2, Zenon DEF PagingTypeOK
<1>10. LoadingApart'
  <2>1. /\ loading' = loading /\ live' = live /\ active' = active
        /\ \A t \in loading : pte'[t] = pte[t]
    BY <1>1, <1>2, <1>3, Zenon DEF PagingTypeOK
  <2> QED BY <1>1, <2>1, Zenon DEF LoadingApart
<1>11. UnusedBlank'
  BY <1>1, <1>3, Zenon DEF UnusedBlank
<1>12. PeersExact'
  BY <1>3, <1>7, SamePeers, Zenon
<1>13. TlbCoherent'
  <2>1. active # NoSpace
    BY <1>3, Zenon DEF PagingAssumption
  <2> QED BY <1>1, <1>3, <1>7, <1>8, <2>1, Zenon DEF TlbCoherent
<1> QED BY <1>4, <1>6, <1>9, <1>10, <1>11, <1>12, <1>13, Zenon DEF PagingInv

\* A read keeps the invariant.
LEMMA ReadKeeps ==
  ASSUME PagingAssumption, PagingInv, OwnersKnown, FramesInv', NEW p \in AllPages, Read(p)
  PROVE  PagingInv'
<1>1. /\ PagingTypeOK /\ FramesInv /\ LoadingApart /\ UnusedBlank /\ PeersExact
      /\ TlbCoherent /\ OwnWrites
  BY Zenon DEF PagingInv
<1>2. /\ active # NoSpace /\ live' = live /\ loading' = loading /\ active' = active
      /\ view' = view /\ peers' = peers
  BY Zenon DEF Read
<1>3. active \in live /\ live \subseteq Spaces
  BY <1>1, <1>2, Zenon DEF PagingTypeOK
<1>4. CASE Hit(p, Translation(p)) /\ UNCHANGED mem
  <2>1. /\ tlb' = [tlb EXCEPT ![p] = pte[active][p]] /\ pte' = pte /\ page_ref' = page_ref
        /\ free' = free /\ mem' = mem
    BY <1>4, TranslationIsEntry, ZenonT(30) DEF Hit
  <2>2. PagingTypeOK' /\ TlbCoherent'
    BY <1>1, <1>2, <1>3, <2>1, Zenon DEF PagingTypeOK, TlbCoherent
  <2>3. FramesInv'
    BY Zenon
  <2>4. LoadingApart' /\ UnusedBlank' /\ PeersExact' /\ OwnWrites'
    BY <1>1, <1>2, <2>1, ZenonT(30) DEF LoadingApart, UnusedBlank, PeersExact, OwnWrites
  <2> QED BY <2>2, <2>3, <2>4, Zenon DEF PagingInv
<1>5. ASSUME p \in Pages, NEW f \in free, DemandMap(p, f, Zero)
      PROVE  PagingInv'
  <2>1. view[active][p] = Zero
    BY <1>1, <1>3, <1>5, Zenon DEF DemandMap, OwnWrites
  <2>2. view' \in [Spaces -> [AllPages -> Vals]] /\ Zero \in Vals
    BY <1>1, <1>2, Zenon DEF PagingTypeOK, PagingAssumption
  <2> QED BY <1>2, <1>3, <1>5, <2>1, <2>2, DemandMapKeeps, Zenon
<1> QED BY <1>4, <1>5, Zenon DEF Read

\* Others see a write only where they share the page.
LEMMA WriteSeen ==
  ASSUME PagingAssumption, PagingInv, NEW a \in live, a = active, NEW p \in AllPages,
         NEW v \in Vals,
         Seen(p, v)
  PROVE  /\ view' \in [Spaces -> [AllPages -> Vals]] /\ view'[a][p] = v
         /\ \A t \in Spaces, q \in AllPages : q # p => view'[t][q] = view[t][q]
         /\ \A t \in Spaces : t # a /\ ~(p = Shm /\ t \in peers[a]) => view'[t][p] = view[t][p]
         /\ \A t \in peers[a] : p = Shm => view'[t][p] = v
<1>1. view \in [Spaces -> [AllPages -> Vals]] /\ a \in Spaces /\ peers[a] \subseteq Spaces
  BY Zenon DEF PagingInv, PagingTypeOK
<1> QED BY <1>1, Zenon DEF Seen

\* A write that needs no fault keeps the invariant.
LEMMA HitWriteKeeps ==
  ASSUME PagingAssumption, PagingInv, OwnersKnown, FramesInv', NEW a \in live, a = active,
         NEW p \in AllPages, NEW v \in Vals,
         Translation(p).rw, Hit(p, Translation(p)), Seen(p, v),
         mem' = [mem EXCEPT ![Translation(p).frame] = v],
         live' = live, loading' = loading, active' = active, peers' = peers
  PROVE  PagingInv'
<1>1. /\ PagingTypeOK /\ FramesInv /\ LoadingApart /\ UnusedBlank /\ PeersExact
      /\ TlbCoherent /\ OwnWrites
  BY Zenon DEF PagingInv
<1>2. /\ tlb' = [tlb EXCEPT ![p] = pte[a][p]] /\ pte' = pte /\ page_ref' = page_ref
      /\ free' = free /\ pte[a][p].rw /\ mem' = [mem EXCEPT ![pte[a][p].frame] = v]
  BY TranslationIsEntry, Zenon DEF Hit
<1>3. a \in Spaces /\ live \subseteq Spaces /\ active # NoSpace /\ Shm \in AllPages
  BY <1>1, Zenon DEF PagingTypeOK, PagingAssumption, AllPages
<1>u. pte' = pte /\ page_ref' = page_ref /\ free' = free /\ live' = live /\ loading' = loading
  BY <1>2, Zenon
<1>w. pte[a][p].rw
  BY <1>2, Zenon
<1>4. pte[a][p] # Absent
  BY ONLY <1>w DEF Absent
<1>5. PICK f \in PageFrames : f = pte[a][p].frame
  BY <1>3, <1>4, EntryFacts, Zenon
<1>6. \A t \in Spaces, q \in AllPages :
        /\ pte[t][q].frame = f => view'[t][q] = v
        /\ pte[t][q].frame # f => view'[t][q] = view[t][q]
  <2> SUFFICES ASSUME NEW t \in Spaces, NEW q \in AllPages
               PROVE  /\ pte[t][q].frame = f => view'[t][q] = v
                      /\ pte[t][q].frame # f => view'[t][q] = view[t][q]
    BY Zenon
  <2>1. /\ view'[a][p] = v
        /\ q # p => view'[t][q] = view[t][q]
        /\ t # a /\ ~(p = Shm /\ t \in peers[a]) => view'[t][p] = view[t][p]
        /\ t \in peers[a] /\ p = Shm => view'[t][p] = v
    BY WriteSeen
  <2>2. pte[t][q].frame = f => q = p /\ t \in live
    BY <1>1, <1>3, <1>5, EntryFacts DEF FramesInv, OnePlace, PagingAssumption
  <2>3. CASE p = Shm
    <3>1. t \in peers[a] <=> t \in live /\ pte[t][Shm].frame = f
      BY <1>1, <1>3, <1>4, <1>5, <2>3, ZenonT(30) DEF PeersExact
    <3> QED BY <1>5, <2>1, <2>2, <2>3, <3>1, ZenonT(30)
  <2>4. CASE p # Shm
    <3>1. ~pte[a][p].shared /\ page_ref[f] = 0
      BY <1>1, <1>2, <1>3, <1>5, <2>4, ZenonT(30) DEF FramesInv, EntriesSound, WritableIsPrivate
    <3>2. pte[t][q].frame = f => t = a /\ q = p
      BY <1>1, <1>3, <1>5, <3>1, SoleOwner
    <3> QED BY <1>5, <2>1, <2>4, <3>2, Zenon
  <2> QED BY <2>3, <2>4, Zenon
<1>7. OwnWrites'
  <2>1. mem' = [mem EXCEPT ![f] = v]
    BY <1>2, <1>5, Zenon
  <2>2. \A t \in Spaces, q \in AllPages :
          /\ pte'[t][q].frame = pte[t][q].frame
          /\ pte'[t][q] = Absent <=> pte[t][q] = Absent
          /\ pte[t][q].frame = f => view'[t][q] = v
          /\ pte[t][q].frame # f => view'[t][q] = view[t][q]
    BY <1>2, <1>6, Zenon
  <2>3. PagingAssumption /\ PagingInv /\ OwnersKnown /\ f \in PageFrames /\ v \in Vals /\ live' = live
    BY Zenon
  <2> QED BY ONLY <2>1, <2>2, <2>3, StoreKeepsContents, Zenon
<1>8. PagingTypeOK' /\ TlbCoherent'
  <2>1. view' \in [Spaces -> [AllPages -> Vals]]
    BY WriteSeen, Zenon
  <2>2. mem' \in [PageFrames -> Vals]
    BY <1>1, <1>2, <1>5, ZenonT(30) DEF PagingTypeOK
  <2>3. tlb' = [tlb EXCEPT ![p] = pte[a][p]] /\ active' = active /\ peers' = peers
    BY <1>2, Zenon
  <2>4. PagingTypeOK'
    <3>1. tlb' \in [AllPages -> Entries]
      BY <1>1, <1>3, <2>3 DEF PagingTypeOK
    <3> QED BY ONLY <1>1, <1>u, <2>1, <2>2, <2>3, <3>1, Zenon DEF PagingTypeOK
  <2>5. TlbCoherent'
    <3>1. tlb'[p] = pte[a][p] /\ \A q \in AllPages \ {p} : tlb'[q] = tlb[q]
      BY <1>1, <2>3, Zenon DEF PagingTypeOK
    <3>2. a = active
      BY Zenon
    <3> QED BY ONLY <1>1, <1>3, <1>u, <2>3, <3>1, <3>2, Zenon DEF TlbCoherent
  <2> QED BY <2>4, <2>5, Zenon
<1>9. FramesInv'
  BY Zenon
<1>10. LoadingApart' /\ PeersExact'
  BY <1>1, <1>2, Zenon DEF LoadingApart, PeersExact
<1>11. UnusedBlank'
  <2> SUFFICES ASSUME NEW t \in Spaces \ live, NEW q \in AllPages PROVE view'[t][q] = Zero
    BY Zenon DEF UnusedBlank
  <2>1. pte[t][q].frame # f
    BY <1>5, EntryFacts, Zenon DEF PagingAssumption
  <2> QED BY <1>1, <1>6, <2>1, Zenon DEF UnusedBlank
<1> QED BY <1>7, <1>8, <1>9, <1>10, <1>11, Zenon DEF PagingInv

\* paging_try_cow() and the write behind it keep the invariant, with a copy or without.
LEMMA TryCowKeeps ==
  ASSUME PagingAssumption, PagingInv, OwnersKnown, FramesInv', NEW a \in live, a = active,
         NEW p \in AllPages, NEW v \in Vals,
         TryCow(p, v), Seen(p, v),
         live' = live, loading' = loading, active' = active, peers' = peers
  PROVE  PagingInv'
<1>1. /\ PagingTypeOK /\ FramesInv /\ LoadingApart /\ UnusedBlank /\ PeersExact
      /\ TlbCoherent /\ OwnWrites
  BY Zenon DEF PagingInv
<1>2. pte[a][p] # Absent /\ ~pte[a][p].rw
  BY ZenonT(30) DEF TryCow
<1>3. /\ a \in Spaces /\ live \subseteq Spaces /\ active # NoSpace /\ Shm \in AllPages
      /\ a \notin loading /\ loading \subseteq Spaces
  BY <1>1, Zenon DEF PagingTypeOK, PagingAssumption, AllPages, LoadingApart
<1>4. p # Shm /\ ~pte[a][p].shared
  BY <1>1, <1>2, <1>3, Zenon DEF FramesInv, EntriesSound
<1>5. PICK f \in PageFrames : f = pte[a][p].frame
  BY <1>2, <1>3, EntryFacts, Zenon
<1>6. /\ view' \in [Spaces -> [AllPages -> Vals]] /\ view'[a][p] = v
      /\ \A t \in Spaces, q \in AllPages : (t # a \/ q # p) => view'[t][q] = view[t][q]
  BY <1>4, WriteSeen
<1>7. UnusedBlank'
  BY <1>1, <1>3, <1>6, ZenonT(30) DEF UnusedBlank
<1>8. ASSUME NEW e \in Entries, FramesInv', pte' = [pte EXCEPT ![a][p] = e],
             tlb' = [tlb EXCEPT ![p] = e], mem' \in [PageFrames -> Vals]
      PROVE  PagingTypeOK' /\ LoadingApart' /\ PeersExact' /\ TlbCoherent'
  <2>1. /\ pte'[a][p] = e
        /\ \A t \in Spaces, q \in AllPages : (t # a \/ q # p) => pte'[t][q] = pte[t][q]
    BY <1>1, <1>3, <1>8, Zenon DEF PagingTypeOK
  <2>2. /\ tlb' \in [AllPages -> Entries] /\ tlb'[p] = e
        /\ \A q \in AllPages \ {p} : tlb'[q] = tlb[q]
    BY <1>1, <1>8, Zenon DEF PagingTypeOK
  <2>3. PagingTypeOK'
    <3>1. /\ pte' \in [Spaces -> [AllPages -> Entries]] /\ free' \in SUBSET PageFrames
          /\ page_ref' \in [PageFrames -> Nat]
      BY <1>8, Zenon DEF FramesInv
    <3> QED BY <1>1, <1>6, <1>8, <2>2, <3>1, Zenon DEF PagingTypeOK
  <2>4. LoadingApart'
    BY <1>1, <1>3, <2>1 DEF LoadingApart
  <2>5. PeersExact'
    BY <1>3, <1>4, <2>1, SamePeers, Zenon
  <2>6. TlbCoherent'
    BY <1>1, <1>3, <2>1, <2>2, Zenon DEF TlbCoherent
  <2> QED BY <2>3, <2>4, <2>5, <2>6, Zenon
<1>9. CASE MustCopy(f)
  <2>1. PICK g \in free :
          /\ free' = free \ {g} /\ page_ref' = [page_ref EXCEPT ![f] = page_ref[f] - 1]
          /\ mem' = [mem EXCEPT ![g] = v]
          /\ pte' = [pte EXCEPT ![a][p] = [pte[a][p] EXCEPT !.frame = g, !.rw = TRUE]]
          /\ tlb' = [tlb EXCEPT ![p] = [pte[a][p] EXCEPT !.frame = g, !.rw = TRUE]]
    BY <1>1, <1>3, <1>5, <1>9, Zenon DEF TryCow, PagingTypeOK
  <2>2. page_ref[f] > 0
    BY <1>9, Zenon DEF MustCopy
  <2>3. FramesInv'
    BY Zenon
  <2>4. PICK e : e = [pte[a][p] EXCEPT !.frame = g, !.rw = TRUE]
    BY Zenon
  <2>5. e \in Entries /\ e.frame = g
    <3>1. pte[a][p] \in Entries /\ g \in PageFrames
      BY <1>1, <1>3, Zenon DEF PagingTypeOK
    <3> QED BY ONLY <2>4, <3>1, Zenon DEF Entries
  <2>6. pte' = [pte EXCEPT ![a][p] = e] /\ tlb' = [tlb EXCEPT ![p] = e]
    BY <2>1, <2>4, Zenon
  <2>7. mem' \in [PageFrames -> Vals]
    BY <1>1, <2>1, Zenon DEF PagingTypeOK
  <2>8. OwnWrites'
    <3>1. PagingAssumption /\ PagingInv /\ OwnersKnown /\ live' = live /\ mem' = [mem EXCEPT ![g] = v]
          /\ a \in live /\ p \in AllPages /\ g \in free /\ v \in Vals
      BY <2>1, Zenon
    <3> QED BY ONLY <1>6, <2>5, <2>6, <3>1, MapKeepsContents, Zenon
  <2> QED BY <1>7, <1>8, <2>3, <2>5, <2>6, <2>7, <2>8, Zenon DEF PagingInv
<1>10. CASE ~MustCopy(f)
  <2>1. /\ free' = free /\ page_ref' = page_ref /\ mem' = [mem EXCEPT ![f] = v]
        /\ pte' = [pte EXCEPT ![a][p].rw = TRUE]
        /\ tlb' = [tlb EXCEPT ![p] = [pte[a][p] EXCEPT !.rw = TRUE]]
    BY <1>5, <1>10, Zenon DEF TryCow
  <2>2. page_ref[f] = 0
    BY <1>1, <1>10 DEF MustCopy, PagingTypeOK
  <2>3. PICK e : e = [pte[a][p] EXCEPT !.rw = TRUE]
    BY Zenon
  <2>4. pte' = [pte EXCEPT ![a][p] = e] /\ tlb' = [tlb EXCEPT ![p] = e]
    BY <1>1, <1>3, <2>1, <2>3, Zenon DEF PagingTypeOK
  <2>5. FramesInv'
    BY Zenon
  <2>6. e \in Entries /\ e.frame = f /\ e # Absent
    <3>1. pte[a][p] \in Entries
      BY <1>1, <1>3 DEF PagingTypeOK
    <3>2. e \in Entries /\ e.frame = pte[a][p].frame
      BY ONLY <2>3, <3>1, Zenon DEF Entries
    <3> QED BY <1>5, <3>2 DEF Absent, PagingAssumption
  <2>7. mem' \in [PageFrames -> Vals]
    BY <1>1, <2>1, Zenon DEF PagingTypeOK
  <2>8. OwnWrites'
    <3>1. PagingAssumption /\ PagingInv /\ OwnersKnown /\ f \in PageFrames /\ v \in Vals /\ live' = live
          /\ mem' = [mem EXCEPT ![f] = v]
      BY <2>1, Zenon
    <3>2. /\ pte'[a][p] = e
          /\ \A t \in Spaces, q \in AllPages : (t # a \/ q # p) => pte'[t][q] = pte[t][q]
      BY <1>1, <1>3, <2>4, Zenon DEF PagingTypeOK
    <3>3. \A t \in Spaces, q \in AllPages : pte[t][q].frame = f => t = a /\ q = p
      BY <1>1, <1>3, <1>5, <2>2, SoleOwner, ZenonT(30)
    <3>4. \A t \in Spaces, q \in AllPages :
            /\ pte'[t][q].frame = pte[t][q].frame
            /\ pte'[t][q] = Absent <=> pte[t][q] = Absent
            /\ pte[t][q].frame = f => view'[t][q] = v
            /\ pte[t][q].frame # f => view'[t][q] = view[t][q]
      BY ONLY <1>2, <1>5, <1>6, <2>6, <3>2, <3>3, Zenon
    <3> QED BY ONLY <3>1, <3>4, StoreKeepsContents, Zenon
  <2> QED BY <1>7, <1>8, <2>4, <2>5, <2>6, <2>7, <2>8, Zenon DEF PagingInv
<1> QED BY <1>9, <1>10, Zenon

\* A write keeps the invariant.
LEMMA WriteKeeps ==
  ASSUME PagingAssumption, PagingInv, OwnersKnown, FramesInv', NEW p \in AllPages,
         NEW v \in Vals, Write(p, v)
  PROVE  PagingInv'
<1>1. active \in live /\ PagingInv /\ live \subseteq Spaces
  BY Zenon DEF PagingInv, PagingTypeOK, Write
<1>2. /\ live' = live /\ loading' = loading /\ active' = active /\ peers' = peers /\ Seen(p, v)
  BY Zenon DEF Write
<1>3. ASSUME p \in Pages, NEW f \in free, DemandMap(p, f, v)
      PROVE  PagingInv'
  <2>1. p # Shm
    BY <1>3, Zenon DEF PagingAssumption
  <2>2. /\ view' \in [Spaces -> [AllPages -> Vals]] /\ view'[active][p] = v
        /\ \A t \in Spaces, q \in AllPages : (t # active \/ q # p) => view'[t][q] = view[t][q]
    BY <1>1, <1>2, <2>1, WriteSeen
  <2> QED BY <1>1, <1>2, <1>3, <2>2, DemandMapKeeps, Zenon
<1>4. CASE TryCow(p, v)
  BY <1>1, <1>2, <1>4, TryCowKeeps, Zenon
<1>5. CASE /\ Translation(p).rw /\ Hit(p, Translation(p))
           /\ mem' = [mem EXCEPT ![Translation(p).frame] = v]
  BY <1>1, <1>2, <1>5, HitWriteKeeps, Zenon
<1> QED BY <1>3, <1>4, <1>5, Zenon DEF Write

-----------------------------------------------------------------------------
(* The frames and their counts *)

INSTANCE FiniteSetTheorems

\* A frame has finitely many mappings.
LEMMA MappingsFinite ==
  ASSUME PagingAssumption, live \subseteq Spaces, NEW f
  PROVE  IsFiniteSet(Mappings(f)) /\ Cardinality(Mappings(f)) \in Nat
<1>1. IsFiniteSet(AllPages)
  BY FS_AddElement, Zenon DEF PagingAssumption, AllPages
<1>2. IsFiniteSet(Spaces \X AllPages)
  BY <1>1, FS_Product, Zenon DEF PagingAssumption
<1>3. Mappings(f) \in SUBSET (Spaces \X AllPages)
  BY Zenon DEF Mappings
<1> QED BY <1>2, <1>3, FS_Subset, FS_CardinalityType, Zenon

\* A mapping is in Mappings(f), and all of them are pairs.
LEMMA MappingsAre ==
  ASSUME FramesInv, NEW f \in PageFrames, PagingAssumption
  PROVE  /\ \A s \in Spaces, p \in AllPages : <<s, p>> \in Mappings(f) <=> pte[s][p].frame = f
         /\ \A m \in Mappings(f) : \E s \in Spaces, p \in AllPages : m = <<s, p>>
<1>1. \A s \in Spaces, p \in AllPages : pte[s][p].frame = f => s \in live
  BY DEF FramesInv, EntriesSound, Absent, PagingAssumption
<1> QED BY <1>1 DEF FramesInv, Mappings

\* Nobody has a free frame mapped.
LEMMA FreeHasNoMapping ==
  ASSUME PagingAssumption, FramesInv, NEW f \in free
  PROVE  \A s \in Spaces, p \in AllPages : pte[s][p].frame # f
<1>1. Cardinality(Mappings(f)) = 0
  BY Zenon DEF FramesInv, PageRefsExact
<1>2. Mappings(f) = {}
  BY <1>1, MappingsFinite, FS_EmptySet, Zenon DEF FramesInv
<1> QED BY <1>2, MappingsAre, Zenon DEF FramesInv

\* A frame without further references has one owner.
LEMMA OneMapping ==
  ASSUME PagingAssumption, FramesInv, NEW s \in Spaces, NEW p \in AllPages,
         NEW t \in Spaces, NEW q \in AllPages, NEW f \in PageFrames,
         pte[s][p].frame = f, pte[t][q].frame = f, page_ref[f] = 0
  PROVE  s = t /\ p = q
<1>1. f \notin free
  BY FreeHasNoMapping, Zenon
<1>2. Cardinality(Mappings(f)) = 1
  BY <1>1 DEF FramesInv, PageRefsExact
<1>3. PICK m : Mappings(f) = {m}
  BY <1>2, MappingsFinite, FS_Singleton, Zenon DEF FramesInv
<1>4. <<s, p>> = m /\ <<t, q>> = m
  BY <1>3, MappingsAre, Zenon
<1> QED BY <1>4

\* Space s has frame f at page p.
Has(s, p, f) == s \in live /\ pte[s][p].frame = f

\* The number of mappings does not change when nobody gets or loses the frame ...
LEMMA SameCount ==
  ASSUME live \subseteq Spaces, live' \subseteq Spaces, NEW f,
         \A s \in Spaces, p \in AllPages : Has(s, p, f)' <=> Has(s, p, f)
  PROVE  Mappings(f)' = Mappings(f)
<1>1. \A m \in Spaces \X AllPages : m \in Mappings(f)' <=> m \in Mappings(f)
  BY Zenon DEF Mappings, Has
<1>2. Mappings(f) \subseteq Spaces \X AllPages /\ Mappings(f)' \subseteq Spaces \X AllPages
  BY Zenon DEF Mappings
<1> QED BY <1>1, <1>2, Zenon

\* ... is one more when one page of one space gets it ...
LEMMA OneMore ==
  ASSUME PagingAssumption, live \subseteq Spaces, live' \subseteq Spaces, NEW f,
         NEW s \in Spaces, NEW p \in AllPages, ~Has(s, p, f),
         \A t \in Spaces, q \in AllPages : Has(t, q, f)' <=> Has(t, q, f) \/ (t = s /\ q = p)
  PROVE  Cardinality(Mappings(f)') = Cardinality(Mappings(f)) + 1
<1>1. \A m \in Spaces \X AllPages : m \in Mappings(f)' <=> m \in Mappings(f) \/ m = <<s, p>>
  BY DEF Mappings, Has
<1>2. Mappings(f) \subseteq Spaces \X AllPages /\ Mappings(f)' \subseteq Spaces \X AllPages
  BY Zenon DEF Mappings
<1>3. Mappings(f)' = Mappings(f) \cup {<<s, p>>}
  BY <1>1, <1>2, Zenon
<1>4. <<s, p>> \notin Mappings(f)
  BY Zenon DEF Mappings, Has
<1> QED BY <1>3, <1>4, MappingsFinite, FS_AddElement, Zenon

\* ... and one less when one loses it.
LEMMA OneLess ==
  ASSUME PagingAssumption, live \subseteq Spaces, live' \subseteq Spaces, NEW f,
         NEW s \in Spaces, NEW p \in AllPages, Has(s, p, f),
         \A t \in Spaces, q \in AllPages : Has(t, q, f)' <=> Has(t, q, f) /\ ~(t = s /\ q = p)
  PROVE  Cardinality(Mappings(f)') = Cardinality(Mappings(f)) - 1
<1>1. \A m \in Spaces \X AllPages : m \in Mappings(f)' <=> m \in Mappings(f) /\ m # <<s, p>>
  BY DEF Mappings, Has
<1>2. Mappings(f) \subseteq Spaces \X AllPages /\ Mappings(f)' \subseteq Spaces \X AllPages
  BY Zenon DEF Mappings
<1>3. Mappings(f)' = Mappings(f) \ {<<s, p>>}
  BY <1>1, <1>2, Zenon
<1>4. <<s, p>> \in Mappings(f)
  BY Zenon DEF Mappings, Has
<1> QED BY <1>3, <1>4, MappingsFinite, FS_RemoveElement, Zenon

-----------------------------------------------------------------------------
(* The entries, the counts and the free frames *)

\* A page that is not present gets a free frame.
LEMMA MapKeepsFrames ==
  ASSUME PagingAssumption, FramesInv, NEW s \in live, NEW p \in AllPages, NEW f \in free,
         NEW shared \in BOOLEAN, shared <=> p = Shm, pte[s][p] = Absent,
         pte' = [pte EXCEPT ![s][p] = Entry(f, TRUE, shared)], free' = free \ {f},
         page_ref' = page_ref, live' = live
  PROVE  FramesInv'
<1>1. /\ live \subseteq Spaces /\ pte \in [Spaces -> [AllPages -> Entries]]
      /\ page_ref \in [PageFrames -> Nat] /\ free \in SUBSET PageFrames /\ page_ref[f] = 0
      /\ EntriesSound /\ OnePlace /\ PageRefsExact /\ WritableIsPrivate
  BY Zenon DEF FramesInv
<1>2. Entry(f, TRUE, shared) \in Entries /\ Entry(f, TRUE, shared) # Absent /\ f # NoFrame
  BY <1>1, Zenon DEF Entry, Entries, Absent, PagingAssumption
<1>3. /\ pte' \in [Spaces -> [AllPages -> Entries]]
      /\ pte'[s][p] = Entry(f, TRUE, shared)
      /\ \A t \in Spaces, q \in AllPages : (t # s \/ q # p) => pte'[t][q] = pte[t][q]
  BY <1>1, <1>2, Zenon
<1>4. \A t \in Spaces, q \in AllPages : pte[t][q].frame # f
  BY FreeHasNoMapping, Zenon
<1>5. EntriesSound'
  BY <1>1, <1>2, <1>3 DEF EntriesSound, Entry
<1>6. OnePlace'
  BY <1>1, <1>2, <1>3, <1>4 DEF OnePlace, Entry
<1>7. WritableIsPrivate'
  BY <1>1, <1>3 DEF WritableIsPrivate, Entry
<1>8. PageRefsExact'
  <2> SUFFICES ASSUME NEW g \in PageFrames
               PROVE  Cardinality(Mappings(g)') = IF g \in free' THEN 0 ELSE page_ref[g] + 1
    BY Zenon DEF PageRefsExact
  <2>1. CASE g = f
    <3>1. Cardinality(Mappings(f)) = 0
      BY <1>1, Zenon DEF PageRefsExact
    <3>2. Cardinality(Mappings(f)') = Cardinality(Mappings(f)) + 1
      BY <1>1, <1>3, <1>4, OneMore DEF Has, Entry
    <3> QED BY <1>1, <2>1, <3>1, <3>2, Zenon
  <2>2. CASE g # f
    <3>1. \A t \in Spaces, q \in AllPages : Has(t, q, g)' <=> Has(t, q, g)
      BY <1>2, <1>3, <2>2 DEF Has, Entry, Absent, PagingAssumption
    <3>2. Mappings(g)' = Mappings(g)
      BY <1>1, <3>1, SameCount, Zenon
    <3> QED BY <1>1, <2>2, <3>2, Zenon DEF PageRefsExact
  <2> QED BY <2>1, <2>2, Zenon
<1> QED BY <1>1, <1>3, <1>5, <1>6, <1>7, <1>8, Zenon DEF FramesInv

\* A page of a space gives up its frame, which is freed unless others have it.
LEMMA UnmapKeepsFrames ==
  ASSUME PagingAssumption, FramesInv, NEW s \in live, NEW p \in AllPages, pte[s][p] # Absent,
         pte' = [pte EXCEPT ![s][p] = Absent], live' = live,
         page_ref' = RefAfter({pte[s][p]}), free' = FreeAfter({pte[s][p]})
  PROVE  FramesInv'
<1>1. /\ live \subseteq Spaces /\ pte \in [Spaces -> [AllPages -> Entries]]
      /\ page_ref \in [PageFrames -> Nat] /\ free \in SUBSET PageFrames
      /\ \A g \in free : page_ref[g] = 0
      /\ EntriesSound /\ OnePlace /\ PageRefsExact /\ WritableIsPrivate
  BY Zenon DEF FramesInv
<1>2. PICK f \in PageFrames : f = pte[s][p].frame /\ f # NoFrame /\ f \notin free
  <2>1. pte[s][p].frame # NoFrame
    BY <1>1, Zenon DEF EntriesSound
  <2>2. pte[s][p].frame \in PageFrames
    BY <1>1, <2>1 DEF Entries
  <2> QED BY <1>1, <2>1, <2>2, FreeHasNoMapping, Zenon
<1>3. /\ pte' \in [Spaces -> [AllPages -> Entries]]
      /\ pte'[s][p] = Absent
      /\ \A t \in Spaces, q \in AllPages : (t # s \/ q # p) => pte'[t][q] = pte[t][q]
  <2>1. Absent \in Entries
    BY Zenon DEF Absent, Entries
  <2> QED BY <1>1, <2>1, Zenon
<1>4. /\ page_ref' \in [PageFrames -> Nat]
      /\ page_ref[f] = 0 => page_ref'[f] = 0
      /\ page_ref[f] # 0 => page_ref'[f] = page_ref[f] - 1
      /\ \A g \in PageFrames : g # f => page_ref'[g] = page_ref[g]
  BY <1>1, <1>2 DEF RefAfter
<1>5. /\ page_ref[f] = 0 => free' = free \cup {f}
      /\ page_ref[f] # 0 => free' = free
  BY <1>2, Zenon DEF FreeAfter, Releases
<1>6. EntriesSound'
  <2> SUFFICES ASSUME NEW t \in Spaces, NEW q \in AllPages
               PROVE  /\ pte'[t][q].frame = NoFrame => pte'[t][q] = Absent
                      /\ pte'[t][q].shared <=> q = Shm /\ pte'[t][q] # Absent
                      /\ pte'[t][q].shared => pte'[t][q].rw
                      /\ t \notin live => pte'[t][q] = Absent
    BY Zenon DEF EntriesSound
  <2>1. CASE t = s /\ q = p
    BY <1>3, <2>1, Zenon DEF Absent
  <2>2. CASE t # s \/ q # p
    BY <1>1, <1>3, <2>2 DEF EntriesSound
  <2> QED BY <2>1, <2>2, Zenon
<1>7. OnePlace'
  BY <1>1, <1>3 DEF OnePlace, Absent
<1>8. WritableIsPrivate'
  <2> SUFFICES ASSUME NEW t \in live, NEW q \in AllPages,
                      pte'[t][q].rw, ~pte'[t][q].shared
               PROVE  page_ref'[pte'[t][q].frame] = 0
    BY Zenon DEF WritableIsPrivate
  <2>1. t \in Spaces /\ pte'[t][q] = pte[t][q] /\ pte[t][q] # Absent
    BY <1>1, <1>3 DEF Absent
  <2>2. page_ref[pte[t][q].frame] = 0 /\ pte[t][q].frame \in PageFrames
    BY <1>1, <2>1, Zenon DEF WritableIsPrivate, EntriesSound, Entries
  <2> QED BY <1>4, <2>1, <2>2, Zenon
<1>9. PageRefsExact'
  <2> SUFFICES ASSUME NEW g \in PageFrames
               PROVE  Cardinality(Mappings(g)') = IF g \in free' THEN 0 ELSE page_ref'[g] + 1
    BY Zenon DEF PageRefsExact
  <2>1. CASE g = f
    <3>1. Cardinality(Mappings(f)) = page_ref[f] + 1
      BY <1>1, <1>2, Zenon DEF PageRefsExact
    <3>2. Has(s, p, f)
      BY <1>2, Zenon DEF Has
    <3>3. \A t \in Spaces, q \in AllPages : Has(t, q, f)' <=> Has(t, q, f) /\ ~(t = s /\ q = p)
      BY <1>2, <1>3, Zenon DEF Has, Absent
    <3>4. Cardinality(Mappings(f)') = Cardinality(Mappings(f)) - 1
      BY <1>1, <3>2, <3>3, OneLess
    <3>5. page_ref[f] \in Nat
      BY <1>1, Zenon
    <3>6. Cardinality(Mappings(f)') = page_ref[f]
      BY <3>1, <3>4, <3>5
    <3>7. CASE page_ref[f] = 0
      BY <1>5, <2>1, <3>6, <3>7, Zenon
    <3>8. CASE page_ref[f] # 0
      <4>1. g \notin free' /\ page_ref'[g] = page_ref[f] - 1
        BY <1>2, <1>4, <1>5, <2>1, <3>8, Zenon
      <4> QED BY ONLY <2>1, <3>5, <3>6, <4>1
    <3> QED BY <3>7, <3>8, Zenon
  <2>2. CASE g # f
    <3>1. \A t \in Spaces, q \in AllPages : Has(t, q, g)' <=> Has(t, q, g)
      BY <1>2, <1>3, <2>2, Zenon DEF Has, Absent, PagingAssumption
    <3>2. Mappings(g)' = Mappings(g)
      BY <1>1, <3>1, SameCount, Zenon
    <3> QED BY <1>1, <1>4, <1>5, <2>2, <3>2, Zenon DEF PageRefsExact
  <2> QED BY <2>1, <2>2, Zenon
<1>10. free' \in SUBSET PageFrames /\ \A g \in free' : page_ref'[g] = 0
  <2>1. CASE page_ref[f] = 0
    BY <1>1, <1>4, <1>5, <2>1, Zenon
  <2>2. CASE page_ref[f] # 0
    BY <1>1, <1>2, <1>4, <1>5, <2>2, Zenon
  <2> QED BY <2>1, <2>2, Zenon
<1> QED BY <1>1, <1>3, <1>4, <1>6, <1>7, <1>8, <1>9, <1>10, Zenon DEF FramesInv

\* A space gives up all its frames; those that others have as well are not freed.
LEMMA DestroyKeepsFrames ==
  ASSUME PagingAssumption, FramesInv, NEW s \in live, live' = live \ {s},
         pte' = [pte EXCEPT ![s] = [p \in AllPages |-> Absent]],
         page_ref' = RefAfter({pte[s][p] : p \in AllPages}),
         free' = FreeAfter({pte[s][p] : p \in AllPages})
  PROVE  FramesInv'
<1>1. /\ live \subseteq Spaces /\ pte \in [Spaces -> [AllPages -> Entries]]
      /\ page_ref \in [PageFrames -> Nat] /\ free \in SUBSET PageFrames
      /\ \A g \in free : page_ref[g] = 0
      /\ EntriesSound /\ OnePlace /\ PageRefsExact /\ WritableIsPrivate
  BY Zenon DEF FramesInv
<1>2. /\ pte' \in [Spaces -> [AllPages -> Entries]]
      /\ \A q \in AllPages : pte'[s][q] = Absent
      /\ \A t \in Spaces \ {s}, q \in AllPages : pte'[t][q] = pte[t][q]
  <2>1. Absent \in Entries
    BY Zenon DEF Absent, Entries
  <2> QED BY <1>1, <2>1, Zenon
<1>3. /\ page_ref' \in [PageFrames -> Nat]
      /\ \A g \in PageFrames : page_ref[g] = 0 => page_ref'[g] = 0
      /\ \A g \in PageFrames, p \in AllPages :
           pte[s][p].frame = g /\ page_ref[g] # 0 => page_ref'[g] = page_ref[g] - 1
      /\ \A g \in PageFrames : (\A p \in AllPages : pte[s][p].frame # g) => page_ref'[g] = page_ref[g]
  BY <1>1 DEF RefAfter
<1>4. /\ free' \in SUBSET PageFrames
      /\ \A g \in PageFrames : (\A p \in AllPages : pte[s][p].frame # g) => (g \in free' <=> g \in free)
      /\ \A g \in PageFrames, p \in AllPages :
           pte[s][p].frame = g => (g \in free' <=> g \in free \/ page_ref[g] = 0)
  BY <1>1, Zenon DEF FreeAfter, Releases
<1>5. EntriesSound'
  <2> SUFFICES ASSUME NEW t \in Spaces, NEW q \in AllPages
               PROVE  /\ pte'[t][q].frame = NoFrame => pte'[t][q] = Absent
                      /\ pte'[t][q].shared <=> q = Shm /\ pte'[t][q] # Absent
                      /\ pte'[t][q].shared => pte'[t][q].rw
                      /\ t \notin live' => pte'[t][q] = Absent
    BY Zenon DEF EntriesSound
  <2>1. CASE t = s
    BY <1>2, <2>1, Zenon DEF Absent
  <2>2. CASE t # s
    BY <1>1, <1>2, <2>2, Zenon DEF EntriesSound
  <2> QED BY <2>1, <2>2, Zenon
<1>6. OnePlace'
  BY <1>1, <1>2 DEF OnePlace, Absent
<1>7. WritableIsPrivate'
  <2> SUFFICES ASSUME NEW t \in live', NEW q \in AllPages,
                      pte'[t][q].rw, ~pte'[t][q].shared
               PROVE  page_ref'[pte'[t][q].frame] = 0
    BY Zenon DEF WritableIsPrivate
  <2>1. t \in live /\ t \in Spaces /\ pte'[t][q] = pte[t][q] /\ pte[t][q] # Absent
    BY <1>1, <1>2 DEF Absent
  <2>2. page_ref[pte[t][q].frame] = 0 /\ pte[t][q].frame \in PageFrames
    BY <1>1, <2>1, Zenon DEF WritableIsPrivate, EntriesSound, Entries
  <2> QED BY <1>3, <2>1, <2>2, Zenon
<1>8. PageRefsExact'
  <2> SUFFICES ASSUME NEW g \in PageFrames
               PROVE  Cardinality(Mappings(g)') = IF g \in free' THEN 0 ELSE page_ref'[g] + 1
    BY Zenon DEF PageRefsExact
  <2>0. page_ref[g] \in Nat
    BY <1>1, Zenon
  <2>1. ASSUME NEW p \in AllPages, pte[s][p].frame = g
        PROVE  Cardinality(Mappings(g)') = IF g \in free' THEN 0 ELSE page_ref'[g] + 1
    <3>1. g \notin free
      BY <1>1, <2>1, FreeHasNoMapping, Zenon
    <3>2. Cardinality(Mappings(g)) = page_ref[g] + 1
      BY <1>1, <3>1, Zenon DEF PageRefsExact
    <3>3. Has(s, p, g)
      BY <2>1, Zenon DEF Has
    <3>4. \A t \in Spaces, q \in AllPages : Has(t, q, g)' <=> Has(t, q, g) /\ ~(t = s /\ q = p)
      BY <1>1, <1>2, <2>1 DEF Has, OnePlace, Absent, PagingAssumption
    <3>5. Cardinality(Mappings(g)') = Cardinality(Mappings(g)) - 1
      BY <1>1, <3>3, <3>4, OneLess
    <3>6. Cardinality(Mappings(g)') = page_ref[g]
      BY ONLY <2>0, <3>2, <3>5
    <3>7. CASE page_ref[g] = 0
      BY <1>4, <2>1, <3>6, <3>7, Zenon
    <3>8. CASE page_ref[g] # 0
      <4>1. g \notin free' /\ page_ref'[g] = page_ref[g] - 1
        BY <1>3, <1>4, <2>1, <3>1, <3>8, Zenon
      <4> QED BY ONLY <2>0, <3>6, <4>1
    <3> QED BY <3>7, <3>8, Zenon
  <2>2. ASSUME \A p \in AllPages : pte[s][p].frame # g
        PROVE  Cardinality(Mappings(g)') = IF g \in free' THEN 0 ELSE page_ref'[g] + 1
    <3>1. \A t \in Spaces, q \in AllPages : Has(t, q, g)' <=> Has(t, q, g)
      BY <1>2, <2>2, Zenon DEF Has, Absent, PagingAssumption
    <3>2. Mappings(g)' = Mappings(g)
      BY <1>1, <3>1, SameCount, Zenon
    <3>3. page_ref'[g] = page_ref[g] /\ (g \in free' <=> g \in free)
      BY <1>3, <1>4, <2>2, Zenon
    <3> QED BY <1>1, <3>2, <3>3, Zenon DEF PageRefsExact
  <2> QED BY <2>1, <2>2, Zenon
<1>9. free' \in SUBSET PageFrames /\ \A g \in free' : page_ref'[g] = 0
  <2> SUFFICES ASSUME NEW g \in free' PROVE page_ref'[g] = 0
    BY <1>4, Zenon
  <2>1. CASE \E p \in AllPages : pte[s][p].frame = g
    BY <1>1, <1>3, <1>4, <2>1, Zenon
  <2>2. CASE \A p \in AllPages : pte[s][p].frame # g
    BY <1>1, <1>3, <1>4, <2>2, Zenon
  <2> QED BY <2>1, <2>2, Zenon
<1> QED BY <1>1, <1>2, <1>3, <1>5, <1>6, <1>7, <1>8, <1>9, Zenon DEF FramesInv

\* Whoever gets a frame at the address where somebody had it keeps it at one place.
LEMMA SameAddress ==
  ASSUME OnePlace,
         \A t \in Spaces, q \in AllPages : \E u \in Spaces : pte'[t][q].frame = pte[u][q].frame
  PROVE  OnePlace'
<1> SUFFICES ASSUME NEW s \in Spaces, NEW t \in Spaces, NEW p \in AllPages, NEW q \in AllPages,
                    pte'[s][p].frame = pte'[t][q].frame, pte'[s][p].frame # NoFrame
             PROVE  p = q
  BY SMTT(30) DEF OnePlace
<1>1. PICK u \in Spaces : pte'[s][p].frame = pte[u][p].frame
  BY Zenon
<1>2. PICK v \in Spaces : pte'[t][q].frame = pte[v][q].frame
  BY Zenon
<1>3. /\ {u, v} \subseteq Spaces /\ {p, q} \subseteq AllPages /\ OnePlace
      /\ pte[u][p].frame = pte[v][q].frame /\ pte[u][p].frame # NoFrame
  BY <1>1, <1>2, Zenon
<1> QED BY ONLY <1>3 DEF OnePlace

\* fork(): the copy gets every frame of the active space, read-only on both sides but for
\* shared memory, and every frame that it gets counts one reference more.
LEMMA CloneKeepsFrames ==
  ASSUME PagingAssumption, FramesInv, NEW a \in live, NEW c \in Spaces \ live,
         live' = live \cup {c}, free' = free,
         pte' = [pte EXCEPT ![a] = [p \in AllPages |-> Cloned(pte[a][p])],
                            ![c] = [p \in AllPages |-> Cloned(pte[a][p])]],
         page_ref' = [f \in PageFrames |->
                        page_ref[f] + Cardinality({p \in AllPages : pte[a][p].frame = f})]
  PROVE  FramesInv'
<1>1. /\ live \subseteq Spaces /\ pte \in [Spaces -> [AllPages -> Entries]]
      /\ page_ref \in [PageFrames -> Nat] /\ free \in SUBSET PageFrames
      /\ \A g \in free : page_ref[g] = 0
      /\ EntriesSound /\ OnePlace /\ PageRefsExact /\ WritableIsPrivate
  BY Zenon DEF FramesInv
<1>2. \A p \in AllPages :
        /\ Cloned(pte[a][p]) \in Entries
        /\ Cloned(pte[a][p]).frame = pte[a][p].frame
        /\ Cloned(pte[a][p]).shared = pte[a][p].shared
        /\ Cloned(pte[a][p]).rw <=> pte[a][p].rw /\ pte[a][p].shared
        /\ Cloned(pte[a][p]) = Absent <=> pte[a][p] = Absent
  <2> SUFFICES ASSUME NEW p \in AllPages
               PROVE  /\ Cloned(pte[a][p]) \in Entries
                      /\ Cloned(pte[a][p]).frame = pte[a][p].frame
                      /\ Cloned(pte[a][p]).shared = pte[a][p].shared
                      /\ Cloned(pte[a][p]).rw <=> pte[a][p].rw /\ pte[a][p].shared
                      /\ Cloned(pte[a][p]) = Absent <=> pte[a][p] = Absent
    BY Zenon
  <2>1. PICK e \in Entries : e = pte[a][p]
    BY <1>1, Zenon
  <2>2. (e.frame = NoFrame => e = Absent) /\ (e.shared => e.rw)
    BY <1>1, <2>1, Zenon DEF EntriesSound
  <2>3. CASE e = Absent \/ e.shared
    BY <2>1, <2>2, <2>3 DEF Cloned, Absent
  <2>4. CASE e # Absent /\ ~e.shared
    BY <2>1, <2>2, <2>4, Zenon DEF Cloned, Absent, Entries
  <2> QED BY <2>3, <2>4, Zenon
<1>3. /\ pte' \in [Spaces -> [AllPages -> Entries]]
      /\ \A t \in {a, c}, q \in AllPages : pte'[t][q] = Cloned(pte[a][q])
      /\ \A t \in Spaces \ {a, c}, q \in AllPages : pte'[t][q] = pte[t][q]
  BY <1>1, <1>2, Zenon
<1>4. \A g \in PageFrames :
        /\ page_ref'[g] \in Nat
        /\ \A p \in AllPages : pte[a][p].frame = g => page_ref'[g] = page_ref[g] + 1
        /\ (\A p \in AllPages : pte[a][p].frame # g) => page_ref'[g] = page_ref[g]
  <2> SUFFICES ASSUME NEW g \in PageFrames
               PROVE  /\ page_ref'[g] \in Nat
                      /\ \A p \in AllPages : pte[a][p].frame = g => page_ref'[g] = page_ref[g] + 1
                      /\ (\A p \in AllPages : pte[a][p].frame # g) => page_ref'[g] = page_ref[g]
    BY Zenon
  <2> DEFINE P == {p \in AllPages : pte[a][p].frame = g}
  <2>1. page_ref'[g] = page_ref[g] + Cardinality(P) /\ page_ref[g] \in Nat
    BY <1>1, Zenon
  <2>2. ASSUME NEW p \in AllPages, pte[a][p].frame = g
        PROVE  Cardinality(P) = 1
    <3>1. P = {p}
      BY <1>1, <2>2 DEF OnePlace, PagingAssumption
    <3> QED BY <3>1, FS_Singleton, Zenon
  <2>3. ASSUME \A p \in AllPages : pte[a][p].frame # g
        PROVE  Cardinality(P) = 0
    <3>1. P = {}
      BY <2>3, Zenon
    <3> QED BY <3>1, FS_EmptySet, Zenon
  <2> HIDE DEF P
  <2> QED BY <2>1, <2>2, <2>3
<1>5. EntriesSound'
  <2> SUFFICES ASSUME NEW t \in Spaces, NEW q \in AllPages
               PROVE  /\ pte'[t][q].frame = NoFrame => pte'[t][q] = Absent
                      /\ pte'[t][q].shared <=> q = Shm /\ pte'[t][q] # Absent
                      /\ pte'[t][q].shared => pte'[t][q].rw
                      /\ t \notin live' => pte'[t][q] = Absent
    BY Zenon DEF EntriesSound
  <2>1. CASE t \in {a, c}
    BY <1>1, <1>2, <1>3, <2>1 DEF EntriesSound
  <2>2. CASE t \notin {a, c}
    BY <1>1, <1>3, <2>2, Zenon DEF EntriesSound
  <2> QED BY <2>1, <2>2, Zenon
<1>6. /\ \A q \in AllPages : pte'[c][q].frame = pte[a][q].frame
      /\ \A t \in Spaces \ {c}, q \in AllPages : pte'[t][q].frame = pte[t][q].frame
  BY <1>2, <1>3
<1>7. OnePlace'
  <2>1. \A t \in Spaces, q \in AllPages : \E u \in Spaces : pte'[t][q].frame = pte[u][q].frame
    BY <1>1, <1>6, ZenonT(30)
  <2> QED BY <1>1, <2>1, SameAddress, Zenon
<1>8. WritableIsPrivate'
  <2> SUFFICES ASSUME NEW t \in live', NEW q \in AllPages,
                      pte'[t][q].rw, ~pte'[t][q].shared
               PROVE  page_ref'[pte'[t][q].frame] = 0
    BY Zenon DEF WritableIsPrivate
  <2>1. t \notin {a, c}
    BY <1>2, <1>3, ZenonT(30)
  <2>2. t \in live /\ t \in Spaces /\ pte'[t][q] = pte[t][q] /\ pte[t][q].rw /\ ~pte[t][q].shared
    BY <1>1, <1>3, <2>1, Zenon
  <2>3. PICK g \in PageFrames : g = pte[t][q].frame /\ page_ref[g] = 0
    BY <1>1, <2>2 DEF WritableIsPrivate, EntriesSound, Entries, Absent
  <2>4. \A p \in AllPages : pte[a][p].frame # g
    BY <1>1, <2>1, <2>2, <2>3, OneMapping
  <2> QED BY <1>4, <2>2, <2>3, <2>4, Zenon
<1>9. PageRefsExact'
  <2> SUFFICES ASSUME NEW g \in PageFrames
               PROVE  Cardinality(Mappings(g)') = IF g \in free THEN 0 ELSE page_ref'[g] + 1
    BY Zenon DEF PageRefsExact
  <2>0. page_ref[g] \in Nat /\ g # NoFrame
    BY <1>1, Zenon DEF PagingAssumption
  <2>1. ASSUME NEW p \in AllPages, pte[a][p].frame = g
        PROVE  Cardinality(Mappings(g)') = IF g \in free THEN 0 ELSE page_ref'[g] + 1
    <3>1. g \notin free
      BY <1>1, <2>1, FreeHasNoMapping, Zenon
    <3>2. Cardinality(Mappings(g)) = page_ref[g] + 1
      BY <1>1, <3>1, Zenon DEF PageRefsExact
    <3>3. ~Has(c, p, g)
      BY Zenon DEF Has
    <3>4. \A q \in AllPages : pte[a][q].frame = g <=> q = p
      BY <1>1, <2>0, <2>1, Zenon DEF OnePlace
    <3>5. \A t \in Spaces, q \in AllPages : Has(t, q, g)' <=> Has(t, q, g) \/ (t = c /\ q = p)
      <4> SUFFICES ASSUME NEW t \in Spaces, NEW q \in AllPages
                   PROVE  Has(t, q, g)' <=> Has(t, q, g) \/ (t = c /\ q = p)
        BY Zenon
      <4>1. CASE t = c
        BY <1>6, <3>4, <4>1, ZenonT(30) DEF Has
      <4>2. CASE t # c
        BY <1>6, <4>2, Zenon DEF Has
      <4> QED BY <4>1, <4>2, Zenon
    <3>6. Cardinality(Mappings(g)') = Cardinality(Mappings(g)) + 1
      BY <1>1, <3>3, <3>5, OneMore, Zenon
    <3>7. page_ref'[g] = page_ref[g] + 1
      BY <1>4, <2>1, Zenon
    <3> QED BY ONLY <2>0, <3>1, <3>2, <3>6, <3>7, Zenon
  <2>2. ASSUME \A p \in AllPages : pte[a][p].frame # g
        PROVE  Cardinality(Mappings(g)') = IF g \in free THEN 0 ELSE page_ref'[g] + 1
    <3>1. \A t \in Spaces, q \in AllPages : Has(t, q, g)' <=> Has(t, q, g)
      <4> SUFFICES ASSUME NEW t \in Spaces, NEW q \in AllPages
                   PROVE  Has(t, q, g)' <=> Has(t, q, g)
        BY Zenon
      <4>1. CASE t = c
        BY <1>6, <2>2, <4>1, Zenon DEF Has
      <4>2. CASE t # c
        BY <1>6, <4>2, Zenon DEF Has
      <4> QED BY <4>1, <4>2, Zenon
    <3>2. Mappings(g)' = Mappings(g)
      BY <1>1, <3>1, SameCount, Zenon
    <3>3. page_ref'[g] = page_ref[g]
      BY <1>4, <2>2, Zenon
    <3> QED BY <1>1, <3>2, <3>3, Zenon DEF PageRefsExact
  <2> QED BY <2>1, <2>2, Zenon
<1>10. page_ref' \in [PageFrames -> Nat]
  BY <1>4, Zenon
<1>11. \A g \in free' : page_ref'[g] = 0
  BY <1>1, <1>4, FreeHasNoMapping, Zenon
<1> QED BY <1>1, <1>3, <1>5, <1>7, <1>8, <1>9, <1>10, <1>11, Zenon DEF FramesInv

\* A write to a page that others have as well goes to a frame of its own ...
LEMMA CopyKeepsFrames ==
  ASSUME PagingAssumption, FramesInv, NEW s \in live, NEW p \in AllPages, NEW f, NEW g \in free,
         f = pte[s][p].frame, pte[s][p] # Absent, ~pte[s][p].rw, page_ref[f] > 0,
         pte' = [pte EXCEPT ![s][p] = [pte[s][p] EXCEPT !.frame = g, !.rw = TRUE]],
         page_ref' = [page_ref EXCEPT ![f] = page_ref[f] - 1], free' = free \ {g}, live' = live
  PROVE  FramesInv'
<1>1. /\ live \subseteq Spaces /\ pte \in [Spaces -> [AllPages -> Entries]]
      /\ page_ref \in [PageFrames -> Nat] /\ free \in SUBSET PageFrames
      /\ \A h \in free : page_ref[h] = 0
      /\ EntriesSound /\ OnePlace /\ PageRefsExact /\ WritableIsPrivate
  BY Zenon DEF FramesInv
<1>2. f \in PageFrames /\ f # NoFrame /\ f \notin free /\ g # f /\ g # NoFrame /\ g \in PageFrames
  <2>1. f # NoFrame
    BY <1>1, Zenon DEF EntriesSound
  <2>2. f \in PageFrames
    BY <1>1, <2>1 DEF Entries
  <2> QED BY <1>1, <2>1, <2>2, FreeHasNoMapping, Zenon DEF PagingAssumption
<1>3. ~pte[s][p].shared /\ p # Shm
  BY <1>1, Zenon DEF EntriesSound
<1>4. PICK e : e = [pte[s][p] EXCEPT !.frame = g, !.rw = TRUE]
  BY Zenon
<1>5. e \in Entries /\ e.frame = g /\ e.rw = TRUE /\ e.shared = FALSE /\ e # Absent
  <2>1. pte[s][p] \in Entries
    BY <1>1, Zenon
  <2>2. e \in Entries /\ e.frame = g /\ e.rw = TRUE /\ e.shared = pte[s][p].shared
    BY ONLY <1>1, <1>2, <1>4, <2>1, Zenon DEF Entries
  <2> QED BY <1>2, <1>3, <2>1, <2>2 DEF Absent, Entries
<1>6. /\ pte' \in [Spaces -> [AllPages -> Entries]]
      /\ pte'[s][p] = e
      /\ \A t \in Spaces, q \in AllPages : (t # s \/ q # p) => pte'[t][q] = pte[t][q]
  BY <1>1, <1>4, <1>5, Zenon
<1>7. /\ page_ref' \in [PageFrames -> Nat] /\ page_ref'[f] = page_ref[f] - 1
      /\ \A h \in PageFrames \ {f} : page_ref'[h] = page_ref[h]
  BY <1>1, <1>2
<1>8. EntriesSound'
  <2> SUFFICES ASSUME NEW t \in Spaces, NEW q \in AllPages
               PROVE  /\ pte'[t][q].frame = NoFrame => pte'[t][q] = Absent
                      /\ pte'[t][q].shared <=> q = Shm /\ pte'[t][q] # Absent
                      /\ pte'[t][q].shared => pte'[t][q].rw
                      /\ t \notin live' => pte'[t][q] = Absent
    BY Zenon DEF EntriesSound
  <2>1. CASE t = s /\ q = p
    BY <1>1, <1>2, <1>3, <1>5, <1>6, <2>1, Zenon
  <2>2. CASE t # s \/ q # p
    BY <1>1, <1>6, <2>2 DEF EntriesSound
  <2> QED BY <2>1, <2>2, Zenon
<1>9. OnePlace'
  <2>1. \A t \in Spaces, q \in AllPages : pte[t][q].frame # g
    BY FreeHasNoMapping, Zenon
  <2> QED BY <1>1, <1>5, <1>6, <2>1 DEF OnePlace
<1>10. WritableIsPrivate'
  <2> SUFFICES ASSUME NEW t \in live, NEW q \in AllPages,
                      pte'[t][q].rw, ~pte'[t][q].shared
               PROVE  page_ref'[pte'[t][q].frame] = 0
    BY Zenon DEF WritableIsPrivate
  <2>1. CASE t = s /\ q = p
    BY <1>1, <1>2, <1>5, <1>6, <1>7, <2>1
  <2>2. CASE t # s \/ q # p
    <3>1. t \in Spaces /\ pte'[t][q] = pte[t][q] /\ pte[t][q].rw /\ ~pte[t][q].shared
      BY <1>1, <1>6, <2>2, Zenon
    <3>2. PICK h \in PageFrames : h = pte[t][q].frame /\ page_ref[h] = 0
      BY <1>1, <3>1 DEF WritableIsPrivate, EntriesSound, Entries, Absent
    <3>3. h # f
      BY <3>2
    <3> QED BY <1>7, <3>1, <3>2, <3>3, Zenon
  <2> QED BY <2>1, <2>2, Zenon
<1>11. PageRefsExact'
  <2> SUFFICES ASSUME NEW h \in PageFrames
               PROVE  Cardinality(Mappings(h)') = IF h \in free' THEN 0 ELSE page_ref'[h] + 1
    BY Zenon DEF PageRefsExact
  <2>0. page_ref[h] \in Nat /\ h # NoFrame
    BY <1>1, Zenon DEF PagingAssumption
  <2>1. CASE h = f
    <3>1. Cardinality(Mappings(h)) = page_ref[h] + 1
      BY <1>1, <1>2, <2>1, Zenon DEF PageRefsExact
    <3>2. Has(s, p, h)
      BY <2>1, Zenon DEF Has
    <3>3. \A t \in Spaces, q \in AllPages : Has(t, q, h)' <=> Has(t, q, h) /\ ~(t = s /\ q = p)
      BY <1>2, <1>5, <1>6, <2>1, Zenon DEF Has
    <3>4. Cardinality(Mappings(h)') = Cardinality(Mappings(h)) - 1
      BY <1>1, <3>2, <3>3, OneLess
    <3>5. h \notin free' /\ page_ref'[h] = page_ref[h] - 1
      BY <1>2, <1>7, <2>1, Zenon
    <3> QED BY ONLY <2>0, <3>1, <3>4, <3>5
  <2>2. CASE h = g
    <3>1. Cardinality(Mappings(h)) = 0
      BY <1>1, <2>2, Zenon DEF PageRefsExact
    <3>2. ~Has(s, p, h)
      BY <1>2, <2>2, Zenon DEF Has
    <3>3. \A t \in Spaces, q \in AllPages : Has(t, q, h)' <=> Has(t, q, h) \/ (t = s /\ q = p)
      BY <1>2, <1>5, <1>6, <2>2, Zenon DEF Has
    <3>4. Cardinality(Mappings(h)') = Cardinality(Mappings(h)) + 1
      BY <1>1, <3>2, <3>3, OneMore, Zenon
    <3>5. h \notin free' /\ page_ref'[h] = 0
      BY <1>1, <1>2, <1>7, <2>2, Zenon
    <3> QED BY ONLY <3>1, <3>4, <3>5, Zenon
  <2>3. CASE h # f /\ h # g
    <3>1. \A t \in Spaces, q \in AllPages : Has(t, q, h)' <=> Has(t, q, h)
      BY <1>5, <1>6, <2>3, Zenon DEF Has
    <3>2. Mappings(h)' = Mappings(h)
      BY <1>1, <3>1, SameCount, Zenon
    <3>3. page_ref'[h] = page_ref[h] /\ (h \in free' <=> h \in free)
      BY <1>7, <2>3, Zenon
    <3> QED BY <1>1, <3>2, <3>3, Zenon DEF PageRefsExact
  <2> QED BY <2>1, <2>2, <2>3, Zenon
<1>12. free' \in SUBSET PageFrames /\ \A h \in free' : page_ref'[h] = 0
  BY <1>1, <1>2, <1>7, Zenon
<1> QED BY <1>1, <1>6, <1>7, <1>8, <1>9, <1>10, <1>11, <1>12, Zenon DEF FramesInv

\* ... and one to a page that nobody else has makes it writable again.
LEMMA OwnKeepsFrames ==
  ASSUME PagingAssumption, FramesInv, NEW s \in live, NEW p \in AllPages,
         pte[s][p] # Absent, ~pte[s][p].rw, page_ref[pte[s][p].frame] = 0,
         pte' = [pte EXCEPT ![s][p] = [pte[s][p] EXCEPT !.rw = TRUE]],
         page_ref' = page_ref, free' = free, live' = live
  PROVE  FramesInv'
<1>1. /\ live \subseteq Spaces /\ pte \in [Spaces -> [AllPages -> Entries]]
      /\ page_ref \in [PageFrames -> Nat] /\ free \in SUBSET PageFrames
      /\ \A h \in free : page_ref[h] = 0
      /\ EntriesSound /\ OnePlace /\ PageRefsExact /\ WritableIsPrivate
  BY Zenon DEF FramesInv
<1>2. pte[s][p] \in Entries /\ pte[s][p].frame # NoFrame
  BY <1>1, Zenon DEF EntriesSound
<1>3. ~pte[s][p].shared /\ p # Shm
  BY <1>1, Zenon DEF EntriesSound
<1>4. PICK e : e = [pte[s][p] EXCEPT !.rw = TRUE]
  BY Zenon
<1>5. e \in Entries /\ e.frame = pte[s][p].frame /\ e.rw = TRUE /\ e.shared = FALSE /\ e # Absent
  <2>1. e \in Entries /\ e.frame = pte[s][p].frame /\ e.rw = TRUE /\ e.shared = pte[s][p].shared
    BY ONLY <1>2, <1>4, Zenon DEF Entries
  <2> QED BY <1>2, <1>3, <2>1 DEF Absent, Entries
<1>6. /\ pte' \in [Spaces -> [AllPages -> Entries]]
      /\ pte'[s][p] = e
      /\ \A t \in Spaces, q \in AllPages : (t # s \/ q # p) => pte'[t][q] = pte[t][q]
  BY <1>1, <1>4, <1>5, Zenon
<1>7. \A t \in Spaces, q \in AllPages : pte'[t][q].frame = pte[t][q].frame
  BY <1>5, <1>6, Zenon
<1>8. EntriesSound'
  <2> SUFFICES ASSUME NEW t \in Spaces, NEW q \in AllPages
               PROVE  /\ pte'[t][q].frame = NoFrame => pte'[t][q] = Absent
                      /\ pte'[t][q].shared <=> q = Shm /\ pte'[t][q] # Absent
                      /\ pte'[t][q].shared => pte'[t][q].rw
                      /\ t \notin live' => pte'[t][q] = Absent
    BY Zenon DEF EntriesSound
  <2>1. CASE t = s /\ q = p
    BY <1>1, <1>2, <1>3, <1>5, <1>6, <2>1, Zenon
  <2>2. CASE t # s \/ q # p
    BY <1>1, <1>6, <2>2 DEF EntriesSound
  <2> QED BY <2>1, <2>2, Zenon
<1>9. OnePlace'
  BY <1>1, <1>7 DEF OnePlace
<1>10. WritableIsPrivate'
  BY <1>1, <1>5, <1>6 DEF WritableIsPrivate
<1>11. PageRefsExact'
  <2>1. \A h \in PageFrames : Mappings(h)' = Mappings(h)
    BY <1>1, <1>7, SameCount, Zenon DEF Has
  <2> QED BY <1>1, <2>1, Zenon DEF PageRefsExact
<1> QED BY <1>1, <1>6, <1>8, <1>9, <1>10, <1>11, Zenon DEF FramesInv

\* A new space has nothing mapped.
LEMMA CreateKeepsFrames ==
  ASSUME PagingAssumption, FramesInv, NEW s \in Spaces \ live, live' = live \cup {s},
         pte' = pte, page_ref' = page_ref, free' = free
  PROVE  FramesInv'
<1>1. /\ live \subseteq Spaces /\ EntriesSound /\ OnePlace /\ PageRefsExact /\ WritableIsPrivate
  BY Zenon DEF FramesInv
<1>2. \A p \in AllPages : pte[s][p] = Absent
  BY <1>1, Zenon DEF EntriesSound
<1>3. PageRefsExact'
  <2>1. \A h \in PageFrames : Mappings(h)' = Mappings(h)
    BY <1>1, <1>2, SameCount DEF Has, Absent, PagingAssumption
  <2> QED BY <1>1, <2>1, Zenon DEF PageRefsExact
<1>4. WritableIsPrivate'
  BY <1>1, <1>2 DEF WritableIsPrivate, Absent
<1>5. EntriesSound' /\ OnePlace'
  BY <1>1 DEF EntriesSound, OnePlace
<1> QED BY <1>1, <1>3, <1>4, <1>5, Zenon DEF FramesInv

\* The owners are known from the counts.
LEMMA OwnersFromCounts ==
  ASSUME PagingAssumption, FramesInv
  PROVE  OwnersKnown
<1>1. \A f \in free, s \in Spaces, p \in AllPages : pte[s][p].frame # f
  BY FreeHasNoMapping, Zenon
<1>2. \A s, t \in Spaces, p, q \in AllPages :
        /\ pte[s][p].frame = pte[t][q].frame /\ pte[s][p].frame \in PageFrames
        /\ page_ref[pte[s][p].frame] = 0
        => s = t /\ p = q
  BY OneMapping
<1> QED BY <1>1, <1>2, Zenon DEF OwnersKnown

\* Nothing changes for the frames unless an entry or a count does.
LEMMA SameFrames ==
  ASSUME FramesInv, live' = live, pte' = pte, page_ref' = page_ref, free' = free
  PROVE  FramesInv'
<1>1. EntriesSound' /\ OnePlace' /\ WritableIsPrivate'
  BY DEF FramesInv, EntriesSound, OnePlace, WritableIsPrivate
<1>2. PageRefsExact'
  BY Zenon DEF FramesInv, PageRefsExact, Mappings
<1> QED BY <1>1, <1>2, Zenon DEF FramesInv

\* The loader takes a frame for a new page, and for a page that is there changes nothing.
LEMMA LoadKeepsFrames ==
  ASSUME PagingAssumption, PagingInv, NEW s \in Spaces, NEW p \in Pages, NEW v \in Vals,
         Load(s, p, v)
  PROVE  FramesInv'
<1>1. FramesInv /\ s \in live /\ p \in AllPages /\ p # Shm
  BY Zenon DEF PagingInv, PagingTypeOK, Load, AllPages, PagingAssumption
<1>2. live' = live /\ page_ref' = page_ref
  BY Zenon DEF Load
<1>3. CASE pte[s][p] = Absent
  <2>1. PICK f \in free : pte' = [pte EXCEPT ![s][p] = Entry(f, TRUE, FALSE)] /\ free' = free \ {f}
    BY <1>3, Zenon DEF Load
  <2> QED BY <1>1, <1>2, <1>3, <2>1, MapKeepsFrames, Zenon
<1>4. CASE pte[s][p] # Absent
  <2>1. pte' = pte /\ free' = free
    BY <1>4, Zenon DEF Load
  <2> QED BY <1>1, <1>2, <2>1, SameFrames, Zenon
<1> QED BY <1>3, <1>4, Zenon

\* A shared page takes a frame.
LEMMA ShareKeepsFrames ==
  ASSUME PagingAssumption, PagingInv, Share
  PROVE  FramesInv'
<1>1. PICK a \in live : a = active
  BY Zenon DEF PagingInv, PagingTypeOK, Share
<1>2. /\ FramesInv /\ Shm \in AllPages /\ pte[a][Shm] = Absent
      /\ live' = live /\ page_ref' = page_ref
  BY <1>1, Zenon DEF PagingInv, Share, AllPages
<1>3. PICK f \in free : pte' = [pte EXCEPT ![a][Shm] = Entry(f, TRUE, TRUE)] /\ free' = free \ {f}
  BY <1>1, Zenon DEF Share
<1> QED BY <1>1, <1>2, <1>3, MapKeepsFrames, Zenon

\* An unmapped page gives its frame back.
LEMMA UnmapActionKeepsFrames ==
  ASSUME PagingAssumption, PagingInv, NEW p \in AllPages, Unmap(p)
  PROVE  FramesInv'
<1>1. PICK a \in live : a = active
  BY Zenon DEF PagingInv, PagingTypeOK, Unmap
<1>2. FramesInv /\ live' = live
  BY Zenon DEF PagingInv, Unmap
<1>3. /\ pte[a][p] # Absent /\ pte' = [pte EXCEPT ![a][p] = Absent]
      /\ page_ref' = RefAfter({pte[a][p]}) /\ free' = FreeAfter({pte[a][p]})
  BY <1>1, Zenon DEF Unmap
<1> QED BY <1>2, <1>3, UnmapKeepsFrames, Zenon

\* A space that ends gives back the frames of all its pages.
LEMMA DestroyActionKeepsFrames ==
  ASSUME PagingAssumption, PagingInv, NEW s \in Spaces, Destroy(s)
  PROVE  FramesInv'
<1>1. FramesInv /\ s \in live /\ live' = live \ {s}
  BY Zenon DEF PagingInv, Destroy
<1>2. /\ pte' = [pte EXCEPT ![s] = [p \in AllPages |-> Absent]]
      /\ page_ref' = RefAfter({pte[s][p] : p \in AllPages})
      /\ free' = FreeAfter({pte[s][p] : p \in AllPages})
  BY Zenon DEF Destroy
<1> QED BY <1>1, <1>2, DestroyKeepsFrames, Zenon

\* A fork gives each frame of the parent a second owner.
LEMMA CloneActionKeepsFrames ==
  ASSUME PagingAssumption, PagingInv, NEW c \in Spaces, Clone(c)
  PROVE  FramesInv'
<1>1. PICK a \in live : a = active
  BY Zenon DEF PagingInv, PagingTypeOK, Clone
<1>2. FramesInv /\ c \in Spaces \ live /\ live' = live \cup {c} /\ free' = free
  BY Zenon DEF PagingInv, Clone
<1>3. /\ pte' = [pte EXCEPT ![a] = [p \in AllPages |-> Cloned(pte[a][p])],
                            ![c] = [p \in AllPages |-> Cloned(pte[a][p])]]
      /\ page_ref' = [f \in PageFrames |->
                        page_ref[f] + Cardinality({p \in AllPages : pte[a][p].frame = f})]
  BY <1>1, Zenon DEF Clone
<1> QED BY <1>2, <1>3, CloneKeepsFrames, Zenon

\* A page that the program touches for the first time takes a frame.
LEMMA DemandMapKeepsFrames ==
  ASSUME PagingAssumption, PagingInv, active # NoSpace, NEW p \in Pages, NEW f \in free, NEW v,
         DemandMap(p, f, v), live' = live
  PROVE  FramesInv'
<1>1. PICK a \in live : a = active
  BY Zenon DEF PagingInv, PagingTypeOK
<1>2. FramesInv /\ p \in AllPages /\ p # Shm
  BY Zenon DEF PagingInv, AllPages, PagingAssumption
<1>3. /\ pte[a][p] = Absent /\ pte' = [pte EXCEPT ![a][p] = Entry(f, TRUE, FALSE)]
      /\ free' = free \ {f} /\ page_ref' = page_ref
  BY <1>1, Zenon DEF DemandMap
<1> QED BY <1>2, <1>3, MapKeepsFrames, Zenon

\* paging_try_cow() takes a frame for the copy, or makes the sole owner's page writable.
LEMMA TryCowKeepsFrames ==
  ASSUME PagingAssumption, PagingInv, active # NoSpace, NEW p \in AllPages, NEW v,
         TryCow(p, v), live' = live
  PROVE  FramesInv'
<1>1. PICK a \in live : a = active
  BY Zenon DEF PagingInv, PagingTypeOK
<1>2. FramesInv /\ live \subseteq Spaces /\ pte \in [Spaces -> [AllPages -> Entries]]
      /\ page_ref \in [PageFrames -> Nat]
  BY Zenon DEF PagingInv, PagingTypeOK
<1>3. pte[a][p] # Absent /\ ~pte[a][p].rw
  BY <1>1, Zenon DEF TryCow
<1>4. PICK f \in PageFrames : f = pte[a][p].frame
  BY <1>2, <1>3, OwnersFromCounts, EntryFacts, Zenon
<1>5. CASE MustCopy(f)
  <2>1. PICK g \in free :
          /\ free' = free \ {g} /\ page_ref' = [page_ref EXCEPT ![f] = page_ref[f] - 1]
          /\ pte' = [pte EXCEPT ![a][p] = [pte[a][p] EXCEPT !.frame = g, !.rw = TRUE]]
    BY <1>1, <1>2, <1>4, <1>5, Zenon DEF TryCow
  <2>2. page_ref[f] > 0
    BY <1>5, Zenon DEF MustCopy
  <2> QED BY <1>2, <1>3, <1>4, <2>1, <2>2, CopyKeepsFrames, Zenon
<1>6. CASE ~MustCopy(f)
  <2>1. free' = free /\ page_ref' = page_ref /\ pte' = [pte EXCEPT ![a][p].rw = TRUE]
    BY <1>1, <1>4, <1>6, Zenon DEF TryCow
  <2>2. page_ref[f] = 0
    BY <1>2, <1>6 DEF MustCopy
  <2>3. pte' = [pte EXCEPT ![a][p] = [pte[a][p] EXCEPT !.rw = TRUE]]
    BY <1>2, <2>1, Zenon
  <2> QED BY <1>2, <1>3, <1>4, <2>1, <2>2, <2>3, OwnKeepsFrames, ZenonT(30)
<1> QED BY <1>5, <1>6, Zenon

\* An access keeps the counts, with a fault or without.
LEMMA AccessKeepsFrames ==
  ASSUME PagingAssumption, PagingInv, NEW p \in AllPages, NEW v \in Vals, Read(p) \/ Write(p, v)
  PROVE  FramesInv'
<1>1. FramesInv /\ active # NoSpace /\ live' = live
  BY Zenon DEF PagingInv, Read, Write
<1>2. CASE Hit(p, Translation(p))
  BY <1>1, <1>2, SameFrames, Zenon DEF Hit
<1>3. ASSUME p \in Pages, NEW f \in free, NEW w, DemandMap(p, f, w) PROVE FramesInv'
  BY <1>1, <1>3, DemandMapKeepsFrames, Zenon
<1>4. CASE TryCow(p, v)
  BY <1>1, <1>4, TryCowKeepsFrames, Zenon
<1> QED BY <1>2, <1>3, <1>4, Zenon DEF Read, Write

\* The inductive invariant of the address spaces holds in every reachable state.
LEMMA PagingInvariant ==
  ASSUME PagingAssumption
  PROVE  PagingSpec => []PagingInv
<1>1. PagingInit => PagingInv
  <2> SUFFICES ASSUME PagingInit PROVE PagingInv
    BY Zenon
  <2>1. Absent \in Entries /\ Zero \in Vals
    BY Zenon DEF Absent, Entries, PagingAssumption
  <2>2. PagingTypeOK
    BY <2>1, Zenon DEF PagingInit, PagingTypeOK
  <2>3. \A s \in Spaces, p \in AllPages : pte[s][p] = Absent
    BY Zenon DEF PagingInit
  <2>4. EntriesSound /\ OnePlace /\ WritableIsPrivate
    BY <2>3, Zenon DEF EntriesSound, OnePlace, WritableIsPrivate, Absent, PagingInit
  <2>5. PageRefsExact
    <3>1. live = {} /\ free = PageFrames
      BY Zenon DEF PagingInit
    <3>2. \A f \in PageFrames : Mappings(f) = {}
      BY <3>1, Zenon DEF Mappings
    <3> QED BY <3>1, <3>2, FS_EmptySet, Zenon DEF PageRefsExact
  <2>6. FramesInv
    BY <2>2, <2>4, <2>5, Zenon DEF FramesInv, PagingTypeOK, PagingInit
  <2>7. LoadingApart /\ UnusedBlank /\ PeersExact /\ TlbCoherent /\ OwnWrites
    BY Zenon DEF PagingInit, LoadingApart, UnusedBlank, PeersExact, TlbCoherent, OwnWrites
  <2> QED BY <2>2, <2>6, <2>7, Zenon DEF PagingInv
<1>2. PagingInv /\ [PagingNext]_pagingVars => PagingInv'
  <2> SUFFICES ASSUME PagingInv, [PagingNext]_pagingVars PROVE PagingInv'
    BY Zenon
  <2>1. FramesInv /\ OwnersKnown
    BY OwnersFromCounts, Zenon DEF PagingInv
  <2>2. CASE UNCHANGED pagingVars
    <3>1. FramesInv'
      BY <2>1, <2>2, SameFrames, Zenon DEF pagingVars
    <3>2. PagingTypeOK'
      BY <2>2, Zenon DEF pagingVars, PagingInv, PagingTypeOK
    <3>3. LoadingApart' /\ UnusedBlank'
      BY <2>2, Zenon DEF pagingVars, PagingInv, LoadingApart, UnusedBlank
    <3>4. PeersExact' /\ TlbCoherent' /\ OwnWrites'
      BY <2>2, ZenonT(30) DEF pagingVars, PagingInv, PeersExact, TlbCoherent, OwnWrites
    <3> QED BY <3>1, <3>2, <3>3, <3>4, Zenon DEF PagingInv
  <2>3. ASSUME NEW s \in Spaces, Create(s) PROVE PagingInv'
    <3>1. FramesInv'
      BY <2>1, <2>3, CreateKeepsFrames, Zenon DEF Create
    <3> QED BY <2>1, <2>3, <3>1, CreateKeeps, Zenon
  <2>4. ASSUME NEW s \in Spaces, Clone(s) PROVE PagingInv'
    BY <2>1, <2>4, CloneActionKeepsFrames, CloneKeeps, Zenon
  <2>5. ASSUME NEW s \in Spaces, Destroy(s) PROVE PagingInv'
    BY <2>1, <2>5, DestroyActionKeepsFrames, DestroyKeeps, Zenon
  <2>6. ASSUME NEW s \in Spaces \cup {NoSpace}, Activate(s) PROVE PagingInv'
    <3>1. FramesInv'
      BY <2>1, <2>6, SameFrames, Zenon DEF Activate
    <3> QED BY <2>1, <2>6, <3>1, ActivateKeeps, Zenon
  <2>7. ASSUME NEW s \in Spaces, NEW p \in Pages, NEW v \in Vals, Load(s, p, v) PROVE PagingInv'
    BY <2>1, <2>7, LoadKeepsFrames, LoadKeeps, Zenon
  <2>8. CASE Share
    BY <2>1, <2>8, ShareKeepsFrames, ShareKeeps, Zenon
  <2>9. ASSUME NEW p \in AllPages, Unmap(p) PROVE PagingInv'
    BY <2>1, <2>9, UnmapActionKeepsFrames, UnmapKeeps, Zenon
  <2>10. ASSUME NEW p \in AllPages, Evict(p) PROVE PagingInv'
    <3>1. FramesInv'
      BY <2>1, <2>10, SameFrames, Zenon DEF Evict
    <3> QED BY <2>1, <2>10, <3>1, EvictKeeps, Zenon
  <2>11. ASSUME NEW p \in AllPages, Read(p) PROVE PagingInv'
    <3>1. FramesInv'
      BY <2>11, AccessKeepsFrames, Zenon DEF PagingAssumption
    <3> QED BY <2>1, <2>11, <3>1, ReadKeeps, Zenon
  <2>12. ASSUME NEW p \in AllPages, NEW v \in Vals, Write(p, v) PROVE PagingInv'
    BY <2>1, <2>12, AccessKeepsFrames, WriteKeeps, Zenon
  <2> QED BY <2>2, <2>3, <2>4, <2>5, <2>6, <2>7, <2>8, <2>9, <2>10, <2>11, <2>12, Zenon DEF PagingNext
<1> QED BY <1>1, <1>2, PTL DEF PagingSpec

\* For any number of processes, pages and frames, through forks, copies, unmaps, exits and
\* loads: the reference counts of paging.c are exact, so that no frame is freed under a
\* process and none is lost.
THEOREM FrameCountsExact ==
  ASSUME PagingAssumption
  PROVE  PagingSpec => [](PagingTypeOK /\ PageRefsExact)
<1>1. PagingInv => PagingTypeOK /\ PageRefsExact
  BY Zenon DEF PagingInv, FramesInv
<1> QED BY <1>1, PagingInvariant, PTL

\* A program finds on each page what it wrote there, whatever its relatives write after a
\* fork; the CPU holds no stale translation; and a page that is written without a fault has
\* no other owner.
THEOREM WritesIsolated ==
  ASSUME PagingAssumption
  PROVE  PagingSpec => []Isolation
<1>1. PagingInv => Isolation
  BY Zenon DEF PagingInv, FramesInv, Isolation
<1> QED BY <1>1, PagingInvariant, PTL
=============================================================================
