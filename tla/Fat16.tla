------------------------------- MODULE Fat16 -------------------------------
(***************************************************************************)
(* The FAT16 driver of fat16.c: a file allocation table, one directory (the *)
(* fixed root), and the small pool of nodes that stand for directory        *)
(* entries.  The image is in memory, so every operation is one step in a    *)
(* system call, which runs with interrupts disabled.  The kernel shell      *)
(* calls fat16.c with interrupts enabled: a program that gets in between is *)
(* not modelled.                                                            *)
(*                                                                         *)
(* A file is written with its own name as byte value, Zero is the zero      *)
(* byte, and offsets and sizes are those of a volume with a few clusters    *)
(* of a few bytes.  The volume starts out empty, as the embedded image is    *)
(* once its files are removed; subdirectories can be read but not created,  *)
(* and are left out.                                                        *)
(***************************************************************************)
EXTENDS Integers, FiniteSets, Sequences, FiniteSetsExt, SequencesExt

CONSTANTS
    ClusterCount,  \* usable clusters: 2..ClusterCount + 1
    ClusterSize,   \* fs.bytes_per_cluster
    RootEntries,   \* fs.root_entries
    PoolSize,      \* FAT16_NODE_POOL
    Names,         \* names of files
    Zero,          \* the zero byte, and the name in an entry never used
    Writes,        \* the <<offset, size>> pairs of write calls
    MaxRefs        \* bound: openings of one node

Clusters == 2..ClusterCount + 1
Free == 0
Eoc == ClusterCount + 2     \* FAT16_EOC_MARK
Entries == 1..RootEntries
Pool == 0..PoolSize - 1
NoEntry == 0

\* What the constants have to satisfy.
Fat16Assumption ==
    /\ ClusterCount \in Nat /\ ClusterSize \in Nat \ {0}
    /\ RootEntries \in Nat /\ PoolSize \in Nat \ {0} /\ MaxRefs \in Nat
    /\ Zero \notin Names /\ Writes \subseteq Nat \X Nat

VARIABLES
    fat,    \* the allocation table: Free, a next cluster, or Eoc
    bytes,  \* the data region, by cluster
    root,   \* the root directory
    pool,   \* fat16_node_pool: the entry a node stands for, impl and length
    refs,   \* fat16_node_refs
    next,   \* fat16_node_next
    want    \* ghost: what the file of an entry was made to hold

vars == <<fat, bytes, root, pool, refs, next, want>>

\* kind is "end" for 0x00, "deleted" for 0xE5, "file" otherwise.
DirEntry == [kind : {"end", "deleted", "file"}, name : Names \cup {Zero},
             first : {0} \cup Clusters, length : 0..ClusterCount * ClusterSize]
Node == [entry : {NoEntry} \cup Entries, impl : {0} \cup Clusters,
         length : 0..ClusterCount * ClusterSize]

Init ==
    /\ fat = [c \in Clusters |-> Free]
    /\ bytes = [c \in Clusters |-> [p \in 0..ClusterSize - 1 |-> Zero]]
    /\ root = [e \in Entries |->
                  [kind |-> "end", name |-> Zero, first |-> 0, length |-> 0]]
    /\ pool = [s \in Pool |-> [entry |-> NoEntry, impl |-> 0, length |-> 0]]
    /\ refs = [s \in Pool |-> 0] /\ next = 0
    /\ want = [e \in Entries |-> <<>>]

-----------------------------------------------------------------------------
(* Cluster chains *)

\* The clusters reached from first, in order; a chain with a cycle is cut short.
Chain(f, first) ==
    LET walk[n \in 0..ClusterCount + 1] ==
            IF n = 0 THEN <<>>
            ELSE LET chain == walk[n - 1]
                     c == IF chain = <<>> THEN first ELSE f[Last(chain)]
                 IN  IF c \in Clusters THEN Append(chain, c) ELSE chain
    IN  walk[ClusterCount + 1]

\* A walk of as many steps as there are clusters meets the end of the chain.
ChainValid(first) ==
    \/ first = 0
    \/ LET chain == Chain(fat, first) IN
          /\ Len(chain) \in 1..ClusterCount
          /\ fat[Last(chain)] = Eoc

\* fat16_alloc_cluster, k times: the lowest free clusters, as many as there are.
Allocated(k) ==
    LET free == SelectSeq([n \in 1..ClusterCount |-> n + 1], LAMBDA c : fat[c] = Free)
    IN  SubSeq(free, 1, Min({k, Len(free)}))

Zeroed(b, new) ==
    [c \in Clusters |-> IF c \in Range(new) THEN [p \in DOMAIN b[c] |-> Zero]
                        ELSE b[c]]

\* The table with chain linked in order and ended.
Linked(f, chain) ==
    [c \in Clusters |->
        IF c \notin Range(chain) THEN f[c]
        ELSE LET n == CHOOSE n \in DOMAIN chain : chain[n] = c
             IN  IF n = Len(chain) THEN Eoc ELSE chain[n + 1]]

\* What reading length bytes from the chain of first gives.
Contents(first, length) ==
    LET chain == Chain(fat, first)
        size == Min({length, Len(chain) * ClusterSize})
    IN  [p \in 1..size |->
            bytes[chain[(p - 1) \div ClusterSize + 1]][(p - 1) % ClusterSize]]

-----------------------------------------------------------------------------
(* The node pool *)

\* The scan of a directory stops at the first entry that was never used.
Live == {e \in Entries : /\ root[e].kind = "file"
                         /\ \A d \in 1..e : root[d].kind # "end"}
Matches(name) == {e \in Live : root[e].name = name}

Recyclable == {s \in Pool : refs[s] = 0}

\* The pool slots fat16_make_node may use for entry e: the one that has it, or
\* the first one behind the cursor that nobody holds; none if all are held.
NodeFor(e) ==
    LET has == {s \in Pool : pool[s].entry = e}
        after(s) == (s - next) % PoolSize
    IN  IF has # {} THEN has
        ELSE {s \in Recyclable : \A t \in Recyclable : after(s) <= after(t)}

\* fat16_make_node on slot s for entry e of directory r.
MakeNode(r, s, e) ==
    /\ pool' = [pool EXCEPT ![s] = [entry |-> e, impl |-> r[e].first,
                                    length |-> r[e].length]]
    /\ next' = IF pool[s].entry = e THEN next ELSE (s + 1) % PoolSize

\* A lookup that does not open the file, as by stat() or a failing open().
Lookup(name) ==
    /\ Matches(name) # {}
    /\ \E s \in NodeFor(Min(Matches(name))) : MakeNode(root, s, Min(Matches(name)))
    /\ UNCHANGED <<fat, bytes, root, refs, want>>

OpenFile(name) ==
    /\ Matches(name) # {}
    /\ \E s \in NodeFor(Min(Matches(name))) :
          /\ MakeNode(root, s, Min(Matches(name)))
          /\ refs[s] < MaxRefs
          /\ refs' = [refs EXCEPT ![s] = @ + 1]
    /\ UNCHANGED <<fat, bytes, root, want>>

CloseFile(s) ==
    /\ refs[s] > 0
    /\ refs' = [refs EXCEPT ![s] = @ - 1]
    /\ UNCHANGED <<fat, bytes, root, pool, next, want>>

\* fat16_vfs_finddir as fat16_vfs_create uses it: it also fails when every node
\* of the pool is held.
Found(name) == Matches(name) # {} /\ NodeFor(Min(Matches(name))) # {}

FreeEntries == {e \in Entries : root[e].kind # "file"}
Created(name) == [kind |-> "file", name |-> name, first |-> 0, length |-> 0]

\* fat16_vfs_create and what sys_create does with the node: it is opened, or,
\* when the descriptor table is full, the file is unlinked again.  When no node
\* is left, create reports a failure and the entry stays.
Create(name) ==
    /\ ~Found(name) /\ FreeEntries # {}
    /\ LET e == Min(FreeEntries)
           made == [root EXCEPT ![e] = Created(name)]
       IN  /\ \/ /\ NodeFor(e) = {}
                 /\ root' = made /\ UNCHANGED <<pool, next, refs>>
              \/ \E s \in NodeFor(e) :
                    /\ MakeNode(made, s, e)
                    /\ \/ root' = made /\ refs' = [refs EXCEPT ![s] = @ + 1]
                       \/ /\ root' = [made EXCEPT ![e].kind = "deleted"]
                          /\ UNCHANGED refs
           /\ want' = [want EXCEPT ![e] = <<>>]
    /\ UNCHANGED <<fat, bytes>>

\* Creating a name that exists only refreshes its node.
CreateExisting(name) == Found(name) /\ Lookup(name)

\* Faulty variant: an open file is unlinked.
EntryIsOpenNot(e) == FALSE
EntryIsOpen(e) == \E s \in Pool : pool[s].entry = e /\ refs[s] > 0

Unlink(name) ==
    /\ Matches(name) # {}
    /\ LET e == Min(Matches(name)) IN
          /\ ~EntryIsOpen(e) /\ ChainValid(root[e].first)
          /\ fat' = [c \in Clusters |->
                        IF c \in Range(Chain(fat, root[e].first)) THEN Free
                        ELSE fat[c]]
          /\ root' = [root EXCEPT ![e].kind = "deleted"]
          /\ want' = [want EXCEPT ![e] = <<>>]
    /\ UNCHANGED <<bytes, pool, refs, next>>

-----------------------------------------------------------------------------
(* Writing *)

Needed(offset, size) == (offset + size + ClusterSize - 1) \div ClusterSize

\* The bytes of the request that the chain has room for.
Written(offset, size, capacity) == Max({0, Min({size, capacity - offset})})

\* Faulty variant: clusters allocated by a write that stores nothing stay.
DetachedNot(f, chain, new) == Linked(f, chain \o new)
\* Detach and free exactly the clusters allocated by this call.
Detached(f, chain, new) == f

\* ghost: c with bytes offset + 1 .. offset + n set to b, the gap filled with Zero.
Overwritten(c, offset, n, b) ==
    [p \in 1..Max({Len(c), offset + n}) |->
        IF p \in offset + 1..offset + n THEN b
        ELSE IF p <= Len(c) THEN c[p] ELSE Zero]

\* fat16_vfs_write through an open node.
Write(s, offset, size) ==
    /\ refs[s] > 0 /\ size > 0 /\ offset \div ClusterSize < ClusterCount
    /\ LET e == pool[s].entry
           chain == Chain(fat, root[e].first)
           new == Allocated(Max({0, Needed(offset, size) - Len(chain)}))
           all == chain \o new
           n == Written(offset, size, Len(all) * ClusterSize)
           zeroed == Zeroed(bytes, new)
           end == Max({offset + n, root[e].length})
       IN  IF n = 0
           THEN /\ fat' = Detached(fat, chain, new)
                /\ bytes' = zeroed
                /\ UNCHANGED <<root, pool, want>>
           ELSE /\ fat' = Linked(fat, all)
                /\ bytes' = [c \in Clusters |-> [p \in DOMAIN bytes[c] |->
                      IF \E k \in DOMAIN all :
                            /\ all[k] = c
                            /\ (k - 1) * ClusterSize + p \in offset..offset + n - 1
                      THEN root[e].name ELSE zeroed[c][p]]]
                /\ root' = [root EXCEPT ![e].first = all[1], ![e].length = end]
                /\ pool' = [pool EXCEPT ![s].impl = all[1],
                               ![s].length = IF offset + n > root[e].length
                                             THEN offset + n ELSE @]
                /\ want' = [want EXCEPT
                               ![e] = Overwritten(@, offset, n, root[e].name)]
    /\ UNCHANGED <<refs, next>>

Next ==
    \/ \E name \in Names : \/ Lookup(name) \/ OpenFile(name) \/ Create(name)
                           \/ CreateExisting(name) \/ Unlink(name)
    \/ \E s \in Pool : CloseFile(s)
    \/ \E s \in Pool, w \in Writes : Write(s, w[1], w[2])

Spec == Init /\ [][Next]_vars

-----------------------------------------------------------------------------
(* Properties *)

\* Entries, nodes and the table are well formed; in particular no file claims
\* more bytes than the volume has.
TypeOK ==
    /\ fat \in [Clusters -> {Free, Eoc} \cup Clusters]
    /\ bytes \in [Clusters -> [0..ClusterSize - 1 -> Names \cup {Zero}]]
    /\ root \in [Entries -> DirEntry] /\ pool \in [Pool -> Node]
    /\ refs \in [Pool -> 0..MaxRefs] /\ next \in Pool

ChainOf(e) == Range(Chain(fat, root[e].first))
Files == {e \in Entries : root[e].kind = "file"}

\* The clusters in use are exactly those of the files' chains; no two files
\* share one, every chain ends, and it is as long as the length in the directory
\* needs, also after a write that ran out of clusters half way or stored nothing.
ChainsExact ==
    /\ \A e \in Files :
          /\ ChainValid(root[e].first)
          /\ Cardinality(ChainOf(e)) = Needed(0, root[e].length)
    /\ \A e, d \in Files : e # d => ChainOf(e) \cap ChainOf(d) = {}
    /\ {c \in Clusters : fat[c] # Free} = UNION {ChainOf(e) : e \in Files}

\* A node that a descriptor holds stands for a file that exists, and its first
\* cluster and length are those of the directory entry: the pool is never
\* recycled, and the file never unlinked, under an open descriptor.
OpenNodeFresh ==
    \A s \in Pool : refs[s] > 0 =>
        /\ pool[s].entry # NoEntry /\ root[pool[s].entry].kind = "file"
        /\ pool[s].impl = root[pool[s].entry].first
        /\ pool[s].length = root[pool[s].entry].length

\* Reading a file gives what was written to it and zeros in the gaps, whatever
\* files had its clusters before.
ContentsExact ==
    \A e \in Files : Contents(root[e].first, root[e].length) = want[e]

\* A directory entry has at most one node: all descriptors of a file see the
\* same length.
OneNodePerEntry ==
    \A s, t \in Pool : s # t /\ pool[s].entry = pool[t].entry => pool[s].entry = NoEntry

\* No two files have the same name: create refuses a name that exists.
NamesUnique == \A e, d \in Files : root[e].name = root[d].name => e = d

=============================================================================
