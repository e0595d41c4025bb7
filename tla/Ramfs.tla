------------------------------- MODULE Ramfs -------------------------------
(***************************************************************************)
(* The memory file system of ramfs.c: the table of nodes that holds the     *)
(* tree, and the buffers of files, which grow by doubling.                  *)
(*                                                                         *)
(* An operation is one step, as it is in a system call, which runs with     *)
(* interrupts disabled.  The kernel shell calls ramfs.c with interrupts     *)
(* enabled: a program that gets in between is not modelled.                 *)
(*                                                                         *)
(* Node numbers stand for addresses, so a number is used again after kfree. *)
(* Sizes are unsigned words below Word (2^32 in the program); the first     *)
(* buffer has FirstCapacity bytes (64).                                     *)
(***************************************************************************)
EXTENDS Integers, Sequences, SequencesExt, FiniteSets, FiniteSetsExt

CONSTANTS
    MaxNodes,       \* MAX_RAMFS_NODES
    Nodes,          \* addresses of nodes created at run time
    Names,          \* names of files and directories
    FirstCapacity,
    Word,           \* number of values of uint32_t
    HeapMax,        \* the largest block kmalloc can give
    Writes,         \* the <<offset, size>> pairs of write calls
    MaxRefs         \* bound: openings of one file

\* What the constants have to satisfy.
RamfsAssumption ==
    /\ MaxNodes \in Nat /\ FirstCapacity \in Nat \ {0} /\ Word \in Nat
    /\ HeapMax \in Nat /\ MaxRefs \in Nat /\ Writes \subseteq Nat \X (Nat \ {0})

Root == 0
Static == -1     \* a program image, installed at boot
Mounted == -2    \* the root of another file system
System == {Root, Static, Mounted}

VARIABLES
    table,  \* ramfs_nodes: node, parent and capacity, in order
    info,   \* the nodes: name, kind, dynamic, open references, length
    data,   \* the buffers of nodes
    want    \* ghost: what a file was made to hold

vars == <<table, info, data, want>>

NodeInfo(name, kind, dynamic) ==
    [name |-> name, kind |-> kind, dynamic |-> dynamic, refs |-> 0, length |-> 0]
Gone == NodeInfo("none", "none", FALSE)
Slot(n, parent, capacity) == [node |-> n, parent |-> parent, capacity |-> capacity]

Init ==
    /\ table = <<Slot(Root, Root, 0), Slot(Static, Root, 0), Slot(Mounted, Root, 0)>>
    /\ info = [n \in Nodes \cup System |->
                  CASE n = Root -> NodeInfo("root", "dir", FALSE)
                    [] n = Static -> NodeInfo("image", "file", FALSE)
                    [] n = Mounted -> NodeInfo("fat", "dir", FALSE)
                    [] OTHER -> Gone]
    /\ data = [n \in Nodes |-> <<>>] /\ want = [n \in Nodes |-> <<>>]

-----------------------------------------------------------------------------
(* The table *)

InTable == {table[i].node : i \in DOMAIN table}
FindIndex(n) == Min({i \in DOMAIN table : table[i].node = n})
Children(parent) == {table[i].node : i \in {j \in DOMAIN table \ {1} : table[j].parent = parent}}
FindChild(parent, name) == {n \in Children(parent) : info[n].name = name}

Creatable(parent, name) ==
    /\ parent \in InTable /\ Len(table) < MaxNodes
    /\ FindChild(parent, name) = {}

\* A directory of this file system; a mounted one has operations of its own.
Parents == {n \in InTable \ {Mounted} : info[n].kind = "dir"}

\* ramfs_create_node, when kmalloc has a node; there is no change when it has none.
CreateNode(parent, name, kind) ==
    /\ parent \in Parents /\ Creatable(parent, name)
    /\ \E n \in Nodes \ InTable :
          /\ info' = [info EXCEPT ![n] = NodeInfo(name, kind, TRUE)]
          /\ table' = Append(table, Slot(n, parent, 0))
          /\ data' = [data EXCEPT ![n] = <<>>]
          /\ want' = [want EXCEPT ![n] = <<>>]

Removable(n) == FindIndex(n) > 1 /\ info[n].dynamic /\ info[n].refs = 0

\* Faulty variant: the capacities are not moved with the nodes.
CompactedHalf(k) ==
    [j \in 1..Len(table) - 1 |->
        IF j < k THEN table[j] ELSE [table[j + 1] EXCEPT !.capacity = table[j].capacity]]
\* The entries behind index k move down by one.
Compacted(k) == [j \in 1..Len(table) - 1 |-> IF j < k THEN table[j] ELSE table[j + 1]]

RemoveNode(n) ==
    /\ Removable(n)
    /\ table' = Compacted(FindIndex(n))
    /\ info' = [info EXCEPT ![n] = Gone]
    /\ data' = [m \in Nodes |-> IF m = n THEN <<>> ELSE data[m]]
    /\ want' = [m \in Nodes |-> IF m = n THEN <<>> ELSE want[m]]

Unlink(parent, name) ==
    \E n \in FindChild(parent, name) :
        parent \in Parents /\ info[n].kind = "file" /\ RemoveNode(n)

HasNoChildren(n) == Children(n) = {}
Rmdir(parent, name) ==
    \E n \in FindChild(parent, name) :
        /\ parent \in Parents /\ info[n].kind = "dir" /\ n # Root
        /\ HasNoChildren(n) /\ RemoveNode(n)

OpenFile(n) ==
    /\ n \in InTable /\ info[n].kind = "file" /\ info[n].refs < MaxRefs
    /\ info' = [info EXCEPT ![n].refs = @ + 1]
    /\ UNCHANGED <<table, data, want>>

CloseFile(n) ==
    /\ info[n].refs > 0
    /\ info' = [info EXCEPT ![n].refs = @ - 1]
    /\ UNCHANGED <<table, data, want>>

-----------------------------------------------------------------------------
(* Writing *)

\* Faulty variant: the guard looks for a product that has wrapped already.
StopsDoublingLate(c) == c > Word \div 2
\* Another doubling would wrap.
StopsDoubling(c) == c > (Word - 1) \div 2

\* One turn of the doubling loop, for a length of n.
Doubled(c, n) ==
    IF c >= n THEN c ELSE IF StopsDoubling(c) THEN n ELSE (c * 2) % Word

\* The capacities the loop ends with from capacity c: one, or none when it never
\* ends.  It has fewer than Word different values to go through.
NewCapacity(c, n) ==
    LET first == IF c = 0 THEN FirstCapacity ELSE c
        cap[turn \in 0..Word] == IF turn = 0 THEN first ELSE Doubled(cap[turn - 1], n)
    IN  {cap[Word]} \ 0..n - 1

\* The new buffer: the old contents and zeros.
FreshBytes(old, length, size) == [p \in 1..size |-> IF p <= length THEN old[p] ELSE 0]

\* Bytes offset + 1 .. offset + n of b become 1, what a write writes.
Overwritten(b, offset, n) ==
    [p \in DOMAIN b |-> IF p \in offset + 1..offset + n THEN 1 ELSE b[p]]
Padded(b, n) == [p \in 1..Max({Len(b), n}) |-> IF p <= Len(b) THEN b[p] ELSE 0]

NewLength(end, capacity) == end

Stored(n, offset, size, buffer, capacity) ==
    /\ data' = [data EXCEPT ![n] = Overwritten(buffer, offset, size)]
    /\ info' = [info EXCEPT ![n].length =
                   IF offset + size > @ THEN NewLength(offset + size, capacity) ELSE @]
    /\ table' = [table EXCEPT ![FindIndex(n)].capacity = capacity]
    /\ want' = [want EXCEPT ![n] = Overwritten(Padded(@, offset + size), offset, size)]

\* ramfs_write on an open file.
Write(n, offset, size) ==
    LET end == offset + size
        length == info[n].length
        capacity == table[FindIndex(n)].capacity
    IN  /\ info[n].refs > 0 /\ size <= Word - 1 - offset
        /\ IF end <= capacity
           THEN Stored(n, offset, size, [p \in DOMAIN data[n] |->
                       IF p \in length + 1..offset THEN 0 ELSE data[n][p]], capacity)
           ELSE \E c \in NewCapacity(capacity, end) \cup {end} :
                   /\ c <= HeapMax
                   /\ Stored(n, offset, size, FreshBytes(data[n], length, c), c)

Next ==
    \/ \E parent \in Nodes \cup System, name \in Names :
          \/ \E kind \in {"file", "dir"} : CreateNode(parent, name, kind)
          \/ Unlink(parent, name) \/ Rmdir(parent, name)
    \/ \E parent \in {Root}, name \in {"image", "fat"} :
          Unlink(parent, name) \/ Rmdir(parent, name)
    \/ \E n \in Nodes \cup {Static} : OpenFile(n) \/ CloseFile(n)
    \/ \E n \in Nodes, w \in Writes : Write(n, w[1], w[2])

Spec == Init /\ [][Next]_vars

-----------------------------------------------------------------------------
(* Properties *)

\* The table holds each node once, starting with the root, and the nodes in it
\* are the ones that exist.
TypeOK ==
    /\ Len(table) \in 3..MaxNodes /\ table[1].node = Root
    /\ IsInjective([i \in DOMAIN table |-> table[i].node])
    /\ InTable = {n \in Nodes \cup System : info[n].kind # "none"}
    /\ \A n \in Nodes : info[n].refs \in 0..MaxRefs /\ Len(data[n]) <= HeapMax

\* The table is a tree: the parent of a node is a directory that was created
\* before it and is still there, and siblings have different names.
TreeSound ==
    \A i \in DOMAIN table \ {1} :
        /\ \E j \in 1..i - 1 : table[j].node = table[i].parent
        /\ info[table[i].parent].kind = "dir"
        /\ \A j \in DOMAIN table \ {1} :
              table[j].parent = table[i].parent
              /\ info[table[j].node].name = info[table[i].node].name => i = j

\* The root, program images and mount points are never removed.
SystemStays == System \subseteq InTable

\* A file with an open descriptor stays in the table, whatever is removed.
OpenStays == [][\A n \in Nodes : info[n].refs > 0 => n \in InTable']_vars

\* The capacity in the table is the size of the buffer of the node beside it,
\* also after removals have moved the entries, and the file fits into it.
CapacityExact ==
    \A i \in DOMAIN table : LET n == table[i].node IN
        n \in Nodes => table[i].capacity = Len(data[n]) /\ info[n].length <= Len(data[n])

\* The spare bytes of a buffer are zero (the invariant stated in ramfs.c).
SpareIsZero ==
    \A n \in Nodes : \A p \in info[n].length + 1..Len(data[n]) : data[n][p] = 0

\* Reading a file gives what was written to it, with zeros in the gaps.
ContentsExact ==
    \A n \in Nodes : SubSeq(data[n], 1, info[n].length) = want[n]

\* The doubling loop of ramfs_write ends, for every capacity a file can have and
\* every length a caller can ask for.
GrowthEnds ==
    \A c \in {table[i].capacity : i \in DOMAIN table}, end \in 1..Word - 1 :
        NewCapacity(c, end) # {}

=============================================================================
