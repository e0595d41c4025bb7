----------------------------- MODULE MCStorage -----------------------------
(***************************************************************************)
(* The file systems for TLC: DiskFS, Fat16, Ramfs and Procfs, and the paths *)
(* above them, Paths and Vfs.  They share no state, so a behaviour runs one *)
(* of them, part; the variables of the others are Off.                      *)
(***************************************************************************)
EXTENDS Integers, Sequences, TLC

CONSTANTS
  Names, Zero,     \* the names of files; a byte is 0 or the name of the file it was written to
  Nodes            \* the nodes of Ramfs

VARIABLES
  part,
  super, dir, data, entries, mounted, refs, job, want, synced, intact, faults,
  fat, bytes, root, pool, nodeRefs, next, wanted,
  table, info, buffers, wrote,
  here,
  tree, cwd, copy,
  slots, next_pid, pc, snap, made, pos, extent

diskVars == <<super, dir, data, entries, mounted, refs, job, want, synced, intact, faults>>
fatVars == <<fat, bytes, root, pool, nodeRefs, next, wanted>>
ramVars == <<table, info, buffers, wrote>>
treeVars == <<tree, cwd, copy>>
procVars == <<slots, next_pid, pc, snap, made, pos, extent>>
all == <<part, diskVars, fatVars, ramVars, here, treeVars, procVars>>

\* Sectors of two bytes and two sectors per file: writes of one byte, of both sectors,
\* with a gap over a sector boundary, and of one byte too many.
D == INSTANCE DiskFS WITH
       MaxFiles <- 2, Straddle <- 2, SectorSize <- 2, FileSectors <- 2, NoName <- Zero,
       Writes <- {<<0, 1>>, <<0, 4>>, <<3, 1>>, <<3, 2>>}, MaxRefs <- 1, MaxFaults <- 1

\* Clusters of two bytes: writes of one byte, of one byte more than a cluster, with a gap
\* into the second cluster, with a gap that needs three clusters, beyond the volume.
F == INSTANCE Fat16 WITH
       ClusterCount <- 3, ClusterSize <- 2, RootEntries <- 3, PoolSize <- 2,
       Writes <- {<<0, 1>>, <<0, 3>>, <<3, 1>>, <<4, 3>>, <<8, 1>>}, MaxRefs <- 1,
       refs <- nodeRefs, want <- wanted

\* Words of four bits and first buffers of two bytes: writes of one byte, of two bytes
\* behind it, with a gap, of a size only an exact fit can serve, and one that wraps.
R == INSTANCE Ramfs WITH
       MaxNodes <- 5, FirstCapacity <- 2, Word <- 16, HeapMax <- 9,
       Writes <- {<<0, 1>>, <<1, 2>>, <<3, 1>>, <<8, 1>>, <<15, 1>>}, MaxRefs <- 1,
       data <- buffers, want <- wrote

\* Components of one and three characters in a buffer of eight: the working directory
\* here moves between all canonical paths that fit.
P == INSTANCE Paths WITH
       MaxPath <- 8, Names <- {"d", "ddd"},
       Length <- [c \in {"d", "ddd", ".", ".."} |->
                    CASE c \in {"d", "."} -> 1 [] c = ".." -> 2 [] c = "ddd" -> 3]

\* Two names that are the same to fat16.c, one longer than the other, so that of the paths
\* below some stop fitting into eight bytes as the working directory gets longer.
PathNames == {"a", "A", "fat", "proc", "info"}
Fat(name) == <<"/", "fat", "/", name>>
T == INSTANCE Vfs WITH
       MaxPath <- 8, Names <- PathNames, Clients <- {"shell", "program"}, Shell <- "shell",
       Length <- [c \in PathNames \cup {".", ".."} |->
                    CASE c \in {"fat", "."} -> 1 [] c = "A" -> 3 [] OTHER -> 2],
       Fold <- [c \in PathNames |-> IF c = "A" THEN "a" ELSE c],
       Asked <- {<<"a">>, <<"A">>, <<"..">>, <<"a", "/", "A">>, <<"fat">>, Fat("A"),
                 <<"/", "proc", "/", "info">>, <<"..", "/", "a">>},
       Copies <- {<<<<"a">>, Fat("A")>>, <<<<"a">>, <<"..", "/", "a">>>>,
                  <<<<"/", "proc", "/", "info">>, <<"A">>>>},
       Values <- {<<1, 2>>}, MaxNodes <- 6

\* Three processes, whose lines do not all fit; pids get a second digit, or their last.
L == INSTANCE Procfs WITH
       Slots <- 3, BufSize <- 24, MaxDigits <- 2, NameMax <- 4, FirstPids <- {8, 98},
       Pids <- {8, 9, 10, 98, 99}, Names <- {0, 3}, table <- slots

ASSUME StorageConstants ==
  /\ D!DiskFSAssumption /\ F!Fat16Assumption /\ R!RamfsAssumption
  /\ P!PathsAssumption /\ T!VfsAssumption /\ L!ProcfsAssumption

\* Names are alike, and so are nodes.
Symmetry == Permutations(Names) \cup Permutations(Nodes)

\* A step of one part.
Step(name, A) ==
  /\ part = name /\ A /\ UNCHANGED part
  /\ (name # "diskfs" => UNCHANGED diskVars)
  /\ (name # "fat16" => UNCHANGED fatVars)
  /\ (name # "ramfs" => UNCHANGED ramVars)
  /\ (name # "paths" => UNCHANGED here)
  /\ (name # "vfs" => UNCHANGED treeVars)
  /\ (name # "procfs" => UNCHANGED procVars)

Off == {}
DiskOff ==
  /\ super = Off /\ dir = Off /\ data = Off /\ entries = Off /\ mounted = Off
  /\ refs = Off /\ job = Off /\ want = Off /\ synced = Off /\ intact = Off
  /\ faults = Off
FatOff ==
  /\ fat = Off /\ bytes = Off /\ root = Off /\ pool = Off /\ nodeRefs = Off
  /\ next = Off /\ wanted = Off
RamOff ==
  /\ table = Off /\ info = Off /\ buffers = Off /\ wrote = Off

TreeOff == tree = Off /\ cwd = Off /\ copy = Off
ProcOff ==
  /\ slots = Off /\ next_pid = Off /\ pc = Off /\ snap = Off /\ made = Off /\ pos = Off
  /\ extent = Off

Init ==
  /\ part \in {"diskfs", "fat16", "ramfs", "paths", "vfs", "procfs"}
  /\ IF part = "diskfs" THEN D!Init ELSE DiskOff
  /\ IF part = "fat16" THEN F!Init ELSE FatOff
  /\ IF part = "ramfs" THEN R!Init ELSE RamOff
  /\ here = IF part = "paths" THEN <<"/">> ELSE Off
  /\ IF part = "vfs" THEN T!Init ELSE TreeOff
  /\ IF part = "procfs" THEN L!Init ELSE ProcOff

\* A working directory is what vfs_resolve_path() has returned.
ChangeDirectory(t) == P!ResolvePath(here, t) # P!Invalid /\ here' = P!ResolvePath(here, t)

Next ==
  \/ Step("diskfs", D!Next) \/ Step("fat16", F!Next) \/ Step("ramfs", R!Next)
  \/ Step("paths", \E t \in P!Texts(3) : ChangeDirectory(t))
  \/ Step("vfs", T!Next) \/ Step("procfs", L!Next)

Spec == Init /\ [][Next]_all

-----------------------------------------------------------------------------
(* Properties *)

\* Reading a file gives what was written to it, and zeros in the gaps, after any history
\* of creations, removals, remounts, interrupted operations and failed writes, and never
\* the bytes of a file that had its slot, clusters or buffer before.
ContentsExact ==
  CASE part = "diskfs" -> D!TypeOK /\ D!ContentsExact /\ D!NoForeignBytes
    [] part = "fat16" -> F!TypeOK /\ F!ContentsExact
    [] part = "ramfs" -> R!TypeOK /\ R!ContentsExact
    [] OTHER -> TRUE

\* Whenever the power fails first, diskfs_mount() accepts the disk afterwards, and although
\* the directory fills two sectors, it is as it was before or as it is after the
\* operation in progress.  Between operations memory and disk agree, also after errors.
DirectoryAtomic ==
  part = "diskfs" => D!AlwaysMountable /\ D!DirectoryAtomic /\ D!MemoryIsDisk

\* A file with an open descriptor stays, over unlink, format, mount and the use of its
\* node for other files; in fat16.c the node keeps its file's cluster and length.
OpenStays ==
  /\ [](part = "diskfs" => D!OpenFileStays)
  /\ [](part = "fat16" => F!OpenNodeFresh /\ F!OneNodePerEntry)
  /\ [][part = "ramfs" => \A n \in Nodes : info[n].refs > 0 => n \in R!InTable']_all

\* The clusters in use on a FAT16 volume are exactly those of the files' chains, which
\* are disjoint, end, and are as long as the directory says; while the node pool has
\* room no two files have the same name.
VolumeSound == part = "fat16" => F!ChainsExact /\ F!NamesUnique

\* The node table of ramfs.c is a tree with different names in each directory, from which
\* the system's nodes are never removed; its capacities are the sizes of the buffers,
\* whose spare bytes are zero, and the doubling loop of ramfs_write() ends, also for
\* lengths next to 2^32.
TreeSound ==
  part = "ramfs" =>
    R!TreeSound /\ R!SystemStays /\ R!CapacityExact /\ R!SpareIsZero /\ R!GrowthEnds

\* vfs_resolve_path() gives the one canonical path that its argument denotes in the
\* working directory, or fails, for "//" and where the buffer is too short: never the
\* path of something else because a component was dropped or cut short.  So a call
\* changes the node that its path denotes and no other, and never one of the system, the
\* two resolvers of fs.c agree, and a working directory is canonical.  A cp or mv of the
\* shell between two files that succeeds, whatever programs do between its steps to other
\* files, gives the target the contents of the source unless a read fails, and mv then
\* removes the source and nothing else.
PathsExact ==
  /\ part = "paths" => \A t \in P!Texts(5) : P!PathExact(here, t)
  /\ part = "vfs" =>
       T!TypeOK /\ T!NamedOnly /\ T!ResolversAgree /\ T!CwdCanonical /\ T!CopiesExact

\* The list of processes never overruns its buffer, however long the pids have become and
\* whatever happens to the table while the shell makes the list; a list that a system
\* call makes leaves a process out only where the longest line would not fit.
ListFits == part = "procfs" => L!ListFits
=============================================================================
