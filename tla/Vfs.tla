-------------------------------- MODULE Vfs --------------------------------
(***************************************************************************)
(* The virtual file system of fs.c over the mounted file systems, as the    *)
(* path system calls of syscall.c and the shell commands of kernel.c use    *)
(* it.  A node is the sequence of names that leads to it from the root.     *)
(*                                                                         *)
(* Directories of ramfs.c (and of diskfs.c, which is alike here) have all   *)
(* operations; those of fat16.c compare names without regard to case, Fold, *)
(* and have no mkdir and rmdir; those of procfs.c are only read.  Contents  *)
(* are sequences of chunks, as long as the buffer of cp.  Open descriptors, *)
(* which keep a file from being removed, are those of module FileTable.     *)
(*                                                                         *)
(* A system call is one step.  cp and mv of the kernel shell, which runs    *)
(* with interrupts enabled and keeps bare pointers to two nodes, are split  *)
(* at their calls of fs.c; programs run in between.  A tick inside of such  *)
(* a call is not modelled.                                                  *)
(***************************************************************************)
EXTENDS Paths, FiniteSetsExt, Functions, TLC

CONSTANTS
    Clients,    \* the shell and the processes, each with a working directory
    Shell,      \* the client that runs the shell's commands
    Fold,       \* the name that fat16.c stores for a name
    Asked,      \* the paths that clients ask for
    Copies,     \* the <<source, target>> pairs of cp and mv
    Values,     \* the contents that programs write
    MaxNodes    \* bound: nodes of the tree

\* What the constants have to satisfy.
VfsAssumption ==
    /\ PathsAssumption /\ Shell \in Clients /\ {"fat", "proc", "info"} \subseteq Names
    /\ Fold \in [Names -> Names] /\ \A c \in Names : Fold[Fold[c]] = Fold[c]
    /\ Copies \subseteq Asked \X Asked /\ Values \subseteq Seq(Nat) /\ MaxNodes \in Nat

VARIABLES
    tree,   \* the nodes there are: kind, contents, and whether they are the system's
    cwd,    \* process->cwd and shell_cwd
    copy    \* shell_copy(): where it is, the two paths, snode and dnode as sets of at most
            \*   one node, chunks copied, buf; history: whether a read failed or somebody
            \*   else changed one of the two files

vars == <<tree, cwd, copy>>

Node(kind, val, system) == [kind |-> kind, val |-> val, system |-> system]
Root == <<>>

AtPrompt ==
    [pc |-> "idle", src |-> <<>>, dst |-> <<>>, snode |-> {}, dnode |-> {}, off |-> 0,
     buf |-> <<>>, spoilt |-> FALSE]

Init ==
    /\ tree = [n \in {Root, <<"fat">>, <<"proc">>} |-> Node("dir", <<>>, TRUE)]
              @@ (<<"proc", "info">> :> Node("file", <<1>>, TRUE))
    /\ cwd = [c \in Clients |-> <<Slash>>] /\ copy = AtPrompt

-----------------------------------------------------------------------------
(* Looking up: the result is a set of at most one node *)

Backend(n) ==
    CASE n # Root /\ n[1] = "fat" -> "fat16"
      [] n # Root /\ n[1] = "proc" -> "procfs"
      [] OTHER -> "ramfs"

Child(n, name) == Append(n, IF Backend(n) = "fat16" THEN Fold[name] ELSE name)

\* finddir_fs, on what the resolvers have found to be a directory.
Finddir(tr, n, name) ==
    {m \in {Child(n, name)} : m \in DOMAIN tr /\ tr[n].kind = "dir"}

\* The components of a path in the strict syntax of parse_component: separated
\* by one slash, none at the end, no "." and "..".
Relative(t) == IF IsAbsolute(t) THEN Tail(t) ELSE t
Strict(t) ==
    /\ t # <<>> /\ t[1] # Slash /\ t[Len(t)] # Slash
    /\ ~DoubleSlash(t) /\ \A i \in DOMAIN t : t[i] \notin Dots

RECURSIVE Walk(_, _)
Walk(tr, names) ==
    IF names = <<>> THEN {Root}
    ELSE UNION {Finddir(tr, n, Last(names)) : n \in Walk(tr, Front(names))}

\* resolve_fs.
ResolveFs(tr, t) ==
    IF TextLength(t) >= MaxPath THEN {}
    ELSE IF Relative(t) = <<>> THEN {Root}
    ELSE IF Strict(Relative(t)) THEN Walk(tr, ComponentsOf(t)) ELSE {}

\* resolve_parent_fs: the directory and the last component.
ResolveParent(tr, t) ==
    IF TextLength(t) >= MaxPath \/ ~Strict(Relative(t)) THEN {}
    ELSE LET names == ComponentsOf(t) IN
         {<<n, Last(names)>> : n \in {m \in Walk(tr, Front(names)) : tr[m].kind = "dir"}}

-----------------------------------------------------------------------------
(* What the operations make of a tree; a refused one leaves it alone *)

Makers(op) == IF op = "mkdir" THEN {"ramfs"} ELSE {"ramfs", "fat16"}

\* create_fs and mkdir_fs with a path.
Added(tr, op, t) ==
    LET new == {Child(p[1], p[2]) : p \in {q \in ResolveParent(tr, t) :
                   /\ Backend(q[1]) \in Makers(op) /\ Finddir(tr, q[1], q[2]) = {}
                   /\ Cardinality(DOMAIN tr) < MaxNodes}}
        kind == IF op = "mkdir" THEN "dir" ELSE "file"
    IN  tr @@ [n \in new |-> Node(kind, <<>>, FALSE)]

HasChildren(tr, n) == \E m \in DOMAIN tr : m # Root /\ Front(m) = n

RemovableDir(tr, n) == tr[n].kind = "dir" /\ ~HasChildren(tr, n)

\* unlink_fs and rmdir_fs with a path.
Removed(tr, op, t) ==
    LET old == {n \in UNION {Finddir(tr, p[1], p[2]) : p \in ResolveParent(tr, t)} :
                   /\ Backend(Front(n)) \in Makers(IF op = "rmdir" THEN "mkdir" ELSE "create")
                   /\ ~tr[n].system
                   /\ IF op = "rmdir" THEN RemovableDir(tr, n) ELSE tr[n].kind = "file"}
    IN  Restrict(tr, DOMAIN tr \ old)

\* write_fs to the file that a path opens; files of procfs have no write.
Written(tr, t, v) ==
    [n \in DOMAIN tr |->
        IF n \in ResolveFs(tr, t) /\ tr[n].kind = "file" /\ ~tr[n].system
        THEN [tr[n] EXCEPT !.val = v] ELSE tr[n]]

Operations == {"create", "unlink", "mkdir", "rmdir"}
Result(tr, op, t) ==
    IF op \in {"create", "mkdir"} THEN Added(tr, op, t) ELSE Removed(tr, op, t)

\* The path of a client, as sys_open and the others resolve it first.
PathOf(c, t) == ResolvePath(cwd[c], t)

-----------------------------------------------------------------------------
(* Programs and the shell at its prompt *)

\* What a step of another client, which leaves the tree tr, does to a copy of the shell.
\* When a node is gone that the shell still uses, the shell reads or writes freed memory
\* or another file.
Noticed(tr) ==
    LET used == copy.snode \cup copy.dnode
        gone == used \ DOMAIN tr
    IN  IF gone # {} /\ copy.pc # "copied" THEN [AtPrompt EXCEPT !.pc = "lost"]
        ELSE [copy EXCEPT !.spoilt = @ \/ gone # {} \/ \E n \in used \cap DOMAIN tr : tr[n] # tree[n]]

Runs(c) == c = Shell => copy.pc = "idle"

\* sys_create, sys_unlink, sys_mkdir, sys_rmdir and the shell's touch, rm, mkdir, rmdir.
Operate(op, c, path) ==
    /\ Runs(c)
    /\ tree' = Result(tree, op, path) /\ copy' = Noticed(tree') /\ UNCHANGED cwd

\* sys_open and sys_write_file by a program.
Write(c, path, v) ==
    /\ c # Shell
    /\ tree' = Written(tree, path, v) /\ copy' = Noticed(tree') /\ UNCHANGED cwd

\* sys_chdir and the shell's cd.
Chdir(c, path) ==
    /\ Runs(c)
    /\ \E n \in ResolveFs(tree, path) : tree[n].kind = "dir"
    /\ cwd' = [cwd EXCEPT ![c] = path] /\ UNCHANGED <<tree, copy>>

\* process_fork, and process_set_cwd for a program that the shell starts.
Inherit(c, child) ==
    /\ Runs(c) /\ child # Shell
    /\ cwd' = [cwd EXCEPT ![child] = cwd[c]] /\ UNCHANGED <<tree, copy>>

-----------------------------------------------------------------------------
(* cp and mv of the shell *)

\* shell_copy() resolves both paths and finds the node of the source; for equal paths it
\* returns at once.
StartCopy(src, dst) ==
    LET s == PathOf(Shell, src)
        d == PathOf(Shell, dst)
        asked == [AtPrompt EXCEPT !.src = src, !.dst = dst]
    IN  /\ copy.pc = "idle" /\ Invalid \notin {s, d}
        /\ \/ s = d /\ copy' = [asked EXCEPT !.pc = "copied"]
           \/ /\ s # d
              /\ \E n \in ResolveFs(tree, s) :
                    tree[n].kind = "file" /\ copy' = [asked EXCEPT !.pc = "unlink", !.snode = {n}]
        /\ UNCHANGED <<tree, cwd>>

\* The target is removed; under another name it may be the source.
UnlinkTarget ==
    /\ copy.pc = "unlink"
    /\ tree' = Removed(tree, "unlink", PathOf(Shell, copy.dst))
    /\ copy' = [Noticed(tree') EXCEPT !.pc = IF @ = "lost" THEN @ ELSE "create"]
    /\ UNCHANGED cwd

\* It is created again, unless somebody else has done so, or it cannot be.
CreateTarget ==
    /\ copy.pc = "create"
    /\ tree' = Added(tree, "create", PathOf(Shell, copy.dst))
    /\ LET new == DOMAIN tree' \ DOMAIN tree IN
       copy' = IF new = {} THEN AtPrompt ELSE [copy EXCEPT !.pc = "read", !.dnode = new]
    /\ UNCHANGED cwd

\* read_fs(): the next chunk; or nothing, at the end of the file and after an error.
ReadChunk ==
    /\ copy.pc = "read"
    /\ \E n \in copy.snode :
          LET more == copy.off < Len(tree[n].val) IN
          \/ more /\ copy' = [copy EXCEPT !.pc = "write", !.buf = <<tree[n].val[copy.off + 1]>>]
          \/ copy' = [copy EXCEPT !.pc = "copied", !.spoilt = @ \/ more]
    /\ UNCHANGED <<tree, cwd>>

\* What the chunk buf makes of contents.
Patched(val, off, buf) ==
    [i \in 1 .. Max({Len(val), off + 1}) |-> IF i = off + 1 THEN buf[1] ELSE val[i]]

\* write_fs()
WriteChunk ==
    /\ copy.pc = "write"
    /\ \E n \in copy.dnode : tree' = [tree EXCEPT ![n].val = Patched(@, copy.off, copy.buf)]
    /\ copy' = [copy EXCEPT !.pc = "read", !.off = @ + 1, !.buf = <<>>]
    /\ UNCHANGED cwd

\* write_fs() finds no space or the disk fails: the command fails.
WriteFails ==
    /\ copy.pc = "write" /\ copy' = AtPrompt
    /\ UNCHANGED <<tree, cwd>>

\* cp has succeeded.
CpEnds == copy.pc = "copied" /\ copy' = AtPrompt /\ UNCHANGED <<tree, cwd>>

\* Faulty variant: the target is removed, with the arguments the wrong way round.
MovedSwapped(tr) == Removed(tr, "unlink", PathOf(Shell, copy.dst))
\* mv removes what the path of the source leads to after a copy that succeeded.
Moved(tr) == Removed(tr, "unlink", PathOf(Shell, copy.src))
MvEnds == copy.pc = "copied" /\ tree' = Moved(tree) /\ copy' = AtPrompt /\ UNCHANGED cwd

\* What the shell does with a node that is gone is undefined: the model ends.
Undefined == copy.pc = "lost" /\ UNCHANGED vars

-----------------------------------------------------------------------------

Next ==
    \/ /\ copy.pc # "lost"
       /\ \/ \E c \in Clients : \E path \in {PathOf(c, t) : t \in Asked} \ {Invalid} :
                \/ \E op \in Operations : Operate(op, c, path)
                \/ \E v \in Values : Write(c, path, v)
                \/ Chdir(c, path)
          \/ \E c, child \in Clients : Inherit(c, child)
    \/ \E p \in Copies : StartCopy(p[1], p[2])
    \/ UnlinkTarget \/ CreateTarget \/ ReadChunk \/ WriteChunk \/ WriteFails
    \/ CpEnds \/ MvEnds \/ Undefined

Spec == Init /\ [][Next]_vars

-----------------------------------------------------------------------------
(* Properties *)

\* The node that a client's path denotes, by the definition that knows no buffer.
Canon(names) ==
    IF names # <<>> /\ names[1] = "fat"
    THEN [i \in DOMAIN names |-> IF i = 1 THEN names[i] ELSE Fold[names[i]]] ELSE names
DenotedNode(c, t) == Canon(Denoted(cwd[c], t))

\* The paths that clients can ask for now, each with the node that it denotes.
Targets ==
    {<<PathOf(c, t), DenotedNode(c, t)>> : <<c, t>> \in
        {ct \in Clients \X Asked : Runs(ct[1]) /\ PathOf(ct[1], ct[2]) # Invalid}}

Changed(tr) ==
    {n \in DOMAIN tree \cup DOMAIN tr :
        IF n \in DOMAIN tree \cap DOMAIN tr THEN tree[n] # tr[n] ELSE TRUE}

\* The nodes form a tree of directories with files as leaves.
TypeOK ==
    /\ Root \in DOMAIN tree /\ cwd \in [Clients -> Seq(Names \cup {Slash})]
    /\ \A n \in DOMAIN tree \ {Root} : Front(n) \in DOMAIN tree /\ tree[Front(n)].kind = "dir"

\* An operation changes the node its path denotes and no other, whatever the working
\* directory and however long the path, and never a node of the system.
NamedOnly ==
    \A p \in Targets, op \in Operations : \A n \in Changed(Result(tree, op, p[1])) :
        n = p[2] /\ (n \in DOMAIN tree => ~tree[n].system)

\* The two resolvers of fs.c agree: what resolve_fs finds is what the directory of
\* resolve_parent_fs has under the last component, and it is the node that is denoted.
ResolversAgree ==
    \A p \in Targets :
        LET found == ResolveFs(tree, p[1]) IN
        p[1] # <<Slash>> =>
            /\ found = UNION {Finddir(tree, q[1], q[2]) : q \in ResolveParent(tree, p[1])}
            /\ found = {p[2]} \cap DOMAIN tree

\* A working directory is a canonical path and one byte shorter than its buffer.
CwdCanonical ==
    \A c \in Clients :
        TextOf(Denoted(cwd[c], <<>>)) = cwd[c] /\ TextLength(cwd[c]) + 1 < MaxPath

\* Nobody has interfered with a copy that has succeeded, and no read has failed.
Undisturbed == copy.pc = "copied" /\ ~copy.spoilt

\* Whether mv leaves the contents of the source under the path of the target.
KeepsContents ==
    LET s == DenotedNode(Shell, copy.src)
        d == DenotedNode(Shell, copy.dst)
        left == Moved(tree)
    IN  s \in DOMAIN tree => d \in DOMAIN left /\ left[d].val = tree[s].val

\* A cp or mv between two files that succeeds, unless a program changes one of them
\* meanwhile or a read of the source fails, has given the file that the target's path
\* denotes the contents of the one that the source's path denotes; mv then removes the
\* source, unless it is the system's, and nothing else.
CopiesExact ==
    Undisturbed /\ copy.snode # {} =>
        LET s == DenotedNode(Shell, copy.src) IN
        /\ copy.snode = {s} /\ copy.dnode = {DenotedNode(Shell, copy.dst)}
        /\ KeepsContents
        /\ Changed(Moved(tree)) = IF tree[s].system THEN {} ELSE {s}

\* A mv that reports success leaves a file with the contents of the source, also when
\* source and target are the same file.
MoveKeepsContents == Undisturbed => KeepsContents
=============================================================================
