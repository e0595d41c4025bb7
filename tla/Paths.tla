------------------------------- MODULE Paths -------------------------------
(***************************************************************************)
(* The path arithmetic of fs.c.  A path is the sequence of its tokens: "/"  *)
(* and components, no two components side by side.  Of the characters of a  *)
(* component only their number matters, Length; paths are stored in buffers *)
(* of MaxPath bytes (FS_MAX_PATH), the terminating zero included.           *)
(***************************************************************************)
EXTENDS Integers, Sequences, SequencesExt, FiniteSets

CONSTANTS
    MaxPath,    \* FS_MAX_PATH
    Names,      \* components other than "." and ".."
    Length      \* the number of characters of every component

Slash == "/"
Dots == {".", ".."}
Components == Names \cup Dots

\* What the constants have to satisfy.
PathsAssumption ==
    /\ MaxPath \in Nat \ 0..2 /\ Names \cap (Dots \cup {Slash}) = {}
    /\ Length \in [Components -> Nat \ {0}] /\ Length["."] = 1 /\ Length[".."] = 2

\* Paths of at most n tokens.
Texts(n) ==
    {t \in UNION {[1..k -> Components \cup {Slash}] : k \in 0..n} :
        \A i \in 1..Len(t) - 1 : Slash \in {t[i], t[i + 1]}}

\* strlen.
RECURSIVE TextLength(_)
TextLength(t) ==
    IF t = <<>> THEN 0
    ELSE (IF Head(t) = Slash THEN 1 ELSE Length[Head(t)]) + TextLength(Tail(t))

IsAbsolute(t) == t # <<>> /\ t[1] = Slash
DoubleSlash(t) == \E i \in 1..Len(t) - 1 : t[i] = Slash /\ t[i + 1] = Slash
ComponentsOf(t) == SelectSeq(t, LAMBDA x : x # Slash)

-----------------------------------------------------------------------------
(* vfs_resolve_path: the absolute path without "." and ".." that a path    *)
(* stands for in a working directory.  A path under construction is        *)
(* <<whether everything fitted, text>>; the root is <<>> until the end.    *)

\* Faulty variant: a component that does not fit is left out.
PathPushSkips(r, c) ==
    IF TextLength(r[2]) + 1 + Length[c] + 1 > MaxPath THEN r
    ELSE <<r[1], r[2] \o <<Slash, c>>>>
PathPush(r, c) ==
    IF TextLength(r[2]) + 1 + Length[c] + 1 > MaxPath THEN <<FALSE, r[2]>>
    ELSE <<r[1], r[2] \o <<Slash, c>>>>

\* The last component goes, with its slash; the root stays the root.
PathPop(r) == <<r[1], SubSeq(r[2], 1, Len(r[2]) - 2)>>

PathStep(r, c) ==
    CASE ~r[1] \/ c = "." -> r
      [] r[1] /\ c = ".." -> PathPop(r)
      [] r[1] /\ c \notin Dots -> PathPush(r, c)

RECURSIVE PathApply(_, _)
PathApply(r, t) ==
    IF t = <<>> THEN r
    ELSE PathApply(IF Head(t) = Slash THEN r ELSE PathStep(r, Head(t)), Tail(t))

Invalid == <<>>
ResolvePath(cwd, t) ==
    LET start == IF IsAbsolute(t) THEN <<TRUE, <<>>>> ELSE PathApply(<<TRUE, <<>>>>, cwd)
        r == PathApply(start, t)
    IN  IF DoubleSlash(t) \/ ~r[1] \/ TextLength(r[2]) + 1 >= MaxPath THEN Invalid
        ELSE IF r[2] = <<>> THEN <<Slash>> ELSE r[2]

-----------------------------------------------------------------------------
(* What a path denotes, without a buffer: a component stays when it is a    *)
(* name and the components behind it never go up beyond it.                 *)

Ups(cs, i, j) == Cardinality({k \in i..j : cs[k] = ".."})
Downs(cs, i, j) == Cardinality({k \in i..j : cs[k] \in Names})
Stays(cs, i) ==
    cs[i] \in Names /\ \A j \in i + 1..Len(cs) : Ups(cs, i + 1, j) <= Downs(cs, i + 1, j)
Reduced(cs) ==
    LET kept == SelectSeq([i \in 1..Len(cs) |-> <<Stays(cs, i), cs[i]>>], LAMBDA p : p[1])
    IN  [k \in 1..Len(kept) |-> kept[k][2]]

AllComponents(cwd, t) ==
    IF IsAbsolute(t) THEN ComponentsOf(t) ELSE ComponentsOf(cwd) \o ComponentsOf(t)
Denoted(cwd, t) == Reduced(AllComponents(cwd, t))

\* The canonical text of a sequence of names.
TextOf(names) ==
    IF names = <<>> THEN <<Slash>>
    ELSE [i \in 1..2 * Len(names) |-> IF i % 2 = 1 THEN Slash ELSE names[i \div 2]]

\* The length of the path while the first k components have been applied.
LengthAfter(cwd, t, k) ==
    LET names == Reduced(SubSeq(AllComponents(cwd, t), 1, k))
    IN  IF names = <<>> THEN 0 ELSE TextLength(TextOf(names))

\* vfs_resolve_path() gives the one canonical path that its argument denotes, or fails,
\* and it fails only for "//" and for what does not fit into the buffer on the way:
\* never the path of another node because a component was dropped or cut short.
PathExact(cwd, t) ==
    LET n == Len(AllComponents(cwd, t))
        fits == /\ \A k \in 1..n : LengthAfter(cwd, t, k) + 1 <= MaxPath
                /\ LengthAfter(cwd, t, n) + 1 < MaxPath
    IN  ResolvePath(cwd, t) =
           IF DoubleSlash(t) \/ ~fits THEN Invalid ELSE TextOf(Denoted(cwd, t))
=============================================================================
