------------------------------- MODULE Procfs --------------------------------
(***************************************************************************)
(* The files under /proc (procfs.c).  Their text is made anew for every     *)
(* look-up and every read, in one static buffer: the list of processes line *)
(* by line from a snapshot of the table, as long as another line is certain *)
(* to fit.  The kernel shell can be preempted while it makes the text, and  *)
(* whoever runs then may change the table and use the buffer as well.       *)
(*                                                                         *)
(* Of the text only the numbers of characters are kept, and which process   *)
(* every line is about.                                                     *)
(***************************************************************************)
EXTENDS Integers, Sequences

CONSTANTS
  Slots,        \* MAX_PROCESSES
  BufSize,      \* sizeof(gen_buf)
  MaxDigits,    \* digits of the largest pid
  NameMax,      \* PROCESS_NAME_MAX
  FirstPids,    \* the values that next_pid starts from
  Pids,         \* bound: the pids that processes get
  Names         \* lengths of process names

\* What the constants have to satisfy.
ProcfsAssumption ==
  /\ {Slots, BufSize, MaxDigits, NameMax} \subseteq Nat \ {0}
  /\ Names \subseteq 0 .. NameMax - 1
  /\ FirstPids \subseteq Pids /\ Pids \subseteq 1 .. 10 ^ MaxDigits - 1

VARIABLES
  table,       \* the process table: in each slot a process or NoProc
  next_pid,
  pc, snap,    \* the shell in proc_generate(), and its snapshot
  made,        \* the lines it has made
  pos,         \* the number of characters in them
  extent       \* the highest position of gen_buf written so far

vars == <<table, next_pid, pc, snap, made, pos, extent>>

NoProc == [pid |-> 0, ppid |-> 0, name |-> 0]
Higher(a, b) == IF a > b THEN a ELSE b

Init ==
  /\ table = [s \in 1 .. Slots |-> NoProc] /\ next_pid \in FirstPids
  /\ pc = "idle" /\ snap = <<>> /\ made = <<>> /\ pos = 0 /\ extent = 0

\* u_to_str(): the number of digits it writes.
Digits(v) == CHOOSE d \in 1 .. MaxDigits + 1 : v < 10 ^ d /\ (d > 1 => v >= 10 ^ (d - 1))

\* process_snapshot(): the slots in use, in the order of the table.
Snapshot == SelectSeq(table, LAMBDA e : e # NoProc)

\* The length of a line: pid, parent, state and name, three blanks and the newline.
LineLength(e) == Digits(e.pid) + 1 + Digits(e.ppid) + 1 + 1 + 1 + e.name + 1

\* Faulty variant: the blanks are not counted.
MayNotFitShort(at) == at + MaxDigits + MaxDigits + 1 + (NameMax - 1) + 1 > BufSize
\* The test before every line: the longest line possible might not fit.
MayNotFit(at) == at + MaxDigits + 1 + MaxDigits + 1 + 1 + 1 + (NameMax - 1) + 1 > BufSize

\* The lines of the processes from i on, after at characters: the loop of proc_generate().
Lines(list) ==
  LET upto[i \in 0 .. Len(list)] ==
        IF i = 0 THEN [n |-> 0, at |-> 0, stop |-> FALSE]
        ELSE IF upto[i - 1].stop \/ MayNotFit(upto[i - 1].at)
             THEN [upto[i - 1] EXCEPT !.stop = TRUE]
             ELSE [n |-> i, at |-> upto[i - 1].at + LineLength(list[i]), stop |-> FALSE]
  IN  upto[Len(list)]

-----------------------------------------------------------------------------
(* Other processes *)

Spawn(s, name) ==
  /\ table[s] = NoProc /\ next_pid \in Pids
  /\ \E parent \in {0} \cup {table[t].pid : t \in 1 .. Slots} :
       table' = [table EXCEPT ![s] = [pid |-> next_pid, ppid |-> parent, name |-> name]]
  /\ next_pid' = next_pid + 1
  /\ UNCHANGED <<pc, snap, made, pos, extent>>

Reap(s) ==
  /\ table[s] # NoProc /\ table' = [table EXCEPT ![s] = NoProc]
  /\ UNCHANGED <<next_pid, pc, snap, made, pos, extent>>

\* A system call opens, stats or reads the list: proc_finddir() and proc_read().
UserList ==
  /\ extent' = Higher(extent, Lines(Snapshot).at)
  /\ UNCHANGED <<table, next_pid, pc, snap, made, pos>>

-----------------------------------------------------------------------------
(* The shell reads the list *)

ShellSnapshot ==
  /\ pc = "idle"
  /\ pc' = "lines" /\ snap' = Snapshot /\ made' = <<>> /\ pos' = 0
  /\ UNCHANGED <<table, next_pid, extent>>

ShellLine ==
  /\ pc = "lines" /\ Len(made) < Len(snap) /\ ~MayNotFit(pos)
  /\ LET e == snap[Len(made) + 1] IN
     /\ made' = Append(made, e.pid) /\ pos' = pos + LineLength(e)
     /\ extent' = Higher(extent, pos')
  /\ UNCHANGED <<table, next_pid, pc, snap>>

ShellDone ==
  /\ pc = "lines" /\ (Len(made) = Len(snap) \/ MayNotFit(pos))
  /\ pc' = "idle" /\ snap' = <<>> /\ made' = <<>> /\ pos' = 0
  /\ UNCHANGED <<table, next_pid, extent>>

Next ==
  \/ \E s \in 1 .. Slots : Reap(s) \/ \E name \in Names : Spawn(s, name)
  \/ UserList \/ ShellSnapshot \/ ShellLine \/ ShellDone

Spec == Init /\ [][Next]_vars

-----------------------------------------------------------------------------
(* Properties *)

\* Nothing is ever written past the end of gen_buf, however many digits the pids have come
\* to and whatever changes while the shell makes its list; a system call's list is the
\* whole table, unless what it leaves is less than the longest line.
ListFits ==
  /\ extent <= BufSize /\ pos <= BufSize
  /\ LET l == Lines(Snapshot) IN
     \/ l.n = Len(Snapshot)
     \/ BufSize - l.at < 2 * MaxDigits + NameMax + 4
=============================================================================
