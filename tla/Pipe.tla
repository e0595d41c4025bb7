-------------------------------- MODULE Pipe --------------------------------
(***************************************************************************)
(* One pipe of miniOS (pipe.c) and the tasks that share its descriptors:   *)
(* a ring buffer, a count of live references for each end, and reads and   *)
(* writes that block.  A call runs with interrupts disabled up to the      *)
(* point where it blocks, and its last part from there on.  Bytes are      *)
(* numbered in the order in which they are written, modulo M, so that what *)
(* a reader gets can be compared with what it should get.                  *)
(***************************************************************************)
EXTENDS Integers, FiniteSets, FiniteSetsExt

CONSTANTS
  Tasks,
  Cap,       \* PIPE_BUF_SIZE
  MaxLen,    \* bound: longest read or write asked for
  MaxFds     \* bound: descriptors open for one end

\* What the constants have to satisfy.
PipeAssumption ==
  IsFiniteSet(Tasks) /\ {Cap, MaxLen, MaxFds} \subseteq Nat \ {0}

Ends == {"read", "write"}

M == Cap + 1

VARIABLES
  freed,                             \* the pipe_t has gone back to the heap
  buf, read_pos, write_pos, count,   \* the ring
  refs,                              \* readers and writers
  fds,                               \* descriptors that are open for each end
  op,                                \* the blocked call of a task: its end, the bytes left
  chan,                              \* the channel a task waits on: &count is "data",
                                     \*   &read_pos is "space"
  kill, dead,                        \* tasks that are marked, and that have ended
  sent, rcvd                         \* history: number of the next byte in and out

ring == <<buf, read_pos, write_pos, count, sent, rcvd>>
vars == <<freed, ring, refs, fds, op, chan, kill, dead>>

NoOp == [end |-> "none", len |-> 0]

\* pipe_create()
Init ==
  /\ freed = FALSE
  /\ buf = [k \in 0 .. Cap - 1 |-> 0] /\ read_pos = 0 /\ write_pos = 0 /\ count = 0
  /\ refs = [e \in Ends |-> 1] /\ fds = [e \in Ends |-> 1]
  /\ op = [t \in Tasks |-> NoOp] /\ chan = [t \in Tasks |-> "none"]
  /\ kill = {} /\ dead = {}
  /\ sent = 0 /\ rcvd = 0

-----------------------------------------------------------------------------
(* Reference counts *)

Running(t) == op[t] = NoOp /\ t \notin dead

\* task_wake_all() on each of the channels W.
Woken(W) == [t \in Tasks |-> IF chan[t] \in W THEN "none" ELSE chan[t]]

\* Faulty variant: closing wakes nobody.
CloseWakesNobody(end, n) == {}

\* Whom pipe_close_read() and pipe_close_write() wake when they leave n references
\* to their end: the other side, once nobody is left.
CloseWakes(end, n) ==
  IF n > 0 THEN {} ELSE IF end = "read" THEN {"space"} ELSE {"data"}

\* pipe_free_if_done()
FreeIfDone(r) == \A e \in Ends : r[e] = 0

\* pipe_close_read(), pipe_close_write() on an end with n references, after the
\* channels W were woken.
Close(end, n, W) ==
  LET r == [refs EXCEPT ![end] = n - 1] IN
  /\ refs' = r
  /\ chan' = Woken(W \cup CloseWakes(end, n - 1))
  /\ freed' = (freed \/ FreeIfDone(r))

\* A task closes a descriptor, or has ended and its process does.
CloseFd(t, end) ==
  /\ op[t] = NoOp /\ fds[end] > 0
  /\ fds' = [fds EXCEPT ![end] = @ - 1]
  /\ Close(end, refs[end], {})
  /\ UNCHANGED <<ring, op, kill, dead>>

\* pipe_ref_read(), pipe_ref_write(): a descriptor is duplicated or inherited.
RefFd(t, end) ==
  /\ Running(t) /\ fds[end] \in 1 .. MaxFds - 1
  /\ fds' = [fds EXCEPT ![end] = @ + 1]
  /\ refs' = [refs EXCEPT ![end] = @ + 1]
  /\ UNCHANGED <<freed, ring, op, chan, kill, dead>>

-----------------------------------------------------------------------------
(* Reads and writes *)

\* Faulty variant: a blocked call is not a reference.
WithOwnRefNone(t, end) == refs[end]

\* The references to an end once the call of t holds its own: it takes one when it
\* starts and has it already when it was blocked.
WithOwnRef(t, end) == refs[end] + (IF op[t] = NoOp THEN 1 ELSE 0)

\* pipe_block_killable() on a channel, after the channels W were woken: a marked
\* task drops its reference and ends, any other one waits.
BlockKillable(t, end, len, channel, W) ==
  LET n == WithOwnRef(t, end) IN
  \/ /\ t \notin kill
     /\ op' = [op EXCEPT ![t] = [end |-> end, len |-> len]]
     /\ refs' = [refs EXCEPT ![end] = n]
     /\ chan' = [Woken(W) EXCEPT ![t] = channel]
     /\ UNCHANGED <<freed, kill, dead>>
  \/ /\ t \in kill
     /\ kill' = kill \ {t} /\ dead' = dead \cup {t}
     /\ op' = [op EXCEPT ![t] = NoOp]
     /\ Close(end, n, W)

\* The call returns, after it woke the channels W.
Return(t, end, W) ==
  /\ op' = [op EXCEPT ![t] = NoOp]
  /\ Close(end, WithOwnRef(t, end), W)
  /\ UNCHANGED <<kill, dead>>

\* The copy loop of pipe_read(): n bytes leave the buffer.
Get(n) ==
  /\ read_pos' = (read_pos + n) % Cap
  /\ count' = count - n
  /\ rcvd' = (rcvd + n) % M
  /\ UNCHANGED <<buf, write_pos, sent>>

\* The buffer with n bytes more behind write_pos.
Stored(n) ==
  [k \in 0 .. Cap - 1 |->
     LET d == (k - write_pos) % Cap IN IF d < n THEN (sent + d) % M ELSE buf[k]]

\* The copy loop of pipe_write(): the first n of len bytes enter the buffer.
Put(n, len) ==
  /\ buf' = Stored(n)
  /\ write_pos' = (write_pos + n) % Cap
  /\ count' = count + n
  /\ sent' = (sent + n) % M
  /\ UNCHANGED <<read_pos, rcvd>>

\* pipe_read() from its wait loop on.
ReadOn(t, len) ==
  IF count = 0 /\ refs["write"] > 0
  THEN BlockKillable(t, "read", len, "data", {}) /\ UNCHANGED ring
  ELSE LET n == Min({len, count}) IN
       Get(n) /\ Return(t, "read", IF n > 0 THEN {"space"} ELSE {})

\* How many of len bytes fit.
Room(len) == Min({len, Cap - count})

\* The loop of pipe_write(): give up without readers; else store what fits, wake the
\* readers, and wait for space when bytes are left.
WriteOn(t, len) ==
  IF refs["read"] = 0
  THEN Return(t, "write", {}) /\ UNCHANGED ring
  ELSE LET n == Room(len) IN
       /\ Put(n, len)
       /\ IF len > n THEN BlockKillable(t, "write", len - n, "space", {"data"})
          ELSE Return(t, "write", {"data"})

\* pipe_read(), pipe_write() through a descriptor.
Read(t, len) == Running(t) /\ fds["read"] > 0 /\ ReadOn(t, len) /\ UNCHANGED fds

Write(t, len) == Running(t) /\ fds["write"] > 0 /\ WriteOn(t, len) /\ UNCHANGED fds

\* A blocked call that was woken goes on behind task_block_current(); a marked task
\* drops its reference and ends.
Resume(t) ==
  /\ op[t] # NoOp /\ chan[t] = "none"
  /\ \/ t \in kill /\ BlockKillable(t, op[t].end, 0, "none", {}) /\ UNCHANGED ring
     \/ t \notin kill /\ op[t].end = "read" /\ ReadOn(t, op[t].len)
     \/ t \notin kill /\ op[t].end = "write" /\ WriteOn(t, op[t].len)
  /\ UNCHANGED fds

\* task_kill_blocked(): the task is marked, and woken wherever it waits.
Kill(t) ==
  /\ t \notin dead \cup kill
  /\ kill' = kill \cup {t}
  /\ chan' = [chan EXCEPT ![t] = "none"]
  /\ UNCHANGED <<freed, ring, refs, fds, op, dead>>

\* process_send_signal() wakes a blocked task by identity.
Signal(t) ==
  /\ chan[t] # "none"
  /\ chan' = [chan EXCEPT ![t] = "none"]
  /\ UNCHANGED <<freed, ring, refs, fds, op, kill, dead>>

\* The tick lands on a marked task in user mode.
TickKill(t) ==
  /\ Running(t) /\ t \in kill
  /\ kill' = kill \ {t} /\ dead' = dead \cup {t}
  /\ UNCHANGED <<freed, ring, refs, fds, op, chan>>

Next ==
  \E t \in Tasks :
    \/ \E len \in 1 .. MaxLen : Read(t, len) \/ Write(t, len)
    \/ \E end \in Ends : CloseFd(t, end) \/ RefFd(t, end)
    \/ Resume(t) \/ Signal(t) \/ Kill(t) \/ TickKill(t)

Spec == Init /\ [][Next]_vars

\* A woken task gets the CPU (Task, RoundRobin).
FairSpec == Spec /\ \A t \in Tasks : WF_vars(Resume(t))

-----------------------------------------------------------------------------
(* Properties *)

\* Every variable has its type; the positions stay inside the buffer.
TypeOK ==
  /\ freed \in BOOLEAN
  /\ buf \in [0 .. Cap - 1 -> 0 .. M - 1]
  /\ read_pos \in 0 .. Cap - 1 /\ write_pos \in 0 .. Cap - 1 /\ count \in 0 .. Cap
  /\ refs \in [Ends -> Nat] /\ fds \in [Ends -> 0 .. MaxFds]
  /\ op \in [Tasks -> [end : Ends \cup {"none"}, len : 0 .. MaxLen]]
  /\ chan \in [Tasks -> {"none", "data", "space"}]
  /\ kill \in SUBSET Tasks /\ dead \in SUBSET Tasks
  /\ sent \in 0 .. M - 1 /\ rcvd \in 0 .. M - 1

\* Bytes come out in the order in which they went in, none lost and none twice,
\* whatever the readers and writers interleave: the buffer holds exactly the bytes
\* from the next one to read to the last one written.
InOrder ==
  /\ \A k \in 0 .. count - 1 : buf[(read_pos + k) % Cap] = (rcvd + k) % M
  /\ (rcvd + count) % M = sent
  /\ write_pos = (read_pos + count) % Cap

\* The reference counts are exact, a blocked call being one reference to its end,
\* and the pipe is freed exactly when nobody can reach it: no call is left with a
\* pipe that is gone when the descriptors close under it, and a killed task does not
\* leak one.
RefsExact ==
  /\ \A e \in Ends : refs[e] = fds[e] + Cardinality({t \in Tasks : op[t].end = e})
  /\ freed <=> \A e \in Ends : fds[e] = 0 /\ \A t \in Tasks : op[t].end # e

\* No wake-up is lost: a reader is parked only while the pipe is empty and has a
\* writer, a writer only while it is full and has a reader.  A reader and a writer
\* therefore never wait for each other.
BlockedForAReason ==
  \A t \in Tasks :
    /\ chan[t] = "data" => op[t].end = "read" /\ count = 0 /\ refs["write"] > 0
    /\ chan[t] = "space" => op[t].end = "write" /\ count = Cap /\ refs["read"] > 0

\* The ring is exact: positions in the buffer, bytes in order and counts that match.
RingExact == TypeOK /\ InOrder /\ RefsExact

\* What makes these properties inductive: a task without a call has nothing left to move.
PipeInv ==
  /\ RingExact /\ BlockedForAReason
  /\ \A t \in Tasks : op[t].end = "none" => op[t] = NoOp

\* End of file and broken pipe arrive: a blocked reader whose writers have gone, and
\* a blocked writer whose readers have gone, return.
EndsAreSeen ==
  \A t \in Tasks :
    /\ (op[t].end = "read" /\ refs["write"] = 0) ~> (op[t] = NoOp)
    /\ (op[t].end = "write" /\ refs["read"] = 0) ~> (op[t] = NoOp)
=============================================================================
