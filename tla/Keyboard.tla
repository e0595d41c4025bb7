------------------------------ MODULE Keyboard ------------------------------
(***************************************************************************)
(* The keyboard driver of kb.c: the interrupt handler that turns scan codes *)
(* into characters, the ring buffer, and the tasks that read from it.       *)
(*                                                                         *)
(* The handler and every stretch of keyboard_read() between two blocking    *)
(* points run with interrupts disabled, so each is one step.  A character   *)
(* is its serial number (bound Keys), which tells equal ones apart: the     *)
(* shift key only chooses the character and is left out.                    *)
(***************************************************************************)
EXTENDS Integers, Sequences, SequencesExt, FiniteSets

CONSTANTS
  Tasks,     \* the tasks that read, each of a process of its own
  Size,      \* KEYBOARD_BUFFER_SIZE
  Keys,      \* bound: characters typed in a behaviour
  Counts,    \* the sizes tasks read with
  NoTask

\* What the constants have to satisfy.
KeyboardAssumption ==
  Size \in Nat \ {0} /\ Keys \in Nat /\ Counts \subseteq Nat \ {0} /\ NoTask \notin Tasks

VARIABLES
  cells,    \* keyboard_buffer
  ri, wi,   \* keyboard_read_index, keyboard_write_index
  ctrl,     \* ctrl_held
  fg,       \* kb_foreground_pid: the task of the foreground process, or NoTask
  handler,  \* tasks whose process has a SIGINT handler
  queue,    \* tasks blocked on the buffer, oldest first
  state,    \* "user", "blocked", "woken" (made ready, not run yet), "dead"
  asked,    \* the count of the read in progress
  flagged,  \* tasks with kill_pending
  typed,    \* history: the characters the buffer accepted
  got,      \* history: the characters handed to readers, in order
  serial    \* history: the number of characters typed

buffer == <<cells, ri, wi>>
tasks == <<queue, state, asked, flagged>>
history == <<typed, got, serial>>
vars == <<buffer, ctrl, fg, handler, tasks, history>>

Init ==
  /\ cells = [n \in 0 .. Size - 1 |-> 0] /\ ri = 0 /\ wi = 0
  /\ ctrl = FALSE /\ fg = NoTask /\ handler \in SUBSET Tasks
  /\ queue = <<>> /\ state = [t \in Tasks |-> "user"]
  /\ asked = [t \in Tasks |-> 0] /\ flagged = {}
  /\ typed = <<>> /\ got = <<>> /\ serial = 0

Stored == (wi - ri) % Size

-----------------------------------------------------------------------------
(* The interrupt handler *)

\* The buffer is full one short of its size.
Full == (wi + 1) % Size = ri

\* keyboard_buffer_write() of the next character: dropped when the buffer is full.
BufferWrite ==
  /\ serial < Keys /\ serial' = serial + 1
  /\ IF Full THEN UNCHANGED <<buffer, typed>>
     ELSE /\ cells' = [cells EXCEPT ![wi] = serial']
          /\ wi' = (wi + 1) % Size
          /\ typed' = Append(typed, serial')
          /\ UNCHANGED ri
  /\ UNCHANGED got

\* Faulty variant: only the character that ends an empty buffer wakes a reader.
FirstWaiterQuiet == IF queue # <<>> /\ Stored = 0 THEN {Head(queue)} ELSE {}

\* task_wake_one(keyboard_buffer): the oldest waiter, if any.
FirstWaiter == IF queue = <<>> THEN {} ELSE {Head(queue)}

\* The tasks W leave the blocked list.
Wake(W) ==
  /\ queue' = SelectSeq(queue, LAMBDA t : t \notin W)
  /\ state' = [t \in Tasks |-> IF t \in W THEN "woken" ELSE state[t]]

PressCtrl == ~ctrl /\ ctrl' = TRUE /\ UNCHANGED <<buffer, fg, handler, tasks, history>>
ReleaseCtrl == ctrl /\ ctrl' = FALSE /\ UNCHANGED <<buffer, fg, handler, tasks, history>>

\* A key with a character, other than Ctrl+C.
PressKey == BufferWrite /\ Wake(FirstWaiter) /\ UNCHANGED <<ctrl, fg, handler, asked, flagged>>

\* Ctrl+C: '\3' is typed, one reader woken, and the foreground process gets SIGINT if it
\* has a handler and is marked to be killed otherwise.  Both wake its task.
PressCtrlC ==
  /\ ctrl /\ BufferWrite
  /\ Wake(FirstWaiter \cup ({fg} \cap ToSet(queue)))
  /\ flagged' = flagged \cup {t \in {fg} \cap Tasks : t \notin handler /\ state[t] # "dead"}
  /\ UNCHANGED <<ctrl, fg, handler, asked>>

-----------------------------------------------------------------------------
(* Readers *)

\* keyboard_read() with a character there: up to count of what is stored.
Drain(t, count) ==
  LET k == IF count < Stored THEN count ELSE Stored IN
  /\ got' = got \o [n \in 1 .. k |-> cells[(ri + n - 1) % Size]]
  /\ ri' = (ri + k) % Size
  /\ state' = [state EXCEPT ![t] = "user"] /\ asked' = [asked EXCEPT ![t] = 0]
  /\ UNCHANGED <<cells, wi, queue, flagged, typed>>

\* task_exit() of a marked task
Ends(t) ==
  /\ state' = [state EXCEPT ![t] = "dead"] /\ asked' = [asked EXCEPT ![t] = 0]
  /\ flagged' = flagged \ {t}
  /\ UNCHANGED <<buffer, queue, typed, got>>

\* task_block_killable(keyboard_buffer), up to where the task sleeps or ends.
Block(t, count) ==
  IF t \in flagged THEN Ends(t)
  ELSE /\ queue' = Append(queue, t)
       /\ state' = [state EXCEPT ![t] = "blocked"] /\ asked' = [asked EXCEPT ![t] = count]
       /\ UNCHANGED <<buffer, flagged, typed, got>>

\* keyboard_read()
Read(t, count) ==
  /\ state[t] = "user"
  /\ IF Stored = 0 THEN Block(t, count) ELSE Drain(t, count)
  /\ UNCHANGED <<ctrl, fg, handler, serial>>

\* A woken task ends if it is marked, and looks at the buffer again otherwise.
Resume(t) ==
  /\ state[t] = "woken"
  /\ IF t \in flagged THEN Ends(t)
     ELSE IF Stored = 0 THEN Block(t, asked[t]) ELSE Drain(t, asked[t])
  /\ UNCHANGED <<ctrl, fg, handler, serial>>

\* keyboard_try_read() takes a character or returns without one.
TryRead(t) ==
  /\ state[t] = "user" /\ Stored > 0 /\ Drain(t, 1)
  /\ UNCHANGED <<ctrl, fg, handler, serial>>

\* process_check_kill() on the tick that lands on t.
TickKill(t) ==
  /\ state[t] = "user" /\ t \in flagged /\ Ends(t)
  /\ UNCHANGED <<ctrl, fg, handler, serial>>

\* The shell names the process it waits for, and takes the name back.
SetForeground(t) ==
  /\ fg = NoTask /\ fg' = t
  /\ UNCHANGED <<buffer, ctrl, handler, tasks, history>>
ClearForeground ==
  /\ fg # NoTask /\ fg' = NoTask
  /\ UNCHANGED <<buffer, ctrl, handler, tasks, history>>

Next ==
  \/ PressCtrl \/ ReleaseCtrl \/ PressKey \/ PressCtrlC \/ ClearForeground
  \/ \E t \in Tasks :
       \/ \E count \in Counts : Read(t, count)
       \/ Resume(t) \/ TryRead(t) \/ TickKill(t) \/ SetForeground(t)

Spec == Init /\ [][Next]_vars

-----------------------------------------------------------------------------
(* Properties *)

\* Every variable has its type, and the waiters are the blocked tasks, each once.
TypeOK ==
  /\ cells \in [0 .. Size - 1 -> 0 .. Keys] /\ {ri, wi} \subseteq 0 .. Size - 1
  /\ state \in [Tasks -> {"user", "blocked", "woken", "dead"}]
  /\ ToSet(queue) = {t \in Tasks : state[t] = "blocked"} /\ IsInjective(queue)
  /\ asked \in [Tasks -> Counts \cup {0}] /\ flagged \subseteq Tasks

\* Every character the ring accepted is handed out once and in the order of typing,
\* whichever readers take them and however often the indices wrap.
InOrder == typed = got \o [n \in 1 .. Stored |-> cells[(ri + n - 1) % Size]]

\* Nobody sleeps next to input: while a task is blocked in keyboard_read(), every
\* character in the buffer has a woken reader on its way to it, or lost the one it woke
\* to a kill.
NobodySleepsNextToInput ==
  queue # <<>> => Stored <= Cardinality({t \in Tasks : state[t] \in {"woken", "dead"}})
=============================================================================
