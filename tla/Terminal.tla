------------------------------ MODULE Terminal -------------------------------
(***************************************************************************)
(* The cursor of the text console (vga.c).  terminal_putchar() takes no     *)
(* lock: system calls and the keyboard's interrupt handler run it with      *)
(* interrupts disabled, the kernel shell does not, so that any number of    *)
(* their characters may fall between two steps of one of the shell's.       *)
(*                                                                         *)
(* A step of the shell is a load or a store of the cursor as the compiled   *)
(* code has them: the row is loaded when a character begins and perhaps     *)
(* again before it is incremented.  Of the screen only the cell that a step *)
(* writes is kept.                                                          *)
(***************************************************************************)
EXTENDS Integers

CONSTANTS
  Width, Height,   \* VGA_WIDTH, VGA_HEIGHT
  MaxRow           \* bound: the rows others' output gets to while the shell scrolls

\* What the constants have to satisfy.
TerminalAssumption == Width \in Nat \ {0} /\ Height \in Nat \ {0} /\ MaxRow \in Nat

VARIABLES
  row, column,   \* terminal_row, terminal_column
  pc,            \* where the shell is in terminal_putchar() or terminal_clear()
  x, y,          \* the column and the row in its registers
  cell           \* the cell that the last step wrote, as <<column, row>>

vars == <<row, column, pc, x, y, cell>>

NoCell == <<0, 0>>     \* a cell of every screen

Init ==
  /\ row = 0 /\ column = 0 /\ pc = "idle" /\ x = 0 /\ y = 0 /\ cell = NoCell

-----------------------------------------------------------------------------
(* The shell, step by step *)

\* A character, a newline, a backspace, or the command clear; loads the row.
Begin(what) ==
  /\ pc = "idle"
  /\ pc' = what /\ y' = row /\ cell' = NoCell
  /\ UNCHANGED <<row, column, x>>

\* terminal_putentryat() at the cursor.
PutEntry ==
  /\ pc = "char"
  /\ x' = column /\ cell' = <<column, y>> /\ pc' = "advance"
  /\ UNCHANGED <<row, column, y>>

\* Faulty variant: the end of the line is passed by one column.
EndOfLineLate == x = Width
EndOfLine == x + 1 = Width

\* The cursor moves on, or to the start of the next line: the compiler (-O2) keeps the
\* incremented column in a register and stores either that or zero, once.
Advance ==
  /\ pc = "advance" /\ cell' = NoCell
  /\ IF EndOfLine THEN column' = 0 /\ pc' = "down"
     ELSE column' = x + 1 /\ pc' = "idle"
  /\ UNCHANGED <<row, x, y>>

Newline ==
  /\ pc = "newline"
  /\ column' = 0 /\ pc' = "down" /\ cell' = NoCell
  /\ UNCHANGED <<row, x, y>>

\* ++terminal_row, from the register or from memory, and the comparison.
Down ==
  /\ pc = "down" /\ cell' = NoCell
  /\ \E r \in {y, row} :
       row' = r + 1 /\ pc' = IF r + 1 = Height THEN "scroll" ELSE "idle"
  /\ UNCHANGED <<column, x, y>>

\* terminal_scroll() ends with the cursor in the last row.
ScrolledRow == Height - 1

Scroll ==
  /\ pc = "scroll"
  /\ row' = ScrolledRow /\ pc' = "idle" /\ cell' = NoCell
  /\ UNCHANGED <<column, x, y>>

\* A backspace on an empty line does nothing.
Backspace ==
  /\ pc = "backspace"
  /\ x' = column
  /\ IF column = 0 THEN pc' = "idle" /\ cell' = NoCell /\ UNCHANGED column
     ELSE pc' = "blank" /\ column' = column - 1 /\ cell' = NoCell
  /\ UNCHANGED <<row, y>>

Blank ==
  /\ pc = "blank"
  /\ cell' = <<x - 1, y>> /\ pc' = "idle"
  /\ UNCHANGED <<row, column, x, y>>

\* terminal_clear(): the row, then the column.
Clear ==
  /\ pc = "clear"
  /\ row' = 0 /\ pc' = "cleared" /\ cell' = NoCell
  /\ UNCHANGED <<column, x, y>>

Cleared ==
  /\ pc = "cleared"
  /\ column' = 0 /\ pc' = "idle" /\ cell' = NoCell
  /\ UNCHANGED <<row, x, y>>

ShellStep ==
  \/ \E what \in {"char", "newline", "backspace", "clear"} : Begin(what)
  \/ PutEntry \/ Advance \/ Newline \/ Down \/ Scroll \/ Backspace \/ Blank \/ Clear \/ Cleared

-----------------------------------------------------------------------------
(* Everybody else: terminal_putchar() in one step *)

RowAfterLine == IF row + 1 = Height THEN Height - 1 ELSE row + 1

OtherChar ==
  /\ cell' = <<column, row>>
  /\ IF column + 1 = Width THEN column' = 0 /\ row' = RowAfterLine
     ELSE column' = column + 1 /\ row' = row
  /\ UNCHANGED <<pc, x, y>>

OtherNewline ==
  /\ column' = 0 /\ row' = RowAfterLine /\ cell' = NoCell
  /\ UNCHANGED <<pc, x, y>>

OtherBackspace ==
  /\ column > 0
  /\ column' = column - 1 /\ cell' = <<column - 1, row>>
  /\ UNCHANGED <<row, pc, x, y>>

Other == row < MaxRow /\ (OtherChar \/ OtherNewline \/ OtherBackspace)

Next == ShellStep \/ Other

Spec == Init /\ [][Next]_vars

-----------------------------------------------------------------------------
(* Properties *)

InFrame(c) == c[1] \in 0 .. Width - 1 /\ c[2] \in 0 .. Height - 1

\* Whatever the interrupt handler and other tasks print in the middle of one of the
\* shell's characters, the cursor is on the screen again when the character is done, and
\* only while the shell scrolls does it leave the screen, with what others print then.
CursorReturns ==
  /\ column \in 0 .. Width - 1 /\ row \in Nat
  /\ pc # "scroll" => row < Height /\ InFrame(cell)

\* The inductive invariant: the shell's registers hold a column and a row of the screen.
TerminalInv ==
  /\ CursorReturns
  /\ pc \in {"idle", "char", "advance", "newline", "down", "scroll", "backspace", "blank",
             "clear", "cleared"}
  /\ x \in 0 .. Width - 1 /\ y \in 0 .. Height - 1
  /\ pc = "blank" => x > 0

\* Nothing is written outside the frame.
WritesInFrame == InFrame(cell)
=============================================================================
