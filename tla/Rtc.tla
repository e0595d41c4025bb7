--------------------------------- MODULE Rtc ---------------------------------
(***************************************************************************)
(* Reading the clock chip (rtc.c).  The chip updates its registers by       *)
(* itself, one after the other, with the UIP flag set; a reader selects a   *)
(* register through one port and reads it through another.  The reader is   *)
(* the shell's date command: it can be interrupted between any two port     *)
(* accesses, and the process that runs then may call time() and leave       *)
(* another register selected.                                               *)
(*                                                                         *)
(* The model has two registers, Low and the hour, which stands for the      *)
(* slower ones: it changes when Low wraps around.                           *)
(***************************************************************************)
EXTENDS Integers, Sequences

CONSTANTS
  LowValues,     \* the values of the fast register, in their order
  HourValues,    \* the hours that the model looks at, in their order
  MaxUpdates,    \* bound: updates of the chip during one call
  Intrusions,    \* bound: calls of time() by others during one call
  Overlap        \* whether one call may meet both an update and a call by others

\* What the constants have to satisfy: a call ends before the clock has come around.
RtcAssumption ==
  /\ LowValues \in Seq(0 .. 59) /\ LowValues # <<>>
  /\ HourValues \in Seq(0 .. 23) /\ HourValues # <<>>
  /\ MaxUpdates \in 0 .. Len(LowValues) * Len(HourValues) - 2 /\ Intrusions \in Nat /\ Overlap \in BOOLEAN

VARIABLES
  mode,               \* register B: whether values are binary, whether hours are 24
  now,                \* the time the chip keeps
  low, hour, uip,     \* the registers
  phase,              \* how far the chip is in an update
  select,             \* the selected register
  pc,                 \* where the reader is
  cur, prev,          \* its two snapshots
  out,                \* what it returned
  seen,               \* history: the times that the chip has shown since the call began
  updates, intruded   \* history: how many updates and calls by others there were

chip == <<mode, now, low, hour, uip, phase>>
vars == <<mode, now, low, hour, uip, phase, select, pc, cur, prev, out, seen, updates, intruded>>

-----------------------------------------------------------------------------
(* The chip *)

Cycle == Len(LowValues) * Len(HourValues)
LowOf(t) == LowValues[(t % Len(LowValues)) + 1]
HourOf(t) == HourValues[((t \div Len(LowValues)) % Len(HourValues)) + 1]

Coded(v) == IF mode.binary THEN v ELSE (v \div 10) * 16 + (v % 10)
CodedHour(h) ==
  IF mode.full THEN Coded(h)
  ELSE Coded(IF h % 12 = 0 THEN 12 ELSE h % 12) + (IF h >= 12 THEN 128 ELSE 0)

Calling == pc # "idle"

StartUpdate ==
  /\ phase = "steady"
  /\ Calling => updates < MaxUpdates /\ (Overlap \/ intruded = 0)
  /\ uip' = TRUE /\ phase' = "low" /\ updates' = IF Calling THEN updates + 1 ELSE updates
  /\ UNCHANGED <<mode, now, low, hour, select, pc, cur, prev, out, seen, intruded>>

UpdateLow ==
  /\ phase = "low"
  /\ seen' = IF Calling THEN seen \cup {(now + 1) % Cycle} ELSE seen
  /\ low' = Coded(LowOf(now + 1)) /\ phase' = "hour"
  /\ UNCHANGED <<mode, now, hour, uip, select, pc, cur, prev, out, updates, intruded>>

UpdateHour ==
  /\ phase = "hour"
  /\ hour' = CodedHour(HourOf(now + 1)) /\ now' = (now + 1) % Cycle
  /\ uip' = FALSE /\ phase' = "steady"
  /\ UNCHANGED <<mode, low, select, pc, cur, prev, out, seen, updates, intruded>>

Init ==
  /\ mode \in [binary : BOOLEAN, full : BOOLEAN]
  /\ now \in 0 .. Cycle - 1
  /\ low = Coded(LowOf(now)) /\ hour = CodedHour(HourOf(now)) /\ uip = FALSE
  /\ phase = "steady" /\ select = "B" /\ pc = "idle"
  /\ cur = <<0, 0>> /\ prev = <<0, 0>> /\ out = <<>>
  /\ seen = {now} /\ updates = 0 /\ intruded = 0

-----------------------------------------------------------------------------
(* rtc_read() *)

\* inb(CMOS_DATA): the register that is selected.
Data ==
  CASE select = "A" -> IF uip THEN 128 ELSE 0
    [] select = "low" -> low
    [] select = "hour" -> hour
    [] select = "B" -> (IF mode.binary THEN 4 ELSE 0) + (IF mode.full THEN 2 ELSE 0)

Bit(v, weight) == (v \div weight) % 2 = 1

BcdToBin(v) == (v % 16) + (v \div 16) * 10

HourOfDay(h, pm) == IF pm THEN (h % 12) + 12 ELSE IF h = 12 THEN 0 ELSE h

\* rtc_decode(): the registers as numbers, the hour with its PM bit in regB's mode.
Decode(snapshot, regB) ==
  LET raw == snapshot[2]
      Value(v) == IF Bit(regB, 4) THEN v ELSE BcdToBin(v)
      h == Value(raw % 128)
  IN  <<Value(snapshot[1]),
        IF Bit(regB, 2) THEN h ELSE HourOfDay(h, Bit(raw, 128))>>

\* The call begins.
Call ==
  /\ pc = "idle"
  /\ pc' = "select A" /\ prev' = <<-1, -1>> /\ out' = <<>>
  /\ seen' = {now} \cup (IF uip THEN {(now + 1) % Cycle} ELSE {})
  /\ updates' = (IF uip THEN 1 ELSE 0) /\ intruded' = 0
  /\ UNCHANGED <<chip, select, cur>>

\* outb(CMOS_ADDR, ...)
Select(reg) ==
  /\ pc = "select " \o reg
  /\ select' = reg /\ pc' = "read " \o reg
  /\ UNCHANGED <<chip, cur, prev, out, seen, updates, intruded>>

\* update_in_progress(): the reader waits until the flag is clear.
AfterFlag == IF Bit(Data, 128) THEN "select A" ELSE "select low"

ReadA ==
  /\ pc = "read A"
  /\ pc' = AfterFlag
  /\ UNCHANGED <<chip, select, cur, prev, out, seen, updates, intruded>>

ReadLow ==
  /\ pc = "read low"
  /\ cur' = <<Data, cur[2]>> /\ pc' = "select hour"
  /\ UNCHANGED <<chip, select, prev, out, seen, updates, intruded>>

\* Faulty variant: the first snapshot is returned.
AgreesAlways(snapshot) == TRUE
Agrees(snapshot) == snapshot = prev

\* The end of read_registers(), and the condition of the loop.
ReadHour ==
  /\ pc = "read hour"
  /\ cur' = <<cur[1], Data>>
  /\ prev' = cur'
  /\ pc' = IF Agrees(cur') THEN "select B" ELSE "select A"
  /\ UNCHANGED <<chip, select, out, seen, updates, intruded>>

ReadB ==
  /\ pc = "read B"
  /\ out' = Decode(cur, Data) /\ pc' = "idle"
  /\ cur' = <<0, 0>> /\ prev' = <<0, 0>>
  /\ UNCHANGED <<chip, select, seen, updates, intruded>>

\* Another process calls time(): it waits for the flag as well, and leaves B selected.
Intrude ==
  /\ Calling /\ intruded < Intrusions /\ ~uip /\ (Overlap \/ updates = 0)
  /\ select' = "B" /\ intruded' = intruded + 1
  /\ UNCHANGED <<chip, pc, cur, prev, out, seen, updates>>

Reader == Call \/ ReadA \/ ReadLow \/ ReadHour \/ ReadB
          \/ \E reg \in {"A", "low", "hour", "B"} : Select(reg)

Next == StartUpdate \/ UpdateLow \/ UpdateHour \/ Reader \/ Intrude

Spec == Init /\ [][Next]_vars

-----------------------------------------------------------------------------
(* Properties *)

\* rtc_read() returns a time that the clock showed during the call, in each of the
\* chip's four encodings, although the chip changes its registers one by one and
\* another process may change the selected register once.
NotTorn == out # <<>> => \E t \in seen : out = <<LowOf(t), HourOf(t)>>
=============================================================================
