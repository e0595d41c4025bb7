-------------------------------- MODULE Ata --------------------------------
(***************************************************************************)
(* The disk driver of ata.c and the drive it talks to.                     *)
(*                                                                         *)
(* The driver polls the status register a bounded number of times and then *)
(* gives up, while the drive goes on with the command.  The drive is        *)
(* external and modelled from what the driver relies on: it ignores a       *)
(* command while it is busy or has data to transfer, raises DRQ when a      *)
(* sector can be transferred, and may report an error with or without DRQ.  *)
(* A call runs with interrupts disabled, so calls do not overlap; the drive *)
(* moves between any two register accesses.                                 *)
(***************************************************************************)
EXTENDS Integers, FiniteSets

CONSTANTS
    Sectors,   \* the sectors of the drive
    Values,    \* contents of a sector
    Garbage    \* what a failed read leaves in the data register

\* What the constants have to satisfy.
AtaAssumption == Garbage \notin Values

VARIABLES
    dev,    \* the drive: bsy, drq, err, the command, its sector and its data
    store,  \* the contents of the sectors
    pc,     \* where the driver is; "free" between calls
    op,     \* the call in progress
    ready,  \* ata_available
    last,   \* the last call that returned, and whether it succeeded
    asked   \* ghost: the <<sector, value>> pairs of all calls to write

vars == <<dev, store, pc, op, ready, last, asked>>

NoSector == "no sector"
Identity == "identity"
DataWord == Values \cup {Garbage, Identity}
Device == [bsy : BOOLEAN, drq : BOOLEAN, err : BOOLEAN,
           cmd : {"none", "identify", "read", "write", "store", "flush"},
           at : Sectors \cup {NoSector}, data : DataWord]
Quiet == [bsy |-> FALSE, drq |-> FALSE, err |-> FALSE, cmd |-> "none",
          at |-> NoSector, data |-> Garbage]
Call(kind, s, v) == [kind |-> kind, at |-> s, val |-> v]
Busy(cmd, s, v) == [bsy |-> TRUE, drq |-> FALSE, err |-> FALSE, cmd |-> cmd,
                    at |-> s, data |-> v]

\* Booting finds the drive idle, or busy with what an earlier boot left behind.
Init ==
    /\ dev \in {Quiet} \cup {Busy("read", s, Garbage) : s \in Sectors}
    /\ store \in [Sectors -> Values]
    /\ pc = "idle" /\ op = Call("identify", NoSector, Garbage) /\ ready = FALSE
    /\ last = [kind |-> "none", at |-> NoSector, val |-> Garbage, ok |-> FALSE]
    /\ asked = {}

-----------------------------------------------------------------------------
(* The drive *)

\* A command ends: data is ready, the drive wants data, or it is done; or the
\* command fails, a read possibly with DRQ raised all the same.
DeviceStep ==
    /\ dev.bsy
    /\ \/ /\ dev.cmd \in {"read", "identify", "write"}
          /\ dev' = [dev EXCEPT !.bsy = FALSE, !.drq = TRUE,
                        !.data = CASE dev.cmd = "read" -> store[dev.at]
                                   [] dev.cmd = "identify" -> Identity
                                   [] OTHER -> @]
          /\ UNCHANGED store
       \/ /\ dev.cmd = "store"
          /\ store' = [store EXCEPT ![dev.at] = dev.data]
          /\ dev' = [dev EXCEPT !.bsy = FALSE]
       \/ /\ dev.cmd = "flush"
          /\ dev' = [dev EXCEPT !.bsy = FALSE] /\ UNCHANGED store
       \/ /\ \E drq \in {FALSE, dev.cmd = "read"} :
                dev' = [dev EXCEPT !.bsy = FALSE, !.err = TRUE, !.drq = drq,
                                   !.data = Garbage]
          /\ UNCHANGED store
    /\ UNCHANGED <<pc, op, ready, last, asked>>

Accepts == ~dev.bsy /\ ~dev.drq
Issue(cmd, s, v) == dev' = IF Accepts THEN Busy(cmd, s, v) ELSE dev

-----------------------------------------------------------------------------
(* The driver *)

Return(ok, v) ==
    /\ pc' = "free"
    /\ last' = [kind |-> op.kind, at |-> op.at, val |-> v, ok |-> ok]
    /\ ready' = (IF op.kind = "identify" THEN ok ELSE ready)
Fails == Return(FALSE, op.val)

\* ata_read_sector and ata_write_sector are called.
Start(kind, s, v) ==
    /\ pc = "free" /\ ready
    /\ op' = Call(kind, s, IF kind = "write" THEN v ELSE Garbage) /\ pc' = "idle"
    /\ asked' = asked \cup (IF kind = "write" THEN {<<s, v>>} ELSE {})
    /\ UNCHANGED <<dev, store, ready, last>>

\* Without a drive a call returns at once.
Refused(kind, s) ==
    /\ pc = "free" /\ ~ready
    /\ last' = [kind |-> kind, at |-> s, val |-> Garbage, ok |-> FALSE]
    /\ UNCHANGED <<dev, store, pc, op, ready, asked>>

\* Faulty variant: the driver polls until the drive answers.
GiveUpNever == FALSE
\* The poll limit is reached while the drive is busy.
GiveUp ==
    /\ pc \in {"idle", "data", "stored", "flush"} /\ dev.bsy
    /\ Fails
    /\ UNCHANGED <<dev, store, op, asked>>

\* Faulty variant: BSY clear is taken for idle.
MustDrainNot == FALSE
MustDrain == dev.drq

\* ata_wait_idle: once BSY is clear, a transfer nobody finished is drained.
WaitIdle ==
    /\ pc = "idle" /\ ~dev.bsy
    /\ pc' = IF MustDrain THEN "drain" ELSE "command"
    /\ UNCHANGED <<dev, store, op, ready, last, asked>>

\* Reading the data port takes what the drive wants to hand over; it does nothing
\* for a drive that waits for data.
Drained == IF dev.cmd = "write" THEN dev ELSE [dev EXCEPT !.drq = FALSE]
Drain ==
    /\ pc = "drain" /\ ~dev.bsy
    /\ dev' = Drained
    /\ IF Drained.drq THEN Fails ELSE pc' = "command" /\ UNCHANGED <<ready, last>>
    /\ UNCHANGED <<store, op, asked>>

Command ==
    /\ pc = "command"
    /\ Issue(op.kind, op.at, Garbage)
    /\ pc' = "data"
    /\ UNCHANGED <<store, op, ready, last, asked>>

DataError == dev.err

\* ata_wait_data and the transfer; a drive without an answer is not there.
WaitData ==
    /\ pc = "data" /\ ~dev.bsy
    /\ \/ (DataError \/ ~dev.drq) /\ Fails /\ UNCHANGED dev
       \/ /\ ~DataError /\ dev.drq /\ op.kind # "write"
          /\ Return(TRUE, dev.data)
          /\ dev' = [dev EXCEPT !.drq = FALSE]
       \/ /\ ~DataError /\ dev.drq /\ op.kind = "write"
          /\ dev' = Busy("store", dev.at, op.val)
          /\ pc' = "stored" /\ UNCHANGED <<ready, last>>
    /\ UNCHANGED <<store, op, asked>>

StoreError == dev.err \/ dev.drq

WaitStored ==
    /\ pc = "stored" /\ ~dev.bsy
    /\ IF StoreError THEN Fails /\ UNCHANGED dev
       ELSE Issue("flush", NoSector, Garbage) /\ pc' = "flush" /\ UNCHANGED <<ready, last>>
    /\ UNCHANGED <<store, op, asked>>

WaitFlush ==
    /\ pc = "flush" /\ ~dev.bsy
    /\ Return(~dev.err, op.val)
    /\ UNCHANGED <<dev, store, op, asked>>

Driver == GiveUp \/ WaitIdle \/ Drain \/ Command \/ WaitData \/ WaitStored \/ WaitFlush

Next ==
    \/ DeviceStep \/ Driver
    \/ \E kind \in {"read", "write"}, s \in Sectors :
          Refused(kind, s) \/ \E v \in Values : Start(kind, s, v)

\* The driver's polling is bounded: a call in progress always takes a next step.
Spec == Init /\ [][Next]_vars /\ WF_vars(Driver)

-----------------------------------------------------------------------------
(* Properties *)

\* The drive and the driver are in states of their types, and a call that
\* succeeds never returns the garbage of a failed command.
TypeOK ==
    /\ dev \in Device /\ store \in [Sectors -> Values] /\ ready \in BOOLEAN
    /\ pc \in {"free", "idle", "drain", "command", "data", "stored", "flush"}
    /\ last.ok => last.val \in Values \cup {Identity}

\* A read that succeeds returns the sector it asked for, also after calls that
\* gave up while the drive was still working for them.
ReadIsRight ==
    pc = "free" /\ last.ok /\ last.kind = "read" => last.val = store[last.at]

\* A write that reports success is stored in its sector.
WriteIsStored ==
    pc = "free" /\ last.ok /\ last.kind = "write" => store[last.at] = last.val

\* A sector only ever changes to a value that a call asked to write there: the
\* data of one call never ends up in the sector of another.
NoStrayWrite ==
    [][\A s \in Sectors : store'[s] # store[s] => <<s, store'[s]>> \in asked]_vars

\* Every call returns, whatever the drive does.
CallsReturn == pc # "free" ~> pc = "free"

=============================================================================
