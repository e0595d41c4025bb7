------------------------------- MODULE DiskFS -------------------------------
(***************************************************************************)
(* The disk file system of diskfs.c: a superblock, a directory of fixed    *)
(* slots and a fixed run of data sectors per slot, all of it cached in      *)
(* diskfs_entries and written back on every change.                         *)
(*                                                                         *)
(* ata_write_sector is the unit of atomicity (external): one sector is      *)
(* either written or not.  An operation is therefore a sequence of sector   *)
(* writes, and the power may fail, or the drive report an error, between    *)
(* any two of them.  A directory entry has 40 bytes, so one entry (slot 12  *)
(* of 16, Straddle here) lies across the two directory sectors: its first   *)
(* part holds used, type, parent and name, its second part the length.      *)
(* Names are at most 27 characters long, so a name is in the first part.    *)
(*                                                                         *)
(* Operations do not overlap here.  System calls cannot, they run with      *)
(* interrupts disabled; but diskfs.c takes no lock, and touch, rm, cp, mv,  *)
(* '>' and disktest of the kernel shell call it with interrupts enabled.  A *)
(* program that uses the disk during one of those calls is not modelled.    *)
(***************************************************************************)
EXTENDS Integers, FiniteSets, Sequences, FiniteSetsExt

CONSTANTS
    MaxFiles,     \* DISKFS_MAX_FILES: slots 1..MaxFiles
    Straddle,     \* the slot whose entry lies in both directory sectors
    SectorSize,   \* ATA_SECTOR_SIZE
    FileSectors,  \* DISKFS_FILE_SECTORS
    Names,        \* the names callers use
    NoName,       \* the empty name of a cleared entry
    Writes,       \* the <<offset, size>> pairs callers write with
    MaxRefs,      \* bound: openings of one file
    MaxFaults     \* bound: power failures and device errors in a behaviour

Slots == 1..MaxFiles
Root == 0
MaxSize == SectorSize * FileSectors

\* What the constants have to satisfy.
DiskFSAssumption ==
    /\ {MaxFiles, SectorSize, FileSectors} \subseteq Nat \ {0} /\ Straddle \in Slots
    /\ Writes \subseteq (0..MaxSize + 1) \X (0..MaxSize + 1)

VARIABLES
    super,    \* the superblock on disk is valid
    dir,      \* the directory on disk
    data,     \* the data bytes on disk, by slot
    entries,  \* diskfs_entries
    mounted,  \* diskfs_mounted
    refs,     \* diskfs_open_refs
    job,      \* the operation in progress and the sector it writes next
    want,     \* ghost: what each file was last made to hold
    synced,   \* ghost: the directory before the operation in progress
    intact,   \* ghost: no format has been started and not completed
    faults    \* number of faults so far

vars == <<super, dir, data, entries, mounted, refs, job, want, synced, intact,
          faults>>
disk == <<super, dir, data>>

Empty == [used |-> FALSE, type |-> "none", parent |-> Root, name |-> NoName,
          length |-> 0]
Entry == [used : BOOLEAN, type : {"none", "file", "dir"},
          parent : {Root} \cup Slots, name : Names \cup {NoName},
          length : 0..MaxSize]
Cleared == [i \in Slots |-> Empty]
Byte == Names \cup {NoName}     \* a file is written with its own name; NoName is 0

Idle == [step |-> "idle", slot |-> Root, kind |-> "none", offset |-> 0,
         size |-> 0, at |-> 0]
Metadata(kind, i) == [Idle EXCEPT !.step = "dir1", !.kind = kind, !.slot = i]

\* What a reader of directory d finds: the fields of an unused entry are ignored.
View(d) == [i \in Slots |-> IF d[i].used THEN d[i] ELSE Empty]
Contents(d, bytes, i) ==
    IF d[i].used THEN [p \in 1..d[i].length |-> bytes[i][p - 1]] ELSE <<>>

Init ==
    /\ super = FALSE /\ dir = Cleared
    /\ data = [i \in Slots |-> [p \in 0..MaxSize - 1 |-> NoName]]
    /\ entries = Cleared /\ mounted = FALSE /\ refs = [i \in Slots |-> 0]
    /\ job = Idle /\ want = [i \in Slots |-> <<>>] /\ synced = Cleared
    /\ intact = FALSE /\ faults = 0

-----------------------------------------------------------------------------
(* Validation of what is read from the disk *)

\* The ancestors of slot i found within n steps; the walk ends at the root.
ParentChainValid(d, i) ==
    LET up[n \in 0..MaxFiles] == IF n = 0 THEN d[i].parent
                                 ELSE IF up[n - 1] = Root THEN Root
                                 ELSE d[up[n - 1]].parent
    IN  \E n \in 0..MaxFiles - 1 :
            /\ up[n] = Root
            /\ \A m \in 0..n - 1 : /\ up[m] # i
                                   /\ d[up[m]].used /\ d[up[m]].type = "dir"

EntriesValid(d) ==
    \A i \in Slots : d[i].used =>
        /\ d[i].name # NoName
        /\ d[i].type \in {"file", "dir"}
        /\ d[i].type = "file" => d[i].length <= MaxSize
        /\ d[i].type = "dir" => d[i].length = 0
        /\ ParentChainValid(d, i)
        /\ \A j \in i + 1..MaxFiles :
              d[j].used => <<d[i].parent, d[i].name>> # <<d[j].parent, d[j].name>>

HasOpenFiles == \E i \in Slots : refs[i] # 0

-----------------------------------------------------------------------------
(* The operations: each checks its arguments, changes memory and leaves the  *)
(* sectors to write in job.                                                  *)

Format ==
    /\ job = Idle /\ ~HasOpenFiles
    /\ entries' = Cleared /\ mounted' = TRUE
    /\ job' = Metadata("format", Root)
    /\ intact' = FALSE
    /\ UNCHANGED <<disk, refs, want, synced, faults>>

Mount ==
    /\ job = Idle /\ ~HasOpenFiles
    /\ entries' = IF super THEN dir ELSE entries
    /\ mounted' = (super /\ EntriesValid(dir))
    /\ intact' = (intact \/ mounted')
    /\ UNCHANGED <<disk, refs, job, want, synced, faults>>

\* The drive fails on the superblock, on the first or on the second sector.
MountReadFails ==
    /\ job = Idle /\ ~HasOpenFiles /\ faults < MaxFaults
    /\ \/ entries' = entries
       \/ super /\ entries' = Cleared
       \/ super /\ entries' = [i \in Slots |->
                    CASE i < Straddle -> dir[i]
                      [] i = Straddle -> [dir[i] EXCEPT !.length = 0]
                      [] OTHER -> Empty]
    /\ mounted' = FALSE /\ faults' = faults + 1
    /\ UNCHANGED <<disk, refs, job, want, synced, intact>>

FindChild(parent, name) ==
    {i \in Slots : /\ entries[i].used
                   /\ entries[i].parent = parent /\ entries[i].name = name}
HasChildren(i) == \E j \in Slots : entries[j].used /\ entries[j].parent = i
FreeSlots == {i \in Slots : ~entries[i].used}
NewEntry(parent, name, type) ==
    [used |-> TRUE, type |-> type, parent |-> parent, name |-> name, length |-> 0]

CreateEntry(parent, name, type) ==
    /\ job = Idle /\ mounted
    /\ FindChild(parent, name) = {}
    /\ parent # Root => entries[parent].used /\ entries[parent].type = "dir"
    /\ FreeSlots # {}
    /\ LET i == Min(FreeSlots) IN
          /\ entries' = [entries EXCEPT ![i] = NewEntry(parent, name, type)]
          /\ job' = Metadata("create", i)
    /\ UNCHANGED <<disk, mounted, refs, want, synced, intact, faults>>

Removed(e) == Empty

Removable(i) ==
    /\ mounted /\ entries[i].used /\ refs[i] = 0
    /\ entries[i].type = "dir" => ~HasChildren(i)

RemoveEntry(i) ==
    /\ job = Idle /\ Removable(i)
    /\ entries' = [entries EXCEPT ![i] = Removed(@)]
    /\ job' = Metadata("remove", i)
    /\ UNCHANGED <<disk, mounted, refs, want, synced, intact, faults>>

\* A descriptor can still write after a failed store has unmounted the disk.
Reachable(i) == (mounted \/ refs[i] > 0) /\ entries[i].used /\ entries[i].type = "file"

Fits(offset, size) == offset <= MaxSize /\ size <= MaxSize - offset

WriteSlot(i, offset, size) ==
    /\ job = Idle /\ Reachable(i)
    /\ Fits(offset, size) /\ size # 0
    /\ job' = [step |-> "data", slot |-> i, kind |-> "slot", offset |-> offset,
               size |-> size,
               at |-> Min({entries[i].length, offset}) \div SectorSize]
    /\ UNCHANGED <<disk, entries, mounted, refs, want, synced, intact, faults>>

\* diskfs_write_file: the shell replaces the contents of a file of the root.
WriteFile(i, size) ==
    /\ job = Idle /\ mounted /\ entries[i].used /\ entries[i].type = "file"
    /\ entries[i].parent = Root /\ size <= MaxSize
    /\ job' = [step |-> "data", slot |-> i, kind |-> "file", offset |-> 0,
               size |-> size, at |-> 0]
    /\ UNCHANGED <<disk, entries, mounted, refs, want, synced, intact, faults>>

OpenFile(i) ==
    /\ job = Idle /\ mounted /\ entries[i].used /\ entries[i].type = "file"
    /\ refs[i] < MaxRefs
    /\ refs' = [refs EXCEPT ![i] = @ + 1]
    /\ UNCHANGED <<disk, entries, mounted, job, want, synced, intact, faults>>

CloseFile(i) ==
    /\ job = Idle /\ refs[i] # 0
    /\ refs' = [refs EXCEPT ![i] = @ - 1]
    /\ UNCHANGED <<disk, entries, mounted, job, want, synced, intact, faults>>

-----------------------------------------------------------------------------
(* The sector writes *)

OldLength == entries[job.slot].length
LastSector == (job.offset + job.size - 1) \div SectorSize
NewLength ==
    IF job.kind = "file" THEN job.size ELSE Max({OldLength, job.offset + job.size})

\* Faulty variant: the gap behind the old end of the file is not zeroed.
FilledNoHole(p) ==
    IF (p \div SectorSize) * SectorSize < OldLength THEN data[job.slot][p] ELSE NoName
\* Byte p of a sector that the write does not cover: a sector the file already
\* reaches is read back and the gap in it zeroed, any other starts as zeros.
Filled(p) ==
    IF /\ (p \div SectorSize) * SectorSize < OldLength
       /\ p \notin OldLength..job.offset - 1
    THEN data[job.slot][p] ELSE NoName

SectorByte(p) ==
    IF p \in job.offset..job.offset + job.size - 1 THEN entries[job.slot].name
    ELSE IF job.kind = "slot" THEN Filled(p) ELSE NoName

DataWritten ==
    [data EXCEPT ![job.slot] = [p \in DOMAIN @ |->
        IF p \div SectorSize = job.at THEN SectorByte(p) ELSE @[p]]]

\* The directory on disk once sector n holds what memory holds.
DirWritten(n) ==
    [i \in Slots |->
        CASE i < Straddle -> IF n = 1 THEN entries[i] ELSE dir[i]
          [] i > Straddle -> IF n = 2 THEN entries[i] ELSE dir[i]
          [] OTHER -> IF n = 1 THEN [entries[i] EXCEPT !.length = dir[i].length]
                      ELSE [dir[i] EXCEPT !.length = entries[i].length]]

\* The sector that is written next, as a change of the disk.
SectorWrite ==
    CASE job.step = "data" -> data' = DataWritten /\ UNCHANGED <<super, dir>>
      [] job.step = "dir1" -> dir' = DirWritten(1) /\ UNCHANGED <<super, data>>
      [] job.step = "dir2" -> dir' = DirWritten(2) /\ UNCHANGED <<super, data>>
      [] job.step = "super" -> super' = TRUE /\ UNCHANGED <<dir, data>>

Writing == job.step = "data" => job.at <= LastSector

WriteData ==
    /\ job.step = "data" /\ Writing /\ SectorWrite
    /\ job' = [job EXCEPT !.at = @ + 1]
    /\ UNCHANGED <<entries, mounted, refs, want, synced, intact, faults>>

WriteDirectory ==
    /\ job.step \in {"dir1", "dir2"} /\ SectorWrite
    /\ job' = [job EXCEPT !.step = IF @ = "dir1" THEN "dir2" ELSE "super"]
    /\ UNCHANGED <<entries, mounted, refs, want, synced, intact, faults>>

\* What the file of the operation holds when the operation has succeeded.
Intended ==
    CASE job.kind = "slot" ->
           [p \in 1..entries[job.slot].length |->
               IF p - 1 \in job.offset..job.offset + job.size - 1
               THEN entries[job.slot].name
               ELSE IF p <= Len(want[job.slot]) THEN want[job.slot][p] ELSE NoName]
      [] job.kind = "file" -> [p \in 1..job.size |-> entries[job.slot].name]
      [] OTHER -> <<>>

WriteSuperblock ==
    /\ job.step = "super" /\ SectorWrite
    /\ job' = Idle
    /\ want' = IF job.kind = "format" THEN [i \in Slots |-> <<>>]
               ELSE [want EXCEPT ![job.slot] = Intended]
    /\ synced' = View(entries) /\ intact' = TRUE
    /\ UNCHANGED <<entries, mounted, refs, faults>>

\* The ghosts after an operation that did not succeed: what the disk has now.
Interrupted ==
    /\ want' = IF job.slot = Root THEN [i \in Slots |-> Contents(dir', data', i)]
               ELSE [want EXCEPT ![job.slot] = Contents(dir', data', job.slot)]
    /\ synced' = View(dir')

\* The data is written: the new length goes to memory and is then stored.
StoreLength ==
    /\ job.step = "data" /\ ~Writing
    /\ UNCHANGED <<disk, mounted, refs, intact, faults>>
    /\ entries' = [entries EXCEPT ![job.slot].length = NewLength]
    /\ IF mounted
       THEN job' = [job EXCEPT !.step = "dir1"] /\ UNCHANGED <<want, synced>>
       ELSE job' = Idle /\ Interrupted

\* A data sector cannot be read or written: the operation returns.
DataFails ==
    /\ job.step = "data" /\ Writing /\ faults < MaxFaults
    /\ SectorWrite \/ UNCHANGED disk
    /\ job' = Idle /\ Interrupted /\ faults' = faults + 1
    /\ UNCHANGED <<entries, mounted, refs, intact>>

\* Faulty variant: the disk stays mounted.
AfterMetadataErrorMounted == TRUE
AfterMetadataError == FALSE

\* A metadata sector cannot be written: the disk is unmounted.
MetadataFails ==
    /\ job.step \in {"dir1", "dir2", "super"} /\ faults < MaxFaults
    /\ SectorWrite \/ UNCHANGED disk
    /\ job' = Idle /\ mounted' = AfterMetadataError
    /\ Interrupted /\ faults' = faults + 1
    /\ UNCHANGED <<entries, refs, intact>>

\* Power is lost and the machine boots: diskfs_install forgets everything and
\* mounts what it finds.
PowerLoss ==
    /\ faults < MaxFaults
    /\ mounted' = (super /\ EntriesValid(dir))
    /\ entries' = IF super THEN dir ELSE Cleared
    /\ intact' = (intact \/ mounted')
    /\ refs' = [i \in Slots |-> 0] /\ job' = Idle
    /\ UNCHANGED disk
    /\ IF job = Idle THEN UNCHANGED <<want, synced>> ELSE Interrupted
    /\ faults' = faults + 1

Next ==
    \/ Format \/ Mount \/ MountReadFails
    \/ \E parent \in {Root} \cup Slots, name \in Names, type \in {"file", "dir"} :
          CreateEntry(parent, name, type)
    \/ \E i \in Slots : RemoveEntry(i) \/ OpenFile(i) \/ CloseFile(i)
    \/ \E i \in Slots, w \in Writes : WriteSlot(i, w[1], w[2])
    \/ \E i \in Slots, w \in Writes : w[1] = 0 /\ WriteFile(i, w[2])
    \/ WriteData \/ StoreLength \/ WriteDirectory \/ WriteSuperblock
    \/ DataFails \/ MetadataFails \/ PowerLoss

Spec == Init /\ [][Next]_vars

-----------------------------------------------------------------------------
(* Properties *)

\* The cached directory and the disk hold well-formed entries, a file never
\* extends past its own run of sectors (diskfs_write_slot's bound check), and
\* no sector outside that run is written.
TypeOK ==
    /\ super \in BOOLEAN /\ mounted \in BOOLEAN /\ intact \in BOOLEAN
    /\ dir \in [Slots -> Entry] /\ entries \in [Slots -> Entry]
    /\ data \in [Slots -> [0..MaxSize - 1 -> Byte]]
    /\ refs \in [Slots -> 0..MaxRefs] /\ faults \in 0..MaxFaults
    /\ job.step = "data" => job.at \in 0..FileSectors

\* The moments at which an interruption would be the first one.
FirstInterruption == intact /\ (faults = 0 \/ job = Idle)

\* Whatever the moment the power fails for the first time, diskfs_mount accepts
\* the disk: every prefix of the sector writes of create, remove and write leaves
\* a directory that diskfs_entries_valid accepts (a format in progress excepted).
AlwaysMountable == FirstInterruption => super /\ EntriesValid(dir)

\* The directory changes atomically although it fills two sectors and one entry
\* lies in both: between two sector writes a reader of the disk sees the
\* directory before or after the operation in progress, never a mixture.
DirectoryAtomic == FirstInterruption => View(dir) \in {synced, View(entries)}

\* While the disk is mounted and no operation is in progress, memory and disk
\* have the same directory.
MemoryIsDisk == job = Idle /\ mounted => View(dir) = View(entries)

\* Reading a file gives what was written to it, and zeros in the gaps left by
\* writes behind its end, after any history of creations, removals, remounts and
\* interrupted operations on other files.
ContentsExact ==
    job = Idle /\ mounted =>
        \A i \in Slots : entries[i].used => Contents(entries, data, i) = want[i]

\* A file never holds bytes of another file that used its slot before.
NoForeignBytes ==
    job = Idle /\ mounted =>
        \A i \in Slots : entries[i].used /\ entries[i].type = "file" =>
            \A p \in 0..entries[i].length - 1 :
                data[i][p] \in {entries[i].name, NoName}

\* A slot with an open descriptor holds a file: unlink, format and mount leave
\* it alone, also while the disk is unmounted by an error.
OpenFileStays ==
    \A i \in Slots : refs[i] > 0 => entries[i].used /\ entries[i].type = "file"

=============================================================================
