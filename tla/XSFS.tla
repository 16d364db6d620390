--------------------------------- MODULE XSFS ---------------------------------
(***************************************************************************)
(* The "extremely simple file system" (include/xsfs.c).  The last sector   *)
(* of the disk holds file records, searched from the first to a META_END   *)
(* mark; a file is an extent of sectors counted from the front.            *)
(*                                                                         *)
(* recs is the sequence of records before the mark.  The mark itself is on *)
(* disk as long as it has a place in the sector: createFile writes it      *)
(* behind the record it appends, past the end of the sector once the       *)
(* sector is full.  An operation that would then walk off the sector is    *)
(* not followed any further.  A name stands for the pair of a name and the *)
(* osDat byte that is compared with it.                                    *)
(*                                                                         *)
(* Every call runs to its end before the next one, but power may fail      *)
(* between two sector writes.  Calls that write one sector are one action; *)
(* updateFile is one action for each sector it writes.                     *)
(***************************************************************************)
EXTENDS Integers, Sequences

CONSTANTS
  Names,              \* the file names in use
  Sizes,              \* sizes in bytes that callers pass
  Versions,           \* buffers that callers pass, told apart by a version
  BytesPerSector,     \* 512 on the disks the kernel knows
  TotSectors,         \* sectors of the disk
  RecordsPerSector,   \* bytesPerSector / FILE_RECORD_SIZE = 8
  MaxRecords,         \* bound of the model: records ever created
  DuplicateNames,     \* whether callers create names that exist already
  Absent              \* model value: no file, no content

ASSUME XSFSAssumption ==
  /\ Sizes \subseteq Nat
  /\ BytesPerSector \in Nat \ {0}
  /\ TotSectors \in Nat \ {0}
  /\ RecordsPerSector \in Nat
  /\ MaxRecords \in Nat
  /\ DuplicateNames \in BOOLEAN

USED == "USED"
DELETED == "DELETED"
FS_SUCCESS == "FS_SUCCESS"
NO_FILE == "NO_FILE"
NULL == "NULL"

MetaSector == TotSectors - 1
DataSectors == 1 .. (TotSectors - 2)

VARIABLES
  recs,     \* the records before META_END, in the order they are searched
  disk,     \* DataSectors -> content
  op,       \* the updateFile in progress
  ret,      \* what the last call returned
  stored    \* history: the buffer the last whole updateFile of a name was given

vars == <<recs, disk, op, ret, stored>>

-------------------------------------------------------------------------------
\* The same operators with a plausible slip: a size rounded down, a file that
\* starts on its neighbour's last block, a reuse that ignores the size or the
\* type, loops that do not advance or count below zero, a search for the last
\* record of a name in place of the first.
SlipBlocks(size) == size \div BytesPerSector
SlipStart(last) == last
SlipReuseTooSmall(r, size) == r.type = DELETED
SlipReuseInUse(r, size) == r.size >= size
SlipAdvance(sect) == sect
SlipLeft(left) == left - BytesPerSector
SlipFind(n) ==
  CHOOSE i \in DOMAIN recs :
    recs[i].name = n /\ \A j \in DOMAIN recs : recs[j].name = n => j <= i

-------------------------------------------------------------------------------
Code(c) == [code |-> c, buf |-> <<>>]

Idle == [step |-> "idle"]

\* How many whole sectors a size takes.
Blocks(size) ==
  LET full == size \div BytesPerSector
  IN  IF size > full * BytesPerSector THEN full + 1 ELSE full

EndBlock(start, size) == start + Blocks(size) - 1
BlocksOf(r) == r.end - r.start + 1
Start(last) == last + 1
Advance(sect) == sect + 1
Left(left) == IF left <= BytesPerSector THEN left ELSE left - BytesPerSector

\* What block i of a buffer of that size and version holds.
BlockOf(ver, size, i) ==
  [ver |-> ver, blk |-> i,
   len |-> IF size - (i - 1) * BytesPerSector > BytesPerSector
             THEN BytesPerSector ELSE size - (i - 1) * BytesPerSector]

Buffer(ver, size) == [i \in 1 .. Blocks(size) |-> BlockOf(ver, size, i)]

\* The META_END mark is on disk.
Terminated == Len(recs) < RecordsPerSector

First(S) == CHOOSE i \in S : \A j \in S : i <= j

\* findFileRecord: the first record of that name, whatever its type.
Matches(n) == {i \in DOMAIN recs : recs[i].name = n}
Find(n) == First(Matches(n))
Searched(n) == Matches(n) # {} \/ Terminated

\* createFile: the records it may reuse.
Reusable(r, size) == r.type = DELETED /\ r.size >= size
Candidates(size) == {i \in DOMAIN recs : Reusable(recs[i], size)}

LastBlock == IF recs = <<>> THEN 0 ELSE recs[Len(recs)].end

NewRecord(n, size, start) ==
  [type |-> USED, name |-> n, size |-> size,
   start |-> start, end |-> EndBlock(start, size)]

\* The records after createFile.
RecsAfterCreate(n, size) ==
  IF Candidates(size) # {}
    THEN LET i == First(Candidates(size))
         IN  [recs EXCEPT ![i] = NewRecord(n, size, recs[i].start)]
    ELSE Append(recs, NewRecord(n, size, Start(LastBlock)))

CanCreate(size) ==
  Candidates(size) # {} \/ (Terminated /\ Len(recs) < MaxRecords)

Exists(n) == \E i \in DOMAIN recs : recs[i].name = n /\ recs[i].type = USED

-------------------------------------------------------------------------------
Init == /\ recs = <<>>
        /\ disk = [s \in DataSectors |-> Absent]
        /\ op = Idle
        /\ ret = Code(FS_SUCCESS)
        /\ stored = [n \in Names |-> Absent]

ClearFS ==
  /\ op = Idle
  /\ recs' = <<>>
  /\ stored' = [n \in Names |-> Absent]
  /\ UNCHANGED <<disk, op, ret>>

CreateFile(n, size) ==
  /\ op = Idle
  /\ CanCreate(size)
  /\ DuplicateNames \/ ~Exists(n)
  /\ recs' = RecsAfterCreate(n, size)
  /\ ret' = Code(FS_SUCCESS)
  /\ stored' = [stored EXCEPT ![n] = Absent]
  /\ UNCHANGED <<disk, op>>

\* A call that finds no record of the name, deleted or not.
Missing(n, code) ==
  /\ op = Idle
  /\ Matches(n) = {} /\ Terminated
  /\ ret' = Code(code)
  /\ UNCHANGED <<recs, disk, op, stored>>

DeleteFile(n) ==
  \/ Missing(n, NO_FILE)
  \/ /\ op = Idle
     /\ Matches(n) # {}
     /\ recs' = [recs EXCEPT ![Find(n)].type = DELETED]
     /\ ret' = Code(FS_SUCCESS)
     /\ stored' = [stored EXCEPT ![n] = Absent]
     /\ UNCHANGED <<disk, op>>

\* Every sector of the file is copied to the start of the buffer: the last one
\* stays there, and the rest of the buffer is never written.
ReadBuffer(r) ==
  [i \in 1 .. BlocksOf(r) |-> IF i = 1 THEN disk[r.end] ELSE Absent]

ReadFile(n) ==
  \/ Missing(n, NULL)
  \/ /\ op = Idle
     /\ Matches(n) # {}
     /\ ret' = [code |-> FS_SUCCESS, buf |-> ReadBuffer(recs[Find(n)])]
     /\ UNCHANGED <<recs, disk, op, stored>>
  \/ /\ op = Idle                      \* kernel_malloc has no room
     /\ Matches(n) # {}
     /\ ret' = Code(NULL)
     /\ UNCHANGED <<recs, disk, op, stored>>

\* updateFile, the buffer fits the blocks the file has: the record is written
\* back with the new size; the loop still runs to the old end block.
WriteLoop(n, ver, size, r) ==
  [step |-> "write", name |-> n, ver |-> ver, size |-> size, left |-> size,
   sect |-> r.start, last |-> r.end]

UpdateFile(n, ver, size) ==
  \/ Missing(n, NO_FILE)
  \/ /\ op = Idle
     /\ Matches(n) # {}
     /\ LET i == Find(n)
            r == recs[i]
        IN  \/ /\ Blocks(size) <= BlocksOf(r)
               /\ recs' = [recs EXCEPT ![i].size = size,
                                       ![i].end = EndBlock(r.start, size)]
               /\ op' = WriteLoop(n, ver, size, r)
            \/ /\ Blocks(size) > BlocksOf(r)    \* too large: deleteFile ...
               /\ recs' = [recs EXCEPT ![i].type = DELETED]
               /\ op' = [step |-> "recreate", name |-> n, ver |-> ver, size |-> size]
     /\ stored' = [stored EXCEPT ![n] = Absent]
     /\ UNCHANGED <<disk, ret>>

\* ... then createFile and findFileRecord.
Recreate ==
  /\ op.step = "recreate"
  /\ CanCreate(op.size)
  /\ recs' = RecsAfterCreate(op.name, op.size)
  /\ op' = WriteLoop(op.name, op.ver, op.size,
                     recs'[First({i \in DOMAIN recs' : recs'[i].name = op.name})])
  /\ UNCHANGED <<disk, ret, stored>>

\* One sector of the loop: the buffer never advances, so every sector gets the
\* first block of it.
WriteSector ==
  /\ op.step = "write"
  /\ op.sect <= op.last
  /\ op.sect \in DataSectors
  /\ disk' = [disk EXCEPT ![op.sect] = BlockOf(op.ver, op.left, 1)]
  /\ op' = [op EXCEPT !.sect = Advance(op.sect),
                      !.left = Left(op.left)]
  /\ UNCHANGED <<recs, ret, stored>>

UpdateDone ==
  /\ op.step = "write"
  /\ op.sect > op.last
  /\ op' = Idle
  /\ ret' = Code(FS_SUCCESS)
  /\ stored' = [stored EXCEPT ![op.name] = Buffer(op.ver, op.size)]
  /\ UNCHANGED <<recs, disk>>

\* Power fails between two sector writes; the records are read afresh later.
PowerLoss ==
  /\ op # Idle
  /\ op' = Idle
  /\ ret' = Code(NULL)
  /\ UNCHANGED <<recs, disk, stored>>

UpdateStep == Recreate \/ WriteSector \/ UpdateDone

Next == \/ ClearFS
        \/ \E n \in Names, size \in Sizes : CreateFile(n, size)
        \/ \E n \in Names : DeleteFile(n) \/ ReadFile(n)
        \/ \E n \in Names, ver \in Versions, size \in Sizes : UpdateFile(n, ver, size)
        \/ UpdateStep
        \/ PowerLoss

Spec == Init /\ [][Next]_vars /\ WF_vars(UpdateStep)

-------------------------------------------------------------------------------
RecordType == [type : {USED, DELETED}, name : Names, size : Nat,
               start : Nat, end : Int]

\* The types of the variables.
TypeOK ==
  /\ recs \in Seq(RecordType)
  /\ op.step \in {"idle", "recreate", "write"}
  /\ op.step # "idle" => op.name \in Names /\ op.ver \in Versions /\ op.size \in Nat
  /\ op.step = "write" => op.sect \in Nat /\ op.last \in Int /\ op.left \in Nat
  /\ DOMAIN disk = DataSectors

\* The extents of the records, deleted ones included, lie one behind the other:
\* no sector belongs to two files (xsfs.c:42, 76, 81 and 209 compute them).
ExtentsApart ==
  \A i, j \in DOMAIN recs : i < j => recs[i].end < recs[j].start

\* A file's bytes fit the extent it is recorded with, through every reuse of a
\* deleted record and every update.
SizeFitsExtent ==
  \A i \in DOMAIN recs : recs[i].size <= BlocksOf(recs[i]) * BytesPerSector

\* A sector write of updateFile never touches a file that exists under another
\* name, even after a power loss left records half updated.
NoForeignWrite ==
  [][WriteSector =>
       \A i \in DOMAIN recs :
         recs[i].type = USED /\ recs[i].name # op.name
           => op.sect \notin recs[i].start .. recs[i].end]_vars

\* An updateFile comes to its end: the loop over sectors stops.
UpdateEnds == op.step = "write" ~> op = Idle

\* A file that exists reads back what the last whole updateFile of it stored
\* (xsfs.h:68, "Returns a file's data as an array of bytes").
ReadReturnsWritten ==
  [][\A n \in Names :
       /\ ReadFile(n) /\ ret'.code = FS_SUCCESS
       /\ Exists(n) /\ stored[n] # Absent
       => ret'.buf = stored[n]]_vars

\* With one-sector files of one size the file system implements AbstractFS.
FilesOnDisk ==
  [n \in Names |->
     IF Exists(n)
       THEN <<disk[recs[CHOOSE i \in Matches(n) : recs[i].type = USED].start]>>
       ELSE <<>>]
SectorContents ==
  {<<c>> : c \in {BlockOf(v, size, 1) : v \in Versions, size \in Sizes} \cup {Absent}}
Files == INSTANCE AbstractFS
           WITH files <- FilesOnDisk, Contents <- SectorContents, Absent <- <<>>
ImplementsFiles == Files!Spec
===============================================================================
