------------------------------- MODULE ATADisk --------------------------------
(***************************************************************************)
(* The disk commands of include/schismATA.c and the AHCI controller (HBA)  *)
(* that carries them out on its own, at its own pace.                      *)
(*                                                                         *)
(* A command is built in memory - a FIS in a command table on the stack of *)
(* the function, a scratch buffer, a command header that points to the     *)
(* table - and issued by setting bit 0 of the port's CI register.  The     *)
(* driver then spins until the HBA clears the bit.  The HBA is external:   *)
(* it fetches the header and the table when CI is set, moves the data, and *)
(* clears CI; on a device error it stops with CI still set.                *)
(*                                                                         *)
(* The table is a packed local variable, so it lies wherever the frame of  *)
(* the function puts it (schismATA.c:48, 110, 190, 248), while the HBA     *)
(* takes the low seven bits of its address for zero ("must be 128 byte     *)
(* aligned", schismAHCI.h:166).  A table that is not aligned is not found; *)
(* what the HBA does with what lies there instead is not followed: the     *)
(* command it then works on never ends.                                    *)
(*                                                                         *)
(* The port was configured before (module AHCIBringUp) and a hard disk is  *)
(* on it.                                                                  *)
(***************************************************************************)
EXTENDS Integers

CONSTANTS
  Sectors,        \* sector numbers callers pass: 32-bit numbers
  Frames,         \* where the stack may put the command table
  LbaSpan,        \* values of the byte lba0: 256
  Data,           \* buffers that callers pass
  SectorBytes,    \* 512
  ByteCounts,     \* the numbers of bytes callers pass
  SizeWords,      \* values of the sector size field of the IDENTIFY data
  Garbage         \* model value: memory nobody wrote

ASSUME ATADiskAssumption ==
  /\ Sectors \subseteq Nat
  /\ Frames \subseteq Nat
  /\ LbaSpan \in Nat \ {0}
  /\ SectorBytes \in Nat
  /\ ByteCounts \subseteq Nat
  /\ SizeWords \subseteq Nat

CMD_TABLE_MEM_ALIGNMENT == 128
Aligned(a) == a % CMD_TABLE_MEM_ALIGNMENT = 0

VARIABLES
  disk,           \* the medium: lba -> content
  scratch,        \* readSectorScratch and writeSectorScratch
  table,          \* the command table: where it lies, a FIS, a data address
  header,         \* command header 0: the table's address, the write bit
  ci,             \* bit 0 of PxCI
  drv,            \* the driver: where it is and what it was asked to do
  hba,            \* the HBA: what it has fetched
  sectorSize,     \* curDev->sectorSize
  answer          \* history: <<sector, content>> of the last read, or <<>>

vars == <<disk, scratch, table, header, ci, drv, hba, sectorSize, answer>>

Cleared == [data |-> Garbage, len |-> 0]      \* a buffer of zeroes
Buffer(d, n) == [data |-> d, len |-> n]       \* n bytes of d, the rest zeroes

-------------------------------------------------------------------------------
\* The same operators with a plausible slip: the command issued before it is
\* complete, a return that does not wait or waits for the wrong value, a scratch
\* buffer that is not loaded.
SlipMayIssue == drv.at = "table"
SlipMayReturn == drv.at = "poll"
SlipWait == drv.at = "poll" /\ ci = 1
SlipLoaded(c) == scratch.write

-------------------------------------------------------------------------------
Idle == [at |-> "idle", cmd |-> "none"]
Command(cmd, s, d, n, f) ==
  [at |-> "called", cmd |-> cmd, sector |-> s, data |-> d, len |-> n, frame |-> f]

\* The sector goes into the one byte lba0; lba1 to lba5 stay zero.
Lba(s) == s % LbaSpan

Fis(c) == [cmd |-> c.cmd, lba |-> Lba(c.sector)]
Direction(cmd) == IF cmd = "READ" THEN "read" ELSE "write"
ScratchOf(cmd) == IF cmd = "WRITE" THEN "write" ELSE "read"

\* The table and the header of a call; the same before anything is written.
TableOf(c) == [at |-> c.frame, fis |-> Fis(c), base |-> ScratchOf(c.cmd)]
HeaderOf(c) == [ctba |-> c.frame, rw |-> Direction(c.cmd)]
NoTable == [at |-> Garbage, fis |-> Garbage, base |-> Garbage]
NoHeader == [ctba |-> Garbage, rw |-> Garbage]

Init == /\ disk = [l \in 0 .. (LbaSpan - 1) |-> Cleared]
        /\ scratch = [read |-> Cleared, write |-> Cleared]
        /\ table = NoTable
        /\ header = NoHeader
        /\ ci = 0
        /\ drv = Idle
        /\ hba = [state |-> "idle"]
        /\ sectorSize = Garbage
        /\ answer = <<>>

\* _ATA_writeSector returns false at once when the caller passes too much.
Accepted(n) == n <= SectorBytes

CallWrite(s, d, n, f) ==
  /\ drv = Idle
  /\ Accepted(n)
  /\ drv' = Command("WRITE", s, d, n, f)
  /\ UNCHANGED <<disk, scratch, table, header, ci, hba, sectorSize, answer>>

CallRead(s, f) ==
  /\ drv = Idle
  /\ drv' = Command("READ", s, Garbage, 0, f)
  /\ UNCHANGED <<disk, scratch, table, header, ci, hba, sectorSize, answer>>

\* _ATA_initHDD and _ATA_sendID.
CallIdentify(f) ==
  /\ drv = Idle
  /\ drv' = Command("IDENTIFY", 0, Garbage, 0, f)
  /\ UNCHANGED <<disk, scratch, table, header, ci, hba, sectorSize, answer>>

\* The FIS is put into the table, the data address behind it.
FillTable ==
  /\ drv.at = "called"
  /\ table' = TableOf(drv)
  /\ drv' = [drv EXCEPT !.at = "table"]
  /\ UNCHANGED <<disk, scratch, header, ci, hba, sectorSize, answer>>

\* The scratch buffer is cleared; a write then copies the caller's bytes in.
Loaded(c) == IF c.cmd = "WRITE" THEN Buffer(c.data, c.len) ELSE Cleared

FillScratch ==
  /\ drv.at = "table"
  /\ scratch' = [scratch EXCEPT ![ScratchOf(drv.cmd)] = Loaded(drv)]
  /\ drv' = [drv EXCEPT !.at = "scratch"]
  /\ UNCHANGED <<disk, table, header, ci, hba, sectorSize, answer>>

FillHeader ==
  /\ drv.at = "scratch"
  /\ header' = HeaderOf(drv)
  /\ drv' = [drv EXCEPT !.at = "header"]
  /\ UNCHANGED <<disk, scratch, table, ci, hba, sectorSize, answer>>

MayIssue == drv.at = "header"

Issue ==
  /\ MayIssue
  /\ ci' = 1
  /\ drv' = [drv EXCEPT !.at = "poll"]
  /\ UNCHANGED <<disk, scratch, table, header, hba, sectorSize, answer>>

\* The loop on CI ends.  Returning gives up the stack and so the table.
MayReturn == drv.at = "poll" /\ ci = 0

Return ==
  /\ MayReturn
  /\ drv' = Idle
  /\ table' = NoTable
  /\ answer' = IF drv.cmd = "READ" THEN <<drv.sector, scratch.read>> ELSE answer
  /\ sectorSize' = IF drv.cmd = "IDENTIFY" /\ scratch.read.len = 0
                     THEN SectorBytes ELSE sectorSize
  /\ UNCHANGED <<disk, scratch, header, ci, hba>>

Driver == FillTable \/ FillScratch \/ FillHeader \/ Issue \/ Return

-------------------------------------------------------------------------------
\* The HBA.  It reads the header and the table once, when it sees CI set.  It
\* drops the low bits of the address, so it finds a table only where it is aligned.
TableFound ==
  IF header.ctba = table.at /\ Aligned(header.ctba) THEN table ELSE NoTable

Fetch ==
  /\ hba.state = "idle"
  /\ ci = 1
  /\ hba' = [state |-> "run", header |-> header, table |-> TableFound]
  /\ UNCHANGED <<disk, scratch, table, header, ci, drv, sectorSize, answer>>

Runnable == hba.state = "run" /\ hba.table # NoTable

\* The data of an IDENTIFY: only the sector size field matters here.  Its header
\* says "write" (schismATA.c:111), and an HBA that goes by that delivers nothing.
Transfer ==
  /\ Runnable
  /\ LET fis == hba.table.fis
     IN  \/ /\ fis.cmd = "WRITE"
            /\ disk' = [disk EXCEPT ![fis.lba] = scratch[hba.table.base]]
            /\ UNCHANGED scratch
         \/ /\ fis.cmd = "READ"
            /\ scratch' = [scratch EXCEPT ![hba.table.base] = disk[fis.lba]]
            /\ UNCHANGED disk
         \/ /\ fis.cmd = "IDENTIFY"
            /\ \/ \E w \in SizeWords :
                    scratch' = [scratch EXCEPT ![hba.table.base] = Buffer(Garbage, w)]
               \/ hba.header.rw = "write" /\ UNCHANGED scratch
            /\ UNCHANGED disk
  /\ hba' = [state |-> "done"]
  /\ UNCHANGED <<table, header, ci, drv, sectorSize, answer>>

Complete ==
  /\ hba.state = "done"
  /\ ci' = 0
  /\ hba' = [state |-> "idle"]
  /\ UNCHANGED <<disk, scratch, table, header, drv, sectorSize, answer>>

\* The device reports an error, or there is no command where the HBA looks: it
\* stops and leaves CI alone.
Fail ==
  /\ hba.state = "run"
  /\ hba' = [state |-> "stopped"]
  /\ UNCHANGED <<disk, scratch, table, header, ci, drv, sectorSize, answer>>

HBA == Fetch \/ Transfer \/ Complete

Next == \/ \E s \in Sectors, d \in Data, n \in ByteCounts, f \in Frames :
             CallWrite(s, d, n, f)
        \/ \E s \in Sectors, f \in Frames : CallRead(s, f)
        \/ \E f \in Frames : CallIdentify(f)
        \/ Driver
        \/ HBA
        \/ Fail

Spec == Init /\ [][Next]_vars /\ WF_vars(Driver) /\ WF_vars(HBA)

-------------------------------------------------------------------------------
\* What a sector may hold.
Contents ==
  {Cleared} \cup {Buffer(d, n) : d \in Data, n \in {n \in ByteCounts : n <= SectorBytes}}

\* The HBA works on the command that was built, never on a header that is stale
\* or half written, nor on one the driver has given up; and on its table, if the
\* stack happens to align it.  Nothing in schismATA.c does, so a table elsewhere
\* is the exception here: the HBA looks for it at the address rounded down.
RunsTheIssuedCommand ==
  hba.state = "run" =>
    /\ drv.at = "poll"
    /\ hba.header = HeaderOf(drv)
    /\ Aligned(drv.frame) => hba.table = TableOf(drv)

\* While the HBA may touch the scratch buffers, the driver does not.
NoSharedAccess ==
  [][hba.state \in {"run", "done"} /\ Driver => UNCHANGED <<scratch, table, header>>]_vars

\* Every command whose table is aligned comes back, unless the device fails it:
\* nothing but CI ends the loop.
CommandReturns ==
  (drv.at = "poll" /\ Aligned(drv.frame)) ~> (drv = Idle \/ hba.state = "stopped")

\* The driver implements the abstract disk.
DiskSectors == [s \in Sectors |-> disk[Lba(s)]]
Performed == hba.state = "done" \/ (drv.at = "poll" /\ ci = 0)
CallInProgress ==
  CASE drv.cmd = "WRITE" -> [cmd |-> "WRITE", sector |-> drv.sector,
                             content |-> Buffer(drv.data, drv.len), done |-> Performed]
    [] drv.cmd = "READ" -> [cmd |-> "READ", sector |-> drv.sector, done |-> Performed]
    [] OTHER -> [cmd |-> "none"]
Disk == INSTANCE AbstractDisk WITH sectors <- DiskSectors, call <- CallInProgress
ImplementsDisk == Disk!Spec
===============================================================================
