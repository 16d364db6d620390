----------------------------- MODULE ATADiskProofs -----------------------------
(***************************************************************************)
(* The disk commands, for every set of sectors, of data and of sizes: the  *)
(* HBA carries out what was issued, the driver keeps away from what the    *)
(* HBA uses, and, as long as sectors fit into the byte lba0, the disk is   *)
(* the disk it promises to be.                                             *)
(***************************************************************************)
EXTENDS ATADisk, TLAPS

-------------------------------------------------------------------------------
\* The inductive invariant.  A call is in one of the places of the driver, and
\* what has been built so far is complete.
Places == {"called", "table", "scratch", "header", "poll"}
Commands == {"WRITE", "READ", "IDENTIFY"}

Calls ==
  {c \in [at : Places, cmd : Commands, sector : Nat, data : Data \cup {Garbage},
          len : Nat, frame : Frames] :
     /\ c.cmd # "IDENTIFY" => c.sector \in Sectors
     /\ c.cmd = "WRITE" => Buffer(c.data, c.len) \in Contents}

TypesOK ==
  /\ disk \in [0 .. (LbaSpan - 1) -> Contents]
  /\ DOMAIN scratch = {"read", "write"}
  /\ drv = Idle \/ drv \in Calls

TableBuilt ==
  drv.at \in {"table", "scratch", "header", "poll"} =>
    table = TableOf(drv)

HeaderBuilt ==
  drv.at \in {"header", "poll"} => header = HeaderOf(drv)

\* The HBA rests, except for the one command the driver waits for.
NothingIssued == hba.state = "idle" /\ ci = 0
Waiting == ci = 1 /\ hba.state \in {"idle", "stopped"}
Running ==
  /\ ci = 1
  /\ hba.state = "run"
  /\ hba.header = HeaderOf(drv)
  /\ hba.table = IF Aligned(drv.frame) THEN TableOf(drv) ELSE NoTable
CarriedOut ==
  /\ \/ ci = 1 /\ hba.state = "done"
     \/ ci = 0 /\ hba.state = "idle"
  /\ drv.cmd = "READ" => scratch.read = disk[Lba(drv.sector)]

HBAFollows ==
  IF drv.at = "poll" THEN Waiting \/ Running \/ CarriedOut ELSE NothingIssued

\* A write has its bytes in the scratch buffer until they are on the disk.
BytesReady ==
  /\ drv.at \in {"scratch", "header", "poll"}
  /\ drv.cmd = "WRITE"
  => scratch.write = Buffer(drv.data, drv.len)

AInv == TypesOK /\ TableBuilt /\ HeaderBuilt /\ HBAFollows /\ BytesReady

\* A call that moves on is the same call.
LEMMA MoveOn ==
  ASSUME NEW c \in Calls, NEW place \in Places
  PROVE  LET d == [c EXCEPT !.at = place]
         IN /\ d \in Calls
            /\ d.at = place /\ d.cmd = c.cmd
            /\ d.sector = c.sector /\ d.data = c.data /\ d.len = c.len
            /\ d.frame = c.frame
            /\ TableOf(d) = TableOf(c) /\ HeaderOf(d) = HeaderOf(c)
            /\ Loaded(d) = Loaded(c)
<1> DEFINE d == [c EXCEPT !.at = place]
<1> DEFINE R == [at : Places, cmd : Commands, sector : Nat, data : Data \cup {Garbage},
                 len : Nat, frame : Frames]
<1>1. c \in R
  BY DEF Calls
<1>2. d \in R
  BY <1>1
<1>3. /\ d.at = place /\ d.cmd = c.cmd
      /\ d.sector = c.sector /\ d.data = c.data /\ d.len = c.len
      /\ d.frame = c.frame
  BY <1>1
<1> HIDE DEF d, R
<1>4. d \in Calls
  BY <1>2, <1>3 DEF Calls, R
<1>5. /\ TableOf(d) = TableOf(c) /\ HeaderOf(d) = HeaderOf(c)
      /\ Loaded(d) = Loaded(c)
  BY <1>3 DEF TableOf, HeaderOf, Fis, Loaded
<1> QED
  BY <1>3, <1>4, <1>5 DEF d

\* A call in progress is in one of the places and carries one of the commands.
LEMMA InProgress ==
  ASSUME NEW c \in Calls
  PROVE  /\ c.at \in Places /\ c.cmd \in Commands /\ c.sector \in Nat
         /\ c.cmd # "IDENTIFY" => c.sector \in Sectors
         /\ c.cmd = "WRITE" => Buffer(c.data, c.len) \in Contents
         /\ c # Idle
BY DEF Calls, Idle, Places

\* A call that begins.
LEMMA CallBegins ==
  ASSUME NEW cmd \in Commands, NEW s \in Nat, NEW d \in Data \cup {Garbage}, NEW n \in Nat,
         NEW f \in Frames,
         cmd # "IDENTIFY" => s \in Sectors,
         cmd = "WRITE" => Buffer(d, n) \in Contents
  PROVE  LET c == Command(cmd, s, d, n, f)
         IN /\ c \in Calls
            /\ c.at = "called" /\ c.cmd = cmd /\ c.sector = s /\ c.data = d /\ c.len = n
BY DEF Command, Calls, Places

\* The invariant holds at first.
LEMMA AInvInit == Init => AInv
<1> SUFFICES ASSUME Init PROVE AInv
  OBVIOUS
<1>1. Cleared \in Contents
  BY DEF Contents
<1>2. drv.at = "idle"
  BY DEF Init, Idle
<1> QED
  BY <1>1, <1>2 DEF Init, AInv, TypesOK, TableBuilt, HeaderBuilt, HBAFollows,
     NothingIssued, BytesReady

\* A call comes from where nothing is issued.
LEMMA BeginAInv ==
  ASSUME AInv, drv = Idle, NEW c \in Calls, c.at = "called", drv' = c,
         UNCHANGED <<disk, scratch, table, header, ci, hba>>
  PROVE  AInv'
<1>1. drv.at = "idle"
  BY DEF Idle
<1> QED
  BY <1>1 DEF AInv, TypesOK, TableBuilt, HeaderBuilt, HBAFollows, NothingIssued, BytesReady

\* The calls keep the invariant.
LEMMA CallsAInv ==
  ASSUME AInv
  PROVE  /\ \A s \in Sectors, d \in Data, n \in ByteCounts, f \in Frames :
              CallWrite(s, d, n, f) => AInv'
         /\ \A s \in Sectors, f \in Frames : CallRead(s, f) => AInv'
         /\ \A f \in Frames : CallIdentify(f) => AInv'
<1> USE ATADiskAssumption
<1>1. ASSUME NEW s \in Sectors, NEW d \in Data, NEW n \in ByteCounts, NEW f \in Frames,
             CallWrite(s, d, n, f)
      PROVE  AInv'
  <2>1. Buffer(d, n) \in Contents
    BY <1>1 DEF CallWrite, Accepted, Contents
  <2> QED
    BY <1>1, <2>1, CallBegins, BeginAInv DEF CallWrite, Commands
<1>2. ASSUME NEW s \in Sectors, NEW f \in Frames, CallRead(s, f) PROVE AInv'
  BY <1>2, CallBegins, BeginAInv DEF CallRead, Commands
<1>3. ASSUME NEW f \in Frames, CallIdentify(f) PROVE AInv'
  BY <1>3, CallBegins, BeginAInv DEF CallIdentify, Commands
<1> QED
  BY <1>1, <1>2, <1>3

\* The driver keeps the invariant.
LEMMA DriverAInv == AInv /\ Driver => AInv'
<1> SUFFICES ASSUME AInv, Driver PROVE AInv'
  OBVIOUS
<1> USE DEF AInv
<1>1. drv \in Calls
  BY DEF Driver, FillTable, FillScratch, FillHeader, Issue, Return, MayIssue, MayReturn,
     TypesOK, Idle
<1>2. CASE FillTable
  <2>1. /\ drv' \in Calls /\ drv'.at = "table" /\ drv'.cmd = drv.cmd
        /\ TableOf(drv') = TableOf(drv)
    BY <1>1, <1>2, MoveOn DEF FillTable, Places
  <2> QED
    BY <1>2, <2>1 DEF FillTable, TypesOK, TableBuilt, HeaderBuilt, HBAFollows,
       NothingIssued, BytesReady
<1>3. CASE FillScratch
  <2>1. /\ drv' \in Calls /\ drv'.at = "scratch" /\ drv'.cmd = drv.cmd
        /\ TableOf(drv') = TableOf(drv) /\ HeaderOf(drv') = HeaderOf(drv)
        /\ drv'.data = drv.data /\ drv'.len = drv.len
    BY <1>1, <1>3, MoveOn DEF FillScratch, Places
  <2>2. BytesReady'
    BY <1>3, <2>1 DEF FillScratch, BytesReady, Loaded, ScratchOf, TypesOK
  <2> QED
    BY <1>3, <2>1, <2>2 DEF FillScratch, TypesOK, TableBuilt, HeaderBuilt, HBAFollows,
       NothingIssued
<1>4. CASE FillHeader
  <2>1. /\ drv' \in Calls /\ drv'.at = "header" /\ drv'.cmd = drv.cmd
        /\ TableOf(drv') = TableOf(drv) /\ HeaderOf(drv') = HeaderOf(drv)
        /\ drv'.data = drv.data /\ drv'.len = drv.len
    BY <1>1, <1>4, MoveOn DEF FillHeader, Places
  <2> QED
    BY <1>4, <2>1 DEF FillHeader, TypesOK, TableBuilt, HeaderBuilt, HBAFollows,
       NothingIssued, BytesReady
<1>5. CASE Issue
  <2>1. /\ drv' \in Calls /\ drv'.at = "poll" /\ drv'.cmd = drv.cmd
        /\ TableOf(drv') = TableOf(drv) /\ HeaderOf(drv') = HeaderOf(drv)
        /\ drv'.data = drv.data /\ drv'.len = drv.len
    BY <1>1, <1>5, MoveOn DEF Issue, Places
  <2>2. HBAFollows'
    BY <1>5, <2>1 DEF Issue, MayIssue, HBAFollows, NothingIssued, Waiting
  <2> QED
    BY <1>5, <2>1, <2>2 DEF Issue, MayIssue, TypesOK, TableBuilt, HeaderBuilt, BytesReady
<1>6. CASE Return
  <2>1. drv' = Idle /\ drv'.at = "idle"
    BY <1>6 DEF Return, Idle
  <2>2. HBAFollows'
    BY <1>6, <2>1 DEF Return, MayReturn, HBAFollows, NothingIssued, Waiting, Running,
       CarriedOut
  <2> QED
    BY <1>6, <2>1, <2>2 DEF Return, TypesOK, TableBuilt, HeaderBuilt, BytesReady
<1> QED
  BY <1>2, <1>3, <1>4, <1>5, <1>6 DEF Driver

\* The HBA keeps the invariant: it moves only while the driver waits.
LEMMA HBAAInv == AInv /\ (HBA \/ Fail) => AInv'
<1> SUFFICES ASSUME AInv, HBA \/ Fail PROVE AInv'
  OBVIOUS
<1> USE DEF AInv
<1>1. drv.at = "poll" /\ drv \in Calls /\ drv' = drv
  BY DEF HBA, Fetch, Transfer, Complete, Fail, Runnable, HBAFollows, NothingIssued, TypesOK,
     Idle
<1>2. CASE Fetch
  <2>1. Running'
    BY <1>1, <1>2
       DEF Fetch, TableFound, Running, TableBuilt, HeaderBuilt, TableOf, HeaderOf, NoTable
  <2> QED
    BY <1>1, <1>2, <2>1 DEF Fetch, TypesOK, TableBuilt, HeaderBuilt, HBAFollows, BytesReady
<1>3. CASE Fail
  <2>1. Waiting'
    BY <1>1, <1>3 DEF Fail, HBAFollows, Waiting, Running, CarriedOut
  <2> QED
    BY <1>1, <1>3, <2>1 DEF Fail, TypesOK, TableBuilt, HeaderBuilt, HBAFollows, BytesReady
<1>4. CASE Complete
  <2>1. CarriedOut'
    BY <1>1, <1>4 DEF Complete, HBAFollows, Waiting, Running, CarriedOut
  <2> QED
    BY <1>1, <1>4, <2>1 DEF Complete, TypesOK, TableBuilt, HeaderBuilt, HBAFollows, BytesReady
<1>5. CASE Transfer
  <2>1. /\ ci = 1 /\ hba.table.fis.cmd = drv.cmd /\ hba.table.fis.lba = Lba(drv.sector)
        /\ hba.table.base = ScratchOf(drv.cmd)
    BY <1>1, <1>5 DEF Transfer, Runnable, HBAFollows, Waiting, Running, CarriedOut,
       TableOf, Fis
  <2>2. Lba(drv.sector) \in 0 .. (LbaSpan - 1)
    BY <1>1, InProgress, ATADiskAssumption DEF Lba
  <2>3. /\ disk' \in [0 .. (LbaSpan - 1) -> Contents]
        /\ DOMAIN scratch' = {"read", "write"}
        /\ drv.cmd = "READ" => scratch'.read = disk'[Lba(drv.sector)]
        /\ drv.cmd = "WRITE" => scratch'.write = scratch.write
    <3>1. CASE drv.cmd = "WRITE"
      <4>1. disk' = [disk EXCEPT ![Lba(drv.sector)] = scratch.write] /\ scratch' = scratch
        BY <1>5, <2>1, <3>1 DEF Transfer, ScratchOf
      <4>2. scratch.write \in Contents
        BY <1>1, <3>1, InProgress DEF BytesReady
      <4> QED
        BY <3>1, <4>1, <4>2 DEF TypesOK
    <3>2. CASE drv.cmd = "READ"
      <4>1. disk' = disk /\ scratch' = [scratch EXCEPT !.read = disk[Lba(drv.sector)]]
        BY <1>5, <2>1, <3>2 DEF Transfer, ScratchOf
      <4> QED
        BY <3>2, <4>1 DEF TypesOK
    <3>3. CASE drv.cmd = "IDENTIFY"
      BY <1>5, <2>1, <3>3 DEF Transfer, TypesOK
    <3> QED
      BY <1>1, <3>1, <3>2, <3>3, InProgress DEF Commands
  <2>4. CarriedOut'
    BY <1>1, <1>5, <2>1, <2>3 DEF Transfer, CarriedOut
  <2> QED
    BY <1>1, <1>5, <2>3, <2>4 DEF Transfer, TypesOK, TableBuilt, HeaderBuilt, HBAFollows,
       BytesReady
<1> QED
  BY <1>2, <1>3, <1>4, <1>5 DEF HBA

\* The invariant is kept by every step.
LEMMA AInvNext == AInv /\ [Next]_vars => AInv'
<1>1. AInv /\ UNCHANGED vars => AInv'
  BY DEF vars, AInv, TypesOK, TableBuilt, HeaderBuilt, HBAFollows, NothingIssued, Waiting,
     Running, CarriedOut, BytesReady
<1> QED
  BY <1>1, CallsAInv, DriverAInv, HBAAInv DEF Next

-------------------------------------------------------------------------------
\* The HBA only works on the command the driver waits for, as it was built, and on
\* its table wherever the stack aligns that (the commands of schismATA.c).
THEOREM IssuedCommandRuns == Spec => []RunsTheIssuedCommand
<1>1. AInv => RunsTheIssuedCommand
  BY DEF AInv, HBAFollows, NothingIssued, Waiting, Running, CarriedOut, RunsTheIssuedCommand
<1> QED
  BY <1>1, AInvInit, AInvNext, PTL DEF Spec

\* The driver does not touch what the HBA works on.
THEOREM BuffersNotShared == Spec => NoSharedAccess
<1>1. AInv /\ [Next]_vars =>
        [hba.state \in {"run", "done"} /\ Driver => UNCHANGED <<scratch, table, header>>]_vars
  BY DEF AInv, HBAFollows, NothingIssued, Waiting, Running, CarriedOut, Driver, FillTable,
     FillScratch, FillHeader, Issue, Return, MayIssue, MayReturn
<1> QED
  BY <1>1, AInvInit, AInvNext, PTL DEF Spec, NoSharedAccess

-------------------------------------------------------------------------------
\* As long as the sectors fit into the byte lba0, each is a sector of its own.
\* Every step of the driver and the HBA is then one of the abstract disk.

\* Which call of the abstract disk a call is.
LEMMA AbstractCall ==
  /\ drv.cmd = "WRITE" => CallInProgress =
       [cmd |-> "WRITE", sector |-> drv.sector,
        content |-> Buffer(drv.data, drv.len), done |-> Performed]
  /\ drv.cmd = "READ" => CallInProgress =
       [cmd |-> "READ", sector |-> drv.sector, done |-> Performed]
  /\ drv.cmd \notin {"WRITE", "READ"} => CallInProgress = Disk!NoCall
BY DEF CallInProgress, Disk!NoCall

\* The abstract disk sees nothing of a step that leaves the medium, the answer, the
\* call and its progress as they are.
LEMMA Stutters ==
  ASSUME UNCHANGED <<disk, answer>>,
         \/ drv.cmd \notin {"WRITE", "READ"} /\ drv'.cmd \notin {"WRITE", "READ"}
         \/ /\ Performed' = Performed
            /\ drv'.cmd = drv.cmd /\ drv'.sector = drv.sector
            /\ drv'.data = drv.data /\ drv'.len = drv.len
  PROVE  UNCHANGED Disk!vars
<1>1. DiskSectors' = DiskSectors
  BY DEF DiskSectors
<1>2. CallInProgress' = CallInProgress
  BY DEF CallInProgress, Buffer
<1> QED
  BY <1>1, <1>2 DEF Disk!vars

\* A call once it is carried out.
LEMMA DoneRead ==
  ASSUME NEW s
  PROVE  LET r == [cmd |-> "READ", sector |-> s, done |-> FALSE]
         IN /\ r.cmd = "READ" /\ ~r.done
            /\ [r EXCEPT !.done = TRUE] = [cmd |-> "READ", sector |-> s, done |-> TRUE]
<1> DEFINE r == [cmd |-> "READ", sector |-> s, done |-> FALSE]
<1>1. r.cmd = "READ" /\ ~r.done
  OBVIOUS
<1>2. \A d : [r EXCEPT !.done = d] = [cmd |-> "READ", sector |-> s, done |-> d]
  OBVIOUS
<1> QED
  BY <1>1, <1>2, Zenon

\* The fields of a write that is pending, and that is done.
LEMMA DoneWrite ==
  ASSUME NEW s, NEW c
  PROVE  LET r == [cmd |-> "WRITE", sector |-> s, content |-> c, done |-> FALSE]
         IN /\ r.cmd = "WRITE" /\ ~r.done /\ r.sector = s /\ r.content = c
            /\ [r EXCEPT !.done = TRUE]
                 = [cmd |-> "WRITE", sector |-> s, content |-> c, done |-> TRUE]
<1> DEFINE r == [cmd |-> "WRITE", sector |-> s, content |-> c, done |-> FALSE]
<1>1. r.cmd = "WRITE" /\ ~r.done /\ r.sector = s /\ r.content = c
  OBVIOUS
<1>2. \A d : [r EXCEPT !.done = d]
               = [cmd |-> "WRITE", sector |-> s, content |-> c, done |-> d]
  OBVIOUS
<1> QED
  BY <1>1, <1>2, Zenon

\* The driver starts where the abstract disk does.
LEMMA InitImplements == Init => Disk!Init
<1> SUFFICES ASSUME Init PROVE Disk!Init
  OBVIOUS
<1>1. Cleared \in Contents
  BY DEF Contents
<1>2. \A s \in Sectors : disk[Lba(s)] = Cleared
  BY ATADiskAssumption DEF Init, Lba
<1>3. DiskSectors \in [Sectors -> Contents]
  BY <1>1, <1>2 DEF DiskSectors
<1>4. CallInProgress = Disk!NoCall
  BY AbstractCall DEF Init, Idle
<1> QED
  BY <1>3, <1>4 DEF Init, Disk!Init

\* A call is a call of the abstract disk, or a stutter.
LEMMA CallsImplement ==
  ASSUME AInv
  PROVE  /\ \A s \in Sectors, d \in Data, n \in ByteCounts, f \in Frames :
              CallWrite(s, d, n, f) => Disk!Next
         /\ \A s \in Sectors, f \in Frames : CallRead(s, f) => Disk!Next
         /\ \A f \in Frames : CallIdentify(f) => UNCHANGED Disk!vars
<1> USE ATADiskAssumption
<1> SUFFICES ASSUME drv = Idle
             PROVE  /\ \A s \in Sectors, d \in Data, n \in ByteCounts, f \in Frames :
                         CallWrite(s, d, n, f) => Disk!Next
                    /\ \A s \in Sectors, f \in Frames : CallRead(s, f) => Disk!Next
                    /\ \A f \in Frames : CallIdentify(f) => UNCHANGED Disk!vars
  BY DEF CallWrite, CallRead, CallIdentify
<1>1. drv.cmd = "none" /\ drv.at = "idle"
  BY DEF Idle
<1>2. CallInProgress = Disk!NoCall
  BY <1>1, AbstractCall
<1>3. ci = 0 /\ hba.state = "idle"
  BY <1>1 DEF AInv, HBAFollows, NothingIssued
<1>4. ASSUME NEW s \in Sectors, NEW d \in Data, NEW n \in ByteCounts, NEW f \in Frames,
             CallWrite(s, d, n, f)
      PROVE  Disk!Next
  <2>1. Buffer(d, n) \in Contents
    BY <1>4 DEF CallWrite, Accepted, Contents
  <2>2. /\ drv'.at = "called" /\ drv'.cmd = "WRITE" /\ drv'.sector = s
        /\ drv'.data = d /\ drv'.len = n
    BY <1>4 DEF CallWrite, Command
  <2>3. Performed' = FALSE
    BY <1>3, <1>4, <2>2 DEF CallWrite, Performed
  <2>4. CallInProgress' = Disk!Write(s, Buffer(d, n))
    BY <2>2, <2>3 DEF CallInProgress, Disk!Write, Buffer
  <2>5. DiskSectors' = DiskSectors /\ answer' = answer
    BY <1>4 DEF CallWrite, DiskSectors
  <2> QED
    BY <1>2, <2>1, <2>4, <2>5 DEF Disk!Next, Disk!Begin
<1>5. ASSUME NEW s \in Sectors, NEW f \in Frames, CallRead(s, f) PROVE Disk!Next
  <2>1. /\ drv'.at = "called" /\ drv'.cmd = "READ" /\ drv'.sector = s
    BY <1>5 DEF CallRead, Command
  <2>2. Performed' = FALSE
    BY <1>3, <1>5, <2>1 DEF CallRead, Performed
  <2>3. CallInProgress' = Disk!Read(s)
    BY <2>1, <2>2 DEF CallInProgress, Disk!Read
  <2>4. DiskSectors' = DiskSectors /\ answer' = answer
    BY <1>5 DEF CallRead, DiskSectors
  <2> QED
    BY <1>2, <2>3, <2>4 DEF Disk!Next, Disk!Begin
<1>6. ASSUME NEW f \in Frames, CallIdentify(f) PROVE UNCHANGED Disk!vars
  <2>1. drv'.cmd = "IDENTIFY" /\ UNCHANGED <<disk, answer>>
    BY <1>6 DEF CallIdentify, Command
  <2> QED
    BY <1>1, <2>1, Stutters
<1> QED
  BY <1>4, <1>5, <1>6

\* The driver's other steps are stutters or its answers.
LEMMA DriverImplements ==
  ASSUME AInv, Driver
  PROVE  [Disk!Next]_Disk!vars
<1> USE DEF AInv
<1>1. drv \in Calls
  BY DEF Driver, FillTable, FillScratch, FillHeader, Issue, Return, MayIssue, MayReturn,
     TypesOK, Idle
<1>2. CASE FillTable \/ FillScratch \/ FillHeader \/ Issue
  <2>1. PICK place \in Places : drv' = [drv EXCEPT !.at = place]
    BY <1>2 DEF FillTable, FillScratch, FillHeader, Issue, Places
  <2>2. /\ drv'.cmd = drv.cmd /\ drv'.sector = drv.sector
        /\ drv'.data = drv.data /\ drv'.len = drv.len /\ drv'.at = place
    BY <1>1, <2>1, MoveOn
  <2>3. drv.at # "poll" /\ ci = 0 /\ hba.state = "idle" /\ hba' = hba
    BY <1>2 DEF FillTable, FillScratch, FillHeader, Issue, MayIssue, HBAFollows, NothingIssued
  <2>4. drv'.at # "poll" \/ ci' = 1
    BY <1>1, <1>2, MoveOn DEF FillTable, FillScratch, FillHeader, Issue, Places
  <2>5. Performed = FALSE /\ Performed' = FALSE
    BY <2>3, <2>4 DEF Performed
  <2>6. UNCHANGED <<disk, answer>>
    BY <1>2 DEF FillTable, FillScratch, FillHeader, Issue
  <2> QED
    BY <2>2, <2>5, <2>6, Stutters
<1>3. CASE Return
  <2>1. /\ drv.at = "poll" /\ ci = 0 /\ drv' = Idle /\ drv'.cmd = "none"
        /\ disk' = disk
        /\ answer' = IF drv.cmd = "READ" THEN <<drv.sector, scratch.read>> ELSE answer
    BY <1>3 DEF Return, MayReturn, Idle
  <2>2. Performed = TRUE
    BY <2>1 DEF Performed
  <2>3. CallInProgress' = Disk!NoCall
    BY <2>1 DEF CallInProgress, Disk!NoCall
  <2>4. DiskSectors' = DiskSectors
    BY <2>1 DEF DiskSectors
  <2>5. CASE drv.cmd = "IDENTIFY"
    BY <2>1, <2>5, Stutters
  <2>6. CASE drv.cmd = "WRITE"
    <3>1. /\ CallInProgress # Disk!NoCall /\ CallInProgress.done
          /\ CallInProgress.cmd = "WRITE"
      <4>1. CallInProgress = [cmd |-> "WRITE", sector |-> drv.sector,
                              content |-> Buffer(drv.data, drv.len), done |-> TRUE]
        BY <2>2, <2>6 DEF CallInProgress
      <4>2. CallInProgress.cmd = "WRITE" /\ CallInProgress.done
        BY <4>1
      <4> QED
        BY <4>2 DEF Disk!NoCall
    <3> QED
      BY <2>1, <2>3, <2>4, <2>6, <3>1 DEF Disk!Next, Disk!End
  <2>7. CASE drv.cmd = "READ"
    <3>1. /\ CallInProgress # Disk!NoCall /\ CallInProgress.done
          /\ CallInProgress.cmd = "READ" /\ CallInProgress.sector = drv.sector
      <4>1. CallInProgress = [cmd |-> "READ", sector |-> drv.sector, done |-> TRUE]
        BY <2>2, <2>7 DEF CallInProgress
      <4>2. /\ CallInProgress.cmd = "READ" /\ CallInProgress.done
            /\ CallInProgress.sector = drv.sector
        BY <4>1
      <4> QED
        BY <4>2 DEF Disk!NoCall
    <3>2. scratch.read = disk[Lba(drv.sector)]
      BY <2>1, <2>7 DEF HBAFollows, Waiting, Running, CarriedOut
    <3>3. DiskSectors[drv.sector] = scratch.read
      BY <1>1, <2>7, <3>2, InProgress DEF DiskSectors
    <3>4. answer' = <<CallInProgress.sector, DiskSectors[CallInProgress.sector]>>
      BY <2>1, <2>7, <3>1, <3>3
    <3> QED
      BY <2>3, <2>4, <3>1, <3>4 DEF Disk!Next, Disk!End
  <2> QED
    BY <1>1, <2>5, <2>6, <2>7, InProgress DEF Commands
<1> QED
  BY <1>2, <1>3 DEF Driver

\* The HBA's steps are the operation itself, or stutters.
LEMMA HBAImplements ==
  ASSUME Sectors \subseteq 0 .. (LbaSpan - 1), AInv, HBA \/ Fail
  PROVE  [Disk!Next]_Disk!vars
<1> USE DEF AInv
<1>1. drv.at = "poll" /\ drv \in Calls /\ drv' = drv /\ answer' = answer
  BY DEF HBA, Fetch, Transfer, Complete, Fail, Runnable, HBAFollows, NothingIssued, TypesOK,
     Idle
<1>2. CASE Fetch
  <2>1. disk' = disk /\ Performed = FALSE /\ Performed' = FALSE
    BY <1>1, <1>2 DEF Fetch, Performed
  <2> QED
    BY <1>1, <2>1, Stutters
<1>3. CASE Fail
  <2>1. ci = 1
    BY <1>1, <1>3 DEF Fail, Runnable, HBAFollows, Waiting, Running, CarriedOut
  <2>2. disk' = disk /\ Performed = FALSE /\ Performed' = FALSE
    BY <1>1, <1>3, <2>1 DEF Fail, Runnable, Performed
  <2> QED
    BY <1>1, <2>2, Stutters
<1>4. CASE Complete
  <2>1. disk' = disk /\ Performed = TRUE /\ Performed' = TRUE
    BY <1>1, <1>4 DEF Complete, Performed
  <2> QED
    BY <1>1, <2>1, Stutters
<1>5. CASE Transfer
  <2>1. /\ ci = 1 /\ hba.table.fis.cmd = drv.cmd /\ hba.table.fis.lba = Lba(drv.sector)
        /\ hba.table.base = ScratchOf(drv.cmd)
    BY <1>1, <1>5 DEF Transfer, Runnable, HBAFollows, Waiting, Running, CarriedOut,
       TableOf, Fis
  <2>2. Performed = FALSE /\ Performed' = TRUE
    BY <1>1, <1>5, <2>1 DEF Transfer, Runnable, Performed
  <2>3. \A s \in Sectors : Lba(s) = s
    BY ATADiskAssumption DEF Lba
  <2>4. CASE drv.cmd = "IDENTIFY"
    <3>1. disk' = disk
      BY <1>5, <2>1, <2>4 DEF Transfer
    <3> QED
      BY <1>1, <2>4, <3>1, Stutters
  <2>5. CASE drv.cmd = "READ"
    <3>1. DiskSectors' = DiskSectors
      BY <1>5, <2>1, <2>5 DEF Transfer, DiskSectors
    <3>2. /\ CallInProgress = [cmd |-> "READ", sector |-> drv.sector, done |-> FALSE]
          /\ CallInProgress' = [cmd |-> "READ", sector |-> drv.sector, done |-> TRUE]
      BY <1>1, <2>2, <2>5 DEF CallInProgress
    <3>3. CallInProgress # Disk!NoCall
      BY <3>2 DEF Disk!NoCall
    <3> QED
      <4>1. /\ ~CallInProgress.done /\ CallInProgress.cmd = "READ"
            /\ CallInProgress' = [CallInProgress EXCEPT !.done = TRUE]
        BY <3>2, DoneRead
      <4> QED
        BY <1>1, <3>1, <3>3, <4>1 DEF Disk!Next, Disk!Perform
  <2>6. CASE drv.cmd = "WRITE"
    <3>1. disk' = [disk EXCEPT ![Lba(drv.sector)] = Buffer(drv.data, drv.len)]
      BY <1>1, <1>5, <2>1, <2>6 DEF Transfer, ScratchOf, BytesReady
    <3>2. drv.sector \in Sectors
      BY <1>1, <2>6, InProgress
    <3>3. DiskSectors' = [DiskSectors EXCEPT ![drv.sector] = Buffer(drv.data, drv.len)]
      BY <2>3, <3>1, <3>2 DEF TypesOK, DiskSectors
    <3>4. /\ CallInProgress = [cmd |-> "WRITE", sector |-> drv.sector,
                               content |-> Buffer(drv.data, drv.len), done |-> FALSE]
          /\ CallInProgress' = [cmd |-> "WRITE", sector |-> drv.sector,
                                content |-> Buffer(drv.data, drv.len), done |-> TRUE]
      BY <1>1, <2>2, <2>6 DEF CallInProgress, Buffer
    <3>5. CallInProgress # Disk!NoCall
      BY <3>4 DEF Disk!NoCall
    <3> QED
      <4>1. /\ ~CallInProgress.done /\ CallInProgress.cmd = "WRITE"
            /\ CallInProgress.sector = drv.sector
            /\ CallInProgress.content = Buffer(drv.data, drv.len)
            /\ CallInProgress' = [CallInProgress EXCEPT !.done = TRUE]
        BY <3>4, DoneWrite
      <4> QED
        BY <1>1, <3>3, <3>5, <4>1 DEF Disk!Next, Disk!Perform
  <2> QED
    BY <1>1, <2>4, <2>5, <2>6, InProgress DEF Commands
<1> QED
  BY <1>2, <1>3, <1>4, <1>5 DEF HBA

\* The driver implements the abstract disk, whatever the HBA does in its own time,
\* where no two sectors share a byte lba0 (_ATA_writeSector, _ATA_readSector).
THEOREM DriverImplementsDisk ==
  ASSUME Sectors \subseteq 0 .. (LbaSpan - 1)
  PROVE  Spec => ImplementsDisk
<1>1. AInv /\ [Next]_vars => [Disk!Next]_Disk!vars
  <2>1. UNCHANGED vars => UNCHANGED Disk!vars
    BY DEF vars, Disk!vars, DiskSectors, CallInProgress, Performed, Buffer
  <2> QED
    BY <2>1, CallsImplement, DriverImplements, HBAImplements DEF Next
<1> QED
  BY <1>1, AInvInit, AInvNext, InitImplements, PTL DEF Spec, ImplementsDisk, Disk!Spec

===============================================================================
