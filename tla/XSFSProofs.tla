------------------------------ MODULE XSFSProofs ------------------------------
(***************************************************************************)
(* The extents of the file system stay apart and large enough for every    *)
(* disk, every set of names and sizes and any number of records, whatever  *)
(* is deleted, reused or cut off by a power loss.  Files of one sector and *)
(* one size implement the abstract file system and read back what was      *)
(* stored.                                                                 *)
(***************************************************************************)
EXTENDS XSFS, NumberFacts, TLAPS

\* A record in itself: an extent that may be empty, and a size that fits it.
RecordOK(r) ==
  /\ r \in RecordType
  /\ r.end >= r.start - 1
  /\ r.size <= BlocksOf(r) * BytesPerSector

\* Records whose extents lie one behind the other, each large enough.
Laid(rs) ==
  /\ rs \in Seq(RecordType)
  /\ \A i \in DOMAIN rs : RecordOK(rs[i])
  /\ \A i, j \in DOMAIN rs : i < j => rs[i].end < rs[j].start

\* No file of another name has a sector from first to last.
OthersApart(rs, n, first, last) ==
  \A i \in DOMAIN rs :
    rs[i].name # n => rs[i].end < first \/ last < rs[i].start

Recreations == [step : {"recreate"}, name : Names, ver : Versions, size : Nat]
Writings == [step : {"write"}, name : Names, ver : Versions, size : Nat,
             left : Nat, sect : Nat, last : Int]

OpOK ==
  /\ op \in {Idle} \cup Recreations \cup Writings
  /\ op.step = "write" => OthersApart(recs, op.name, op.sect, op.last)

IInv == Laid(recs) /\ OpOK /\ DOMAIN disk = DataSectors

-------------------------------------------------------------------------------
\* Blocks is the least number of sectors that hold size bytes (xsfs.c:81, 209).
LEMMA BlocksLeast ==
  ASSUME NEW size \in Nat
  PROVE  /\ Blocks(size) \in Nat
         /\ size <= Blocks(size) * BytesPerSector
         /\ \A k \in Int : size <= k * BytesPerSector => Blocks(size) <= k
<1> DEFINE B == BytesPerSector
<1> DEFINE q == size \div B
<1> DEFINE r == size % B
<1>1. B \in Nat \ {0}
  BY XSFSAssumption
<1>2. size = B * q + r /\ q \in Nat /\ r \in 0 .. (B - 1)
  BY <1>1, DivMod
<1>3. Blocks(size) = IF size > q * B THEN q + 1 ELSE q
  BY DEF Blocks
<1> HIDE DEF B, q, r
<1>4. q * B = B * q /\ (q + 1) * B = B * q + B
  BY <1>1, <1>2
<1>5. size > q * B <=> r > 0
  BY <1>1, <1>2, <1>4
<1>6. Blocks(size) \in Nat /\ size <= Blocks(size) * B
  BY <1>1, <1>2, <1>3, <1>4, <1>5
<1>7. ASSUME NEW k \in Int, size <= k * B
      PROVE  Blocks(size) <= k
  <2>1. k * B - q * B = B * (k - q) /\ B * (k - q) >= r
    BY <1>1, <1>2, <1>4, <1>7
  <2>2. CASE k - q <= -1
    <3>1. B * (k - q) <= -B
      BY <1>1, <1>2, <2>2
    <3> QED
      BY <1>1, <1>2, <2>1, <3>1
  <2>3. CASE k - q = 0
    BY <1>1, <1>2, <1>3, <1>5, <2>1, <2>3
  <2>4. CASE k - q >= 1
    BY <1>2, <1>3, <2>4
  <2> QED
    BY <1>2, <2>2, <2>3, <2>4
<1> QED
  BY <1>6, <1>7 DEF B

\* The searches stop at a record that they look for.
LEMMA FirstFound ==
  ASSUME NEW S \in SUBSET Nat, S # {}
  PROVE  First(S) \in S
<1>1. PICK m \in S : \A k \in S : ~ (<<k, m>> \in OpToRel(<, Nat))
  BY NatLessThanWellFounded, WFMin
<1>2. \A k \in S : m <= k
  <2>1. ASSUME NEW k \in S, k < m
        PROVE  <<k, m>> \in OpToRel(<, Nat)
    <3>1. <<k, m>> \in Nat \X Nat /\ <<k, m>>[1] < <<k, m>>[2]
      BY <2>1
    <3> QED
      BY <3>1, Zenon DEF OpToRel
  <2>2. \A k \in S : ~ (k < m)
    BY <1>1, <2>1
  <2> QED
    BY <2>2
<1> QED
  BY <1>2 DEF First

\* A record whose size still fits its extent may take a new size in place:
\* createFile reuses it (xsfs.c:33-54), updateFile shrinks it (lines 204-212).
LEMMA ShorterExtent ==
  ASSUME NEW start \in Nat, NEW last \in Int, NEW size \in Nat,
         Blocks(size) <= last - start + 1
  PROVE  /\ EndBlock(start, size) \in Int
         /\ EndBlock(start, size) <= last
         /\ EndBlock(start, size) >= start - 1
         /\ size <= (EndBlock(start, size) - start + 1) * BytesPerSector
<1>1. Blocks(size) \in Nat /\ size <= Blocks(size) * BytesPerSector
  BY BlocksLeast
<1>2. EndBlock(start, size) = start + Blocks(size) - 1
  BY DEF EndBlock
<1>3. EndBlock(start, size) - start + 1 = Blocks(size)
  BY <1>1, <1>2
<1> QED
  BY <1>1, <1>2, <1>3

\* A record that is replaced by one no longer leaves the others apart from it.
LEMMA ReplaceLaid ==
  ASSUME NEW rs, Laid(rs), NEW i \in DOMAIN rs, NEW r, RecordOK(r),
         r.start = rs[i].start, r.end <= rs[i].end
  PROVE  /\ Laid([rs EXCEPT ![i] = r])
         /\ DOMAIN [rs EXCEPT ![i] = r] = DOMAIN rs
<1> DEFINE new == [rs EXCEPT ![i] = r]
<1>1. r \in RecordType /\ rs \in Seq(RecordType)
  BY DEF Laid, RecordOK
<1>2. /\ new \in Seq(RecordType)
      /\ DOMAIN new = DOMAIN rs
      /\ new[i] = r
      /\ \A j \in DOMAIN rs : j # i => new[j] = rs[j]
  BY <1>1
<1> HIDE DEF new
<1>3. \A j \in DOMAIN new : RecordOK(new[j])
  BY <1>2 DEF Laid
<1>4. ASSUME NEW j \in DOMAIN new, NEW k \in DOMAIN new, j < k
      PROVE  new[j].end < new[k].start
  <2>1. rs[j].end < rs[k].start
    BY <1>2, <1>4 DEF Laid
  <2>2. /\ new[j] = rs[j] \/ new[j].end <= rs[j].end
        /\ new[k].start = rs[k].start
    BY <1>2, <1>4
  <2>3. rs[j] \in RecordType /\ rs[k] \in RecordType /\ new[j] \in RecordType
    BY <1>1, <1>2, <1>4
  <2>4. rs[j].end \in Int /\ rs[k].start \in Int /\ new[j].end \in Int
    BY <2>3 DEF RecordType
  <2> QED
    BY <2>1, <2>2, <2>4
<1>5. Laid(new)
  BY <1>2, <1>3, <1>4 DEF Laid
<1> QED
  BY <1>2, <1>5 DEF new

\* The record that a search finds belongs to the name searched for, and no
\* other name has a sector of its extent (findFileRecord, xsfs.c:235-269).
LEMMA FoundApart ==
  ASSUME NEW rs, Laid(rs), NEW n, {i \in DOMAIN rs : rs[i].name = n} # {}
  PROVE  LET i == First({k \in DOMAIN rs : rs[k].name = n})
         IN  /\ i \in DOMAIN rs
             /\ rs[i].name = n
             /\ RecordOK(rs[i])
             /\ OthersApart(rs, n, rs[i].start, rs[i].end)
<1> DEFINE S == {k \in DOMAIN rs : rs[k].name = n}
<1> DEFINE i == First(S)
<1>1. rs \in Seq(RecordType)
  BY DEF Laid
<1>2. S \in SUBSET Nat /\ S # {}
  BY <1>1
<1>3. i \in S
  BY <1>2, FirstFound
<1>4. i \in DOMAIN rs /\ rs[i].name = n
  BY <1>3
<1> HIDE DEF i, S
<1>5. RecordOK(rs[i])
  BY <1>4 DEF Laid
<1>6. ASSUME NEW j \in DOMAIN rs, rs[j].name # n
      PROVE  rs[j].end < rs[i].start \/ rs[i].end < rs[j].start
  <2>1. j # i
    BY <1>4, <1>6
  <2>2. i \in Int /\ j \in Int
    BY <1>1, <1>4
  <2>3. j < i \/ i < j
    BY <2>1, <2>2
  <2> QED
    BY <1>4, <2>3 DEF Laid
<1>7. OthersApart(rs, n, rs[i].start, rs[i].end)
  BY <1>6 DEF OthersApart
<1> QED
  BY <1>4, <1>5, <1>7 DEF i, S

\* A new record over an extent that is large enough, or of as many blocks as
\* its size takes.
LEMMA NewRecordOK ==
  ASSUME NEW n \in Names, NEW size \in Nat, NEW start \in Nat
  PROVE  /\ RecordOK(NewRecord(n, size, start))
         /\ NewRecord(n, size, start).name = n
         /\ NewRecord(n, size, start).start = start
         /\ NewRecord(n, size, start).end = EndBlock(start, size)
<1> DEFINE r == NewRecord(n, size, start)
<1>1. Blocks(size) \in Nat
  BY BlocksLeast
<1>2. Blocks(size) <= (start + Blocks(size) - 1) - start + 1
  BY <1>1
<1>3. /\ EndBlock(start, size) \in Int
      /\ EndBlock(start, size) >= start - 1
      /\ size <= (EndBlock(start, size) - start + 1) * BytesPerSector
  <2>1. start + Blocks(size) - 1 \in Int
    BY <1>1
  <2> QED
    BY <1>2, <2>1, ShorterExtent
<1>4. /\ r.start = start /\ r.end = EndBlock(start, size)
      /\ r.size = size /\ r.name = n
  BY DEF NewRecord
<1>5. r \in RecordType
  BY <1>3 DEF NewRecord, RecordType
<1> HIDE DEF r
<1>6. RecordOK(r)
  BY <1>3, <1>4, <1>5 DEF RecordOK, BlocksOf
<1> QED
  BY <1>4, <1>6 DEF r

\* createFile keeps the records laid out, whether it reuses a deleted one or
\* appends (xsfs.c:11-115), and the name has a record afterwards.
LEMMA CreateLaid ==
  ASSUME Laid(recs), NEW n \in Names, NEW size \in Nat
  PROVE  /\ Laid(RecsAfterCreate(n, size))
         /\ \E i \in DOMAIN RecsAfterCreate(n, size) :
              RecsAfterCreate(n, size)[i].name = n
<1>1. recs \in Seq(RecordType)
  BY DEF Laid
<1>2. CASE Candidates(size) # {}
  <2> DEFINE i == First(Candidates(size))
  <2> DEFINE r == NewRecord(n, size, recs[i].start)
  <2>1. Candidates(size) \in SUBSET Nat
    BY <1>1 DEF Candidates
  <2>2. i \in Candidates(size)
    BY <1>2, <2>1, FirstFound
  <2>3. i \in DOMAIN recs /\ recs[i].size >= size
    BY <2>2 DEF Candidates, Reusable
  <2>4. RecsAfterCreate(n, size) = [recs EXCEPT ![i] = r]
    BY <1>2 DEF RecsAfterCreate
  <2> HIDE DEF i
  <2>5. RecordOK(recs[i]) /\ recs[i] \in RecordType
    BY <2>3 DEF Laid, RecordOK
  <2>6. /\ recs[i].start \in Nat /\ recs[i].end \in Int /\ recs[i].size \in Nat
        /\ recs[i].size <= BlocksOf(recs[i]) * BytesPerSector
    BY <2>5 DEF RecordOK, RecordType
  <2>7. RecordOK(r) /\ r.name = n /\ r.start = recs[i].start
        /\ r.end = EndBlock(recs[i].start, size)
    BY <2>6, NewRecordOK
  <2>8. Blocks(size) <= BlocksOf(recs[i])
    <3>1. BlocksOf(recs[i]) \in Int
      BY <2>6 DEF BlocksOf
    <3>2. BlocksOf(recs[i]) * BytesPerSector \in Int
      BY <3>1, XSFSAssumption
    <3>3. size <= BlocksOf(recs[i]) * BytesPerSector
      BY <2>3, <2>6, <3>2
    <3> QED
      BY <3>1, <3>3, BlocksLeast
  <2>9. r.end <= recs[i].end
    BY <2>6, <2>7, <2>8, ShorterExtent DEF BlocksOf
  <2> HIDE DEF r
  <2>10. Laid([recs EXCEPT ![i] = r]) /\ DOMAIN [recs EXCEPT ![i] = r] = DOMAIN recs
    BY <2>3, <2>7, <2>9, ReplaceLaid
  <2>11. [recs EXCEPT ![i] = r][i].name = n
    BY <1>1, <2>3, <2>7
  <2> QED
    BY <2>3, <2>4, <2>10, <2>11
<1>3. CASE Candidates(size) = {}
  <2> DEFINE r == NewRecord(n, size, Start(LastBlock))
  <2> DEFINE new == Append(recs, r)
  <2>1. RecsAfterCreate(n, size) = new
    BY <1>3 DEF RecsAfterCreate
  <2>2. /\ Start(LastBlock) \in Nat
        /\ \A j \in DOMAIN recs : recs[j].end < Start(LastBlock)
    <3>1. CASE recs = <<>>
      BY <3>1 DEF LastBlock, Start
    <3>2. CASE recs # <<>>
      <4> DEFINE z == Len(recs)
      <4>1. z \in DOMAIN recs /\ z \in Int /\ \A j \in DOMAIN recs : j = z \/ j < z
        BY <1>1, <3>2
      <4>2. Start(LastBlock) = recs[z].end + 1
        BY <3>2 DEF LastBlock, Start
      <4> HIDE DEF z
      <4>3. \A j \in DOMAIN recs : recs[j] \in RecordType /\ RecordOK(recs[j])
        BY DEF Laid, RecordOK
      <4>4. \A j \in DOMAIN recs : recs[j].end \in Int
        BY <4>3 DEF RecordType
      <4>5. recs[z].start \in Nat /\ recs[z].end >= recs[z].start - 1
        BY <4>1, <4>3 DEF RecordType, RecordOK
      <4>6. recs[z].end + 1 \in Nat
        BY <4>1, <4>4, <4>5
      <4>7. ASSUME NEW j \in DOMAIN recs
            PROVE  recs[j].end < recs[z].end + 1
        <5>1. CASE j = z
          BY <4>4, <5>1
        <5>2. CASE j < z
          <6>1. recs[j].end < recs[z].start
            BY <4>1, <5>2 DEF Laid
          <6> QED
            BY <4>1, <4>4, <4>5, <6>1
        <5> QED
          BY <4>1, <5>1, <5>2
      <4> QED
        BY <4>2, <4>6, <4>7
    <3> QED
      BY <3>1, <3>2
  <2>3. RecordOK(r) /\ r.name = n /\ r.start = Start(LastBlock)
    BY <2>2, NewRecordOK
  <2> HIDE DEF r
  <2>4. r \in RecordType
    BY <2>3 DEF RecordOK
  <2>5. /\ new \in Seq(RecordType)
        /\ DOMAIN new = 1 .. (Len(recs) + 1)
        /\ new[Len(recs) + 1] = r
        /\ DOMAIN recs = 1 .. Len(recs) /\ Len(recs) \in Nat
        /\ \A j \in DOMAIN recs : new[j] = recs[j]
    BY <1>1, <2>4
  <2> HIDE DEF new
  <2>6. \A j \in DOMAIN new : j = Len(recs) + 1 \/ j \in DOMAIN recs
    BY <2>5
  <2>7. \A j \in DOMAIN new : RecordOK(new[j])
    BY <2>3, <2>5, <2>6 DEF Laid
  <2>8. ASSUME NEW j \in DOMAIN new, NEW k \in DOMAIN new, j < k
        PROVE  new[j].end < new[k].start
    <3>1. j \in DOMAIN recs
      BY <2>5, <2>8
    <3>2. CASE k \in DOMAIN recs
      BY <2>5, <2>8, <3>1, <3>2 DEF Laid
    <3>3. CASE k = Len(recs) + 1
      BY <2>2, <2>3, <2>5, <3>1, <3>3
    <3> QED
      BY <2>6, <3>2, <3>3
  <2>9. Laid(new)
    BY <2>5, <2>7, <2>8 DEF Laid
  <2>10. Len(recs) + 1 \in DOMAIN new
    BY <2>5
  <2> QED
    BY <2>1, <2>3, <2>5, <2>9, <2>10
<1> QED
  BY <1>2, <1>3

-------------------------------------------------------------------------------
\* updateFile's loop over the extent of a record (xsfs.c:214-231).
LEMMA LoopOK ==
  ASSUME NEW n \in Names, NEW ver \in Versions, NEW size \in Nat,
         NEW r, RecordOK(r)
  PROVE  /\ WriteLoop(n, ver, size, r) \in Writings
         /\ WriteLoop(n, ver, size, r).name = n
         /\ WriteLoop(n, ver, size, r).sect = r.start
         /\ WriteLoop(n, ver, size, r).last = r.end
  BY DEF WriteLoop, Writings, RecordOK, RecordType

\* While no update is under way nothing is claimed of one.
LEMMA IdleOK ==
  ASSUME op' = Idle
  PROVE  OpOK'
  BY DEF OpOK, Idle

\* The invariant holds at first.
LEMMA InitIInv == Init => IInv
<1> SUFFICES ASSUME Init PROVE IInv
  OBVIOUS
<1>1. Laid(recs)
  BY DEF Init, Laid
<1>2. OpOK
  BY DEF Init, OpOK, Idle
<1>3. DOMAIN disk = DataSectors
  BY DEF Init
<1> QED
  BY <1>1, <1>2, <1>3 DEF IInv

\* A record marked deleted keeps its extent (deleteFile, xsfs.c:272-290).
LEMMA MarkDeletedLaid ==
  ASSUME NEW rs, Laid(rs), NEW i \in DOMAIN rs
  PROVE  Laid([rs EXCEPT ![i].type = DELETED])
<1> DEFINE r == [rs[i] EXCEPT !.type = DELETED]
<1>1. [rs EXCEPT ![i].type = DELETED] = [rs EXCEPT ![i] = r]
  OBVIOUS
<1>2. RecordOK(rs[i]) /\ rs[i] \in RecordType
  BY DEF Laid, RecordOK
<1>3. /\ r \in RecordType /\ r.start = rs[i].start /\ r.end = rs[i].end
      /\ r.size = rs[i].size
  BY <1>2 DEF RecordType
<1> HIDE DEF r
<1>4. RecordOK(r)
  BY <1>2, <1>3 DEF RecordOK, BlocksOf
<1>5. r.end <= rs[i].end
  BY <1>2, <1>3 DEF RecordType
<1> QED
  BY <1>1, <1>3, <1>4, <1>5, ReplaceLaid

\* updateFile begins: the record is shrunk in place, or deleted to be made anew.
LEMMA UpdateFileIInv ==
  ASSUME IInv, NEW n \in Names, NEW ver \in Versions, NEW size \in Sizes,
         UpdateFile(n, ver, size)
  PROVE  IInv'
<1> DEFINE i == Find(n)
<1>0. size \in Nat
  BY XSFSAssumption
<1>1. Laid(recs) /\ OpOK /\ DOMAIN disk = DataSectors
  BY DEF IInv
<1>2. CASE Missing(n, NO_FILE)
  <2>1. recs' = recs /\ disk' = disk /\ op' = Idle
    BY <1>2 DEF Missing
  <2> QED
    BY <1>1, <2>1, IdleOK DEF IInv
<1>3. CASE ~ Missing(n, NO_FILE)
  <2>1. Matches(n) # {} /\ disk' = disk
    BY <1>3 DEF UpdateFile
  <2>2. /\ i \in DOMAIN recs /\ recs[i].name = n /\ RecordOK(recs[i])
        /\ OthersApart(recs, n, recs[i].start, recs[i].end)
    <3> DEFINE S == {k \in DOMAIN recs : recs[k].name = n}
    <3>1. S # {} /\ i = First(S)
      BY <2>1 DEF Matches, Find
    <3>2. LET k == First(S)
          IN  /\ k \in DOMAIN recs /\ recs[k].name = n /\ RecordOK(recs[k])
              /\ OthersApart(recs, n, recs[k].start, recs[k].end)
      BY <1>1, <3>1, FoundApart, SMTT(60)
    <3> HIDE DEF i, S
    <3> QED
      BY <3>1, <3>2
  <2>3. recs[i] \in RecordType
    BY <2>2 DEF RecordOK
  <2>4. CASE /\ Blocks(size) <= BlocksOf(recs[i])
             /\ recs' = [recs EXCEPT ![i].size = size,
                                     ![i].end = EndBlock(recs[i].start, size)]
             /\ op' = WriteLoop(n, ver, size, recs[i])
    <3> DEFINE r == [recs[i] EXCEPT !.size = size,
                                    !.end = EndBlock(recs[i].start, size)]
    <3>1. recs' = [recs EXCEPT ![i] = r]
      BY <2>2, <2>4
    <3>2. recs[i].start \in Nat /\ recs[i].end \in Int
      BY <2>3 DEF RecordType
    <3>3. /\ EndBlock(recs[i].start, size) \in Int
          /\ EndBlock(recs[i].start, size) <= recs[i].end
          /\ EndBlock(recs[i].start, size) >= recs[i].start - 1
          /\ size <= (EndBlock(recs[i].start, size) - recs[i].start + 1)
                       * BytesPerSector
      BY <1>0, <2>4, <3>2, ShorterExtent DEF BlocksOf
    <3>4. /\ r \in RecordType /\ r.start = recs[i].start /\ r.size = size
          /\ r.end = EndBlock(recs[i].start, size) /\ r.name = n
      BY <1>0, <2>2, <2>3, <3>3 DEF RecordType
    <3> HIDE DEF r
    <3>5. RecordOK(r)
      BY <3>3, <3>4 DEF RecordOK, BlocksOf
    <3>6. Laid(recs') /\ DOMAIN recs' = DOMAIN recs
      BY <1>1, <2>2, <3>1, <3>3, <3>4, <3>5, ReplaceLaid
    <3>7. OthersApart(recs', n, recs[i].start, recs[i].end)
      <4>1. \A j \in DOMAIN recs : recs'[j].name # n => recs'[j] = recs[j]
        BY <2>2, <3>1, <3>4
      <4> QED
        BY <2>2, <3>6, <4>1 DEF OthersApart
    <3>8. OpOK'
      <4>1. /\ op' \in Writings /\ op'.name = n
            /\ op'.sect = recs[i].start /\ op'.last = recs[i].end
        BY <1>0, <2>2, <2>4, LoopOK
      <4> QED
        BY <3>7, <4>1 DEF OpOK
    <3> QED
      BY <1>1, <2>1, <3>6, <3>8 DEF IInv
  <2>5. CASE /\ recs' = [recs EXCEPT ![i].type = DELETED]
             /\ op' = [step |-> "recreate", name |-> n, ver |-> ver, size |-> size]
    <3>1. Laid(recs')
      BY <1>1, <2>2, <2>5, MarkDeletedLaid
    <3>2. op' \in Recreations /\ op'.step # "write"
      BY <1>0, <2>5 DEF Recreations
    <3>3. OpOK'
      BY <3>2 DEF OpOK
    <3> QED
      BY <1>1, <2>1, <3>1, <3>3 DEF IInv
  <2> HIDE DEF i
  <2> QED
    BY <1>3, <2>4, <2>5 DEF UpdateFile, i
<1> QED
  BY <1>2, <1>3

\* updateFile's call of createFile, and the search for what it made.
LEMMA RecreateIInv ==
  ASSUME IInv, Recreate
  PROVE  IInv'
<1> DEFINE n == op.name
<1> DEFINE new == RecsAfterCreate(op.name, op.size)
<1> DEFINE S == {k \in DOMAIN new : new[k].name = n}
<1> DEFINE r == new[First(S)]
<1>1. Laid(recs) /\ OpOK /\ DOMAIN disk = DataSectors
  BY DEF IInv
<1>2. op \in Recreations
  BY <1>1 DEF Recreate, OpOK, Idle, Writings
<1>3. op.name \in Names /\ op.size \in Nat /\ op.ver \in Versions
  BY <1>2 DEF Recreations
<1>4. recs' = new /\ disk' = disk /\ op' = WriteLoop(op.name, op.ver, op.size, r)
  BY DEF Recreate
<1>5. Laid(new) /\ S # {}
  BY <1>1, <1>3, CreateLaid
<1> HIDE DEF new
<1>6. RecordOK(r) /\ OthersApart(new, n, r.start, r.end)
  BY <1>5, FoundApart
<1> HIDE DEF r
<1>7. /\ op' \in Writings /\ op'.name = n
      /\ op'.sect = r.start /\ op'.last = r.end
  BY <1>3, <1>4, <1>6, LoopOK
<1>8. OpOK'
  BY <1>4, <1>6, <1>7 DEF OpOK
<1> QED
  BY <1>1, <1>4, <1>5, <1>8 DEF IInv

\* The loop moves towards the end of the extent and changes no record.
LEMMA WriteSectorIInv ==
  ASSUME IInv, WriteSector
  PROVE  IInv'
<1>1. Laid(recs) /\ OpOK /\ DOMAIN disk = DataSectors
  BY DEF IInv
<1>2. op \in Writings /\ OthersApart(recs, op.name, op.sect, op.last)
  BY <1>1 DEF WriteSector, OpOK, Idle, Recreations
<1>3. op.left \in Nat /\ op.sect \in Nat /\ op.last \in Int
  BY <1>2 DEF Writings
<1>4. Left(op.left) \in Nat /\ Advance(op.sect) = op.sect + 1
  BY <1>3, XSFSAssumption DEF Left, Advance
<1>5. /\ op' \in Writings /\ op'.name = op.name
      /\ op'.sect = op.sect + 1 /\ op'.last = op.last
  <2> DEFINE sect == Advance(op.sect)
  <2> DEFINE left == Left(op.left)
  <2>1. op' = [op EXCEPT !.sect = sect, !.left = left]
    BY DEF WriteSector
  <2>2. sect \in Nat /\ left \in Nat /\ sect = op.sect + 1
    BY <1>3, <1>4
  <2> HIDE DEF sect, left
  <2>3. op' \in Writings
    BY <1>2, <2>1, <2>2 DEF Writings
  <2>4. op'.name = op.name /\ op'.sect = sect /\ op'.last = op.last
    BY <1>2, <2>1 DEF Writings
  <2> QED
    BY <2>2, <2>3, <2>4
<1>6. recs' = recs /\ DOMAIN disk' = DOMAIN disk
  BY DEF WriteSector
<1>7. OthersApart(recs, op.name, op.sect + 1, op.last)
  <2>1. ASSUME NEW i \in DOMAIN recs, recs[i].name # op.name
        PROVE  recs[i].end < op.sect + 1 \/ op.last < recs[i].start
    <3>1. recs[i].end \in Int
      <4>1. recs[i] \in RecordType
        BY <1>1 DEF Laid
      <4> QED
        BY <4>1 DEF RecordType
    <3>2. recs[i].end < op.sect \/ op.last < recs[i].start
      BY <1>2, <2>1 DEF OthersApart
    <3> QED
      BY <1>3, <3>1, <3>2
  <2> QED
    BY <2>1 DEF OthersApart
<1>8. OpOK'
  BY <1>5, <1>6, <1>7 DEF OpOK
<1> QED
  BY <1>1, <1>6, <1>8 DEF IInv

\* The inductive step, one case for each action.
LEMMA StepIInv ==
  ASSUME IInv, [Next]_vars
  PROVE  IInv'
<1>1. Laid(recs) /\ OpOK /\ DOMAIN disk = DataSectors
  BY DEF IInv
<1>2. CASE ClearFS
  <2>1. recs' = <<>> /\ disk' = disk /\ op' = Idle
    BY <1>2 DEF ClearFS
  <2>2. Laid(recs')
    BY <2>1 DEF Laid
  <2> QED
    BY <1>1, <2>1, <2>2, IdleOK DEF IInv
<1>3. ASSUME NEW n \in Names, NEW size \in Sizes, CreateFile(n, size)
      PROVE  IInv'
  <2>1. recs' = RecsAfterCreate(n, size) /\ disk' = disk /\ op' = Idle
    BY <1>3 DEF CreateFile
  <2>2. size \in Nat
    BY XSFSAssumption
  <2>3. Laid(recs')
    BY <1>1, <2>1, <2>2, CreateLaid
  <2> QED
    BY <1>1, <2>1, <2>3, IdleOK DEF IInv
<1>4. ASSUME NEW n \in Names, DeleteFile(n)
      PROVE  IInv'
  <2>1. disk' = disk /\ op' = Idle
    BY <1>4 DEF DeleteFile, Missing
  <2>2. Laid(recs')
    <3>1. CASE recs' = recs
      BY <1>1, <3>1
    <3>2. CASE /\ Matches(n) # {}
               /\ recs' = [recs EXCEPT ![Find(n)].type = DELETED]
      <4> DEFINE S == {k \in DOMAIN recs : recs[k].name = n}
      <4>1. S # {} /\ Find(n) = First(S)
        BY <3>2 DEF Matches, Find
      <4>2. Find(n) \in DOMAIN recs
        BY <1>1, <4>1, FoundApart
      <4> QED
        BY <1>1, <3>2, <4>2, MarkDeletedLaid
    <3> QED
      BY <1>4, <3>1, <3>2 DEF DeleteFile, Missing
  <2> QED
    BY <1>1, <2>1, <2>2, IdleOK DEF IInv
<1>5. ASSUME NEW n \in Names, ReadFile(n)
      PROVE  IInv'
  <2>1. recs' = recs /\ disk' = disk /\ op' = Idle
    BY <1>5 DEF ReadFile, Missing
  <2> QED
    BY <1>1, <2>1, IdleOK DEF IInv
<1>6. CASE UpdateDone \/ PowerLoss
  <2>1. recs' = recs /\ disk' = disk /\ op' = Idle
    BY <1>6 DEF UpdateDone, PowerLoss
  <2> QED
    BY <1>1, <2>1, IdleOK DEF IInv
<1>7. CASE UNCHANGED vars
  <2>1. recs' = recs /\ disk' = disk /\ op' = op
    BY <1>7 DEF vars
  <2> QED
    BY <1>1, <2>1 DEF IInv, OpOK
<1> QED
  BY <1>2, <1>3, <1>4, <1>5, <1>6, <1>7, UpdateFileIInv, RecreateIInv,
     WriteSectorIInv DEF Next, UpdateStep

\* The invariant holds always.
LEMMA Invariance == Spec => []IInv
<1>1. Init => IInv
  BY InitIInv
<1>2. IInv /\ [Next]_vars => IInv'
  BY StepIInv
<1> QED
  BY <1>1, <1>2, PTL DEF Spec

\* The variables keep their types: the operation in progress has the fields
\* that its next step reads, and the remaining length never goes below zero.
THEOREM TypeCorrect == Spec => []TypeOK
<1>1. IInv => TypeOK
  BY DEF IInv, OpOK, Laid, TypeOK, Idle, Recreations, Writings
<1> QED
  BY <1>1, Invariance, PTL

\* No sector belongs to two records, deleted ones included, for every disk and
\* every sequence of calls and power losses.
THEOREM ExtentsStayApart == Spec => []ExtentsApart
<1>1. IInv => ExtentsApart
  BY DEF IInv, Laid, ExtentsApart
<1> QED
  BY <1>1, Invariance, PTL

\* A record's size never exceeds the bytes of its extent.
THEOREM SizesFit == Spec => []SizeFitsExtent
<1>1. IInv => SizeFitsExtent
  BY DEF IInv, Laid, RecordOK, SizeFitsExtent
<1> QED
  BY <1>1, Invariance, PTL

\* A sector write of updateFile stays out of the files of other names.
THEOREM WritesStayInside == Spec => NoForeignWrite
<1> DEFINE Safe ==
      WriteSector =>
        \A i \in DOMAIN recs :
          recs[i].type = USED /\ recs[i].name # op.name
            => op.sect \notin recs[i].start .. recs[i].end
<1>1. ASSUME IInv PROVE Safe
  <2> SUFFICES ASSUME WriteSector, NEW i \in DOMAIN recs, recs[i].name # op.name
               PROVE  op.sect \notin recs[i].start .. recs[i].end
    OBVIOUS
  <2>1. Laid(recs) /\ OpOK
    BY <1>1 DEF IInv
  <2>2. op.step = "write" /\ op.sect <= op.last
    BY DEF WriteSector
  <2>3. op \in Writings
    BY <2>1, <2>2 DEF OpOK, Idle, Recreations
  <2>4. recs[i].end < op.sect \/ op.last < recs[i].start
    BY <2>1, <2>2 DEF OpOK, OthersApart
  <2>5. recs[i] \in RecordType
    BY <2>1 DEF Laid
  <2>6. /\ recs[i].start \in Nat /\ recs[i].end \in Int
        /\ op.sect \in Nat /\ op.last \in Int
    BY <2>3, <2>5 DEF RecordType, Writings
  <2> QED
    BY <2>2, <2>4, <2>6
<1> QED
  BY <1>1, Invariance, PTL DEF NoForeignWrite

-------------------------------------------------------------------------------
\* Files of one sector.  The hypotheses: a file takes one sector and all callers
\* pass the same size, and the disk has a data sector for each record.
OneSectorFiles == \E s \in 1 .. BytesPerSector : Sizes \subseteq {s}
SectorForEach == RecordsPerSector <= TotSectors - 2

\* The i-th record of rs is the file n.
UsedAs(rs, n, i) == i \in DOMAIN rs /\ rs[i].name = n /\ rs[i].type = USED

\* The i-th record has the i-th sector, and a file that exists is the first
\* record of its name.
UnitRecord(r, i) == r.start = i /\ r.end = i /\ r.size \in Sizes
FirstOfName(rs, i) ==
  rs[i].type = USED => \A j \in DOMAIN rs : j < i => rs[j].name # rs[i].name
Units(rs) ==
  /\ rs \in Seq(RecordType)
  /\ Len(rs) <= RecordsPerSector
  /\ \A i \in DOMAIN rs : UnitRecord(rs[i], i) /\ FirstOfName(rs, i)

\* What a sector may hold.
Sectors == {BlockOf(v, size, 1) : v \in Versions, size \in Sizes} \cup {Absent}

\* An update writes the one sector of the first record of its name: it is about
\* to, or it has.
UpdateOK ==
  /\ op \in Writings /\ op.size \in Sizes
  /\ op.last \in DOMAIN recs /\ recs[op.last].name = op.name
  /\ \A i \in DOMAIN recs : UsedAs(recs, op.name, i) => i = op.last
  /\ stored[op.name] = Absent
  /\ \/ (op.sect = op.last /\ op.left = op.size)
     \/ (op.sect = op.last + 1 /\ disk[op.last] = BlockOf(op.ver, op.size, 1))

\* What was stored last is in the file's sector.
Kept(rs, dk, st) ==
  \A n \in Names : \A i \in DOMAIN rs :
    (UsedAs(rs, n, i) /\ st[n] # Absent) => st[n] = [k \in 1 .. 1 |-> dk[i]]
StoredOK == Kept(recs, disk, stored)

DiskOK == DOMAIN disk = DataSectors /\ \A d \in DataSectors : disk[d] \in Sectors

\* The invariant of one-sector files.
FInv ==
  /\ Units(recs)
  /\ DiskOK
  /\ (op = Idle \/ UpdateOK)
  /\ DOMAIN stored = Names
  /\ StoredOK

\* The file n as the abstract file system sees it.
View(rs, dk, n) ==
  IF \E i \in DOMAIN rs : rs[i].name = n /\ rs[i].type = USED
    THEN <<dk[rs[CHOOSE i \in {j \in DOMAIN rs : rs[j].name = n} :
                   rs[i].type = USED].start]>>
    ELSE <<>>

\* A file takes one sector, whatever size it is given.
LEMMA OneBlock ==
  ASSUME OneSectorFiles, NEW size \in Sizes
  PROVE  /\ size \in Nat /\ Blocks(size) = 1
         /\ \A other \in Sizes : other = size
         /\ \A start \in Int : EndBlock(start, size) = start
<1>1. PICK s \in 1 .. BytesPerSector : Sizes \subseteq {s}
  BY DEF OneSectorFiles
<1>2. size = s /\ s \in Nat /\ s > 0 /\ s <= BytesPerSector
  BY <1>1, XSFSAssumption
<1>3. /\ Blocks(size) \in Nat /\ size <= Blocks(size) * BytesPerSector
      /\ \A k \in Int : size <= k * BytesPerSector => Blocks(size) <= k
  BY <1>2, BlocksLeast
<1>4. Blocks(size) <= 1
  <2>1. size <= 1 * BytesPerSector
    BY <1>2, XSFSAssumption
  <2> QED
    BY <1>3, <2>1
<1>5. Blocks(size) # 0
  BY <1>2, <1>3, XSFSAssumption
<1>6. Blocks(size) = 1
  BY <1>3, <1>4, <1>5
<1> QED
  BY <1>1, <1>2, <1>6 DEF EndBlock

\* Only the first record of a name can be a file.
LEMMA UsedIsFound ==
  ASSUME NEW rs, Units(rs), NEW n, NEW i, UsedAs(rs, n, i)
  PROVE  /\ First({k \in DOMAIN rs : rs[k].name = n}) = i
         /\ \A j : UsedAs(rs, n, j) => j = i
<1> DEFINE S == {k \in DOMAIN rs : rs[k].name = n}
<1> DEFINE f == First(S)
<1>1. DOMAIN rs = 1 .. Len(rs) /\ Len(rs) \in Nat
  BY DEF Units
<1>2. i \in S
  BY DEF UsedAs
<1>3. S \in SUBSET Nat /\ S # {}
  BY <1>1, <1>2
<1>4. f \in S
  BY <1>3, FirstFound
<1>5. ASSUME NEW j \in S, NEW k \in S, UsedAs(rs, n, k)
      PROVE  ~ (j < k)
  BY <1>5 DEF Units, UsedAs, FirstOfName
<1>6. \A j \in S : f <= j
  <2>1. \E k \in S : \A j \in S : k <= j
    BY <1>3, LeastOne
  <2> QED
    BY <2>1 DEF First
<1> HIDE DEF f
<1>7. ~ (f < i)
  BY <1>2, <1>4, <1>5
<1>8. f \in Nat /\ i \in Nat
  BY <1>2, <1>3, <1>4
<1>9. f = i
  BY <1>2, <1>6, <1>7, <1>8
<1>10. ASSUME NEW j, UsedAs(rs, n, j)
       PROVE  j = i
  <2>1. j \in S
    BY <1>10 DEF UsedAs
  <2>2. ~ (i < j) /\ ~ (j < i)
    BY <1>2, <1>5, <1>10, <2>1
  <2>3. i \in Nat /\ j \in Nat
    BY <1>2, <1>3, <2>1
  <2> QED
    BY <2>2, <2>3
<1> QED
  BY <1>9, <1>10 DEF f, S

\* What the abstract file system sees of a file that exists, and of one that does not.
LEMMA ViewOf ==
  ASSUME NEW rs, Units(rs), NEW dk, NEW n
  PROVE  /\ \A i : UsedAs(rs, n, i) => View(rs, dk, n) = <<dk[i]>>
         /\ (\A i : ~ UsedAs(rs, n, i)) => View(rs, dk, n) = <<>>
<1>1. ASSUME NEW i, UsedAs(rs, n, i)
      PROVE  View(rs, dk, n) = <<dk[i]>>
  <2> DEFINE S == {j \in DOMAIN rs : rs[j].name = n}
  <2> DEFINE c == CHOOSE k \in S : rs[k].type = USED
  <2>1. i \in S /\ rs[i].type = USED
    BY <1>1 DEF UsedAs
  <2>2. c \in S /\ rs[c].type = USED
    BY <2>1
  <2>3. View(rs, dk, n) = <<dk[rs[c].start]>>
    BY <2>1 DEF View
  <2> HIDE DEF c
  <2>4. UsedAs(rs, n, c)
    BY <2>2 DEF UsedAs
  <2>5. c = i
    BY <1>1, <2>4, UsedIsFound
  <2>6. rs[i].start = i
    BY <2>1 DEF Units, UnitRecord
  <2> QED
    BY <2>3, <2>5, <2>6
<1>2. ASSUME \A i : ~ UsedAs(rs, n, i)
      PROVE  View(rs, dk, n) = <<>>
  BY <1>2 DEF View, UsedAs
<1> QED
  BY <1>1, <1>2

\* A file that is in the same record with the same content is the same file.
LEMMA SameView ==
  ASSUME NEW rs, Units(rs), NEW dk, NEW ss, Units(ss), NEW dl, NEW n,
         \A i : UsedAs(rs, n, i) <=> UsedAs(ss, n, i),
         \A i : UsedAs(rs, n, i) => dk[i] = dl[i]
  PROVE  View(ss, dl, n) = View(rs, dk, n)
<1>1. CASE \E i : UsedAs(rs, n, i)
  <2>1. PICK i : UsedAs(rs, n, i)
    BY <1>1
  <2>2. View(rs, dk, n) = <<dk[i]>>
    BY <2>1, ViewOf
  <2>3. UsedAs(ss, n, i)
    BY <2>1
  <2>4. View(ss, dl, n) = <<dl[i]>>
    BY <2>3, ViewOf
  <2>5. dk[i] = dl[i]
    BY <2>1
  <2> QED
    BY <2>2, <2>4, <2>5
<1>2. CASE \A i : ~ UsedAs(rs, n, i)
  BY <1>2, ViewOf
<1> QED
  BY <1>1, <1>2

\* The refinement mapping, in terms of View.
LEMMA FilesView ==
  /\ FilesOnDisk = [n \in Names |-> View(recs, disk, n)]
  /\ FilesOnDisk' = [n \in Names |-> View(recs', disk', n)]
  BY DEF FilesOnDisk, View, Exists, Matches

\* createFile takes the first deleted record, or one behind the last: the file is
\* the only one of its name and has the sector of its record's number.
LEMMA CreateUnits ==
  ASSUME OneSectorFiles, Units(recs), Laid(recs), NEW n \in Names, NEW size \in Sizes,
         CanCreate(size), ~ Exists(n)
  PROVE  LET new == RecsAfterCreate(n, size)
         IN  /\ Units(new)
             /\ \E i \in 1 .. RecordsPerSector :
                  /\ UsedAs(new, n, i)
                  /\ \A m : m # n => \A j : UsedAs(recs, m, j) <=> UsedAs(new, m, j)
<1> DEFINE new == RecsAfterCreate(n, size)
<1>1. size \in Nat /\ (\A t \in Sizes : t = size)
      /\ \A start \in Int : EndBlock(start, size) = start
  BY OneBlock
<1>2. Laid(new)
  BY <1>1, CreateLaid
<1>3. recs \in Seq(RecordType) /\ new \in Seq(RecordType)
  BY <1>2 DEF Laid
<1>4. DOMAIN recs = 1 .. Len(recs) /\ Len(recs) \in Nat /\ Len(recs) <= RecordsPerSector
  BY <1>3 DEF Units
<1>5. \A i \in DOMAIN recs : recs[i].start = i /\ recs[i].end = i /\ recs[i].size = size
  BY <1>1 DEF Units, UnitRecord
<1>6. \A i \in Int : LET r == NewRecord(n, size, i)
                     IN  UnitRecord(r, i) /\ r.name = n /\ r.type = USED
  BY <1>1 DEF NewRecord, UnitRecord
<1>7. CASE Candidates(size) # {}
  <2> DEFINE i == First(Candidates(size))
  <2> DEFINE r == NewRecord(n, size, recs[i].start)
  <2>1. Candidates(size) = {k \in DOMAIN recs : recs[k].type = DELETED}
    BY <1>1, <1>5 DEF Candidates, Reusable
  <2>2. Candidates(size) \in SUBSET Nat
    BY <1>4, <2>1
  <2>3. i \in DOMAIN recs /\ recs[i].type = DELETED
    BY <1>7, <2>1, <2>2, FirstFound
  <2>4. new = [recs EXCEPT ![i] = r]
    BY <1>7 DEF RecsAfterCreate
  <2> HIDE DEF i, new
  <2>5. i \in Int /\ recs[i].start = i
    BY <1>4, <1>5, <2>3
  <2>6. UnitRecord(r, i) /\ r.name = n /\ r.type = USED
    BY <1>6, <2>5
  <2> HIDE DEF r
  <2>7. DOMAIN new = DOMAIN recs /\ new[i] = r
        /\ \A j \in DOMAIN recs : j # i => new[j] = recs[j]
    BY <2>3, <2>4
  <2>8. \A j \in DOMAIN recs : recs[j].type = USED => recs[j].name # n
    BY DEF Exists
  <2>9. \A j \in DOMAIN recs : j < i => recs[j].name # n
    <3>1. ASSUME NEW j \in DOMAIN recs, j < i
          PROVE  recs[j].type = USED
      <4>1. \E k \in Candidates(size) : \A h \in Candidates(size) : k <= h
        BY <1>7, <2>2, LeastOne
      <4>2. \A h \in Candidates(size) : i <= h
        BY <4>1 DEF i, First
      <4>3. ~ (i <= j)
        BY <1>4, <2>5, <3>1
      <4>4. recs[j].type # DELETED
        BY <2>1, <3>1, <4>2, <4>3
      <4>5. recs[j] \in RecordType
        BY <1>3, <3>1
      <4> QED
        BY <4>4, <4>5 DEF RecordType
    <3> QED
      BY <2>8, <3>1
  <2>10. \A j \in DOMAIN new : UnitRecord(new[j], j)
    BY <2>6, <2>7 DEF Units
  <2>11. ASSUME NEW j \in DOMAIN new, new[j].type = USED, NEW k \in DOMAIN new, k < j
         PROVE  new[k].name # new[j].name
    <3>1. CASE j = i
      BY <1>4, <2>5, <2>6, <2>7, <2>9, <2>11, <3>1
    <3>2. CASE j # i /\ k = i
      BY <2>6, <2>7, <2>8, <2>11, <3>2
    <3>3. CASE j # i /\ k # i
      BY <2>7, <2>11, <3>3 DEF Units, FirstOfName
    <3> QED
      BY <3>1, <3>2, <3>3
  <2>12. Len(new) = Len(recs)
    BY <1>3, <2>4
  <2>13. Units(new)
    BY <1>3, <1>4, <2>10, <2>11, <2>12 DEF Units, FirstOfName
  <2>14. UsedAs(new, n, i)
    BY <2>3, <2>6, <2>7 DEF UsedAs
  <2>15. \A m : m # n => ~ UsedAs(recs, m, i) /\ ~ UsedAs(new, m, i)
    BY <2>3, <2>6, <2>7 DEF UsedAs, USED, DELETED
  <2>16. \A m : m # n => \A j : UsedAs(recs, m, j) <=> UsedAs(new, m, j)
    BY <2>7, <2>15 DEF UsedAs
  <2>17. i \in 1 .. RecordsPerSector
    BY <1>4, <2>3, XSFSAssumption
  <2> QED
    BY <2>13, <2>14, <2>16, <2>17 DEF new
<1>8. CASE Candidates(size) = {}
  <2> DEFINE z == Len(recs) + 1
  <2> DEFINE r == NewRecord(n, size, Start(LastBlock))
  <2>1. Len(recs) < RecordsPerSector
    BY <1>8 DEF CanCreate, Terminated
  <2>2. Start(LastBlock) = z
    <3>1. CASE recs = <<>>
      BY <3>1 DEF LastBlock, Start
    <3>2. CASE recs # <<>>
      <4>1. Len(recs) \in DOMAIN recs
        BY <1>3, <3>2
      <4> QED
        BY <1>5, <3>2, <4>1 DEF LastBlock, Start
    <3> QED
      BY <3>1, <3>2
  <2>3. new = Append(recs, r)
    BY <1>8 DEF RecsAfterCreate
  <2> HIDE DEF new
  <2>4. UnitRecord(r, z) /\ r.name = n /\ r.type = USED
    BY <1>4, <1>6, <2>2
  <2> HIDE DEF r
  <2>5. /\ Len(new) = z /\ DOMAIN new = 1 .. z /\ new[z] = r
        /\ \A j \in DOMAIN recs : j \in DOMAIN new /\ j # z /\ new[j] = recs[j]
        /\ \A j \in DOMAIN new : j = z \/ j \in DOMAIN recs
    BY <1>3, <1>4, <2>3
  <2>6. \A j \in DOMAIN recs : recs[j].name # n
    <3>1. ASSUME NEW j \in DOMAIN recs
          PROVE  recs[j].type = USED
      <4>1. recs[j].type # DELETED
        BY <1>1, <1>5, <1>8 DEF Candidates, Reusable
      <4>2. recs[j] \in RecordType
        BY <1>3
      <4> QED
        BY <4>1, <4>2 DEF RecordType
    <3> QED
      BY <3>1 DEF Exists
  <2>7. \A j \in DOMAIN new : UnitRecord(new[j], j)
    BY <2>4, <2>5 DEF Units
  <2>8. ASSUME NEW j \in DOMAIN new, new[j].type = USED, NEW k \in DOMAIN new, k < j
        PROVE  new[k].name # new[j].name
    <3>1. k \in DOMAIN recs
      <4> HIDE DEF z
      <4>1. k # z
        BY <1>4, <2>5, <2>8
      <4> QED
        BY <2>5, <4>1
    <3>2. CASE j = z
      BY <2>4, <2>5, <2>6, <3>1, <3>2
    <3>3. CASE j \in DOMAIN recs
      BY <2>5, <2>8, <3>1, <3>3 DEF Units, FirstOfName
    <3> QED
      BY <2>5, <3>2, <3>3
  <2>9. Units(new)
    BY <1>3, <1>4, <2>1, <2>5, <2>7, <2>8, XSFSAssumption DEF Units, FirstOfName
  <2>10. z \in DOMAIN new /\ z \notin DOMAIN recs /\ z \in 1 .. RecordsPerSector
    BY <1>4, <2>1, <2>5, XSFSAssumption
  <2> HIDE DEF z
  <2>11. UsedAs(new, n, z)
    BY <2>4, <2>5, <2>10 DEF UsedAs
  <2>12. \A m : m # n => \A j : UsedAs(recs, m, j) <=> UsedAs(new, m, j)
    BY <2>4, <2>5, <2>10 DEF UsedAs
  <2> QED
    BY <2>9, <2>10, <2>11, <2>12 DEF new
<1> QED
  BY <1>7, <1>8

\* deleteFile marks the first record of the name, which is the file if there is one.
LEMMA DeleteUnits ==
  ASSUME Units(recs), NEW n \in Names, Matches(n) # {}
  PROVE  LET new == [recs EXCEPT ![Find(n)].type = DELETED]
         IN  /\ Units(new)
             /\ \A i : ~ UsedAs(new, n, i)
             /\ \A m : m # n => \A j : UsedAs(recs, m, j) <=> UsedAs(new, m, j)
<1> DEFINE i == Find(n)
<1> DEFINE r == [recs[i] EXCEPT !.type = DELETED]
<1> DEFINE new == [recs EXCEPT ![i] = r]
<1>1. recs \in Seq(RecordType) /\ DOMAIN recs = 1 .. Len(recs) /\ Len(recs) \in Nat
  BY DEF Units
<1>2. Matches(n) = {k \in DOMAIN recs : recs[k].name = n}
  BY DEF Matches
<1>3. Matches(n) \in SUBSET Nat
  BY <1>1, <1>2
<1>4. i \in DOMAIN recs /\ recs[i].name = n
  BY <1>2, <1>3, FirstFound DEF Find
<1>5. \A j : UsedAs(recs, n, j) => j = i
  BY <1>2, UsedIsFound DEF Find
<1>6. [recs EXCEPT ![Find(n)].type = DELETED] = new
  OBVIOUS
<1> HIDE DEF i
<1>7. recs[i] \in RecordType
  BY <1>1, <1>4
<1>8. /\ r \in RecordType /\ r.type = DELETED /\ r.name = n
      /\ r.start = recs[i].start /\ r.end = recs[i].end /\ r.size = recs[i].size
  BY <1>4, <1>7 DEF RecordType
<1> HIDE DEF r
<1>9. /\ new \in Seq(RecordType) /\ DOMAIN new = DOMAIN recs /\ Len(new) = Len(recs)
      /\ new[i] = r /\ \A j \in DOMAIN recs : j # i => new[j] = recs[j]
  BY <1>1, <1>4, <1>8
<1> HIDE DEF new
<1>10. \A j \in DOMAIN new : new[j].name = recs[j].name
  BY <1>4, <1>8, <1>9
<1>11. \A j \in DOMAIN new : UnitRecord(new[j], j)
  BY <1>4, <1>8, <1>9 DEF Units, UnitRecord
<1>12. r.type # USED
  BY <1>8 DEF USED, DELETED
<1>13. \A j \in DOMAIN new : FirstOfName(new, j)
  BY <1>9, <1>10, <1>12 DEF Units, FirstOfName
<1>14. Units(new)
  BY <1>9, <1>11, <1>13 DEF Units
<1>15. \A j : ~ UsedAs(new, n, j)
  BY <1>5, <1>9, <1>12 DEF UsedAs
<1>16. \A m : m # n => \A j : UsedAs(recs, m, j) <=> UsedAs(new, m, j)
  BY <1>4, <1>8, <1>9, <1>12 DEF UsedAs
<1> QED
  BY <1>6, <1>14, <1>15, <1>16

\* updateFile never has to make a one-sector file anew, nor does it change its
\* record (xsfs.c:187-212).
LEMMA UpdateInPlace ==
  ASSUME OneSectorFiles, Units(recs), NEW n \in Names, NEW ver \in Versions,
         NEW size \in Sizes, UpdateFile(n, ver, size), Matches(n) # {}
  PROVE  /\ recs' = recs /\ Find(n) \in DOMAIN recs /\ recs[Find(n)].name = n
         /\ op' = WriteLoop(n, ver, size, recs[Find(n)])
         /\ recs[Find(n)].start = Find(n) /\ recs[Find(n)].end = Find(n)
<1> DEFINE i == Find(n)
<1>1. recs \in Seq(RecordType) /\ DOMAIN recs = 1 .. Len(recs) /\ Len(recs) \in Nat
  BY DEF Units
<1>2. Matches(n) \in SUBSET Nat
  BY <1>1 DEF Matches
<1>3. i \in DOMAIN recs /\ recs[i].name = n
  BY <1>2, FirstFound DEF Find, Matches
<1>4. /\ recs[i].start = i /\ recs[i].end = i /\ recs[i].size = size
      /\ Blocks(size) = 1 /\ EndBlock(i, size) = i
  BY <1>1, <1>3, OneBlock DEF Units, UnitRecord
<1>5. Blocks(size) <= BlocksOf(recs[i])
  BY <1>1, <1>3, <1>4 DEF BlocksOf
<1>6. Blocks(size) \in Nat /\ BlocksOf(recs[i]) \in Int
  BY <1>1, <1>3, <1>4 DEF BlocksOf
<1>7. ~ (Blocks(size) > BlocksOf(recs[i]))
  BY <1>5, <1>6
<1>8. /\ recs' = [recs EXCEPT ![i].size = size, ![i].end = EndBlock(recs[i].start, size)]
      /\ op' = WriteLoop(n, ver, size, recs[i])
  BY <1>7 DEF UpdateFile, Missing
<1> HIDE DEF i
<1>9. recs[i] \in RecordType
  BY <1>1, <1>3
<1>10. [recs[i] EXCEPT !.size = size, !.end = EndBlock(recs[i].start, size)] = recs[i]
  BY <1>4, <1>9 DEF RecordType
<1>11. recs' = [recs EXCEPT ![i] = recs[i]]
  BY <1>3, <1>8, <1>10
<1>12. recs' = recs
  BY <1>1, <1>3, <1>11
<1> QED
  BY <1>3, <1>4, <1>8, <1>12 DEF i

\* Nothing is stored in a file at first, and nothing is on the disk.
LEMMA InitFInv == Init => FInv
<1> SUFFICES ASSUME Init PROVE FInv
  OBVIOUS
<1>1. recs = <<>> /\ op = Idle /\ stored = [n \in Names |-> Absent]
      /\ disk = [s \in DataSectors |-> Absent]
  BY DEF Init
<1>2. Units(recs)
  BY <1>1, XSFSAssumption DEF Units
<1>3. DiskOK
  BY <1>1 DEF DiskOK, Sectors
<1> QED
  BY <1>1, <1>2, <1>3 DEF FInv, StoredOK, Kept

\* A new file, or one deleted: the disk stays, the name has nothing stored, and no
\* other name is touched.
LEMMA RecordStep ==
  ASSUME FInv, NEW n \in Names, Units(recs'), disk' = disk, op' = Idle,
         stored' = [stored EXCEPT ![n] = Absent],
         \A m : m # n => \A j : UsedAs(recs, m, j) <=> UsedAs(recs', m, j)
  PROVE  /\ FInv'
         /\ FilesOnDisk' = [FilesOnDisk EXCEPT ![n] = View(recs', disk, n)]
<1> DEFINE rs == recs'
<1> DEFINE st == stored'
<1>1. Units(recs) /\ DiskOK /\ DOMAIN stored = Names /\ StoredOK
  BY DEF FInv
<1>2. DOMAIN st = Names /\ st[n] = Absent /\ \A m \in Names : m # n => st[m] = stored[m]
  BY <1>1
<1> HIDE DEF rs, st
<1>3. Units(rs) /\ \A m : m # n => \A j : UsedAs(recs, m, j) <=> UsedAs(rs, m, j)
  BY DEF rs
<1>4. ASSUME NEW m \in Names, NEW j, UsedAs(rs, m, j), st[m] # Absent
      PROVE  st[m] = [k \in 1 .. 1 |-> disk[j]]
  <2>1. m # n /\ st[m] = stored[m]
    BY <1>2, <1>4
  <2>2. UsedAs(recs, m, j) /\ j \in DOMAIN recs
    BY <1>3, <1>4, <2>1 DEF UsedAs
  <2> QED
    BY <1>1, <1>4, <2>1, <2>2 DEF StoredOK, Kept
<1>5. StoredOK'
  <2>1. Kept(rs, disk, st)
    BY <1>4 DEF Kept
  <2> QED
    BY <2>1 DEF StoredOK, rs, st
<1>6. DiskOK'
  BY <1>1 DEF DiskOK
<1>7. FInv'
  BY <1>2, <1>3, <1>5, <1>6 DEF FInv, rs, st
<1>8. \A m \in Names : m # n => View(rs, disk, m) = View(recs, disk, m)
  BY <1>1, <1>3, SameView
<1>9. FilesOnDisk' = [m \in Names |-> View(rs, disk, m)]
  BY FilesView DEF rs
<1>10. FilesOnDisk = [m \in Names |-> View(recs, disk, m)]
  BY FilesView
<1>11. FilesOnDisk' = [FilesOnDisk EXCEPT ![n] = View(rs, disk, n)]
  BY <1>8, <1>9, <1>10
<1> QED
  BY <1>7, <1>11 DEF rs

\* An operation that touches no record, no sector and nothing stored.
LEMMA QuietStep ==
  ASSUME FInv, recs' = recs, disk' = disk, stored' = stored, op' = Idle
  PROVE  FInv' /\ FilesOnDisk' = FilesOnDisk
<1>1. Units(recs) /\ DiskOK /\ DOMAIN stored = Names /\ StoredOK
  BY DEF FInv
<1>2. DiskOK' /\ StoredOK'
  BY <1>1 DEF DiskOK, StoredOK
<1>3. FInv'
  BY <1>1, <1>2 DEF FInv
<1> QED
  BY <1>3, FilesView

\* The sector of a record is a data sector.
LEMMA SectorOfRecord ==
  ASSUME SectorForEach, NEW i \in 1 .. RecordsPerSector
  PROVE  i \in DataSectors
  BY XSFSAssumption DEF SectorForEach, DataSectors

\* createFile implements Create: the file holds what its sector held before.
LEMMA CreateFileStep ==
  ASSUME OneSectorFiles, SectorForEach, ~ DuplicateNames, IInv, FInv,
         NEW n \in Names, NEW size \in Sizes, CreateFile(n, size)
  PROVE  FInv' /\ Files!Create(n)
<1>1. Units(recs) /\ DiskOK /\ Laid(recs)
  BY DEF FInv, IInv
<1>2. /\ CanCreate(size) /\ ~ Exists(n) /\ recs' = RecsAfterCreate(n, size)
      /\ disk' = disk /\ op' = Idle /\ stored' = [stored EXCEPT ![n] = Absent]
  BY DEF CreateFile
<1>3. Units(recs')
      /\ \E i \in 1 .. RecordsPerSector :
           /\ UsedAs(recs', n, i)
           /\ \A m : m # n => \A j : UsedAs(recs, m, j) <=> UsedAs(recs', m, j)
  BY <1>1, <1>2, CreateUnits
<1>4. PICK i \in 1 .. RecordsPerSector :
        /\ UsedAs(recs', n, i)
        /\ \A m : m # n => \A j : UsedAs(recs, m, j) <=> UsedAs(recs', m, j)
  BY <1>3
<1>5. FInv' /\ FilesOnDisk' = [FilesOnDisk EXCEPT ![n] = View(recs', disk, n)]
  BY <1>2, <1>3, <1>4, RecordStep
<1>6. View(recs', disk, n) = <<disk[i]>>
  BY <1>3, <1>4, ViewOf
<1>7. <<disk[i]>> \in SectorContents
  <2>1. disk[i] \in Sectors
    BY <1>1, SectorOfRecord DEF DiskOK
  <2> QED
    BY <2>1 DEF Sectors, SectorContents
<1>8. FilesOnDisk[n] = <<>>
  <2>1. \A j : ~ UsedAs(recs, n, j)
    BY <1>2 DEF Exists, UsedAs
  <2> QED
    BY <1>1, <2>1, ViewOf, FilesView
<1> QED
  BY <1>5, <1>6, <1>7, <1>8 DEF Files!Create

\* deleteFile implements Delete, or changes nothing when the record is deleted
\* already or there is none.
LEMMA DeleteFileStep ==
  ASSUME FInv, NEW n \in Names, DeleteFile(n)
  PROVE  FInv' /\ (Files!Delete(n) \/ FilesOnDisk' = FilesOnDisk)
<1>1. CASE Missing(n, NO_FILE)
  <2>1. recs' = recs /\ disk' = disk /\ stored' = stored /\ op' = Idle
    BY <1>1 DEF Missing
  <2> QED
    BY <2>1, QuietStep
<1>2. CASE ~ Missing(n, NO_FILE)
  <2>1. /\ Matches(n) # {} /\ recs' = [recs EXCEPT ![Find(n)].type = DELETED]
        /\ stored' = [stored EXCEPT ![n] = Absent] /\ disk' = disk /\ op' = Idle
    BY <1>2 DEF DeleteFile
  <2>2. Units(recs)
    BY DEF FInv
  <2>3. /\ Units(recs') /\ \A i : ~ UsedAs(recs', n, i)
        /\ \A m : m # n => \A j : UsedAs(recs, m, j) <=> UsedAs(recs', m, j)
    BY <2>1, <2>2, DeleteUnits
  <2>4. FInv' /\ FilesOnDisk' = [FilesOnDisk EXCEPT ![n] = View(recs', disk, n)]
    BY <2>1, <2>3, RecordStep
  <2>5. View(recs', disk, n) = <<>>
    BY <2>3, ViewOf
  <2>6. CASE FilesOnDisk[n] = <<>>
    <3>1. [FilesOnDisk EXCEPT ![n] = <<>>] = FilesOnDisk
      BY <2>6, FilesView
    <3> QED
      BY <2>4, <2>5, <3>1
  <2>7. CASE FilesOnDisk[n] # <<>>
    BY <2>4, <2>5, <2>7 DEF Files!Delete
  <2> QED
    BY <2>4, <2>6, <2>7
<1> QED
  BY <1>1, <1>2

\* updateFile begins: nothing is stored under the name any more, and the record and
\* the disk are as they were.
LEMMA UpdateFileStep ==
  ASSUME OneSectorFiles, FInv, NEW n \in Names, NEW ver \in Versions,
         NEW size \in Sizes, UpdateFile(n, ver, size)
  PROVE  FInv' /\ FilesOnDisk' = FilesOnDisk
<1>0. Units(recs) /\ DiskOK /\ DOMAIN stored = Names /\ StoredOK
  BY DEF FInv
<1>1. CASE Missing(n, NO_FILE)
  <2>1. recs' = recs /\ disk' = disk /\ stored' = stored /\ op' = Idle
    BY <1>1 DEF Missing
  <2> QED
    BY <2>1, QuietStep
<1>2. CASE ~ Missing(n, NO_FILE)
  <2> DEFINE i == Find(n)
  <2> DEFINE w == WriteLoop(n, ver, size, recs[i])
  <2>1. Matches(n) # {} /\ disk' = disk /\ stored' = [stored EXCEPT ![n] = Absent]
    BY <1>2 DEF UpdateFile
  <2>2. /\ recs' = recs /\ i \in DOMAIN recs /\ recs[i].name = n /\ op' = w
        /\ recs[i].start = i /\ recs[i].end = i
    BY <1>0, <2>1, UpdateInPlace
  <2>3. \A j : UsedAs(recs, n, j) => j = i
    BY <1>0, UsedIsFound DEF Find, Matches
  <2>4. i \in Nat /\ size \in Nat
    BY <1>0, <2>2, OneBlock DEF Units
  <2> HIDE DEF i
  <2>5. /\ w \in Writings /\ w.name = n /\ w.size = size /\ w.left = size
        /\ w.sect = i /\ w.last = i
    BY <2>2, <2>4 DEF WriteLoop, Writings
  <2> HIDE DEF w
  <2>6. stored'[n] = Absent /\ DOMAIN stored' = Names
    BY <1>0, <2>1
  <2>7. UpdateOK'
    BY <2>2, <2>3, <2>5, <2>6 DEF UpdateOK
  <2>8. StoredOK'
    <3>1. \A m \in Names : stored'[m] # Absent => stored'[m] = stored[m]
      BY <1>0, <2>1
    <3> QED
      BY <1>0, <2>1, <2>2, <3>1 DEF StoredOK, Kept
  <2>9. DiskOK'
    BY <1>0, <2>1 DEF DiskOK
  <2>10. FInv'
    BY <1>0, <2>2, <2>6, <2>7, <2>8, <2>9 DEF FInv
  <2> QED
    BY <2>1, <2>2, <2>10, FilesView
<1> QED
  BY <1>1, <1>2

\* The one sector of the file is written: Update, if the record is not deleted.
LEMMA WriteSectorStep ==
  ASSUME OneSectorFiles, FInv, WriteSector
  PROVE  FInv' /\ (Files!Update(op.name) \/ FilesOnDisk' = FilesOnDisk)
<1> DEFINE n == op.name
<1> DEFINE i == op.last
<1> DEFINE b == BlockOf(op.ver, op.left, 1)
<1> DEFINE dk == [disk EXCEPT ![i] = b]
<1>1. Units(recs) /\ DiskOK /\ DOMAIN stored = Names /\ StoredOK /\ UpdateOK
  BY DEF FInv, WriteSector, Idle
<1>2. /\ op \in Writings /\ op.size \in Sizes /\ i \in DOMAIN recs /\ recs[i].name = n
      /\ \A j \in DOMAIN recs : UsedAs(recs, n, j) => j = i
      /\ stored[n] = Absent
  BY <1>1 DEF UpdateOK
<1>3. op.sect \in Nat /\ i \in Int /\ n \in Names /\ op.ver \in Versions
  BY <1>2 DEF Writings
<1>4. op.sect = i /\ op.left = op.size
  BY <1>1, <1>3 DEF UpdateOK, WriteSector
<1>5. /\ recs' = recs /\ stored' = stored /\ disk' = dk /\ i \in DataSectors
      /\ op' = [op EXCEPT !.sect = Advance(i), !.left = Left(op.left)]
  BY <1>4 DEF WriteSector
<1>6. b \in Sectors /\ b = BlockOf(op.ver, op.size, 1)
  BY <1>2, <1>3, <1>4 DEF Sectors
<1>7. /\ DOMAIN dk = DataSectors /\ dk[i] = b
      /\ \A d \in DataSectors : d # i => dk[d] = disk[d]
  BY <1>1, <1>5 DEF DiskOK
<1>8. /\ op' \in Writings /\ op'.name = n /\ op'.size = op.size /\ op'.ver = op.ver
      /\ op'.last = i /\ op'.sect = i + 1
  <2> DEFINE left == Left(op.left)
  <2>1. i + 1 \in Nat /\ left \in Nat
    <3>1. op.left \in Nat
      BY <1>2 DEF Writings
    <3> QED
      BY <1>3, <1>4, <3>1, XSFSAssumption DEF Left
  <2>2. op' = [op EXCEPT !.sect = i + 1, !.left = left]
    BY <1>5 DEF Advance
  <2> HIDE DEF left
  <2> QED
    BY <1>2, <2>1, <2>2 DEF Writings
<1> HIDE DEF dk, b
<1>9. UpdateOK'
  BY <1>2, <1>5, <1>6, <1>7, <1>8 DEF UpdateOK
<1>10. DiskOK'
  BY <1>1, <1>5, <1>6, <1>7 DEF DiskOK
<1>11. \A m : m # n => ~ UsedAs(recs, m, i)
  BY <1>2 DEF UsedAs
<1>12. \A m, j : m # n /\ UsedAs(recs, m, j) => dk[j] = disk[j]
  <2>1. ASSUME NEW j, j # i
        PROVE  dk[j] = disk[j]
    BY <2>1 DEF dk
  <2> QED
    BY <1>11, <2>1
<1>13. StoredOK'
  <2>1. ASSUME NEW m \in Names, NEW j \in DOMAIN recs, UsedAs(recs, m, j), stored[m] # Absent
        PROVE  stored[m] = [k \in 1 .. 1 |-> dk[j]]
    <3>1. dk[j] = disk[j]
      BY <1>2, <1>12, <2>1
    <3>2. stored[m] = [k \in 1 .. 1 |-> disk[j]]
      BY <1>1, <2>1 DEF StoredOK, Kept
    <3> QED
      BY <3>1, <3>2
  <2>2. Kept(recs, dk, stored)
    BY <2>1 DEF Kept
  <2> QED
    BY <1>5, <2>2 DEF StoredOK
<1>14. FInv'
  BY <1>1, <1>5, <1>9, <1>10, <1>13 DEF FInv
<1>15. \A m \in Names : m # n => View(recs, dk, m) = View(recs, disk, m)
  BY <1>1, <1>12, SameView
<1>16. FilesOnDisk' = [FilesOnDisk EXCEPT ![n] = View(recs, dk, n)]
  BY <1>3, <1>5, <1>15, FilesView
<1>17. CASE UsedAs(recs, n, i)
  <2>1. View(recs, dk, n) = <<b>> /\ View(recs, disk, n) = <<disk[i]>>
    BY <1>1, <1>7, <1>17, ViewOf
  <2>2. FilesOnDisk[n] # <<>>
    <3>1. FilesOnDisk[n] = <<disk[i]>>
      BY <1>3, <2>1, FilesView
    <3> QED
      BY <3>1
  <2>3. <<b>> \in SectorContents
    BY <1>6 DEF Sectors, SectorContents
  <2> QED
    BY <1>14, <1>16, <2>1, <2>2, <2>3 DEF Files!Update
<1>18. CASE ~ UsedAs(recs, n, i)
  <2>1. \A j : ~ UsedAs(recs, n, j)
    BY <1>2, <1>18 DEF UsedAs
  <2>2. View(recs, dk, n) = View(recs, disk, n)
    BY <1>1, <2>1, ViewOf
  <2> QED
    BY <1>3, <1>14, <1>16, <2>2, FilesView
<1> QED
  BY <1>17, <1>18

\* The update is over: the sector holds what was to be stored.
LEMMA UpdateDoneStep ==
  ASSUME OneSectorFiles, FInv, UpdateDone
  PROVE  FInv' /\ FilesOnDisk' = FilesOnDisk
<1> DEFINE n == op.name
<1> DEFINE st == [stored EXCEPT ![n] = Buffer(op.ver, op.size)]
<1>1. Units(recs) /\ DiskOK /\ DOMAIN stored = Names /\ StoredOK /\ UpdateOK
  BY DEF FInv, UpdateDone, Idle
<1>2. /\ op \in Writings /\ op.size \in Sizes
      /\ \A j \in DOMAIN recs : UsedAs(recs, n, j) => j = op.last
  BY <1>1 DEF UpdateOK
<1>3. op.sect \in Nat /\ op.last \in Int /\ n \in Names
  BY <1>2 DEF Writings
<1>4. disk[op.last] = BlockOf(op.ver, op.size, 1)
  BY <1>1, <1>3 DEF UpdateOK, UpdateDone
<1>5. Buffer(op.ver, op.size) = [k \in 1 .. 1 |-> disk[op.last]]
  BY <1>2, <1>4, OneBlock DEF Buffer
<1>6. recs' = recs /\ disk' = disk /\ op' = Idle /\ stored' = st
  BY DEF UpdateDone
<1>7. /\ DOMAIN st = Names /\ st[n] = [k \in 1 .. 1 |-> disk[op.last]]
      /\ \A m \in Names : m # n => st[m] = stored[m]
  BY <1>1, <1>3, <1>5
<1> HIDE DEF st
<1>8. ASSUME NEW m \in Names, NEW j \in DOMAIN recs, UsedAs(recs, m, j), st[m] # Absent
      PROVE  st[m] = [k \in 1 .. 1 |-> disk[j]]
  <2>1. CASE m = n
    BY <1>2, <1>7, <1>8, <2>1
  <2>2. CASE m # n
    BY <1>1, <1>7, <1>8, <2>2 DEF StoredOK, Kept
  <2> QED
    BY <2>1, <2>2
<1>9. StoredOK'
  <2>1. Kept(recs, disk, st)
    BY <1>8 DEF Kept
  <2> QED
    BY <1>6, <2>1 DEF StoredOK
<1>10. DiskOK'
  BY <1>1, <1>6 DEF DiskOK
<1>11. FInv'
  BY <1>1, <1>6, <1>7, <1>9, <1>10 DEF FInv
<1> QED
  BY <1>6, <1>11, FilesView

\* clearFS implements Format.
LEMMA ClearFSStep ==
  ASSUME FInv, ClearFS
  PROVE  FInv' /\ Files!Format
<1>1. recs' = <<>> /\ disk' = disk /\ op' = Idle /\ stored' = [n \in Names |-> Absent]
  BY DEF ClearFS
<1>2. Units(recs')
  BY <1>1, XSFSAssumption DEF Units
<1>3. DiskOK'
  BY <1>1 DEF FInv, DiskOK
<1>4. StoredOK'
  <2>1. \A n \in Names : [m \in Names |-> Absent][n] = Absent
    OBVIOUS
  <2>2. Kept(recs', disk, [m \in Names |-> Absent])
    BY <2>1 DEF Kept
  <2> QED
    BY <1>1, <2>2 DEF StoredOK
<1>5. FInv'
  BY <1>1, <1>2, <1>3, <1>4 DEF FInv
<1>6. \A n \in Names : View(recs', disk', n) = <<>>
  BY <1>1 DEF View
<1>7. FilesOnDisk' = [n \in Names |-> <<>>]
  BY <1>6, FilesView
<1> QED
  BY <1>5, <1>7 DEF Files!Format

\* Each step keeps the invariant and is one of the abstract file system, or none.
LEMMA FileSystemStep ==
  ASSUME OneSectorFiles, SectorForEach, ~ DuplicateNames, IInv, FInv, [Next]_vars
  PROVE  FInv' /\ [Files!Next]_FilesOnDisk
<1>1. CASE ClearFS
  BY <1>1, ClearFSStep DEF Files!Next
<1>2. ASSUME NEW n \in Names, NEW size \in Sizes, CreateFile(n, size)
      PROVE  FInv' /\ [Files!Next]_FilesOnDisk
  BY <1>2, CreateFileStep DEF Files!Next
<1>3. ASSUME NEW n \in Names, DeleteFile(n)
      PROVE  FInv' /\ [Files!Next]_FilesOnDisk
  BY <1>3, DeleteFileStep DEF Files!Next
<1>4. ASSUME NEW n \in Names, NEW ver \in Versions, NEW size \in Sizes,
             UpdateFile(n, ver, size)
      PROVE  FInv' /\ [Files!Next]_FilesOnDisk
  BY <1>4, UpdateFileStep
<1>5. CASE WriteSector
  <2>1. op.name \in Names
    BY <1>5 DEF FInv, WriteSector, Idle, UpdateOK, Writings
  <2> QED
    BY <1>5, <2>1, WriteSectorStep DEF Files!Next
<1>6. CASE UpdateDone
  BY <1>6, UpdateDoneStep
<1>7. CASE (\E n \in Names : ReadFile(n)) \/ PowerLoss
  <2>1. recs' = recs /\ disk' = disk /\ stored' = stored /\ op' = Idle
    BY <1>7 DEF ReadFile, Missing, PowerLoss
  <2> QED
    BY <2>1, QuietStep
<1>8. CASE Recreate
  <2>1. op.step = "write" \/ op.step = "idle"
    BY DEF FInv, Idle, UpdateOK, Writings
  <2> QED
    BY <1>8, <2>1 DEF Recreate
<1>9. CASE UNCHANGED vars
  <2>1. recs' = recs /\ disk' = disk /\ stored' = stored /\ op' = op
    BY <1>9 DEF vars
  <2>2. FInv'
    BY <2>1 DEF FInv, DiskOK, UpdateOK, StoredOK
  <2> QED
    BY <2>1, <2>2, FilesView
<1> QED
  BY <1>1, <1>2, <1>3, <1>4, <1>5, <1>6, <1>7, <1>8, <1>9 DEF Next, UpdateStep

\* With one-sector files of one size the file system implements the abstract one:
\* each operation is all or nothing on its own file, whatever is reused, deleted or
\* cut off by a power loss.
THEOREM FilesKeepPromise ==
  ASSUME OneSectorFiles, SectorForEach, ~ DuplicateNames
  PROVE  Spec => ImplementsFiles
<1>1. Init => FInv /\ Files!Init
  <2> SUFFICES ASSUME Init PROVE Files!Init
    BY InitFInv
  <2>1. recs = <<>>
    BY DEF Init
  <2>2. \A n \in Names : View(recs, disk, n) = <<>>
    BY <2>1 DEF View
  <2> QED
    BY <2>2, FilesView DEF Files!Init
<1>2. IInv /\ FInv /\ [Next]_vars => FInv' /\ [Files!Next]_FilesOnDisk
  BY FileSystemStep
<1> QED
  BY <1>1, <1>2, Invariance, PTL DEF Spec, ImplementsFiles, Files!Spec

\* A one-sector file that exists reads back what the last whole update stored.
THEOREM ReadsWhatWasWritten ==
  ASSUME OneSectorFiles, SectorForEach, ~ DuplicateNames
  PROVE  Spec => ReadReturnsWritten
<1> DEFINE Right(n) ==
      /\ ReadFile(n) /\ ret'.code = FS_SUCCESS
      /\ Exists(n) /\ stored[n] # Absent
      => ret'.buf = stored[n]
<1>1. ASSUME FInv, NEW n \in Names PROVE Right(n)
  <2> SUFFICES ASSUME ReadFile(n), ret'.code = FS_SUCCESS, Exists(n), stored[n] # Absent
               PROVE  ret'.buf = stored[n]
    OBVIOUS
  <2>1. Units(recs) /\ StoredOK
    BY <1>1 DEF FInv
  <2>2. PICK i : UsedAs(recs, n, i)
    BY DEF Exists, UsedAs
  <2>3. Find(n) = i
    BY <2>1, <2>2, UsedIsFound DEF Find, Matches
  <2>4. i \in Int /\ recs[i].start = i /\ recs[i].end = i
    BY <2>1, <2>2 DEF UsedAs, Units, UnitRecord
  <2>5. ret' = [code |-> FS_SUCCESS, buf |-> ReadBuffer(recs[i])]
    BY <2>3 DEF ReadFile, Missing, Code, NULL, FS_SUCCESS
  <2>6. ReadBuffer(recs[i]) = [k \in 1 .. 1 |-> disk[i]]
    BY <2>4 DEF ReadBuffer, BlocksOf
  <2>7. stored[n] = [k \in 1 .. 1 |-> disk[i]]
    BY <2>1, <2>2 DEF StoredOK, Kept, UsedAs
  <2> QED
    BY <2>5, <2>6, <2>7
<1>2. FInv => \A n \in Names : Right(n)
  BY <1>1
<1>3. Init => FInv
  BY InitFInv
<1>4. IInv /\ FInv /\ [Next]_vars => FInv'
  BY FileSystemStep
<1> QED
  BY <1>2, <1>3, <1>4, Invariance, PTL DEF Spec, ReadReturnsWritten
===============================================================================
