-------------------------- MODULE StreamsConsoleProofs --------------------------
(***************************************************************************)
(* Open files, for every size of the table, of a name and of a buffer,     *)
(* every set of names and whatever the memory held at the start: the table *)
(* and the FILEs agree, and the standard streams pass characters on as     *)
(* they are.                                                               *)
(*                                                                         *)
(* The console, for every size of the screen and whatever is printed and   *)
(* typed: the screen shows the end of what was printed, a line is what was *)
(* typed, and a number reads back.                                         *)
(***************************************************************************)
EXTENDS Streams, Console, NumberFacts, TLAPS

-------------------------------------------------------------------------------
\* The slot that is chosen is a free one of the table.
LEMMA FirstFreeIsFree ==
  ASSUME Free # {}
  PROVE  FirstFree \in Free /\ FirstFree \in FDs
<1>1. FOPEN_MAX \in Nat
  BY StreamsAssumption
<1>2. Free \in SUBSET Nat
  BY <1>1 DEF Free, FDs
<1> QED
  BY <1>2, LeastOne DEF FirstFree, Free

\* The places of the bytes of the names.
Bytes == 0 .. (NAMESIZE * FOPEN_MAX - 1)

\* A slot lies inside the names.
LEMMA SlotInside ==
  ASSUME NEW fd \in FDs, NEW j \in 1 .. NAMESIZE
  PROVE  Slot(fd) + j - 1 \in Bytes /\ Slot(fd) \in Nat
<1>1. NAMESIZE \in Nat \ {0} /\ FOPEN_MAX \in Nat \ {0} /\ fd \in Nat /\ fd + 1 <= FOPEN_MAX
  BY StreamsAssumption DEF FDs
<1>2. /\ NAMESIZE * fd \in Nat /\ NAMESIZE * FOPEN_MAX \in Nat
      /\ NAMESIZE * (fd + 1) = NAMESIZE * fd + NAMESIZE
  BY <1>1
<1>3. NAMESIZE * (fd + 1) <= NAMESIZE * FOPEN_MAX
  BY <1>1
<1> QED
  BY <1>1, <1>2, <1>3 DEF Bytes, Slot

\* No byte of a slot is a byte of another one.
LEMMA SlotsApart ==
  ASSUME NEW fd \in FDs, NEW other \in FDs, fd # other,
         NEW j \in 1 .. NAMESIZE
  PROVE  Slot(fd) + j - 1 - Slot(other) \notin 0 .. NAMESIZE - 1
<1>1. NAMESIZE \in Nat \ {0} /\ fd \in Nat /\ other \in Nat
  BY StreamsAssumption DEF FDs
<1> SUFFICES ASSUME Slot(fd) + j - 1 - Slot(other) \in 0 .. NAMESIZE - 1
             PROVE  FALSE
  OBVIOUS
<1> DEFINE k == Slot(fd) + j - 1 - Slot(other)
<1>2. NAMESIZE * fd \in Nat /\ NAMESIZE * other \in Nat
  BY <1>1
<1>3. k \in 0 .. NAMESIZE - 1 /\ NAMESIZE * fd + (j - 1) = NAMESIZE * other + k
  BY <1>1, <1>2 DEF Slot
<1>4. j - 1 \in 0 .. NAMESIZE - 1
  BY <1>1
<1> HIDE DEF k
<1>5. (NAMESIZE * fd + (j - 1)) \div NAMESIZE = fd
  BY <1>1, <1>4, QuotientUnique
<1>6. (NAMESIZE * other + k) \div NAMESIZE = other
  BY <1>1, <1>3, QuotientUnique
<1> QED
  BY <1>3, <1>5, <1>6

\* The beginning of a sequence.
LEMMA Cut ==
  ASSUME NEW s \in Seq(Nat), NEW l \in 0 .. Len(s)
  PROVE  /\ SubSeq(s, 1, l) \in Seq(Nat) /\ Len(SubSeq(s, 1, l)) = l
         /\ \A j \in 1 .. l : SubSeq(s, 1, l)[j] = s[j]
OBVIOUS

\* The bytes of a name are in a slot.
Written(fd, n) == \A j \in 1 .. Len(n) : names[Slot(fd) + j - 1] = n[j]

\* It is a prefix of what is read from there then: the zero the reader stops at
\* lies behind the name.
LEMMA WrittenIsPrefix ==
  ASSUME NEW fd \in FDs, NEW n \in Names,
         names \in [Bytes -> Nat], Written(fd, n)
  PROVE  IsPrefix(n, StoredName(fd))
<1> DEFINE bytes == SlotBytes(fd)
<1> DEFINE ends == {i \in 1 .. NAMESIZE : bytes[i] = 0}
<1> DEFINE least == CHOOSE i \in ends : \A j \in ends : i <= j
<1> DEFINE length == IF ends = {} THEN NAMESIZE ELSE least - 1
<1>1. /\ NAMESIZE \in Nat \ {0}
      /\ n \in Seq(Nat \ {0}) /\ Len(n) \in 1 .. NAMESIZE
  BY StreamsAssumption
<1>2. /\ bytes \in Seq(Nat) /\ Len(bytes) = NAMESIZE
      /\ \A j \in 1 .. NAMESIZE : bytes[j] = names[Slot(fd) + j - 1]
  <2>1. \A j \in 1 .. NAMESIZE : names[Slot(fd) + j - 1] \in Nat
    BY SlotInside
  <2>2. bytes \in [1 .. NAMESIZE -> Nat]
    BY <2>1 DEF SlotBytes
  <2> QED
    BY <1>1, <2>2 DEF SlotBytes
<1> HIDE DEF bytes
<1>3. \A j \in 1 .. Len(n) : bytes[j] = n[j] /\ n[j] # 0
  <2> SUFFICES ASSUME NEW j \in 1 .. Len(n)
               PROVE  bytes[j] = n[j] /\ n[j] # 0
    OBVIOUS
  <2>1. n[j] \in Nat \ {0}
    BY <1>1
  <2>2. j \in 1 .. NAMESIZE
    BY <1>1
  <2>3. names[Slot(fd) + j - 1] = n[j]
    BY DEF Written
  <2> QED
    BY <1>2, <2>1, <2>2, <2>3
<1>4. length \in Len(n) .. NAMESIZE
  <2>1. CASE ends = {}
    BY <1>1, <2>1
  <2>2. CASE ends # {}
    <3>1. ends \in SUBSET Nat
      BY <1>1
    <3>2. least \in ends
      BY <2>2, <3>1, LeastOne
    <3>3. least \in 1 .. NAMESIZE /\ bytes[least] = 0
      BY <3>2
    <3>4. length = least - 1
      BY <2>2
    <3> HIDE DEF least, length, ends
    <3>5. least \notin 1 .. Len(n)
      BY <1>3, <3>3
    <3> QED
      BY <1>1, <3>3, <3>4, <3>5
  <2> QED
    BY <2>1, <2>2
<1>5. StoredName(fd) = SubSeq(bytes, 1, length)
  BY DEF StoredName, bytes
<1> HIDE DEF length
<1> DEFINE stored == StoredName(fd)
<1>6. stored = SubSeq(bytes, 1, length)
  BY <1>5
<1> HIDE DEF stored
<1>7. /\ stored \in Seq(Nat) /\ Len(stored) = length
      /\ \A j \in 1 .. length : stored[j] = bytes[j]
  <2>1. length \in 0 .. Len(bytes)
    BY <1>1, <1>2, <1>4
  <2> QED
    BY <1>2, <1>6, <2>1, Cut
<1>8. SubSeq(n, 1, Len(n)) = SubSeq(stored, 1, Len(n))
  <2>1. /\ Len(SubSeq(n, 1, Len(n))) = Len(n)
        /\ Len(SubSeq(stored, 1, Len(n))) = Len(n)
        /\ SubSeq(n, 1, Len(n)) \in Seq(Nat) /\ SubSeq(stored, 1, Len(n)) \in Seq(Nat)
    BY <1>1, <1>4, <1>7
  <2>2. \A j \in 1 .. Len(n) : SubSeq(n, 1, Len(n))[j] = SubSeq(stored, 1, Len(n))[j]
    BY <1>1, <1>3, <1>4, <1>7
  <2> QED
    BY <2>1, <2>2
<1> QED
  BY <1>1, <1>4, <1>7, <1>8 DEF IsPrefix, stored

-------------------------------------------------------------------------------
\* The inductive invariant: the FILEs own their slots, and the two streams a
\* program prints to and reads from are different FILEs at position 0.
Buffers == [0 .. (BUFSIZ - 1) -> Nat]
FILE == [fd : FDs, filePos : Nat, bufferSize : {0}, eof : BOOLEAN, ferr : BOOLEAN,
         buf : Buffers, name : Names]

TableOK ==
  /\ allocated \in [FDs -> BOOLEAN]
  /\ names \in [Bytes -> Nat]
  /\ DOMAIN files = FDs

FilesOK == file \in Seq(FILE)

Owns(i, f) ==
  /\ allocated[f.fd]
  /\ files[f.fd] = i
  /\ Written(f.fd, f.name)

Owned == \A i \in DOMAIN file : Owns(i, file[i])

AtStart(s) == s = NULL \/ (s \in DOMAIN file /\ file[s].filePos = 0)

StdOK ==
  /\ DOMAIN std = {"in", "out", "err"}
  /\ AtStart(std["in"]) /\ AtStart(std["out"])
  /\ std["in"] = std["out"] => std["in"] = NULL

BootOK == boot \in {"in", "out", "err", "done"}

SInv == TableOK /\ FilesOK /\ Owned /\ StdOK /\ BootOK /\ last.gave = last.given

\* What an operation on a FILE leaves as it is.
SameFile(f, g) == g.fd = f.fd /\ g.name = f.name

\* A character goes into the buffer, or nowhere.
LEMMA StoredFile ==
  ASSUME NEW f \in FILE, NEW at, NEW c \in Nat
  PROVE  /\ Stored(f, at, c) \in FILE
         /\ SameFile(f, Stored(f, at, c))
         /\ Stored(f, at, c).filePos = f.filePos
         /\ at \in 0 .. (BUFSIZ - 1) => Stored(f, at, c).buf[at] = c
<1>1. CASE at \in DOMAIN f.buf
  <2> DEFINE b == [f.buf EXCEPT ![at] = c]
  <2>1. f.buf \in Buffers
    BY DEF FILE
  <2>2. b \in Buffers /\ b[at] = c
    BY <1>1, <2>1 DEF Buffers
  <2>3. Stored(f, at, c) = [f EXCEPT !.buf = b]
    BY <1>1 DEF Stored
  <2> HIDE DEF b
  <2> QED
    BY <2>2, <2>3 DEF FILE, SameFile
<1>2. CASE at \notin DOMAIN f.buf
  <2>1. f.buf \in Buffers
    BY DEF FILE
  <2>2. at \notin 0 .. (BUFSIZ - 1)
    BY <1>2, <2>1 DEF Buffers
  <2> QED
    BY <1>2, <2>2 DEF Stored, SameFile
<1> QED
  BY <1>1, <1>2

\* The position moves.
LEMMA MovedFile ==
  ASSUME NEW f \in FILE, NEW pos \in Nat
  PROVE  LET g == [f EXCEPT !.filePos = pos]
         IN g \in FILE /\ SameFile(f, g) /\ g.filePos = pos /\ g.buf = f.buf
BY DEF FILE, SameFile

\* The next position, behind the last one the first.
LEMMA NextPosition ==
  ASSUME NEW f \in FILE
  PROVE  (f.filePos + 1) % Modulus \in Nat
<1>1. f.filePos \in Nat
  BY DEF FILE
<1> DEFINE x == f.filePos + 1
<1>2. x \in Nat
  BY <1>1
<1>3. Modulus \in Nat \ {0}
  BY StreamsAssumption
<1> HIDE DEF x
<1>4. x % Modulus \in 0 .. (Modulus - 1)
  BY <1>2, <1>3, DivMod
<1>5. x % Modulus \in Nat
  BY <1>3, <1>4
<1> QED
  BY <1>5 DEF x

\* fputc keeps the name and the slot.
LEMMA FputcFile ==
  ASSUME NEW f \in FILE, NEW c \in Nat
  PROVE  AfterFputc(f, c) \in FILE /\ SameFile(f, AfterFputc(f, c))
<1>1. CASE Full(f)
  BY <1>1 DEF AfterFputc, FILE, SameFile
<1>2. CASE ~Full(f)
  <2> DEFINE stored == Stored(f, f.filePos, c)
  <2> DEFINE pos == (f.filePos + 1) % Modulus
  <2>1. stored \in FILE /\ SameFile(f, stored)
    BY StoredFile
  <2>2. pos \in Nat
    BY NextPosition
  <2>3. AfterFputc(f, c) = [stored EXCEPT !.filePos = pos]
    BY <1>2 DEF AfterFputc
  <2> HIDE DEF stored, pos
  <2> QED
    BY <2>1, <2>2, <2>3, MovedFile DEF SameFile
<1> QED
  BY <1>1, <1>2

\* A stream at position 0 is not full.
LEMMA NotFull ==
  ASSUME NEW f \in FILE, f.filePos = 0
  PROVE  ~Full(f)
<1>1. f.bufferSize = 0
  BY DEF FILE
<1>2. Modulus \in Nat \ {0} /\ Modulus > 1
  BY StreamsAssumption
<1> DEFINE q == (0 - 1) \div Modulus
<1> DEFINE m == (0 - 1) % Modulus
<1>3. 0 - 1 = Modulus * q + m /\ q \in Int /\ m \in 0 .. (Modulus - 1)
  BY <1>2
<1> HIDE DEF q, m
<1>4. ASSUME m = 0 PROVE FALSE
  <2>1. Modulus * (0 - q) = 1
    BY <1>2, <1>3, <1>4
  <2>2. 0 - q = 0
    BY <1>2, <1>3, <2>1, SmallMultiple
  <2> QED
    BY <1>2, <1>3, <2>1, <2>2
<1> QED
  BY <1>1, <1>4 DEF Full, m

\* A character goes out as it came in, and the position is back where it was.
LEMMA PrintFile ==
  ASSUME NEW f \in FILE, NEW c \in Nat, f.filePos = 0
  PROVE  LET g == AfterFputc(f, c)
         IN /\ AfterPrint(g) \in FILE /\ SameFile(f, AfterPrint(g))
            /\ AfterPrint(g).filePos = 0
            /\ Printed(g) = c
<1> DEFINE stored == Stored(f, 0, c)
<1> DEFINE g == AfterFputc(f, c)
<1>1. BUFSIZ \in Nat \ {0} /\ Modulus \in Nat /\ Modulus > BUFSIZ + 1
  BY StreamsAssumption
<1>2. /\ 0 \in 0 .. (BUFSIZ - 1)
      /\ 1 % Modulus = 1 /\ 0 % Modulus = 0
  BY <1>1
<1>3. stored \in FILE /\ SameFile(f, stored) /\ stored.buf[0] = c
  BY <1>2, StoredFile
<1>4. g = [stored EXCEPT !.filePos = 1]
  <2>1. (f.filePos + 1) % Modulus = 1
    BY <1>2
  <2> QED
    BY <2>1, NotFull DEF AfterFputc
<1> HIDE DEF stored, g
<1>5. g \in FILE /\ SameFile(stored, g) /\ g.filePos = 1 /\ g.buf[0] = c
  BY <1>3, <1>4, MovedFile
<1>6. Printed(g) = c
  <2>1. g.filePos - 1 = 0
    BY <1>5
  <2> QED
    BY <1>5, <2>1 DEF Printed
<1>7. AfterPrint(g) = [g EXCEPT !.filePos = 0]
  <2>1. (g.filePos - 1) % Modulus = 0
    BY <1>2, <1>5
  <2> QED
    BY <2>1 DEF AfterPrint
<1>8. AfterPrint(g) \in FILE /\ SameFile(g, AfterPrint(g)) /\ AfterPrint(g).filePos = 0
  BY <1>5, <1>7, MovedFile
<1> QED
  BY <1>3, <1>5, <1>6, <1>8 DEF SameFile, g

\* A key comes back as it was pressed, and the position stays 0.
LEMMA GetcharFile ==
  ASSUME NEW f \in FILE, NEW key \in Nat, f.filePos = 0
  PROVE  /\ AfterGetchar(f, key) \in FILE /\ SameFile(f, AfterGetchar(f, key))
         /\ AfterGetchar(f, key).filePos = 0
         /\ Stored(f, f.filePos, key).buf[f.filePos] = key
<1> DEFINE stored == Stored(f, f.filePos, key)
<1>1. f.filePos \in 0 .. (BUFSIZ - 1)
  BY StreamsAssumption
<1>2. stored \in FILE /\ SameFile(f, stored) /\ stored.buf[f.filePos] = key
  BY <1>1, StoredFile
<1>3. AfterGetchar(f, key) = [stored EXCEPT !.filePos = 0]
  <2>1. ~(f.filePos > 0)
    OBVIOUS
  <2> QED
    BY <2>1 DEF AfterGetchar
<1> HIDE DEF stored
<1>4. /\ AfterGetchar(f, key) \in FILE /\ SameFile(stored, AfterGetchar(f, key))
      /\ AfterGetchar(f, key).filePos = 0
  BY <1>2, <1>3, MovedFile
<1> QED
  BY <1>2, <1>4 DEF SameFile, stored

-------------------------------------------------------------------------------
\* What is known of a name.
LEMMA NamesTypes ==
  ASSUME NEW n \in Names
  PROVE  /\ n \in Seq(Nat \ {0}) /\ Len(n) \in 1 .. NAMESIZE
         /\ NAMESIZE \in Nat \ {0}
BY StreamsAssumption

\* The FILE of a file that was just opened.
LEMMA BlankFile ==
  ASSUME NEW fd \in FDs, NEW n \in Names
  PROVE  LET f == [Blank EXCEPT !.fd = fd, !.name = n]
         IN f \in FILE /\ f.fd = fd /\ f.name = n /\ f.filePos = 0
<1>1. [j \in 0 .. (BUFSIZ - 1) |-> 0] \in Buffers
  BY DEF Buffers
<1> QED
  BY <1>1 DEF Blank, FILE

\* The bytes of a name that is stored in a slot, and those of another slot.
\* What opening writes to one byte of the names.
LEMMA ByteOf ==
  ASSUME NEW fd \in FDs, NEW n \in Names, NEW k \in Bytes, DOMAIN names = Bytes
  PROVE  /\ k - Slot(fd) \in 0 .. (Len(n) - 1) => NamesWith(fd, n)[k] = n[k - Slot(fd) + 1]
         /\ k - Slot(fd) \notin 0 .. (Len(n) - 1) => NamesWith(fd, n)[k] = names[k]
BY DEF NamesWith

\* The name is in its slot.
LEMMA NameStored ==
  ASSUME NEW fd \in FDs, NEW n \in Names, names \in [Bytes -> Nat]
  PROVE  /\ NamesWith(fd, n) \in [Bytes -> Nat]
         /\ \A j \in 1 .. Len(n) : NamesWith(fd, n)[Slot(fd) + j - 1] = n[j]
<1>1. /\ n \in Seq(Nat \ {0}) /\ Len(n) \in 1 .. NAMESIZE /\ NAMESIZE \in Nat \ {0}
  BY NamesTypes
<1>2. Slot(fd) \in Nat
  BY <1>1, SlotInside
<1>3. Bytes \subseteq Int
  BY StreamsAssumption DEF Bytes
<1>4. \A k \in Bytes : k - Slot(fd) \in 0 .. (Len(n) - 1) => n[k - Slot(fd) + 1] \in Nat
  <2> SUFFICES ASSUME NEW k \in Bytes, k - Slot(fd) \in 0 .. (Len(n) - 1)
               PROVE  n[k - Slot(fd) + 1] \in Nat
    OBVIOUS
  <2>1. k - Slot(fd) + 1 \in 1 .. Len(n)
    BY <1>1, <1>2, <1>3
  <2> QED
    BY <1>1, <2>1
<1>5. NamesWith(fd, n) = [k \in Bytes |-> IF k - Slot(fd) \in 0 .. (Len(n) - 1)
                                            THEN n[k - Slot(fd) + 1] ELSE names[k]]
  BY DEF NamesWith
<1>6. NamesWith(fd, n) \in [Bytes -> Nat]
  BY <1>4, <1>5
<1>7. ASSUME NEW j \in 1 .. Len(n)
      PROVE  NamesWith(fd, n)[Slot(fd) + j - 1] = n[j]
  <2>1. j \in 1 .. NAMESIZE /\ j \in Nat
    BY <1>1
  <2>2. Slot(fd) + j - 1 \in Bytes
    BY <2>1, SlotInside
  <2>3. PICK k \in Bytes : k = Slot(fd) + j - 1
    BY <2>2
  <2>4. k - Slot(fd) \in 0 .. (Len(n) - 1) /\ k - Slot(fd) + 1 = j
    BY <1>1, <1>2, <2>1, <2>3
  <2>5. NamesWith(fd, n)[k] = n[j]
    BY <2>4, ByteOf
  <2> QED
    BY <2>3, <2>5
<1> QED
  BY <1>6, <1>7

\* The names in other slots stay.
LEMMA OthersKept ==
  ASSUME NEW fd \in FDs, NEW other \in FDs, fd # other,
         NEW n \in Names, NEW m \in Names,
         names \in [Bytes -> Nat], Written(other, m)
  PROVE  \A j \in 1 .. Len(m) : NamesWith(fd, n)[Slot(other) + j - 1] = m[j]
<1>1. /\ Len(n) \in 1 .. NAMESIZE /\ Len(m) \in 1 .. NAMESIZE /\ NAMESIZE \in Nat \ {0}
  BY NamesTypes
<1> SUFFICES ASSUME NEW j \in 1 .. Len(m)
             PROVE  NamesWith(fd, n)[Slot(other) + j - 1] = m[j]
  OBVIOUS
<1>2. j \in 1 .. NAMESIZE
  BY <1>1
<1>3. /\ Slot(other) + j - 1 \in Bytes
      /\ Slot(other) \in Nat /\ Slot(fd) \in Nat
  BY <1>2, SlotInside
<1>4. Slot(other) + j - 1 - Slot(fd) \notin 0 .. (NAMESIZE - 1)
  BY <1>2, SlotsApart
<1>5. NamesWith(fd, n)[Slot(other) + j - 1] = names[Slot(other) + j - 1]
  <2>1. PICK k \in Bytes : k = Slot(other) + j - 1
    BY <1>3
  <2>2. k - Slot(fd) \notin 0 .. (Len(n) - 1)
    BY <1>1, <1>2, <1>3, <1>4, <2>1
  <2>3. NamesWith(fd, n)[k] = names[k]
    BY <2>2, ByteOf
  <2> QED
    BY <2>1, <2>3
<1>6. names[Slot(other) + j - 1] = m[j]
  BY DEF Written
<1> QED
  BY <1>5, <1>6

\* A call that opens a file: the FILE behind the others takes a free slot, and no
\* other FILE loses its own.
LEMMA OpenKeeps ==
  ASSUME NEW n \in Names, TableOK, FilesOK, Owned, Open(n)
  PROVE  /\ TableOK' /\ FilesOK' /\ Owned'
         /\ Len(file) \in Nat /\ DOMAIN file = 1 .. Len(file)
         /\ Len(file') = Len(file) + 1 /\ DOMAIN file' = 1 .. Len(file) + 1
         /\ \A i \in DOMAIN file : file'[i] = file[i]
         /\ file'[Len(file) + 1].filePos = 0
<1> DEFINE fd == FirstFree
<1> DEFINE f == [Blank EXCEPT !.fd = fd, !.name = n]
<1> DEFINE new == Len(file) + 1
<1>1. /\ file' = Append(file, f)
      /\ allocated' = Marked(fd)
      /\ files' = [files EXCEPT ![fd] = new]
      /\ names' = NamesWith(fd, n)
      /\ Free # {}
  BY DEF Open
<1>2. fd \in FDs /\ ~allocated[fd]
  BY <1>1, FirstFreeIsFree DEF Free
<1> HIDE DEF fd
<1>3. f \in FILE /\ f.fd = fd /\ f.name = n /\ f.filePos = 0
  BY <1>2, BlankFile
<1> HIDE DEF f
<1>4. file \in Seq(FILE)
  BY DEF FilesOK
<1>5. /\ file' \in Seq(FILE)
      /\ Len(file) \in Nat /\ DOMAIN file = 1 .. Len(file)
      /\ Len(file') = new /\ DOMAIN file' = 1 .. new
      /\ file'[new] = f
      /\ \A i \in DOMAIN file : file'[i] = file[i]
  BY <1>1, <1>3, <1>4
<1>6. TableOK'
  <2>1. allocated' \in [FDs -> BOOLEAN]
    BY <1>1 DEF TableOK, Marked
  <2>2. DOMAIN files' = FDs
    BY <1>1 DEF TableOK
  <2>3. names' \in [Bytes -> Nat]
    BY <1>1, <1>2, NameStored DEF TableOK
  <2> QED
    BY <2>1, <2>2, <2>3 DEF TableOK
<1>7. Owned'
  <2> SUFFICES ASSUME NEW i \in DOMAIN file'
               PROVE  /\ allocated'[file'[i].fd]
                      /\ files'[file'[i].fd] = i
                      /\ \A j \in 1 .. Len(file'[i].name) :
                           names'[Slot(file'[i].fd) + j - 1] = file'[i].name[j]
    BY DEF Owned, Owns, Written, Slot
  <2>1. CASE i = new
    <3>1. allocated'[fd]
      BY <1>1, <1>2 DEF TableOK, Marked
    <3>2. files'[fd] = i
      BY <1>1, <1>2, <2>1 DEF TableOK
    <3>3. \A j \in 1 .. Len(n) : names'[Slot(fd) + j - 1] = n[j]
      BY <1>1, <1>2, NameStored DEF TableOK
    <3>4. file'[i] = f
      BY <1>5, <2>1
    <3> QED
      BY <1>3, <3>1, <3>2, <3>3, <3>4
  <2>2. CASE i # new
    <3> DEFINE g == file[i]
    <3>1. i \in DOMAIN file
      BY <1>5, <2>2
    <3>2. g \in FILE
      BY <1>4, <3>1
    <3>3. g.fd \in FDs /\ g.name \in Names
      BY <3>2 DEF FILE
    <3>4. allocated[g.fd] /\ files[g.fd] = i /\ Written(g.fd, g.name)
      BY <3>1 DEF Owned, Owns
    <3>5. file'[i] = g
      BY <1>5, <3>1
    <3> HIDE DEF g
    <3>6. g.fd # fd
      BY <1>2, <3>4
    <3>7. allocated'[g.fd]
      BY <1>1, <3>3, <3>4, <3>6 DEF TableOK, Marked
    <3>8. files'[g.fd] = i
      BY <1>1, <3>3, <3>4, <3>6 DEF TableOK
    <3>9. \A j \in 1 .. Len(g.name) : names'[Slot(g.fd) + j - 1] = g.name[j]
      BY <1>1, <1>2, <3>3, <3>4, <3>6, OthersKept DEF TableOK
    <3> QED
      BY <3>5, <3>7, <3>8, <3>9
  <2> QED
    BY <2>1, <2>2
<1> QED
  BY <1>3, <1>5, <1>6, <1>7 DEF FilesOK

\* A call on an open FILE: it stays the FILE of its slot.
LEMMA ChangeKeeps ==
  ASSUME TableOK, FilesOK, Owned,
         NEW s \in DOMAIN file, NEW g \in FILE, SameFile(file[s], g),
         file' = [file EXCEPT ![s] = g],
         UNCHANGED <<allocated, names, files>>
  PROVE  /\ TableOK' /\ FilesOK' /\ Owned'
         /\ DOMAIN file' = DOMAIN file
         /\ file'[s] = g
         /\ \A i \in DOMAIN file : i # s => file'[i] = file[i]
<1>1. file \in Seq(FILE)
  BY DEF FilesOK
<1>2. /\ file' \in Seq(FILE)
      /\ DOMAIN file' = DOMAIN file
      /\ file'[s] = g
      /\ \A i \in DOMAIN file : i # s => file'[i] = file[i]
  BY <1>1
<1>3. TableOK'
  BY DEF TableOK
<1>4. Owned'
  <2> SUFFICES ASSUME NEW i \in DOMAIN file'
               PROVE  /\ allocated'[file'[i].fd]
                      /\ files'[file'[i].fd] = i
                      /\ \A j \in 1 .. Len(file'[i].name) :
                           names'[Slot(file'[i].fd) + j - 1] = file'[i].name[j]
    BY DEF Owned, Owns, Written, Slot
  <2>1. file'[i].fd = file[i].fd /\ file'[i].name = file[i].name
    BY <1>2 DEF SameFile
  <2>2. /\ allocated[file[i].fd]
        /\ files[file[i].fd] = i
        /\ \A j \in 1 .. Len(file[i].name) :
             names[Slot(file[i].fd) + j - 1] = file[i].name[j]
    BY <1>2 DEF Owned, Owns, Written
  <2> QED
    BY <2>1, <2>2
<1> QED
  BY <1>2, <1>3, <1>4 DEF FilesOK

\* The streams stay at position 0 where their positions do not change.
LEMMA StdKeeps ==
  ASSUME StdOK, UNCHANGED std, DOMAIN file' = DOMAIN file,
         \A i \in {std["in"], std["out"]} :
           i \in DOMAIN file => file'[i].filePos = file[i].filePos
  PROVE  StdOK'
BY DEF StdOK, AtStart

\* The start, whatever the memory holds.
LEMMA InitSInv == Init => SInv
<1> SUFFICES ASSUME Init PROVE SInv
  OBVIOUS
<1>1. TableOK
  BY StreamsAssumption DEF Init, TableOK, Bytes
<1>2. file = <<>>
  BY DEF Init
<1>3. FilesOK /\ Owned
  BY <1>2 DEF FilesOK, Owned
<1>4. StdOK
  BY DEF Init, StdOK, AtStart
<1>5. BootOK /\ last.gave = last.given
  BY DEF Init, BootOK
<1> QED
  BY <1>1, <1>3, <1>4, <1>5 DEF SInv

\* One step of the specification after the other.
LEMMA OpenStandardSInv == SInv /\ OpenStandard => SInv'
<1> SUFFICES ASSUME SInv, OpenStandard PROVE SInv'
  OBVIOUS
<1>1. boot \in {"in", "out", "err"} /\ BootOK'
  BY DEF SInv, BootOK, OpenStandard, AfterBoot
<1>2. BootName \in Names
  BY <1>1, StreamsAssumption DEF BootName
<1>3. last' = last
  BY DEF OpenStandard
<1>4. CASE Open(BootName) /\ std' = [std EXCEPT ![boot] = Len(file')]
  <2>1. /\ TableOK' /\ FilesOK' /\ Owned'
        /\ Len(file) \in Nat /\ DOMAIN file = 1 .. Len(file)
        /\ Len(file') = Len(file) + 1 /\ DOMAIN file' = 1 .. Len(file) + 1
        /\ \A i \in DOMAIN file : file'[i] = file[i]
        /\ file'[Len(file) + 1].filePos = 0
    BY <1>2, <1>4, OpenKeeps DEF SInv
  <2> DEFINE new == Len(file) + 1
  <2>2. \A s \in {"in", "out"} : std'[s] = IF s = boot THEN new ELSE std[s]
    BY <1>4, <2>1 DEF SInv, StdOK
  <2>3. DOMAIN std' = {"in", "out", "err"}
    BY <1>4 DEF SInv, StdOK
  <2>4. \A s \in {"in", "out"} :
          /\ std[s] = NULL \/ (std[s] \in DOMAIN file /\ file[std[s]].filePos = 0)
          /\ std[s] # new
    BY <2>1 DEF SInv, StdOK, AtStart, NULL
  <2>5. \A s \in {"in", "out"} :
          std'[s] = NULL \/ (std'[s] \in DOMAIN file' /\ file'[std'[s]].filePos = 0)
    BY <2>1, <2>2, <2>4
  <2>6. std'["in"] = std'["out"] => std'["in"] = NULL
    BY <1>1, <2>2, <2>4 DEF SInv, StdOK
  <2>7. StdOK'
    BY <2>3, <2>5, <2>6 DEF StdOK, AtStart
  <2> QED
    BY <1>1, <1>3, <2>1, <2>7 DEF SInv
<1>5. CASE OpenFails /\ UNCHANGED std
  <2>1. TableOK' /\ FilesOK' /\ Owned' /\ StdOK'
    BY <1>5 DEF SInv, OpenFails, TableOK, FilesOK, Owned, Owns, Written, StdOK, AtStart
  <2> QED
    BY <1>1, <1>3, <2>1 DEF SInv
<1> QED
  BY <1>4, <1>5 DEF OpenStandard

\* Opening a file.
LEMMA FopenSInv == ASSUME NEW n \in Names PROVE SInv /\ Fopen(n) => SInv'
<1> SUFFICES ASSUME SInv, Fopen(n) PROVE SInv'
  OBVIOUS
<1>1. /\ TableOK' /\ FilesOK' /\ Owned'
      /\ Len(file) \in Nat /\ DOMAIN file = 1 .. Len(file)
      /\ DOMAIN file' = 1 .. Len(file) + 1
      /\ \A i \in DOMAIN file : file'[i] = file[i]
  BY OpenKeeps DEF SInv, Fopen
<1>2. UNCHANGED <<std, boot, last>>
  BY DEF Fopen
<1>3. DOMAIN file \subseteq DOMAIN file'
  BY <1>1
<1>4. StdOK'
  BY <1>1, <1>2, <1>3 DEF SInv, StdOK, AtStart
<1> QED
  BY <1>1, <1>2, <1>4 DEF SInv, BootOK

\* What a call on another file keeps.
LEMMA OtherSInv ==
  ASSUME SInv, NEW s \in Others, NEW g \in FILE, SameFile(file[s], g),
         file' = [file EXCEPT ![s] = g],
         UNCHANGED <<allocated, names, files, std, boot, last>>
  PROVE  SInv'
<1>1. s \in DOMAIN file /\ s # std["in"] /\ s # std["out"]
  BY DEF Others
<1>2. /\ TableOK' /\ FilesOK' /\ Owned'
      /\ DOMAIN file' = DOMAIN file
      /\ \A i \in DOMAIN file : i # s => file'[i] = file[i]
  BY <1>1, ChangeKeeps DEF SInv
<1>3. StdOK'
  BY <1>1, <1>2, StdKeeps DEF SInv
<1> QED
  BY <1>2, <1>3 DEF SInv, BootOK

\* Reading from one.
LEMMA FgetcSInv == ASSUME NEW s \in Others PROVE SInv /\ Fgetc(s) => SInv'
<1> SUFFICES ASSUME SInv, Fgetc(s) PROVE SInv'
  OBVIOUS
<1> DEFINE pos == (file[s].filePos + 1) % Modulus
<1> DEFINE g == [file[s] EXCEPT !.filePos = pos]
<1>1. file[s] \in FILE
  BY DEF SInv, FilesOK, Others
<1>2. pos \in Nat
  BY <1>1, NextPosition
<1>3. file' = [file EXCEPT ![s] = g]
  BY DEF Fgetc
<1> HIDE DEF pos
<1>4. g \in FILE /\ SameFile(file[s], g)
  BY <1>1, <1>2, MovedFile
<1> HIDE DEF g
<1> QED
  BY <1>3, <1>4, OtherSInv DEF Fgetc

\* Writing to one.
LEMMA FputcSInv ==
  ASSUME NEW s \in Others, NEW c \in Chars PROVE SInv /\ Fputc(s, c) => SInv'
<1> SUFFICES ASSUME SInv, Fputc(s, c) PROVE SInv'
  OBVIOUS
<1> DEFINE g == AfterFputc(file[s], c)
<1>1. file[s] \in FILE
  BY DEF SInv, FilesOK, Others
<1>2. c \in Nat
  BY StreamsAssumption
<1>3. g \in FILE /\ SameFile(file[s], g)
  BY <1>1, <1>2, FputcFile
<1>4. file' = [file EXCEPT ![s] = g]
  BY DEF Fputc
<1> HIDE DEF g
<1> QED
  BY <1>3, <1>4, OtherSInv DEF Fputc

\* What a call on a standard stream keeps, when it ends at position 0.
LEMMA StandardSInv ==
  ASSUME SInv, NEW s \in {std["in"], std["out"]}, s # NULL,
         NEW g \in FILE, SameFile(file[s], g), g.filePos = 0,
         file' = [file EXCEPT ![s] = g],
         UNCHANGED <<allocated, names, files, std, boot>>,
         last'.gave = last'.given
  PROVE  SInv'
<1>1. s \in DOMAIN file /\ file[s].filePos = 0
  BY DEF SInv, StdOK, AtStart
<1>2. /\ TableOK' /\ FilesOK' /\ Owned'
      /\ DOMAIN file' = DOMAIN file
      /\ file'[s] = g
      /\ \A i \in DOMAIN file : i # s => file'[i] = file[i]
  BY <1>1, ChangeKeeps DEF SInv
<1>3. StdOK'
  BY <1>1, <1>2, StdKeeps DEF SInv
<1> QED
  BY <1>2, <1>3 DEF SInv, BootOK

\* The use of a NULL stream is not followed.
LEMMA NullSInv == ASSUME NEW s PROVE SInv /\ UseNull(s) => SInv'
BY DEF UseNull, SInv, TableOK, FilesOK, Owned, Owns, Written, StdOK, AtStart, BootOK

\* Writing to the standard output.
LEMMA PutcharSInv == ASSUME NEW c \in Chars PROVE SInv /\ Putchar(c) => SInv'
<1> SUFFICES ASSUME SInv, PrintOn(std["out"], c) PROVE SInv'
  BY NullSInv DEF Putchar
<1> DEFINE s == std["out"]
<1> DEFINE f == file[s]
<1> DEFINE g == AfterPrint(AfterFputc(f, c))
<1>1. s # NULL /\ s \in DOMAIN file /\ f.filePos = 0 /\ f \in FILE
  BY DEF SInv, StdOK, AtStart, FilesOK, PrintOn
<1>2. c \in Nat
  BY StreamsAssumption
<1>3. /\ g \in FILE /\ SameFile(f, g) /\ g.filePos = 0
      /\ Printed(AfterFputc(f, c)) = c
  BY <1>1, <1>2, PrintFile
<1>4. /\ file' = [file EXCEPT ![s] = g]
      /\ last' = [given |-> c, gave |-> Printed(AfterFputc(f, c))]
      /\ UNCHANGED <<allocated, names, files, std, boot>>
  BY <1>1, NotFull DEF PrintOn
<1> HIDE DEF g
<1>5. last'.gave = last'.given
  BY <1>3, <1>4
<1> QED
  BY <1>1, <1>3, <1>4, <1>5, StandardSInv

\* Reading from the standard input.
LEMMA GetcharSInv ==
  ASSUME NEW key \in Chars \cup {0} PROVE SInv /\ Getchar(key) => SInv'
<1> SUFFICES ASSUME SInv, ReadFrom(std["in"], key) PROVE SInv'
  BY NullSInv DEF Getchar
<1> DEFINE s == std["in"]
<1> DEFINE f == file[s]
<1> DEFINE g == AfterGetchar(f, key)
<1>1. s # NULL /\ s \in DOMAIN file /\ f.filePos = 0 /\ f \in FILE
  BY DEF SInv, StdOK, AtStart, FilesOK, ReadFrom
<1>2. key \in Nat
  BY StreamsAssumption
<1>3. /\ g \in FILE /\ SameFile(f, g) /\ g.filePos = 0
      /\ Stored(f, f.filePos, key).buf[f.filePos] = key
  BY <1>1, <1>2, GetcharFile
<1>4. /\ file' = [file EXCEPT ![s] = g]
      /\ last' = [given |-> key, gave |-> Stored(f, f.filePos, key).buf[f.filePos]]
      /\ UNCHANGED <<allocated, names, files, std, boot>>
  BY DEF ReadFrom
<1> HIDE DEF g
<1>5. last'.gave = last'.given
  BY <1>3, <1>4
<1> QED
  BY <1>1, <1>3, <1>4, <1>5, StandardSInv

\* Every step preserves the invariant.
LEMMA NextSInv == SInv /\ [Next]_vars => SInv'
<1> SUFFICES ASSUME SInv, [Next]_vars PROVE SInv'
  OBVIOUS
<1>1. CASE OpenStandard
  BY <1>1, OpenStandardSInv
<1>2. CASE \E n \in Names : Fopen(n)
  BY <1>2, FopenSInv
<1>3. CASE \E s \in Others : Fgetc(s) \/ \E c \in Chars : Fputc(s, c)
  BY <1>3, FgetcSInv, FputcSInv
<1>4. CASE \E c \in Chars : Putchar(c)
  BY <1>4, PutcharSInv
<1>5. CASE \E key \in Chars \cup {0} : Getchar(key)
  BY <1>5, GetcharSInv
<1>6. CASE UNCHANGED vars
  BY <1>6 DEF vars, SInv, TableOK, FilesOK, Owned, Owns, Written, StdOK, AtStart, BootOK
<1> QED
  BY <1>1, <1>2, <1>3, <1>4, <1>5, <1>6 DEF Next

\* The invariant holds always.
LEMMA Invariance == Spec => []SInv
<1> QED
  BY InitSInv, NextSInv, PTL DEF Spec

-------------------------------------------------------------------------------
\* The table agrees with the FILEs, whatever the table held when nobody had set it
\* up, for every set of names that fit into a slot.
THEOREM TableAndFilesAgree == Spec => []TableAgrees
<1>1. SInv => TableAgrees
  <2> SUFFICES ASSUME SInv, NEW i \in DOMAIN file
               PROVE  LET fd == file[i].fd
                      IN /\ allocated[fd]
                         /\ files[fd] = i
                         /\ IsPrefix(file[i].name, StoredName(fd))
    BY DEF TableAgrees
  <2>1. file[i] \in FILE
    BY DEF SInv, FilesOK
  <2>2. file[i].fd \in FDs /\ file[i].name \in Names
    BY <2>1 DEF FILE
  <2>3. Owns(i, file[i]) /\ names \in [Bytes -> Nat]
    BY DEF SInv, Owned, TableOK
  <2> QED
    BY <2>2, <2>3, WrittenIsPrefix DEF Owns
<1> QED
  BY <1>1, Invariance, PTL

\* putchar and getchar give what they were given, however often and in whatever
\* order they are called.
THEOREM CharactersUnchanged == Spec => []CharactersPassThrough
<1>1. SInv => CharactersPassThrough
  BY DEF SInv, CharactersPassThrough
<1> QED
  BY <1>1, Invariance, PTL

-------------------------------------------------------------------------------
(* The console. *)

\* The cell in a row and a column, and the values of the terminal and the paper.
Cell(y, x) == y * VGA_WIDTH + x
YRange == 0 .. VGA_HEIGHT - 1
XRange == 0 .. VGA_WIDTH - 1

Terms == [buf : [Cells -> Nat], col : XRange, row : YRange]
PaperRows == [XRange -> Nat]
Rollers == [paper : Seq(PaperRows), at : Nat, x : XRange]

\* A cell is on the screen.
LEMMA CellOnScreen ==
  ASSUME NEW y \in YRange, NEW x \in XRange
  PROVE  Cell(y, x) \in Cells /\ Cell(y, x) \in Nat
<1>1. VGA_HEIGHT \in Nat /\ VGA_WIDTH \in Nat /\ y \in Nat /\ x \in Nat /\ x < VGA_WIDTH
  BY ConsoleAssumption DEF YRange, XRange
<1> DEFINE d == VGA_HEIGHT - 1 - y
<1>2. d \in Nat /\ VGA_HEIGHT = d + 1 + y
  BY <1>1 DEF YRange
<1> HIDE DEF d
<1>3. d * VGA_WIDTH \in Nat /\ y * VGA_WIDTH \in Nat
  BY <1>1, <1>2
<1>4. VGA_WIDTH * VGA_HEIGHT = d * VGA_WIDTH + VGA_WIDTH + y * VGA_WIDTH
  BY <1>1, <1>2
<1>5. VGA_WIDTH * VGA_HEIGHT \in Nat
  BY <1>1
<1> QED
  BY <1>1, <1>3, <1>4, <1>5 DEF Cell, Cells

\* Two places have two cells.
LEMMA CellsApart ==
  ASSUME NEW y \in YRange, NEW x \in XRange, NEW v \in YRange, NEW u \in XRange,
         Cell(y, x) = Cell(v, u)
  PROVE  y = v /\ x = u
<1>1. VGA_WIDTH \in Nat \ {0} /\ y \in Nat /\ v \in Nat
  BY ConsoleAssumption DEF YRange, XRange
<1>2. Cell(y, x) = VGA_WIDTH * y + x /\ Cell(v, u) = VGA_WIDTH * v + u
  BY <1>1 DEF Cell, XRange
<1>3. /\ (VGA_WIDTH * y + x) \div VGA_WIDTH = y /\ (VGA_WIDTH * y + x) % VGA_WIDTH = x
      /\ (VGA_WIDTH * v + u) \div VGA_WIDTH = v /\ (VGA_WIDTH * v + u) % VGA_WIDTH = u
  BY <1>1, QuotientUnique DEF XRange
<1> QED
  BY <1>2, <1>3

\* The cell below, and the last one of all.
LEMMA CellBelow ==
  ASSUME NEW y \in YRange, NEW x \in XRange
  PROVE  /\ y + 1 # VGA_HEIGHT =>
              y + 1 \in YRange /\ Cell(y, x) + VGA_WIDTH = Cell(y + 1, x)
              /\ Cell(y, x) + VGA_WIDTH \in Cells
         /\ y + 1 = VGA_HEIGHT => Cell(y, x) + VGA_WIDTH \notin Cells
         /\ y + 1 = VGA_HEIGHT /\ x + 1 = VGA_WIDTH =>
              Cell(y, x) = VGA_WIDTH * VGA_HEIGHT - 1
<1>1. VGA_HEIGHT \in Nat /\ VGA_WIDTH \in Nat /\ y \in Nat /\ x \in Nat /\ x < VGA_WIDTH
  BY ConsoleAssumption DEF YRange, XRange
<1>2. y * VGA_WIDTH \in Nat /\ (y + 1) * VGA_WIDTH = y * VGA_WIDTH + VGA_WIDTH
  BY <1>1
<1>3. ASSUME y + 1 # VGA_HEIGHT
      PROVE  y + 1 \in YRange /\ Cell(y, x) + VGA_WIDTH = Cell(y + 1, x)
             /\ Cell(y, x) + VGA_WIDTH \in Cells
  <2>1. y + 1 \in YRange
    BY <1>1, <1>3 DEF YRange
  <2>2. Cell(y, x) + VGA_WIDTH = Cell(y + 1, x)
    BY <1>1, <1>2 DEF Cell
  <2> QED
    BY <2>1, <2>2, CellOnScreen
<1>4. ASSUME y + 1 = VGA_HEIGHT
      PROVE  Cell(y, x) + VGA_WIDTH = VGA_WIDTH * VGA_HEIGHT + x
  <2>1. VGA_WIDTH * VGA_HEIGHT = (y + 1) * VGA_WIDTH
    BY <1>1, <1>4
  <2> QED
    BY <1>1, <1>2, <2>1 DEF Cell
<1>5. VGA_WIDTH * VGA_HEIGHT \in Nat
  BY <1>1
<1>6. y + 1 = VGA_HEIGHT => Cell(y, x) + VGA_WIDTH \notin Cells
  BY <1>1, <1>4, <1>5 DEF Cells
<1>7. Cell(y, x) \in Nat
  BY CellOnScreen
<1>8. y + 1 = VGA_HEIGHT /\ x + 1 = VGA_WIDTH => Cell(y, x) = VGA_WIDTH * VGA_HEIGHT - 1
  BY <1>1, <1>4, <1>5, <1>7
<1> QED
  BY <1>3, <1>6, <1>8

-------------------------------------------------------------------------------
\* The terminal stays a terminal, whatever is written to it.
LEMMA CursorOnScreen ==
  ASSUME NEW t \in Terms
  PROVE  Cursor(t) = Cell(t.row, t.col) /\ Cursor(t) \in Cells /\ Cursor(t) \in Nat
  BY CellOnScreen DEF Terms, Cursor, Cell

\* A character is put at a place.
LEMMA PutAt ==
  ASSUME NEW t \in Terms, NEW c \in Nat, NEW y \in YRange, NEW x \in XRange
  PROVE  /\ Putentryat(t, c, x, y) \in Terms
         /\ Putentryat(t, c, x, y) = [t EXCEPT !.buf = [@ EXCEPT ![Cell(y, x)] = c]]
         /\ Putentryat(t, c, x, y).row = t.row /\ Putentryat(t, c, x, y).col = t.col
         /\ Putentryat(t, c, x, y).buf[Cell(y, x)] = c
         /\ \A k \in Cells : k # Cell(y, x) => Putentryat(t, c, x, y).buf[k] = t.buf[k]
<1>1. Cell(y, x) \in Cells
  BY CellOnScreen
<1>2. Putentryat(t, c, x, y) = [t EXCEPT !.buf = [@ EXCEPT ![Cell(y, x)] = c]]
  BY DEF Putentryat, Cell
<1> QED
  BY <1>1, <1>2 DEF Terms

\* One step to the right, within the row.
StepRight(t) == [t EXCEPT !.col = @ + 1]

\* A character is put, and the cursor goes on; behind the last cell it is an exception.
LEMMA PutcharSteps ==
  ASSUME NEW t \in Terms, NEW c \in Nat
  PROVE  LET put == Putentryat(t, c, t.col, t.row)
         IN  /\ t.col + 1 # VGA_WIDTH => TerminalPutchar(t, c) = StepRight(put)
             /\ t.col + 1 = VGA_WIDTH /\ t.row + 1 # VGA_HEIGHT =>
                  TerminalPutchar(t, c) = HandleNewline(put)
             /\ t.col + 1 = VGA_WIDTH /\ t.row + 1 = VGA_HEIGHT =>
                  TerminalPutchar(t, c) = [put EXCEPT !.col = 0, !.row = 0]
             /\ put \in Terms /\ put.row = t.row /\ put.col = t.col
<1> DEFINE put == Putentryat(t, c, t.col, t.row)
<1>1. put \in Terms /\ put.row = t.row /\ put.col = t.col
  BY PutAt DEF Terms
<1>2. t.col + 1 # VGA_WIDTH => TerminalPutchar(t, c) = StepRight(put)
  BY DEF TerminalPutchar, StepRight
<1>3. t.col + 1 = VGA_WIDTH =>
        TerminalPutchar(t, c) =
          [put EXCEPT !.col = 0, !.row = IF put.row + 1 = VGA_HEIGHT THEN 0 ELSE put.row + 1]
  BY DEF TerminalPutchar
<1> HIDE DEF put
<1>4. t.col + 1 = VGA_WIDTH /\ t.row + 1 # VGA_HEIGHT =>
        TerminalPutchar(t, c) = HandleNewline(put)
  BY <1>1, <1>3 DEF HandleNewline
<1>5. t.col + 1 = VGA_WIDTH /\ t.row + 1 = VGA_HEIGHT =>
        TerminalPutchar(t, c) = [put EXCEPT !.col = 0, !.row = 0]
  BY <1>1, <1>3
<1> QED
  BY <1>1, <1>2, <1>4, <1>5 DEF put

\* The rows move up.
LEMMA ScrollRows ==
  ASSUME NEW buf \in [Cells -> Nat]
  PROVE  /\ Scroll(buf) \in [Cells -> Nat]
         /\ \A y \in YRange, x \in XRange :
              Scroll(buf)[Cell(y, x)] =
                IF y + 1 # VGA_HEIGHT THEN buf[Cell(y + 1, x)] ELSE SPACE
<1>1. Scroll(buf) \in [Cells -> Nat]
  BY DEF Scroll, SPACE
<1>2. ASSUME NEW y \in YRange, NEW x \in XRange
      PROVE  Scroll(buf)[Cell(y, x)] =
               IF y + 1 # VGA_HEIGHT THEN buf[Cell(y + 1, x)] ELSE SPACE
  <2>1. Cell(y, x) \in Cells
    BY CellOnScreen
  <2>2. Scroll(buf)[Cell(y, x)] =
          IF Cell(y, x) + VGA_WIDTH \in Cells THEN buf[Cell(y, x) + VGA_WIDTH] ELSE SPACE
    BY <2>1 DEF Scroll
  <2> QED
    BY <2>2, CellBelow
<1> QED
  BY <1>1, <1>2

\* The places 0 are places.
LEMMA FirstPlaces == 0 \in XRange /\ 0 \in YRange
  BY ConsoleAssumption DEF XRange, YRange

\* A new row.
LEMMA NewlineTerms ==
  ASSUME NEW t \in Terms
  PROVE  /\ HandleNewline(t) \in Terms /\ HandleNewline(t).col = 0
         /\ t.row + 1 # VGA_HEIGHT =>
              HandleNewline(t).row = t.row + 1 /\ HandleNewline(t).buf = t.buf
         /\ t.row + 1 = VGA_HEIGHT =>
              HandleNewline(t).row = t.row /\ HandleNewline(t).buf = Scroll(t.buf)
<1>1. CASE t.row + 1 # VGA_HEIGHT
  <2>1. HandleNewline(t) = [t EXCEPT !.col = 0, !.row = t.row + 1]
    BY <1>1 DEF HandleNewline
  <2>2. t.row + 1 \in YRange
    BY <1>1, ConsoleAssumption DEF Terms, YRange
  <2> QED
    BY <1>1, <2>1, <2>2, FirstPlaces DEF Terms
<1>2. CASE t.row + 1 = VGA_HEIGHT
  <2>1. HandleNewline(t) = [t EXCEPT !.col = 0, !.buf = Scroll(t.buf)]
    BY <1>2 DEF HandleNewline
  <2>2. Scroll(t.buf) \in [Cells -> Nat]
    BY ScrollRows DEF Terms
  <2> QED
    BY <1>2, <2>1, <2>2, FirstPlaces DEF Terms
<1> QED
  BY <1>1, <1>2

\* Each character leaves a terminal.
LEMMA CharTerms ==
  ASSUME NEW t \in Terms, NEW c \in Nat
  PROVE  TerminalPutchar(t, c) \in Terms /\ Char(t, c) \in Terms
<1> DEFINE put == Putentryat(t, c, t.col, t.row)
<1>1. TerminalPutchar(t, c) \in Terms
  <2>1. put \in Terms /\ put.row = t.row /\ put.col = t.col
    BY PutcharSteps
  <2>2. CASE t.col + 1 # VGA_WIDTH
    <3>1. t.col + 1 \in XRange
      BY <2>2, ConsoleAssumption DEF Terms, XRange
    <3>2. TerminalPutchar(t, c) = StepRight(put)
      BY <2>2, PutcharSteps
    <3> QED
      BY <2>1, <3>1, <3>2 DEF Terms, StepRight
  <2>3. CASE t.col + 1 = VGA_WIDTH /\ t.row + 1 # VGA_HEIGHT
    BY <2>1, <2>3, PutcharSteps, NewlineTerms
  <2>4. CASE t.col + 1 = VGA_WIDTH /\ t.row + 1 = VGA_HEIGHT
    <3>1. TerminalPutchar(t, c) = [put EXCEPT !.col = 0, !.row = 0]
      BY <2>4, PutcharSteps
    <3> HIDE DEF put
    <3> QED
      BY <2>1, <3>1, FirstPlaces DEF Terms
  <2> QED
    BY <2>2, <2>3, <2>4
<1> QED
  BY <1>1, NewlineTerms DEF Char

-------------------------------------------------------------------------------
\* What is written is written character by character: the recursion that Progress
\* stands for has its function.
LEMMA ProgressSteps ==
  ASSUME NEW t, NEW data \in Seq(Nat)
  PROVE  /\ Progress(t, data)[0] = t
         /\ \A n \in 1 .. Len(data) :
              Progress(t, data)[n] = Char(Progress(t, data)[n - 1], data[n])
<1> DEFINE k == Len(data)
<1> DEFINE Part(n, g) ==
      g = [m \in 0 .. n |-> IF m = 0 THEN t ELSE Char(g[m - 1], data[m])]
<1> DEFINE S == {n \in Nat : \E g : Part(n, g)}
<1>1. 0 \in S
  <2> DEFINE g == [m \in 0 .. 0 |-> t]
  <2>1. \A m \in 0 .. 0 : m = 0
    OBVIOUS
  <2>2. Part(0, g)
    BY <2>1
  <2> QED
    BY <2>2
<1>2. ASSUME NEW n \in Nat, n \in S
      PROVE  n + 1 \in S
  <2>1. PICK g : Part(n, g)
    BY <1>2
  <2> DEFINE h == [m \in 0 .. n + 1 |-> IF m = n + 1 THEN Char(g[n], data[n + 1]) ELSE g[m]]
  <2>2. ASSUME NEW m \in 0 .. n + 1
        PROVE  h[m] = IF m = 0 THEN t ELSE Char(h[m - 1], data[m])
    <3>1. CASE m = n + 1
      <4>1. h[n + 1] = Char(g[n], data[n + 1]) /\ h[n] = g[n]
        OBVIOUS
      <4> QED
        BY <3>1, <4>1
    <3>2. CASE m # n + 1
      <4>1. m \in 0 .. n /\ h[m] = g[m] /\ (m # 0 => m - 1 \in 0 .. n /\ h[m - 1] = g[m - 1])
        BY <2>2, <3>2
      <4>2. g[m] = IF m = 0 THEN t ELSE Char(g[m - 1], data[m])
        BY <2>1, <4>1
      <4> QED
        BY <4>1, <4>2
    <3> QED
      BY <3>1, <3>2
  <2>3. h = [m \in 0 .. n + 1 |-> h[m]]
    OBVIOUS
  <2> HIDE DEF h
  <2>4. Part(n + 1, h)
    BY <2>2, <2>3
  <2> HIDE DEF Part
  <2> QED
    BY <2>4
<1>3. \E g : Part(k, g)
  <2> HIDE DEF S
  <2>1. \A n \in Nat : n \in S
    BY <1>1, <1>2, Induction
  <2> QED
    BY <2>1 DEF S
<1>4. Progress(t, data) = CHOOSE g : Part(k, g)
  BY DEF Progress
<1>5. Part(k, Progress(t, data))
  BY <1>3, <1>4
<1> QED
  BY <1>5

\* And so is what is rolled out.
RollsOut(r, data, base) ==
  r[0] = base /\ \A n \in 1 .. Len(data) : r[n] = Roller(r[n - 1], data[n])

\* What is on the paper in the end is what was rolled out in the end.
LEMMA PaperSteps ==
  ASSUME NEW data \in Seq(Nat), NEW base,
         base = [paper |-> paper, at |-> top + term.row + 1, x |-> term.col]
  PROVE  \E r : RollsOut(r, data, base) /\ OnPaper(data) = r[Len(data)].paper
<1> DEFINE k == Len(data)
<1> DEFINE Part(n, g) ==
      g = [m \in 0 .. n |-> IF m = 0 THEN base ELSE Roller(g[m - 1], data[m])]
<1> DEFINE S == {n \in Nat : \E g : Part(n, g)}
<1>1. 0 \in S
  <2> DEFINE g == [m \in 0 .. 0 |-> base]
  <2>1. \A m \in 0 .. 0 : m = 0
    OBVIOUS
  <2>2. Part(0, g)
    BY <2>1
  <2> QED
    BY <2>2
<1>2. ASSUME NEW n \in Nat, n \in S
      PROVE  n + 1 \in S
  <2>1. PICK g : Part(n, g)
    BY <1>2
  <2> DEFINE h == [m \in 0 .. n + 1 |-> IF m = n + 1 THEN Roller(g[n], data[n + 1]) ELSE g[m]]
  <2>2. ASSUME NEW m \in 0 .. n + 1
        PROVE  h[m] = IF m = 0 THEN base ELSE Roller(h[m - 1], data[m])
    <3>1. CASE m = n + 1
      <4>1. h[n + 1] = Roller(g[n], data[n + 1]) /\ h[n] = g[n]
        OBVIOUS
      <4> QED
        BY <3>1, <4>1
    <3>2. CASE m # n + 1
      <4>1. m \in 0 .. n /\ h[m] = g[m] /\ (m # 0 => m - 1 \in 0 .. n /\ h[m - 1] = g[m - 1])
        BY <2>2, <3>2
      <4>2. g[m] = IF m = 0 THEN base ELSE Roller(g[m - 1], data[m])
        BY <2>1, <4>1
      <4> QED
        BY <4>1, <4>2
    <3> QED
      BY <3>1, <3>2
  <2>3. h = [m \in 0 .. n + 1 |-> h[m]]
    OBVIOUS
  <2> HIDE DEF h
  <2>4. Part(n + 1, h)
    BY <2>2, <2>3
  <2> HIDE DEF Part
  <2> QED
    BY <2>4
<1>3. \E g : Part(k, g)
  <2> HIDE DEF S
  <2>1. \A n \in Nat : n \in S
    BY <1>1, <1>2, Induction
  <2> QED
    BY <2>1 DEF S
<1>4. OnPaper(data) = (CHOOSE r : Part(k, r))[k].paper
  BY DEF OnPaper
<1> DEFINE r == CHOOSE r : Part(k, r)
<1>5. Part(k, r)
  BY <1>3
<1>6. k \in Nat
  OBVIOUS
<1>7. OnPaper(data) = r[k].paper
  BY <1>4
<1> HIDE DEF r
<1>8. r[0] = base /\ \A n \in 1 .. k : r[n] = Roller(r[n - 1], data[n])
  BY <1>5, <1>6
<1>9. RollsOut(r, data, base)
  BY <1>8 DEF RollsOut
<1> QED
  BY <1>7, <1>9

-------------------------------------------------------------------------------
\* The screen and the end of the paper show the same.
Shows(t, p) ==
  \A y \in YRange, x \in XRange :
    t.buf[Cell(y, x)] =
      IF PastTop(p) + y + 1 <= Len(p) THEN p[PastTop(p) + y + 1][x] ELSE SPACE

\* The terminal and the paper are at the same place.
Rolled(t, s) ==
  /\ t \in Terms /\ s \in Rollers
  /\ s.x = t.col /\ s.at = PastTop(s.paper) + t.row + 1 /\ s.at <= Len(s.paper)
  /\ Shows(t, s.paper)

\* How much of the paper has gone past the top.
LEMMA PastTopFacts ==
  ASSUME NEW p \in Seq(PaperRows)
  PROVE  /\ PastTop(p) \in Nat /\ Len(p) \in Nat /\ Len(p) <= PastTop(p) + VGA_HEIGHT
         /\ PastTop(p) = 0 \/ Len(p) = PastTop(p) + VGA_HEIGHT
         /\ VGA_HEIGHT \in Nat /\ VGA_HEIGHT > 0
  BY ConsoleAssumption DEF PastTop

\* A character is put on both.
LEMMA PutRolled ==
  ASSUME NEW t, NEW s, Rolled(t, s), NEW c \in Nat
  PROVE  Rolled(Putentryat(t, c, t.col, t.row), [s EXCEPT !.paper[s.at][s.x] = c])
<1> DEFINE u == Putentryat(t, c, t.col, t.row)
<1> DEFINE p == s.paper
<1> DEFINE q == [p EXCEPT ![s.at] = [p[s.at] EXCEPT ![s.x] = c]]
<1> DEFINE v == [s EXCEPT !.paper[s.at][s.x] = c]
<1>1. /\ t \in Terms /\ s \in Rollers /\ t.row \in YRange /\ t.col \in XRange
      /\ p \in Seq(PaperRows) /\ s.at \in Nat /\ s.x = t.col
      /\ s.at = PastTop(p) + t.row + 1 /\ s.at <= Len(p) /\ Shows(t, p)
  BY DEF Rolled, Rollers, Terms
<1>2. /\ u \in Terms /\ u.row = t.row /\ u.col = t.col /\ u.buf[Cell(t.row, t.col)] = c
      /\ \A k \in Cells : k # Cell(t.row, t.col) => u.buf[k] = t.buf[k]
  BY <1>1, PutAt
<1>3. v = [s EXCEPT !.paper = q]
  OBVIOUS
<1> HIDE DEF u, v
<1>4. PastTop(p) \in Nat /\ Len(p) \in Nat /\ t.row \in Nat
  BY <1>1, PastTopFacts DEF YRange
<1>5. s.at \in 1 .. Len(p)
  BY <1>1, <1>4
<1>6. p[s.at] \in PaperRows
  BY <1>1, <1>5
<1>7. [p[s.at] EXCEPT ![s.x] = c] \in PaperRows
  BY <1>1, <1>6 DEF PaperRows
<1>8. /\ q \in Seq(PaperRows) /\ Len(q) = Len(p)
      /\ \A j \in 1 .. Len(p) : q[j] = IF j = s.at THEN [p[s.at] EXCEPT ![s.x] = c] ELSE p[j]
  BY <1>1, <1>5, <1>7
<1> HIDE DEF p, q
<1>9. PastTop(q) = PastTop(p)
  BY <1>8 DEF PastTop
<1>10. v \in Rollers /\ v.paper = q /\ v.at = s.at /\ v.x = s.x
  BY <1>1, <1>3, <1>8 DEF Rollers
<1>11. ASSUME NEW y \in YRange, NEW x \in XRange
       PROVE  u.buf[Cell(y, x)] =
                IF PastTop(p) + y + 1 <= Len(p) THEN q[PastTop(p) + y + 1][x] ELSE SPACE
  <2> DEFINE j == PastTop(p) + y + 1
  <2>1. j \in Nat /\ j >= 1 /\ (j = s.at <=> y = t.row)
    BY <1>1, <1>4, <1>11 DEF YRange
  <2>2. t.buf[Cell(y, x)] = IF j <= Len(p) THEN p[j][x] ELSE SPACE
    BY <1>1 DEF Shows
  <2>3. Cell(y, x) \in Cells
    BY CellOnScreen
  <2> HIDE DEF j
  <2>4. CASE y = t.row /\ x = t.col
    <3>1. u.buf[Cell(y, x)] = c
      BY <1>2, <2>4
    <3>2. j = s.at /\ j <= Len(p) /\ j \in 1 .. Len(p)
      BY <1>5, <2>1, <2>4
    <3>3. q[j][x] = c
      BY <1>1, <1>6, <1>8, <2>4, <3>2 DEF PaperRows
    <3> QED
      BY <3>1, <3>2, <3>3 DEF j
  <2>5. CASE ~ (y = t.row /\ x = t.col)
    <3>1. Cell(y, x) # Cell(t.row, t.col)
      BY <1>1, <2>5, CellsApart
    <3>2. u.buf[Cell(y, x)] = t.buf[Cell(y, x)]
      BY <1>2, <2>3, <3>1
    <3>3. ASSUME j <= Len(p) PROVE q[j][x] = p[j][x]
      <4>1. j \in 1 .. Len(p)
        BY <1>4, <2>1, <3>3
      <4>2. CASE j = s.at
        BY <1>1, <1>6, <1>8, <2>1, <2>5, <4>1, <4>2 DEF PaperRows
      <4>3. CASE j # s.at
        BY <1>8, <4>1, <4>3
      <4> QED
        BY <4>2, <4>3
    <3> QED
      BY <2>2, <3>2, <3>3 DEF j
  <2> QED
    BY <2>4, <2>5
<1>12. Shows(u, q)
  BY <1>8, <1>9, <1>11 DEF Shows
<1>13. Rolled(u, v)
  BY <1>1, <1>2, <1>8, <1>9, <1>10, <1>12 DEF Rolled
<1> QED
  BY <1>13 DEF u, v

\* Both take a new row.
LEMMA NewlineRolled ==
  ASSUME NEW t, NEW s, Rolled(t, s)
  PROVE  Rolled(HandleNewline(t), NextRow(s))
<1> DEFINE u == HandleNewline(t)
<1> DEFINE v == NextRow(s)
<1> DEFINE p == s.paper
<1> DEFINE q == Roll(p, s.at + 1)
<1> DEFINE h == PastTop(p)
<1>1. /\ t \in Terms /\ s \in Rollers /\ t.row \in YRange /\ t.col \in XRange
      /\ p \in Seq(PaperRows) /\ s.at \in Nat
      /\ s.at = h + t.row + 1 /\ s.at <= Len(p) /\ Shows(t, p)
  BY DEF Rolled, Rollers, Terms
<1>2. /\ h \in Nat /\ Len(p) \in Nat /\ Len(p) <= h + VGA_HEIGHT
      /\ h = 0 \/ Len(p) = h + VGA_HEIGHT
      /\ VGA_HEIGHT \in Nat /\ t.row \in Nat /\ t.row < VGA_HEIGHT
  BY <1>1, PastTopFacts DEF YRange
<1>3. BlankRow \in PaperRows /\ \A x \in XRange : BlankRow[x] = SPACE
  BY DEF BlankRow, PaperRows, XRange, SPACE
<1>4. /\ q \in Seq(PaperRows) /\ \A j \in 1 .. Len(p) : q[j] = p[j]
      /\ s.at < Len(p) => Len(q) = Len(p)
      /\ s.at = Len(p) => Len(q) = Len(p) + 1 /\ q[Len(p) + 1] = BlankRow
  <2>1. CASE s.at < Len(p)
    <3>1. q = p
      BY <1>1, <1>2, <2>1 DEF Roll
    <3> QED
      BY <1>1, <2>1, <3>1
  <2>2. CASE s.at = Len(p)
    <3>1. q = Append(p, BlankRow)
      BY <1>1, <1>2, <2>2 DEF Roll
    <3> HIDE DEF p, q
    <3> QED
      BY <1>1, <1>3, <2>2, <3>1
  <2> QED
    BY <1>1, <1>2, <2>1, <2>2
<1>5. v = [s EXCEPT !.paper = q, !.at = s.at + 1, !.x = 0]
  BY DEF NextRow
<1>6. /\ u \in Terms /\ u.col = 0
      /\ t.row + 1 # VGA_HEIGHT => u.row = t.row + 1 /\ u.buf = t.buf
      /\ t.row + 1 = VGA_HEIGHT => u.row = t.row /\ u.buf = Scroll(t.buf)
  BY <1>1, NewlineTerms
<1> HIDE DEF u, v, q, h
<1>7. PastTop(q) = IF t.row + 1 = VGA_HEIGHT THEN h + 1 ELSE h
  <2>1. Len(q) \in Nat
    BY <1>4
  <2> QED
    BY <1>1, <1>2, <1>4, <2>1 DEF PastTop, h
<1>8. v \in Rollers /\ v.paper = q /\ v.at = s.at + 1 /\ v.x = 0
  <2>1. q \in Seq(PaperRows) /\ s.at + 1 \in Nat /\ 0 \in XRange
    BY <1>1, <1>4, FirstPlaces
  <2> HIDE DEF p
  <2>2. s = [paper |-> s.paper, at |-> s.at, x |-> s.x]
    BY <1>1 DEF Rollers
  <2>3. v = [paper |-> q, at |-> s.at + 1, x |-> 0]
    BY <1>5, <2>2
  <2> QED
    BY <2>1, <2>3 DEF Rollers
<1>9. v.at = PastTop(q) + u.row + 1 /\ v.at <= Len(q)
  <2>1. PICK k \in Nat : k = Len(p)
    BY <1>2
  <2>2. PICK i \in Nat : i = s.at
    BY <1>1
  <2>3. v.at = i + 1 /\ i = h + t.row + 1 /\ i <= k
    BY <1>1, <1>8, <2>1, <2>2
  <2>4. PastTop(q) + u.row = h + t.row + 1
    BY <1>2, <1>6, <1>7
  <2>5. i < k => Len(q) = k
    BY <1>4, <2>1, <2>2
  <2>6. i = k => Len(q) = k + 1
    BY <1>4, <2>1, <2>2
  <2> HIDE DEF p
  <2>7. v.at <= Len(q)
    BY <2>3, <2>5, <2>6
  <2> QED
    BY <1>2, <2>3, <2>4, <2>7
<1>10. \A y \in YRange, x \in XRange :
         t.buf[Cell(y, x)] = IF h + y + 1 <= Len(p) THEN p[h + y + 1][x] ELSE SPACE
  BY <1>1 DEF Shows, h
<1>11. ASSUME NEW y \in YRange, NEW x \in XRange
       PROVE  u.buf[Cell(y, x)] =
                IF PastTop(q) + y + 1 <= Len(q) THEN q[PastTop(q) + y + 1][x] ELSE SPACE
  <2>1. y \in Nat /\ y < VGA_HEIGHT /\ (y + 1 # VGA_HEIGHT => y + 1 \in YRange)
    BY <1>2, <1>11 DEF YRange
  <2>2. CASE t.row + 1 # VGA_HEIGHT
    <3> DEFINE j == h + y + 1
    <3>1. PastTop(q) = h /\ j \in Nat /\ j >= 1
      BY <1>2, <1>7, <2>1, <2>2
    <3>2. u.buf[Cell(y, x)] = IF j <= Len(p) THEN p[j][x] ELSE SPACE
      BY <1>6, <1>10, <2>2
    <3> HIDE DEF j
    <3>3. CASE j <= Len(p)
      <4>1. j \in 1 .. Len(p) /\ j <= Len(q)
        BY <1>1, <1>2, <1>4, <3>1, <3>3
      <4>2. q[j] = p[j]
        BY <1>4, <4>1
      <4> QED
        BY <3>1, <3>2, <3>3, <4>1, <4>2 DEF j
    <3>4. CASE j > Len(p)
      <4>1. CASE j <= Len(q)
        <5>1. j = Len(p) + 1 /\ s.at = Len(p)
          BY <1>1, <1>2, <1>4, <3>1, <3>4, <4>1
        <5>2. q[j][x] = SPACE
          BY <1>3, <1>4, <5>1
        <5>3. u.buf[Cell(y, x)] = SPACE
          BY <1>2, <3>1, <3>2, <3>4
        <5> QED
          BY <3>1, <4>1, <5>2, <5>3 DEF j
      <4>2. CASE ~ (j <= Len(q))
        <5>1. u.buf[Cell(y, x)] = SPACE
          BY <1>2, <3>1, <3>2, <3>4
        <5> QED
          BY <3>1, <4>2, <5>1 DEF j
      <4> QED
        BY <4>1, <4>2
    <3> QED
      BY <1>2, <3>1, <3>3, <3>4
  <2>3. CASE t.row + 1 = VGA_HEIGHT
    <3> DEFINE j == h + y + 2
    <3>1. PastTop(q) + y + 1 = j /\ j \in Nat /\ j >= 1
      BY <1>2, <1>7, <2>1, <2>3
    <3>2. s.at = Len(p) /\ Len(p) = h + VGA_HEIGHT /\ Len(q) = Len(p) + 1
      BY <1>1, <1>2, <1>4, <2>3
    <3>3. u.buf[Cell(y, x)] = IF y + 1 # VGA_HEIGHT THEN t.buf[Cell(y + 1, x)] ELSE SPACE
      BY <1>1, <1>6, <2>3, ScrollRows DEF Terms
    <3>4. CASE y + 1 # VGA_HEIGHT
      <4>1. y + 1 \in YRange /\ h + (y + 1) + 1 = j
        BY <1>2, <2>1, <3>4
      <4>2. j <= Len(p) /\ j \in 1 .. Len(p) /\ j <= Len(q)
        BY <1>2, <2>1, <3>1, <3>2, <3>4
      <4>3. t.buf[Cell(y + 1, x)] = p[j][x]
        BY <1>10, <4>1, <4>2
      <4>4. q[j] = p[j]
        BY <1>4, <4>2
      <4> QED
        BY <3>1, <3>3, <3>4, <4>2, <4>3, <4>4
    <3>5. CASE y + 1 = VGA_HEIGHT
      <4>1. j = Len(p) + 1 /\ j <= Len(q)
        BY <1>2, <2>1, <3>2, <3>5
      <4>2. q[j][x] = SPACE
        BY <1>3, <1>4, <3>2, <4>1
      <4> QED
        BY <3>1, <3>3, <3>5, <4>1, <4>2
    <3> QED
      BY <3>4, <3>5
  <2> QED
    BY <2>2, <2>3
<1>12. Shows(u, q)
  BY <1>11 DEF Shows
<1>13. Rolled(u, v)
  BY <1>6, <1>8, <1>9, <1>12 DEF Rolled
<1> QED
  BY <1>13 DEF u, v

\* Both go one step to the right.
LEMMA RightRolled ==
  ASSUME NEW t, NEW s, Rolled(t, s), t.col + 1 # VGA_WIDTH
  PROVE  Rolled(StepRight(t), [s EXCEPT !.x = @ + 1])
<1> DEFINE u == StepRight(t)
<1> DEFINE v == [s EXCEPT !.x = @ + 1]
<1>1. t \in Terms /\ s \in Rollers /\ s.x = t.col
  BY DEF Rolled
<1>2. t.col + 1 \in XRange
  BY <1>1, ConsoleAssumption DEF Terms, XRange
<1>3. u \in Terms /\ u.col = t.col + 1 /\ u.row = t.row /\ u.buf = t.buf
  BY <1>1, <1>2 DEF Terms, StepRight
<1>4. v \in Rollers /\ v.x = s.x + 1 /\ v.at = s.at /\ v.paper = s.paper
  BY <1>1, <1>2 DEF Rollers
<1> HIDE DEF u, v
<1>5. Shows(u, v.paper)
  BY <1>3, <1>4 DEF Rolled, Shows
<1>6. Rolled(u, v)
  BY <1>1, <1>3, <1>4, <1>5 DEF Rolled
<1> QED
  BY <1>6 DEF u, v

\* Each character that does not fill the last cell is written on both.
LEMMA CharRolled ==
  ASSUME NEW t, NEW s, Rolled(t, s), NEW c \in Nat,
         Cursor(t) # VGA_WIDTH * VGA_HEIGHT - 1 \/ c = Newline
  PROVE  Rolled(Char(t, c), Roller(s, c))
<1>1. CASE c = Newline
  BY <1>1, NewlineRolled DEF Char, Roller
<1>2. CASE c # Newline
  <2> DEFINE u == Putentryat(t, c, t.col, t.row)
  <2> DEFINE v == [s EXCEPT !.paper[s.at][s.x] = c]
  <2>1. Rolled(u, v)
    BY PutRolled
  <2>2. /\ t \in Terms /\ s \in Rollers /\ s.x = t.col /\ t.row \in YRange /\ t.col \in XRange
        /\ Cursor(t) = Cell(t.row, t.col)
    BY CursorOnScreen DEF Rolled, Terms
  <2>3. v.x = s.x
    BY <2>2 DEF Rollers
  <2>4. Char(t, c) = TerminalPutchar(t, c)
    BY <1>2 DEF Char
  <2>5. Roller(s, c) = IF s.x + 1 < VGA_WIDTH THEN [v EXCEPT !.x = @ + 1] ELSE NextRow(v)
    BY <1>2 DEF Roller
  <2>6. /\ t.col + 1 # VGA_WIDTH => TerminalPutchar(t, c) = StepRight(u)
        /\ t.col + 1 = VGA_WIDTH /\ t.row + 1 # VGA_HEIGHT =>
             TerminalPutchar(t, c) = HandleNewline(u)
        /\ u.col = t.col
    BY <2>2, PutcharSteps
  <2> HIDE DEF u, v
  <2>7. CASE t.col + 1 # VGA_WIDTH
    <3>1. s.x + 1 < VGA_WIDTH
      BY <2>2, <2>7, ConsoleAssumption DEF XRange
    <3> QED
      BY <2>1, <2>4, <2>5, <2>6, <2>7, <3>1, RightRolled
  <2>8. CASE t.col + 1 = VGA_WIDTH
    <3>1. ~ (s.x + 1 < VGA_WIDTH)
      BY <2>2, <2>8, ConsoleAssumption DEF XRange
    <3>2. t.row + 1 # VGA_HEIGHT
      BY <1>2, <2>2, <2>8, CellBelow
    <3> QED
      BY <2>1, <2>4, <2>5, <2>6, <2>8, <3>1, <3>2, NewlineRolled
  <2> QED
    BY <2>7, <2>8
<1> QED
  BY <1>1, <1>2

-------------------------------------------------------------------------------
\* What is written leaves a terminal, after each character.
LEMMA WriteTerms ==
  ASSUME NEW t \in Terms, NEW data \in Seq(Nat)
  PROVE  Write(t, data) \in Terms /\ \A n \in 0 .. Len(data) : Progress(t, data)[n] \in Terms
<1> DEFINE S == {n \in Nat : n <= Len(data) => Progress(t, data)[n] \in Terms}
<1>1. 0 \in S
  BY ProgressSteps
<1>2. ASSUME NEW n \in Nat, n \in S
      PROVE  n + 1 \in S
  <2>1. SUFFICES ASSUME n + 1 <= Len(data) PROVE Progress(t, data)[n + 1] \in Terms
    OBVIOUS
  <2>2. n + 1 \in 1 .. Len(data) /\ data[n + 1] \in Nat /\ (n + 1) - 1 = n
    BY <2>1
  <2>3. Progress(t, data)[n] \in Terms
    BY <1>2, <2>1
  <2>4. Progress(t, data)[n + 1] = Char(Progress(t, data)[n], data[n + 1])
    BY <2>2, ProgressSteps
  <2> QED
    BY <2>2, <2>3, <2>4, CharTerms
<1> HIDE DEF S
<1>3. \A n \in Nat : n \in S
  BY <1>1, <1>2, Induction
<1> QED
  BY <1>3 DEF S, Write

\* The place of the cursor on the paper.
At(t, p) == [paper |-> p, at |-> PastTop(p) + t.row + 1, x |-> t.col]

\* What is rolled along with the terminal is where the terminal is.
LEMMA RolledAt ==
  ASSUME NEW t, NEW s, Rolled(t, s)
  PROVE  s = At(t, s.paper) /\ Rolled(t, At(t, s.paper))
<1>1. s = [paper |-> s.paper, at |-> s.at, x |-> s.x]
  BY DEF Rolled, Rollers
<1> QED
  BY <1>1 DEF Rolled, At

\* What is written without filling the last cell is on both.
LEMMA WriteRolled ==
  ASSUME NEW data \in Seq(Nat), top = PastTop(paper), Rolled(term, At(term, paper)),
         ~ FillsCorner(data)
  PROVE  Rolled(Write(term, data), At(Write(term, data), OnPaper(data)))
<1>1. PICK r : RollsOut(r, data, At(term, paper)) /\ OnPaper(data) = r[Len(data)].paper
  <2>1. At(term, paper) = [paper |-> paper, at |-> top + term.row + 1, x |-> term.col]
    BY DEF At
  <2> QED
    BY <2>1, PaperSteps
<1> DEFINE S == {n \in Nat : n <= Len(data) => Rolled(Progress(term, data)[n], r[n])}
<1>2. 0 \in S
  BY <1>1, ProgressSteps DEF RollsOut
<1>3. ASSUME NEW n \in Nat, n \in S
      PROVE  n + 1 \in S
  <2>1. SUFFICES ASSUME n + 1 <= Len(data) PROVE Rolled(Progress(term, data)[n + 1], r[n + 1])
    OBVIOUS
  <2>2. n + 1 \in 1 .. Len(data) /\ data[n + 1] \in Nat /\ (n + 1) - 1 = n
    BY <2>1
  <2>3. Rolled(Progress(term, data)[n], r[n])
    BY <1>3, <2>1
  <2>4. Progress(term, data)[n + 1] = Char(Progress(term, data)[n], data[n + 1])
    BY <2>2, ProgressSteps
  <2>5. r[n + 1] = Roller(r[n], data[n + 1])
    BY <1>1, <2>2 DEF RollsOut
  <2>6. \/ Cursor(Progress(term, data)[n]) # VGA_WIDTH * VGA_HEIGHT - 1
        \/ data[n + 1] = Newline
    BY <2>2 DEF FillsCorner
  <2> QED
    BY <2>2, <2>3, <2>4, <2>5, <2>6, CharRolled
<1> HIDE DEF S
<1>4. \A n \in Nat : n \in S
  BY <1>2, <1>3, Induction
<1>5. Rolled(Write(term, data), r[Len(data)])
  BY <1>4 DEF S, Write
<1> QED
  BY <1>1, <1>5, RolledAt

-------------------------------------------------------------------------------
\* The inductive invariant of the screen: until the last cell is filled, terminal and
\* paper are at the same place and show the same.
Together ==
  /\ term \in Terms
  /\ cornered \in BOOLEAN
  /\ ~cornered => top = PastTop(paper) /\ Rolled(term, At(term, paper))

\* It says that the screen shows the end of what was printed.
LEMMA TogetherShows == Together => ShowsLatest
<1>1. SUFFICES ASSUME Together, ~cornered, NEW y \in 0 .. VGA_HEIGHT - 1
               PROVE  Row(y) =
                        IF top + y + 1 <= Len(paper) THEN paper[top + y + 1] ELSE BlankRow
  BY DEF ShowsLatest
<1>2. top = PastTop(paper) /\ paper \in Seq(PaperRows) /\ Shows(term, paper)
  BY <1>1 DEF Together, Rolled, Rollers, At
<1>3. top \in Nat /\ y \in YRange /\ y \in Nat
  BY <1>1, <1>2, PastTopFacts DEF YRange
<1>4. \A x \in XRange :
        term.buf[Cell(y, x)] =
          IF top + y + 1 <= Len(paper) THEN paper[top + y + 1][x] ELSE SPACE
  BY <1>2, <1>3 DEF Shows
<1>5. Row(y) = [x \in XRange |-> term.buf[Cell(y, x)]]
  BY DEF Row, XRange, Cell
<1>6. CASE top + y + 1 <= Len(paper)
  <2>1. top + y + 1 \in 1 .. Len(paper)
    BY <1>2, <1>3, <1>6
  <2>2. paper[top + y + 1] \in [XRange -> Nat]
    BY <1>2, <2>1 DEF PaperRows
  <2> QED
    BY <1>4, <1>5, <1>6, <2>2
<1>7. CASE ~ (top + y + 1 <= Len(paper))
  BY <1>4, <1>5, <1>7 DEF BlankRow, XRange
<1> QED
  BY <1>6, <1>7

\* At the start.
LEMMA TogetherInit == ConsoleInit => Together
<1> SUFFICES ASSUME ConsoleInit PROVE Together
  OBVIOUS
<1>1. term = [buf |-> [i \in Cells |-> SPACE], col |-> 0, row |-> 0]
      /\ paper = <<BlankRow>> /\ top = 0 /\ cornered = FALSE
  BY DEF ConsoleInit
<1>2. term \in Terms /\ \A i \in Cells : term.buf[i] = SPACE
  BY <1>1, FirstPlaces DEF Terms, SPACE
<1>3. BlankRow \in PaperRows /\ \A x \in XRange : BlankRow[x] = SPACE
  BY DEF BlankRow, PaperRows, XRange, SPACE
<1>4. paper \in Seq(PaperRows) /\ Len(paper) = 1 /\ paper[1] = BlankRow
  BY <1>1, <1>3
<1>5. PastTop(paper) = 0
  BY <1>4, ConsoleAssumption DEF PastTop
<1>6. At(term, paper) = [paper |-> paper, at |-> 1, x |-> 0]
  BY <1>1, <1>5 DEF At
<1>7. At(term, paper) \in Rollers
  BY <1>4, <1>6, FirstPlaces DEF Rollers
<1>8. ASSUME NEW y \in YRange, NEW x \in XRange
      PROVE  term.buf[Cell(y, x)] =
               IF 0 + y + 1 <= Len(paper) THEN paper[0 + y + 1][x] ELSE SPACE
  <2>1. term.buf[Cell(y, x)] = SPACE
    BY <1>2, CellOnScreen
  <2>2. y \in Nat
    BY DEF YRange
  <2>3. CASE y = 0
    BY <1>3, <1>4, <2>1, <2>3
  <2>4. CASE y # 0
    BY <1>4, <2>1, <2>2, <2>4
  <2> QED
    BY <2>3, <2>4
<1>9. Shows(term, paper)
  BY <1>5, <1>8 DEF Shows
<1>10. Rolled(term, At(term, paper))
  <2>1. term.col = 0 /\ term.row = 0
    BY <1>1
  <2>2. PICK s : s = At(term, paper)
    OBVIOUS
  <2>3. s.paper = paper /\ s.at = 1 /\ s.x = 0
    BY <1>6, <2>2
  <2>4. 1 = PastTop(paper) + term.row + 1
    BY <1>5, <2>1
  <2>5. 1 <= Len(paper)
    BY <1>4
  <2>6. Rolled(term, s)
    BY <1>2, <1>7, <1>9, <2>1, <2>2, <2>3, <2>4, <2>5 DEF Rolled
  <2> QED
    BY <2>2, <2>6
<1> QED
  BY <1>1, <1>2, <1>5, <1>10 DEF Together

\* It holds on when something is printed,
LEMMA TogetherRecords ==
  ASSUME Together, NEW data \in Seq(Nat), term' = Write(term, data), Records(data)
  PROVE  Together'
<1>1. term' \in Terms
  BY WriteTerms DEF Together
<1>2. cornered' = (cornered \/ FillsCorner(data)) /\ top' = PastTop(paper')
      /\ paper' = IF cornered' THEN <<>> ELSE OnPaper(data)
  BY DEF Records
<1>3. cornered' \in BOOLEAN
  BY <1>2 DEF Together, FillsCorner
<1>4. ASSUME ~ cornered' PROVE Rolled(term', At(term', paper'))
  <2>1. ~ cornered /\ ~ FillsCorner(data) /\ paper' = OnPaper(data)
    BY <1>2, <1>4
  <2> QED
    BY <2>1, WriteRolled DEF Together
<1> QED
  BY <1>1, <1>2, <1>3, <1>4 DEF Together

\* and one character is printed like a text of one.
LEMMA WriteOne ==
  ASSUME NEW t, NEW c \in Nat
  PROVE  Write(t, <<c>>) = Char(t, c) /\ <<c>> \in Seq(Nat)
<1>1. PICK d \in Seq(Nat) : d = <<c>>
  <2>1. <<c>> \in Seq(Nat)
    OBVIOUS
  <2> QED
    BY <2>1
<1>2. 1 = Len(d) /\ d[1] = c
  BY <1>1
<1>3. \A n \in 1 .. 1 : Progress(t, d)[n] = Char(Progress(t, d)[n - 1], d[n])
  BY <1>2, ProgressSteps
<1>4. Progress(t, d)[1] = Char(Progress(t, d)[0], d[1])
  BY <1>3
<1>5. Progress(t, d)[0] = t
  BY ProgressSteps
<1>6. Write(t, d) = Char(t, c)
  BY <1>2, <1>4, <1>5 DEF Write
<1> QED
  BY <1>1, <1>6

\* The cursor goes one place back, but not from the first cell.
Back(t) ==
  IF t.col # 0 THEN [t EXCEPT !.col = @ - 1]
  ELSE IF t.row # 0 THEN [t EXCEPT !.col = VGA_WIDTH - 1, !.row = @ - 1]
  ELSE t

\* It is still on the screen.
LEMMA BackTerms ==
  ASSUME NEW t \in Terms
  PROVE  /\ Back(t) \in Terms /\ Back(t).buf = t.buf /\ Back(t).row <= t.row
         /\ HandleBackspace(t) = Putentryat(Back(t), SPACE, Back(t).col, Back(t).row)
<1>1. HandleBackspace(t) = Putentryat(Back(t), SPACE, Back(t).col, Back(t).row)
  BY DEF HandleBackspace, Back
<1>2. t.col \in Nat /\ t.row \in Nat /\ VGA_WIDTH \in Nat \ {0} /\ VGA_HEIGHT \in Nat
  BY ConsoleAssumption DEF Terms, XRange, YRange
<1>3. CASE t.col # 0
  <2>1. t.col - 1 \in XRange
    BY <1>2, <1>3 DEF Terms, XRange
  <2> QED
    BY <1>1, <1>2, <1>3, <2>1 DEF Terms, Back
<1>4. CASE t.col = 0 /\ t.row # 0
  <2>1. t.row - 1 \in YRange /\ VGA_WIDTH - 1 \in XRange
    BY <1>2, <1>4 DEF Terms, XRange, YRange
  <2>2. Back(t) = [t EXCEPT !.col = VGA_WIDTH - 1, !.row = t.row - 1]
    BY <1>4 DEF Back
  <2>3. Back(t) \in Terms /\ Back(t).buf = t.buf /\ Back(t).row = t.row - 1
    BY <2>1, <2>2 DEF Terms
  <2> QED
    BY <1>1, <1>2, <2>3
<1>5. CASE t.col = 0 /\ t.row = 0
  BY <1>1, <1>2, <1>5 DEF Terms, Back
<1> QED
  BY <1>3, <1>4, <1>5

\* A place on the paper is blank.
Rubbed(p, i, x) == [p EXCEPT ![i][x] = SPACE]

\* A backspace blanks a cell on both.
LEMMA BackRolled ==
  ASSUME NEW t, NEW p, Rolled(t, At(t, p)), NEW h, h = PastTop(p),
         NEW u, u = HandleBackspace(t),
         NEW q, q = Rubbed(p, h + u.row + 1, u.col)
  PROVE  PastTop(q) = h /\ Rolled(u, At(u, q))
<1> DEFINE b == Back(t)
<1> DEFINE s == At(b, p)
<1>1. /\ t \in Terms /\ p \in Seq(PaperRows) /\ PastTop(p) + t.row + 1 <= Len(p)
      /\ Shows(t, p)
  BY DEF Rolled, Rollers, At
<1>2. b \in Terms /\ b.buf = t.buf /\ b.row <= t.row /\ u = Putentryat(b, SPACE, b.col, b.row)
  BY <1>1, BackTerms
<1> HIDE DEF b
<1>3. b.row \in Nat /\ t.row \in Nat /\ h \in Nat /\ Len(p) \in Nat
      /\ b.row \in YRange /\ b.col \in XRange
  BY <1>1, <1>2, PastTopFacts DEF Terms, YRange
<1>4. s = [paper |-> p, at |-> h + b.row + 1, x |-> b.col]
  BY DEF At
<1>5. s \in Rollers /\ s.paper = p /\ s.at = h + b.row + 1 /\ s.x = b.col /\ s.at <= Len(p)
  <2>1. h + b.row + 1 \in Nat /\ h + b.row + 1 <= Len(p)
    BY <1>1, <1>2, <1>3
  <2> HIDE DEF s
  <2> QED
    BY <1>1, <1>3, <1>4, <2>1 DEF Rollers
<1> HIDE DEF s
<1>6. Rolled(b, s)
  BY <1>1, <1>2, <1>5 DEF Rolled, Shows
<1> DEFINE v == [s EXCEPT !.paper[s.at][s.x] = SPACE]
<1>7. SPACE \in Nat
  BY DEF SPACE
<1>8. Rolled(u, v)
  BY <1>2, <1>6, <1>7, PutRolled
<1>9. u.row = b.row /\ u.col = b.col
  BY <1>2, <1>3, <1>7, PutAt
<1>10. v.paper = q
  BY <1>5, <1>9 DEF Rollers, Rubbed
<1>11. v.at = s.at
  BY <1>5 DEF Rollers
<1> HIDE DEF v
<1>12. v = At(u, q) /\ Rolled(u, At(u, q))
  BY <1>8, <1>10, RolledAt
<1>13. PastTop(q) = h
  <2>1. q \in Seq(PaperRows) /\ v.at = PastTop(q) + u.row + 1
    BY <1>8, <1>10 DEF Rolled, Rollers
  <2>2. PastTop(q) \in Nat
    BY <2>1, PastTopFacts
  <2> QED
    BY <1>3, <1>5, <1>9, <1>11, <2>1, <2>2
<1> QED
  BY <1>12, <1>13

-------------------------------------------------------------------------------
\* What follows for each number from all smaller ones holds for all.
LEMMA FromSmaller ==
  ASSUME NEW S, \A n \in Nat : (\A m \in 0 .. n - 1 : m \in S) => n \in S
  PROVE  \A n \in Nat : n \in S
<1> DEFINE T == {n \in Nat : n \notin S}
<1>1. SUFFICES ASSUME T # {} PROVE FALSE
  OBVIOUS
<1>2. PICK l \in T : \A m \in T : l <= m
  BY <1>1, LeastOne
<1>3. \A m \in 0 .. l - 1 : m \in S
  BY <1>2
<1> QED
  BY <1>2, <1>3

\* A number without its last digit.
LEMMA LastDigit ==
  ASSUME NEW n \in Nat
  PROVE  /\ n % 10 \in 0 .. 9 /\ n \div 10 \in Nat /\ n = 10 * (n \div 10) + (n % 10)
         /\ n # 0 => n \div 10 \in 0 .. n - 1
  BY DivMod

\* The digits are computed: the recursion that LeastFirst stands for has its function.
LEMMA LeastFirstSteps ==
  \A n \in Nat :
    LeastFirst[n] = IF n = 0 THEN <<>> ELSE <<(n % 10) + ZERO_CHAR>> \o LeastFirst[n \div 10]
<1> DEFINE Digit(n) == <<(n % 10) + ZERO_CHAR>>
<1> DEFINE Part(k, g) ==
      g = [n \in 0 .. k |-> IF n = 0 THEN <<>> ELSE Digit(n) \o g[n \div 10]]
<1> DEFINE S == {k \in Nat : \E g : Part(k, g)}
<1> DEFINE Whole(f) == f = [n \in Nat |-> IF n = 0 THEN <<>> ELSE Digit(n) \o f[n \div 10]]
<1>1. LeastFirst = CHOOSE f : Whole(f)
  BY DEF LeastFirst
<1> HIDE DEF Digit
<1>2. 0 \in S
  <2> DEFINE g == [m \in 0 .. 0 |-> <<>>]
  <2>1. \A m \in 0 .. 0 : m = 0
    OBVIOUS
  <2>2. Part(0, g)
    BY <2>1
  <2> QED
    BY <2>2
<1>3. ASSUME NEW k \in Nat, k \in S
      PROVE  k + 1 \in S
  <2>1. PICK g : Part(k, g)
    BY <1>3
  <2> DEFINE tail == Digit(k + 1) \o g[(k + 1) \div 10]
  <2> DEFINE h == [n \in 0 .. k + 1 |-> IF n = k + 1 THEN tail ELSE g[n]]
  <2>2. ASSUME NEW n \in 0 .. k + 1
        PROVE  h[n] = IF n = 0 THEN <<>> ELSE Digit(n) \o h[n \div 10]
    <3>1. CASE n = k + 1
      <4>1. (k + 1) \div 10 \in 0 .. k
        BY LastDigit
      <4>2. h[(k + 1) \div 10] = g[(k + 1) \div 10] /\ h[k + 1] = tail /\ k + 1 # 0
        BY <4>1
      <4> HIDE DEF h
      <4> QED
        BY <3>1, <4>2
    <3>2. CASE n # k + 1
      <4>1. n \in 0 .. k /\ h[n] = g[n]
        BY <2>2, <3>2
      <4>2. g[n] = IF n = 0 THEN <<>> ELSE Digit(n) \o g[n \div 10]
        BY <2>1, <4>1
      <4>3. ASSUME n # 0 PROVE h[n \div 10] = g[n \div 10]
        <5>1. n \div 10 \in 0 .. k
          BY <4>1, <4>3, LastDigit
        <5> QED
          BY <5>1
      <4> HIDE DEF h
      <4> QED
        BY <4>1, <4>2, <4>3
    <3> QED
      BY <3>1, <3>2
  <2>3. h = [n \in 0 .. k + 1 |-> h[n]]
    OBVIOUS
  <2> HIDE DEF h
  <2>4. Part(k + 1, h)
    BY <2>2, <2>3
  <2> HIDE DEF Part
  <2> QED
    BY <2>4
<1>4. ASSUME NEW k \in Nat
      PROVE  \E g : Part(k, g)
  <2> HIDE DEF S
  <2>1. \A n \in Nat : n \in S
    BY <1>2, <1>3, Induction
  <2> QED
    BY <2>1 DEF S
<1> DEFINE Up(k) == CHOOSE g : Part(k, g)
<1>5. ASSUME NEW k \in Nat
      PROVE  Part(k, Up(k))
  BY <1>4
<1> HIDE DEF Up
<1>6. ASSUME NEW k \in Nat, NEW l \in Nat
      PROVE  \A n \in Nat : n <= k /\ n <= l => Up(k)[n] = Up(l)[n]
  <2> DEFINE R == {n \in Nat : n <= k /\ n <= l => Up(k)[n] = Up(l)[n]}
  <2>1. ASSUME NEW n \in Nat, \A m \in 0 .. n - 1 : m \in R
        PROVE  n \in R
    <3>1. SUFFICES ASSUME n <= k, n <= l PROVE Up(k)[n] = Up(l)[n]
      OBVIOUS
    <3>2. n \in 0 .. k /\ n \in 0 .. l
      BY <3>1
    <3>3. /\ Up(k)[n] = IF n = 0 THEN <<>> ELSE Digit(n) \o Up(k)[n \div 10]
          /\ Up(l)[n] = IF n = 0 THEN <<>> ELSE Digit(n) \o Up(l)[n \div 10]
      BY <1>5, <3>2
    <3>4. ASSUME n # 0 PROVE Up(k)[n \div 10] = Up(l)[n \div 10]
      <4>1. n \div 10 \in 0 .. n - 1
        BY <3>4, LastDigit
      <4>2. n \div 10 <= k /\ n \div 10 <= l /\ n \div 10 \in R
        BY <2>1, <3>1, <4>1
      <4> QED
        BY <4>2
    <3> QED
      BY <3>3, <3>4
  <2> HIDE DEF R
  <2>2. \A n \in Nat : n \in R
    BY <2>1, FromSmaller
  <2> QED
    BY <2>2 DEF R
<1> DEFINE f == [n \in Nat |-> Up(n)[n]]
<1>7. ASSUME NEW n \in Nat
      PROVE  f[n] = IF n = 0 THEN <<>> ELSE Digit(n) \o f[n \div 10]
  <2>1. f[n] = Up(n)[n]
    OBVIOUS
  <2>2. n \in 0 .. n
    OBVIOUS
  <2>3. Up(n)[n] = IF n = 0 THEN <<>> ELSE Digit(n) \o Up(n)[n \div 10]
    BY <1>5, <2>2
  <2>4. ASSUME n # 0 PROVE Up(n)[n \div 10] = f[n \div 10]
    <3> DEFINE q == n \div 10
    <3>1. q \in Nat /\ q <= n
      BY <2>4, LastDigit
    <3> HIDE DEF q
    <3>2. Up(n)[q] = Up(q)[q]
      BY <1>6, <3>1
    <3>3. f[q] = Up(q)[q]
      BY <3>1
    <3> QED
      BY <3>2, <3>3 DEF q
  <2> HIDE DEF f
  <2> QED
    BY <2>1, <2>3, <2>4
<1>8. f = [n \in Nat |-> f[n]]
  OBVIOUS
<1> HIDE DEF f
<1>9. Whole(f)
  BY <1>7, <1>8
<1>10. Whole(LeastFirst)
  <2> HIDE DEF Whole
  <2> QED
    BY <1>1, <1>9
<1> QED
  BY <1>10 DEF Digit

\* They are digits, and at least one of a number that is not 0.
DigitCodes == ZERO_CHAR .. ZERO_CHAR + 9

LEMMA LeastFirstDigits ==
  \A n \in Nat : LeastFirst[n] \in Seq(DigitCodes) /\ (n # 0 => LeastFirst[n] # <<>>)
<1> DEFINE S == {n \in Nat : LeastFirst[n] \in Seq(DigitCodes)
                              /\ (n # 0 => LeastFirst[n] # <<>>)}
<1>1. ASSUME NEW n \in Nat, \A m \in 0 .. n - 1 : m \in S
      PROVE  n \in S
  <2>1. CASE n = 0
    <3>1. LeastFirst[n] = <<>>
      BY <2>1, LeastFirstSteps
    <3>2. LeastFirst[n] \in Seq(DigitCodes)
      BY <3>1
    <3> QED
      BY <2>1, <3>2
  <2>2. CASE n # 0
    <3> DEFINE d == (n % 10) + ZERO_CHAR
    <3> DEFINE s == LeastFirst[n \div 10]
    <3>1. n \div 10 \in 0 .. n - 1 /\ n % 10 \in 0 .. 9
      BY <2>2, LastDigit
    <3>2. s \in Seq(DigitCodes)
      BY <1>1, <3>1
    <3>3. d \in DigitCodes
      BY <3>1 DEF DigitCodes, ZERO_CHAR
    <3>4. LeastFirst[n] = <<d>> \o s
      BY <2>2, LeastFirstSteps
    <3> HIDE DEF d, s
    <3>5. <<d>> \o s \in Seq(DigitCodes) /\ <<d>> \o s # <<>>
      BY <3>2, <3>3
    <3> QED
      BY <3>4, <3>5
  <2> QED
    BY <2>1, <2>2
<1> HIDE DEF S
<1>2. \A n \in Nat : n \in S
  BY <1>1, FromSmaller
<1> QED
  BY <1>2 DEF S

-------------------------------------------------------------------------------
\* The number that the first digits spell.
Spells(d, g) ==
  g[0] = 0 /\ \A n \in 1 .. Len(d) : g[n] = 10 * g[n - 1] + (d[n] - ZERO_CHAR)

\* The recursion that Value stands for has its function.
LEMMA ValueSteps ==
  ASSUME NEW d \in Seq(Nat)
  PROVE  \E g : Spells(d, g) /\ Value(d) = g[Len(d)]
<1> DEFINE k == Len(d)
<1> DEFINE Part(n, g) ==
      g = [m \in 0 .. n |-> IF m = 0 THEN 0 ELSE 10 * g[m - 1] + (d[m] - ZERO_CHAR)]
<1> DEFINE S == {n \in Nat : \E g : Part(n, g)}
<1>1. 0 \in S
  <2> DEFINE g == [m \in 0 .. 0 |-> 0]
  <2>1. \A m \in 0 .. 0 : m = 0
    OBVIOUS
  <2>2. Part(0, g)
    BY <2>1
  <2> QED
    BY <2>2
<1>2. ASSUME NEW n \in Nat, n \in S
      PROVE  n + 1 \in S
  <2>1. PICK g : Part(n, g)
    BY <1>2
  <2> DEFINE next == 10 * g[n] + (d[n + 1] - ZERO_CHAR)
  <2> DEFINE h == [m \in 0 .. n + 1 |-> IF m = n + 1 THEN next ELSE g[m]]
  <2>2. ASSUME NEW m \in 0 .. n + 1
        PROVE  h[m] = IF m = 0 THEN 0 ELSE 10 * h[m - 1] + (d[m] - ZERO_CHAR)
    <3>1. CASE m = n + 1
      <4>1. h[n + 1] = next /\ h[n] = g[n] /\ m # 0 /\ m - 1 = n
        BY <3>1
      <4> HIDE DEF h
      <4> QED
        BY <3>1, <4>1
    <3>2. CASE m # n + 1
      <4>1. m \in 0 .. n /\ h[m] = g[m] /\ (m # 0 => m - 1 \in 0 .. n /\ h[m - 1] = g[m - 1])
        BY <2>2, <3>2
      <4>2. g[m] = IF m = 0 THEN 0 ELSE 10 * g[m - 1] + (d[m] - ZERO_CHAR)
        BY <2>1, <4>1
      <4> QED
        BY <4>1, <4>2
    <3> QED
      BY <3>1, <3>2
  <2>3. h = [m \in 0 .. n + 1 |-> h[m]]
    OBVIOUS
  <2> HIDE DEF h
  <2>4. Part(n + 1, h)
    BY <2>2, <2>3
  <2> HIDE DEF Part
  <2> QED
    BY <2>4
<1>3. \E g : Part(k, g)
  <2> HIDE DEF S
  <2>1. \A n \in Nat : n \in S
    BY <1>1, <1>2, Induction
  <2> QED
    BY <2>1 DEF S
<1>4. Value(d) = (CHOOSE g : Part(k, g))[k]
  BY DEF Value
<1> DEFINE g == CHOOSE g : Part(k, g)
<1>5. Part(k, g)
  BY <1>3
<1>6. Value(d) = g[k] /\ k \in Nat
  BY <1>4
<1> HIDE DEF g
<1>7. g[0] = 0 /\ \A n \in 1 .. k : g[n] = 10 * g[n - 1] + (d[n] - ZERO_CHAR)
  BY <1>5, <1>6
<1>8. Spells(d, g)
  BY <1>7 DEF Spells
<1> QED
  BY <1>6, <1>8

\* One digit more, and none.
LEMMA ValueAppend ==
  ASSUME NEW d \in Seq(Nat), NEW x \in Nat
  PROVE  Value(Append(d, x)) = 10 * Value(d) + (x - ZERO_CHAR) /\ Value(<<>>) = 0
<1> DEFINE k == Len(d)
<1>1. PICK e : e = Append(d, x) /\ e \in Seq(Nat)
  <2>1. Append(d, x) \in Seq(Nat)
    OBVIOUS
  <2> QED
    BY <2>1
<1>2. Len(e) = k + 1 /\ e[k + 1] = x /\ k \in Nat /\ \A n \in 1 .. k : e[n] = d[n]
  BY <1>1
<1>3. PICK g : Spells(d, g) /\ Value(d) = g[k]
  BY ValueSteps
<1>4. PICK h : Spells(e, h) /\ Value(e) = h[Len(e)]
  BY <1>1, ValueSteps
<1>5. \A n \in 1 .. k : g[n] = 10 * g[n - 1] + (d[n] - ZERO_CHAR)
  BY <1>3 DEF Spells
<1>6. \A n \in 1 .. k + 1 : h[n] = 10 * h[n - 1] + (e[n] - ZERO_CHAR)
  BY <1>2, <1>4 DEF Spells
<1> DEFINE S == {n \in Nat : n <= k => h[n] = g[n]}
<1> HIDE DEF k
<1>7. 0 \in S
  BY <1>3, <1>4 DEF Spells
<1>8. ASSUME NEW n \in Nat, n \in S
      PROVE  n + 1 \in S
  <2>1. SUFFICES ASSUME n + 1 <= k PROVE h[n + 1] = g[n + 1]
    OBVIOUS
  <2>2. n + 1 \in 1 .. k /\ n + 1 \in 1 .. k + 1 /\ (n + 1) - 1 = n
    BY <1>2, <2>1
  <2>3. h[n] = g[n]
    BY <1>2, <1>8, <2>1
  <2> QED
    BY <1>2, <1>5, <1>6, <2>2, <2>3
<1> HIDE DEF S
<1>9. k \in S
  BY <1>2, <1>7, <1>8, Induction
<1>10. h[k] = g[k]
  BY <1>2, <1>9 DEF S
<1>11. h[k + 1] = 10 * h[k] + (x - ZERO_CHAR)
  <2>1. k + 1 \in 1 .. k + 1 /\ (k + 1) - 1 = k
    BY <1>2
  <2> QED
    BY <1>2, <1>6, <2>1
<1>12. Value(<<>>) = 0
  <2>1. PICK o : o = <<>> /\ o \in Seq(Nat)
    <3>1. <<>> \in Seq(Nat)
      OBVIOUS
    <3> QED
      BY <3>1
  <2>2. Len(o) = 0
    BY <2>1
  <2>3. PICK r : Spells(o, r) /\ Value(o) = r[Len(o)]
    BY <2>1, ValueSteps
  <2> QED
    BY <2>1, <2>2, <2>3 DEF Spells
<1> QED
  BY <1>1, <1>2, <1>3, <1>4, <1>10, <1>11, <1>12

\* The first of a sequence is the last of its reverse.
LEMMA ReverseFirst ==
  ASSUME NEW S, NEW x \in S, NEW s \in Seq(S)
  PROVE  Reverse(<<x>> \o s) = Append(Reverse(s), x) /\ Reverse(s) \in Seq(S)
         /\ Len(Reverse(s)) = Len(s)
<1>1. PICK e : e = <<x>> \o s /\ e \in Seq(S)
  <2>1. <<x>> \o s \in Seq(S)
    OBVIOUS
  <2> QED
    BY <2>1
<1>2. PICK k \in Nat : k = Len(s)
  OBVIOUS
<1>3. Len(e) = k + 1 /\ e[1] = x /\ \A i \in 1 .. k : e[i + 1] = s[i]
  BY <1>1, <1>2
<1>4. PICK r : r = Reverse(s)
  OBVIOUS
<1>5. r = [i \in 1 .. k |-> s[(k - i) + 1]]
  BY <1>2, <1>4 DEF Reverse
<1>6. \A i \in 1 .. k : (k - i) + 1 \in 1 .. k
  BY <1>2
<1>7. \A i \in 1 .. k : s[i] \in S
  BY <1>2
<1>8. r \in [1 .. k -> S]
  BY <1>5, <1>6, <1>7
<1>9. r \in Seq(S) /\ Len(r) = k
  BY <1>2, <1>8
<1>10. Reverse(e) = [i \in 1 .. k + 1 |-> e[(k + 1 - i) + 1]]
  BY <1>3 DEF Reverse
<1>11. PICK a : a = Append(r, x)
  OBVIOUS
<1>12. /\ a \in Seq(S) /\ Len(a) = k + 1
       /\ \A i \in 1 .. k + 1 : a[i] = IF i = k + 1 THEN x ELSE r[i]
  BY <1>2, <1>9, <1>11
<1>13. ASSUME NEW i \in 1 .. k + 1
       PROVE  e[(k + 1 - i) + 1] = IF i = k + 1 THEN x ELSE r[i]
  <2>1. CASE i = k + 1
    <3>1. (k + 1 - i) + 1 = 1
      BY <1>2, <2>1
    <3> QED
      BY <1>3, <2>1, <3>1
  <2>2. CASE i # k + 1
    <3>1. PICK j : j = (k - i) + 1
      OBVIOUS
    <3>2. (k + 1 - i) + 1 = j + 1 /\ i \in 1 .. k /\ j \in 1 .. k
      BY <1>2, <2>2, <3>1
    <3>3. r[i] = s[j]
      BY <1>5, <3>1, <3>2
    <3> QED
      BY <1>3, <2>2, <3>2, <3>3
  <2> QED
    BY <2>1, <2>2
<1>14. a \in [1 .. k + 1 -> S]
  BY <1>12
<1>15. Reverse(e) = [i \in 1 .. k + 1 |-> a[i]]
  BY <1>10, <1>13, <1>12
<1>16. Reverse(e) = Append(r, x)
  BY <1>11, <1>14, <1>15
<1> QED
  BY <1>1, <1>2, <1>4, <1>9, <1>16

\* The digits read back as the number they were computed from.
LEMMA DigitsSpell ==
  \A n \in Nat : Value(Reverse(LeastFirst[n])) = n
<1> DEFINE S == {n \in Nat : Value(Reverse(LeastFirst[n])) = n}
<1>1. ASSUME NEW n \in Nat, \A m \in 0 .. n - 1 : m \in S
      PROVE  n \in S
  <2>1. CASE n = 0
    <3>1. LeastFirst[n] = <<>>
      BY <2>1, LeastFirstSteps
    <3>2. Reverse(<<>>) = <<>>
      BY DEF Reverse
    <3>3. Value(<<>>) = 0
      <4>1. <<>> \in Seq(Nat) /\ 0 \in Nat
        OBVIOUS
      <4> QED
        BY <4>1, ValueAppend
    <3> QED
      BY <2>1, <3>1, <3>2, <3>3
  <2>2. CASE n # 0
    <3> DEFINE q == n \div 10
    <3> DEFINE x == (n % 10) + ZERO_CHAR
    <3>1. q \in 0 .. n - 1 /\ n % 10 \in 0 .. 9 /\ q \in Nat /\ n = 10 * q + (n % 10)
      BY <2>2, LastDigit
    <3>2. LeastFirst[n] = <<x>> \o LeastFirst[q]
      BY <2>2, LeastFirstSteps
    <3>3. x \in DigitCodes /\ x \in Nat /\ x - ZERO_CHAR = n % 10
      BY <3>1 DEF DigitCodes, ZERO_CHAR
    <3> HIDE DEF q, x
    <3>4. LeastFirst[q] \in Seq(DigitCodes)
      BY <3>1, LeastFirstDigits
    <3>5. Reverse(LeastFirst[n]) = Append(Reverse(LeastFirst[q]), x)
          /\ Reverse(LeastFirst[q]) \in Seq(DigitCodes)
      BY <3>2, <3>3, <3>4, ReverseFirst
    <3>6. Reverse(LeastFirst[q]) \in Seq(Nat)
      <4>1. DigitCodes \subseteq Nat
        BY DEF DigitCodes, ZERO_CHAR
      <4>2. PICK z : z = Reverse(LeastFirst[q])
        OBVIOUS
      <4>3. z \in Seq(DigitCodes)
        BY <3>5, <4>2
      <4>4. z \in [1 .. Len(z) -> DigitCodes] /\ Len(z) \in Nat
        BY <4>3
      <4>5. z \in [1 .. Len(z) -> Nat]
        BY <4>1, <4>4
      <4>6. z \in Seq(Nat)
        BY <4>4, <4>5
      <4> QED
        BY <4>2, <4>6
    <3>7. Value(Reverse(LeastFirst[n])) = 10 * Value(Reverse(LeastFirst[q])) + (x - ZERO_CHAR)
      BY <3>3, <3>5, <3>6, ValueAppend
    <3>8. Value(Reverse(LeastFirst[q])) = q
      BY <1>1, <3>1
    <3>9. Value(Reverse(LeastFirst[n])) = n
      BY <3>1, <3>3, <3>7, <3>8
    <3> QED
      BY <3>9
  <2> QED
    BY <2>1, <2>2
<1> HIDE DEF S
<1>2. \A n \in Nat : n \in S
  BY <1>1, FromSmaller
<1> QED
  BY <1>2 DEF S

\* What is printed of a number: digits, and what they spell is the number.
LEMMA DigitsRead ==
  ASSUME NEW n \in Nat
  PROVE  Digits(n) \in Seq(DigitCodes) /\ Digits(n) # <<>> /\ Value(Digits(n)) = n
<1>1. CASE n = 0
  <2>1. Digits(n) = <<ZERO_CHAR>> /\ ZERO_CHAR \in DigitCodes /\ ZERO_CHAR \in Nat
    BY <1>1 DEF Digits, DigitCodes, ZERO_CHAR
  <2>2. PICK o : o = <<>> /\ o \in Seq(Nat)
    <3>1. <<>> \in Seq(Nat)
      OBVIOUS
    <3> QED
      BY <3>1
  <2>3. Value(Append(o, ZERO_CHAR)) = 10 * Value(o) + (ZERO_CHAR - ZERO_CHAR) /\ Value(o) = 0
    BY <2>1, <2>2, ValueAppend
  <2>4. Append(o, ZERO_CHAR) = <<ZERO_CHAR>>
    BY <2>2
  <2>5. Value(<<ZERO_CHAR>>) = 0
    BY <2>1, <2>3, <2>4
  <2>6. <<ZERO_CHAR>> \in Seq(DigitCodes) /\ <<ZERO_CHAR>> # <<>>
    BY <2>1
  <2> QED
    BY <1>1, <2>1, <2>5, <2>6
<1>2. CASE n # 0
  <2>1. Digits(n) = Reverse(LeastFirst[n])
    BY <1>2 DEF Digits
  <2>2. LeastFirst[n] \in Seq(DigitCodes) /\ LeastFirst[n] # <<>>
    BY <1>2, LeastFirstDigits
  <2>3. ZERO_CHAR \in DigitCodes
    BY DEF DigitCodes, ZERO_CHAR
  <2>4. Reverse(LeastFirst[n]) \in Seq(DigitCodes)
        /\ Len(Reverse(LeastFirst[n])) = Len(LeastFirst[n])
    BY <2>2, <2>3, ReverseFirst
  <2>5. Reverse(LeastFirst[n]) # <<>>
    BY <2>2, <2>4
  <2> QED
    BY <2>1, <2>4, <2>5, DigitsSpell
<1> QED
  BY <1>1, <1>2

-------------------------------------------------------------------------------
\* A number is printed as characters, none a new row, that read back as the number.
LEMMA WriteintRead ==
  ASSUME NEW n \in Int
  PROVE  /\ Writeint(n) \in Seq(Nat) /\ Spelled(Writeint(n)) = n
         /\ \A i \in 1 .. Len(Writeint(n)) : Writeint(n)[i] # Newline
<1>1. DigitCodes \subseteq Nat /\ Newline \notin DigitCodes /\ Minus \notin DigitCodes
      /\ Minus \in Nat /\ Minus # Newline
  BY DEF DigitCodes, ZERO_CHAR, Newline, Minus
<1>2. ASSUME NEW d \in Seq(DigitCodes)
      PROVE  d \in Seq(Nat) /\ \A i \in 1 .. Len(d) : d[i] # Newline
  <2>1. d \in [1 .. Len(d) -> DigitCodes] /\ Len(d) \in Nat
    BY <1>2
  <2>2. d \in [1 .. Len(d) -> Nat]
    BY <1>1, <2>1
  <2>3. d \in Seq(Nat)
    BY <2>1, <2>2
  <2> QED
    BY <1>1, <2>1, <2>3
<1>3. CASE n < 0
  <2>1. PICK d : d = Digits(-n)
    OBVIOUS
  <2>2. d \in Seq(DigitCodes) /\ d # <<>> /\ Value(d) = -n
    BY <1>3, <2>1, DigitsRead
  <2>3. d \in Seq(Nat) /\ \A i \in 1 .. Len(d) : d[i] # Newline
    BY <1>2, <2>2
  <2>4. Writeint(n) = <<Minus>> \o d
    BY <1>3, <2>1 DEF Writeint
  <2>5. PICK e : e = <<Minus>> \o d
    OBVIOUS
  <2>6. /\ e \in Seq(Nat) /\ Head(e) = Minus /\ Tail(e) = d /\ Len(e) = Len(d) + 1
        /\ e[1] = Minus /\ \A i \in 1 .. Len(d) : e[i + 1] = d[i]
    BY <1>1, <2>3, <2>5
  <2>7. ASSUME NEW i \in 1 .. Len(e)
        PROVE  e[i] # Newline
    <3>1. CASE i = 1
      BY <1>1, <2>6, <3>1
    <3>2. CASE i # 1
      <4>1. PICK j : j = i - 1
        OBVIOUS
      <4>2. Len(d) \in Nat
        BY <2>3
      <4>3. j \in 1 .. Len(d) /\ i = j + 1
        BY <2>6, <3>2, <4>1, <4>2
      <4> QED
        BY <2>3, <2>6, <4>3
    <3> QED
      BY <3>1, <3>2
  <2>8. Spelled(e) = -Value(d)
    BY <2>6 DEF Spelled
  <2>9. Spelled(e) = n
    BY <2>2, <2>8
  <2> QED
    BY <2>4, <2>5, <2>6, <2>7, <2>9
<1>4. CASE n >= 0
  <2>1. PICK d : d = Digits(n)
    OBVIOUS
  <2>2. d \in Seq(DigitCodes) /\ d # <<>> /\ Value(d) = n
    BY <1>4, <2>1, DigitsRead
  <2>3. d \in Seq(Nat) /\ \A i \in 1 .. Len(d) : d[i] # Newline
    BY <1>2, <2>2
  <2>4. Writeint(n) = d
    BY <1>4, <2>1 DEF Writeint
  <2>5. Head(d) \in DigitCodes
    BY <2>2
  <2>6. Spelled(d) = n
    BY <1>1, <2>2, <2>5 DEF Spelled
  <2> QED
    BY <2>3, <2>4, <2>6
<1> QED
  BY <1>3, <1>4

\* The percent sign is kept in mind, and a d behind it prints the argument.
LEMMA FormatSteps ==
  ASSUME NEW s
  PROVE  /\ ~ s.spec => Format(s, 37) = [s EXCEPT !.spec = TRUE]
         /\ s.spec => Format(s, 100) =
                        [out |-> s.out \o Writeint(Head(s.args)), args |-> Tail(s.args),
                         spec |-> FALSE]
<1>1. ASSUME ~ s.spec PROVE Format(s, 37) = [s EXCEPT !.spec = TRUE]
  BY <1>1 DEF Format, Percent, Tab
<1>2. ASSUME s.spec
      PROVE  Format(s, 100) =
               [out |-> s.out \o Writeint(Head(s.args)), args |-> Tail(s.args), spec |-> FALSE]
  BY <1>2 DEF Format
<1> QED
  BY <1>1, <1>2

\* "%d" and a number make the digits of the number, and nothing else.
LEMMA ExpandedNumber ==
  ASSUME NEW n \in Int
  PROVE  Expanded(<<Percent, 100>>, <<n>>) = Writeint(n)
<1>1. PICK d : d = <<Percent, 100>>
  OBVIOUS
<1>2. d[1] = 37 /\ d[2] = 100 /\ Len(d) = 2
  BY <1>1 DEF Percent
<1>3. PICK a0 : a0 = [out |-> <<>>, args |-> <<n>>, spec |-> FALSE]
  OBVIOUS
<1> DEFINE a1 == Format(a0, 37)
<1> DEFINE a2 == Format(a1, 100)
<1> DEFINE g == [m \in 0 .. 2 |-> IF m = 0 THEN a0 ELSE IF m = 1 THEN a1 ELSE a2]
<1> DEFINE Part(f) == f = [m \in 0 .. Len(d) |-> IF m = 0 THEN a0 ELSE Format(f[m - 1], d[m])]
<1>4. a2.out = <<>> \o Writeint(n)
  <2>1. ~ a0.spec
    BY <1>3
  <2>2. a1 = [a0 EXCEPT !.spec = TRUE]
    BY <2>1, FormatSteps
  <2> HIDE DEF a1
  <2>3. a1.spec /\ a1.out = <<>> /\ a1.args = <<n>>
    BY <1>3, <2>2
  <2>4. Head(<<n>>) = n
    OBVIOUS
  <2>5. a2 = [out |-> a1.out \o Writeint(Head(a1.args)), args |-> Tail(a1.args), spec |-> FALSE]
    BY <2>3, FormatSteps
  <2> HIDE DEF a2
  <2>6. a2.out = a1.out \o Writeint(Head(a1.args))
    BY <2>5
  <2> QED
    BY <2>3, <2>4, <2>6
<1>5. Part(g)
  <2>1. g = [m \in 0 .. 2 |-> g[m]]
    OBVIOUS
  <2>2. g[0] = a0 /\ g[1] = a1 /\ g[2] = a2
    OBVIOUS
  <2>3. ASSUME NEW m \in 0 .. 2
        PROVE  g[m] = IF m = 0 THEN a0 ELSE Format(g[m - 1], d[m])
    <3>1. CASE m = 0
      BY <2>2, <3>1
    <3>2. CASE m = 1
      <4>1. m - 1 = 0
        BY <3>2
      <4> HIDE DEF g
      <4> QED
        BY <1>2, <2>2, <3>2, <4>1
    <3>3. CASE m = 2
      <4>1. m - 1 = 1
        BY <3>3
      <4> HIDE DEF g, a1
      <4> QED
        BY <1>2, <2>2, <3>3, <4>1
    <3> QED
      BY <3>1, <3>2, <3>3
  <2> HIDE DEF g
  <2> QED
    BY <1>2, <2>1, <2>3
<1> HIDE DEF g
<1> DEFINE f == CHOOSE f : Part(f)
<1>6. Part(f)
  BY <1>5
<1>7. Expanded(d, <<n>>) = f[Len(d)].out
  BY <1>3 DEF Expanded
<1> HIDE DEF f
<1>8. f[0] = a0 /\ f[1] = Format(f[0], d[1]) /\ f[2] = Format(f[1], d[2])
  BY <1>2, <1>6
<1>9. f[2] = a2
  BY <1>2, <1>8
<1>10. Expanded(d, <<n>>) = <<>> \o Writeint(n)
  BY <1>2, <1>4, <1>7, <1>9
<1>11. Writeint(n) \in Seq(Nat)
  BY WriteintRead
<1>12. <<>> \o Writeint(n) = Writeint(n)
  BY <1>11
<1> QED
  BY <1>1, <1>10, <1>12

-------------------------------------------------------------------------------
\* The screen as a ring of cells.
Ring == VGA_WIDTH * VGA_HEIGHT
Wrapped(i) == i % Ring

\* A place that is at most once around.
LEMMA Around ==
  ASSUME NEW i \in Nat, i < 2 * Ring
  PROVE  /\ Wrapped(i) = IF i < Ring THEN i ELSE i - Ring
         /\ Wrapped(i) \in Cells /\ Ring \in Nat \ {0}
<1>1. VGA_WIDTH \in Nat \ {0} /\ VGA_HEIGHT \in Nat \ {0}
  BY ConsoleAssumption
<1>2. Ring \in Nat \ {0}
  BY <1>1 DEF Ring
<1>3. Cells = 0 .. Ring - 1
  BY DEF Cells, Ring
<1> HIDE DEF Ring
<1>4. CASE i < Ring
  <2>1. i \in 0 .. Ring - 1 /\ Ring * 0 + i = i
    BY <1>2, <1>4
  <2>2. Wrapped(Ring * 0 + i) = i
    BY <1>2, <2>1, QuotientUnique DEF Wrapped
  <2> QED
    BY <1>2, <1>3, <1>4, <2>1, <2>2
<1>5. CASE i >= Ring
  <2>1. i - Ring \in 0 .. Ring - 1 /\ Ring * 1 + (i - Ring) = i
    BY <1>2, <1>5
  <2>2. Wrapped(Ring * 1 + (i - Ring)) = i - Ring
    BY <1>2, <2>1, QuotientUnique DEF Wrapped
  <2> QED
    BY <1>2, <1>3, <1>5, <2>1, <2>2
<1> QED
  BY <1>2, <1>4, <1>5

\* A character is put where the cursor is, and the cursor goes once further around.
LEMMA PutcharAround ==
  ASSUME NEW t \in Terms, NEW c \in Nat
  PROVE  LET u == TerminalPutchar(t, c)
         IN  /\ u \in Terms /\ Cursor(u) = Wrapped(Cursor(t) + 1)
             /\ u.buf[Cursor(t)] = c
             /\ \A k \in Cells : k # Cursor(t) => u.buf[k] = t.buf[k]
<1> DEFINE u == TerminalPutchar(t, c)
<1> DEFINE p == Putentryat(t, c, t.col, t.row)
<1>1. /\ t.row \in YRange /\ t.col \in XRange /\ t.row \in Nat /\ t.col \in Nat
      /\ VGA_WIDTH \in Nat \ {0} /\ VGA_HEIGHT \in Nat \ {0}
  BY ConsoleAssumption DEF Terms, XRange, YRange
<1>2. Cursor(t) = Cell(t.row, t.col) /\ Cursor(t) \in Cells /\ Cursor(t) \in Nat
  BY CursorOnScreen
<1>3. /\ p \in Terms /\ p.row = t.row /\ p.col = t.col /\ p.buf[Cursor(t)] = c
      /\ \A k \in Cells : k # Cursor(t) => p.buf[k] = t.buf[k]
  BY <1>1, <1>2, PutAt
<1>4. u \in Terms
  BY CharTerms
<1>5. /\ t.col + 1 # VGA_WIDTH => u = StepRight(p)
      /\ t.col + 1 = VGA_WIDTH /\ t.row + 1 # VGA_HEIGHT => u = HandleNewline(p)
      /\ t.col + 1 = VGA_WIDTH /\ t.row + 1 = VGA_HEIGHT => u = [p EXCEPT !.col = 0, !.row = 0]
  BY PutcharSteps
<1> HIDE DEF u, p
<1>6. Cursor(u) = u.row * VGA_WIDTH + u.col /\ Cursor(u) \in Cells /\ Cursor(u) \in Nat
  BY <1>4, CursorOnScreen DEF Cursor
<1>7. Cursor(t) = t.row * VGA_WIDTH + t.col
  BY DEF Cursor
<1>8. Cells = 0 .. Ring - 1 /\ Ring \in Nat \ {0}
  BY <1>1 DEF Cells, Ring
<1>9. ASSUME Cursor(t) + 1 \in Cells
      PROVE  Wrapped(Cursor(t) + 1) = Cursor(t) + 1
  BY <1>2, <1>8, <1>9, Around
<1>10. CASE t.col + 1 # VGA_WIDTH
  <2>1. u.buf = p.buf /\ u.row = t.row /\ u.col = t.col + 1
    BY <1>3, <1>5, <1>10 DEF StepRight, Terms
  <2>2. t.row * VGA_WIDTH \in Nat
    BY <1>1
  <2>3. Cursor(u) = Cursor(t) + 1
    BY <1>1, <1>6, <1>7, <2>1, <2>2
  <2> QED
    BY <1>3, <1>4, <1>6, <1>9, <2>1, <2>3 DEF u
<1>11. CASE t.col + 1 = VGA_WIDTH /\ t.row + 1 # VGA_HEIGHT
  <2>1. u.buf = p.buf /\ u.row = t.row + 1 /\ u.col = 0
    BY <1>3, <1>5, <1>11, NewlineTerms
  <2>2. t.row * VGA_WIDTH \in Nat /\ (t.row + 1) * VGA_WIDTH = t.row * VGA_WIDTH + VGA_WIDTH
    BY <1>1
  <2>3. Cursor(u) = Cursor(t) + 1
    BY <1>1, <1>6, <1>7, <1>11, <2>1, <2>2
  <2> QED
    BY <1>3, <1>4, <1>6, <1>9, <2>1, <2>3 DEF u
<1>12. CASE t.col + 1 = VGA_WIDTH /\ t.row + 1 = VGA_HEIGHT
  <2>1. u.buf = p.buf /\ u.row = 0 /\ u.col = 0
    BY <1>3, <1>5, <1>12 DEF Terms
  <2>2. Cursor(u) = 0
    BY <1>1, <1>6, <2>1
  <2>3. Cursor(t) = Ring - 1
    BY <1>1, <1>2, <1>12, CellBelow DEF Ring
  <2>4. Wrapped(Cursor(t) + 1) = 0
    BY <1>2, <1>8, <2>3, Around
  <2> QED
    BY <1>3, <1>4, <2>1, <2>2, <2>4 DEF u
<1> QED
  BY <1>10, <1>11, <1>12

-------------------------------------------------------------------------------
\* The characters s are on the screen from the cell c on, with the cursor behind them.
OnRing(t, c, s) ==
  /\ t \in Terms /\ c \in Cells
  /\ Cursor(t) = Wrapped(c + Len(s))
  /\ \A k \in 1 .. Len(s) : t.buf[Wrapped(c + k - 1)] = s[k]

\* They are what the screen shows there.
LEMMA OnRingShown ==
  ASSUME NEW t, NEW c, NEW s \in Seq(Nat), OnRing(t, c, s)
  PROVE  s = Shown(t, c, Len(s)) /\ Cursor(t) = (c + Len(s)) % (VGA_WIDTH * VGA_HEIGHT)
<1>1. s = [k \in 1 .. Len(s) |-> s[k]]
  OBVIOUS
<1>2. \A k \in 1 .. Len(s) : t.buf[Wrapped(c + k - 1)] = s[k]
  BY DEF OnRing
<1>3. Shown(t, c, Len(s)) = [k \in 1 .. Len(s) |-> t.buf[Wrapped(c + k - 1)]]
  BY DEF Shown, Ring, Wrapped
<1>4. s = Shown(t, c, Len(s))
  BY <1>1, <1>2, <1>3
<1> QED
  BY <1>4 DEF OnRing, Ring, Wrapped

\* The cells of a line that is shorter than the screen are different ones.
LEMMA RingApart ==
  ASSUME NEW c \in Cells, NEW a \in Nat, NEW b \in Nat,
         c <= a, a < b, b < a + Ring, b <= c + Ring
  PROVE  Wrapped(a) # Wrapped(b)
<1>1. c \in Nat /\ Ring \in Nat \ {0} /\ c < Ring
  <2>1. Ring \in Nat \ {0}
    BY ConsoleAssumption DEF Ring
  <2> QED
    BY <2>1 DEF Cells, Ring
<1>2. /\ Wrapped(a) = IF a < Ring THEN a ELSE a - Ring
      /\ Wrapped(b) = IF b < Ring THEN b ELSE b - Ring
  BY <1>1, Around
<1> QED
  BY <1>1, <1>2

\* One character more.
LEMMA OnRingPut ==
  ASSUME NEW t, NEW c, NEW s \in Seq(Nat), OnRing(t, c, s), Len(s) < Ring, NEW x \in Nat
  PROVE  OnRing(TerminalPutchar(t, x), c, Append(s, x))
<1>1. PICK n : n = Len(s)
  OBVIOUS
<1>2. PICK e : e = Append(s, x)
  OBVIOUS
<1>3. PICK u : u = TerminalPutchar(t, x)
  OBVIOUS
<1>4. n \in Nat /\ Len(e) = n + 1 /\ e[n + 1] = x /\ \A k \in 1 .. n : e[k] = s[k]
  BY <1>1, <1>2
<1>5. /\ t \in Terms /\ c \in Cells /\ Cursor(t) = Wrapped(c + n)
      /\ \A k \in 1 .. n : t.buf[Wrapped(c + k - 1)] = s[k]
  BY <1>1 DEF OnRing
<1>6. Ring \in Nat \ {0} /\ c \in Nat /\ c < Ring /\ n < Ring
  <2>1. Ring \in Nat \ {0}
    BY ConsoleAssumption DEF Ring
  <2> QED
    BY <1>1, <1>5, <2>1 DEF Cells, Ring
<1>7. /\ u \in Terms /\ Cursor(u) = Wrapped(Cursor(t) + 1) /\ u.buf[Cursor(t)] = x
      /\ \A k \in Cells : k # Cursor(t) => u.buf[k] = t.buf[k]
  BY <1>3, <1>5, PutcharAround
<1>8. Cursor(u) = Wrapped(c + (n + 1))
  <2>1. /\ Wrapped(c + n) = IF c + n < Ring THEN c + n ELSE c + n - Ring
        /\ Wrapped(c + (n + 1)) = IF c + (n + 1) < Ring THEN c + (n + 1) ELSE c + (n + 1) - Ring
    BY <1>4, <1>6, Around
  <2>2. Cursor(t) + 1 \in Nat /\ Cursor(t) + 1 < 2 * Ring
    BY <1>4, <1>5, <1>6, <2>1
  <2>3. PICK p \in Nat : p = Cursor(t) + 1
    BY <2>2
  <2>4. Wrapped(p) = IF p < Ring THEN p ELSE p - Ring
    BY <2>2, <2>3, Around
  <2> QED
    BY <1>4, <1>5, <1>6, <1>7, <2>1, <2>3, <2>4
<1>9. ASSUME NEW k \in 1 .. n + 1
      PROVE  u.buf[Wrapped(c + k - 1)] = e[k]
  <2>1. CASE k = n + 1
    <3>1. c + k - 1 = c + n
      BY <1>4, <1>6, <2>1
    <3> QED
      BY <1>4, <1>5, <1>7, <2>1, <3>1
  <2>2. CASE k # n + 1
    <3>1. k \in 1 .. n
      BY <1>4, <2>2
    <3>2. PICK j : j = k - 1
      OBVIOUS
    <3>3. j \in Nat /\ j < n /\ n < j + Ring /\ c + k - 1 = c + j
      BY <1>4, <1>6, <3>1, <3>2
    <3>4. Wrapped(c + j) # Wrapped(c + n)
      <4>1. PICK a \in Nat : a = c + j
        BY <1>6, <3>3
      <4>2. PICK b \in Nat : b = c + n
        BY <1>4, <1>6
      <4>3. c <= a /\ a < b /\ b < a + Ring /\ b <= c + Ring
        BY <1>4, <1>6, <3>3, <4>1, <4>2
      <4> QED
        BY <1>5, <4>1, <4>2, <4>3, RingApart
    <3>5. Wrapped(c + j) \in Cells
      BY <1>4, <1>6, <3>3, Around
    <3>6. u.buf[Wrapped(c + j)] = t.buf[Wrapped(c + j)]
      BY <1>5, <1>7, <3>4, <3>5
    <3> QED
      BY <1>4, <1>5, <3>1, <3>3, <3>6
  <2> QED
    BY <2>1, <2>2
<1>10. OnRing(u, c, e)
  BY <1>4, <1>5, <1>7, <1>8, <1>9 DEF OnRing
<1> QED
  BY <1>2, <1>3, <1>10

\* A backspace goes one place back around, but not from the first cell.
LEMMA BackspaceAround ==
  ASSUME NEW t \in Terms, Cursor(t) # 0
  PROVE  LET u == HandleBackspace(t)
         IN  /\ u \in Terms /\ Cursor(u) = Cursor(t) - 1
             /\ \A k \in Cells : k # Cursor(t) - 1 => u.buf[k] = t.buf[k]
<1> DEFINE u == HandleBackspace(t)
<1> DEFINE b == Back(t)
<1>1. /\ t.row \in YRange /\ t.col \in XRange /\ t.row \in Nat /\ t.col \in Nat
      /\ VGA_WIDTH \in Nat \ {0} /\ VGA_HEIGHT \in Nat \ {0}
  BY ConsoleAssumption DEF Terms, XRange, YRange
<1>2. b \in Terms /\ b.buf = t.buf /\ u = Putentryat(b, SPACE, b.col, b.row)
  BY BackTerms
<1>3. Cursor(t) = t.row * VGA_WIDTH + t.col /\ t.row * VGA_WIDTH \in Nat
  BY <1>1 DEF Cursor
<1>4. Cursor(b) = Cursor(t) - 1
  <2>1. CASE t.col # 0
    <3>1. b = [t EXCEPT !.col = t.col - 1]
      BY <2>1 DEF Back
    <3> HIDE DEF b
    <3>2. b.col = t.col - 1 /\ b.row = t.row
      BY <3>1 DEF Terms
    <3> QED
      BY <1>1, <1>3, <3>2 DEF Cursor
  <2>2. CASE t.col = 0
    <3>1. t.row # 0
      BY <1>1, <1>3, <2>2
    <3>2. b = [t EXCEPT !.col = VGA_WIDTH - 1, !.row = t.row - 1]
      BY <2>2, <3>1 DEF Back
    <3> HIDE DEF b
    <3>3. b.col = VGA_WIDTH - 1 /\ b.row = t.row - 1
      BY <3>2 DEF Terms
    <3>4. (t.row - 1) * VGA_WIDTH = t.row * VGA_WIDTH - VGA_WIDTH
      BY <1>1
    <3> QED
      BY <1>1, <1>3, <2>2, <3>3, <3>4 DEF Cursor
  <2> QED
    BY <2>1, <2>2
<1> HIDE DEF u, b
<1>5. SPACE \in Nat /\ b.row \in YRange /\ b.col \in XRange /\ Cell(b.row, b.col) = Cursor(b)
  BY <1>2, CursorOnScreen DEF SPACE, Terms
<1>6. /\ u \in Terms /\ u.row = b.row /\ u.col = b.col
      /\ \A k \in Cells : k # Cursor(b) => u.buf[k] = b.buf[k]
  BY <1>2, <1>5, PutAt
<1>7. Cursor(u) = Cursor(b)
  BY <1>6 DEF Cursor
<1> QED
  BY <1>2, <1>4, <1>6, <1>7 DEF u

\* One character less.
LEMMA OnRingBack ==
  ASSUME NEW t, NEW c, NEW s \in Seq(Nat), OnRing(t, c, s), Len(s) < Ring, s # <<>>,
         Cursor(t) # 0
  PROVE  OnRing(HandleBackspace(t), c, Front(s)) /\ Front(s) \in Seq(Nat)
         /\ Len(Front(s)) = Len(s) - 1
<1>1. PICK n : n = Len(s) - 1
  OBVIOUS
<1>2. PICK e : e = Front(s)
  OBVIOUS
<1>3. PICK u : u = HandleBackspace(t)
  OBVIOUS
<1>4. n \in Nat /\ Len(s) = n + 1
  BY <1>1
<1>5. e = SubSeq(s, 1, n)
  BY <1>1, <1>2 DEF Front
<1>6. e \in Seq(Nat) /\ Len(e) = n /\ \A k \in 1 .. n : e[k] = s[k]
  BY <1>4, <1>5
<1>7. /\ t \in Terms /\ c \in Cells /\ Cursor(t) = Wrapped(c + (n + 1))
      /\ \A k \in 1 .. n + 1 : t.buf[Wrapped(c + k - 1)] = s[k]
  BY <1>4 DEF OnRing
<1>8. Ring \in Nat \ {0} /\ c \in Nat /\ c < Ring /\ n + 1 < Ring
  <2>1. Ring \in Nat \ {0}
    BY ConsoleAssumption DEF Ring
  <2> QED
    BY <1>4, <1>7, <2>1 DEF Cells, Ring
<1>9. /\ u \in Terms /\ Cursor(u) = Cursor(t) - 1
      /\ \A k \in Cells : k # Cursor(t) - 1 => u.buf[k] = t.buf[k]
  BY <1>3, <1>7, BackspaceAround
<1>10. Cursor(u) = Wrapped(c + n)
  <2>1. /\ Wrapped(c + n) = IF c + n < Ring THEN c + n ELSE c + n - Ring
        /\ Wrapped(c + (n + 1)) = IF c + (n + 1) < Ring THEN c + (n + 1) ELSE c + (n + 1) - Ring
    BY <1>4, <1>8, Around
  <2> QED
    BY <1>4, <1>7, <1>8, <1>9, <2>1
<1>11. ASSUME NEW k \in 1 .. n
       PROVE  u.buf[Wrapped(c + k - 1)] = e[k]
  <2>1. PICK j : j = k - 1
    OBVIOUS
  <2>2. j \in Nat /\ j < n /\ n < j + Ring /\ c + k - 1 = c + j
    BY <1>4, <1>8, <1>11, <2>1
  <2>3. Wrapped(c + j) # Wrapped(c + n)
    <3>1. PICK a \in Nat : a = c + j
      BY <1>8, <2>2
    <3>2. PICK b \in Nat : b = c + n
      BY <1>4, <1>8
    <3>3. c <= a /\ a < b /\ b < a + Ring /\ b <= c + Ring
      BY <1>4, <1>8, <2>2, <3>1, <3>2
    <3> QED
      BY <1>7, <3>1, <3>2, <3>3, RingApart
  <2>4. Wrapped(c + j) \in Cells
    BY <1>4, <1>8, <2>2, Around
  <2>5. u.buf[Wrapped(c + j)] = t.buf[Wrapped(c + j)]
    BY <1>9, <1>10, <2>3, <2>4
  <2>6. k \in 1 .. n + 1
    BY <1>4, <1>11
  <2>7. t.buf[Wrapped(c + k - 1)] = s[k] /\ e[k] = s[k]
    BY <1>6, <1>7, <1>11, <2>6
  <2> QED
    BY <2>2, <2>5, <2>7
<1>12. OnRing(u, c, e)
  BY <1>6, <1>7, <1>9, <1>10, <1>11 DEF OnRing
<1> QED
  BY <1>2, <1>3, <1>4, <1>6, <1>12

-------------------------------------------------------------------------------
\* The line after each of the keys.
Edits(d, g) == g[0] = <<>> /\ \A n \in 1 .. Len(d) : g[n] = Edit(g[n - 1], d[n])

\* The recursion that Edited stands for has its function.
LEMMA EditedSteps ==
  ASSUME NEW d \in Seq(Nat)
  PROVE  \E g : Edits(d, g) /\ Edited(d) = g[Len(d)]
<1> DEFINE k == Len(d)
<1> DEFINE Part(n, g) ==
      g = [m \in 0 .. n |-> IF m = 0 THEN <<>> ELSE Edit(g[m - 1], d[m])]
<1> DEFINE S == {n \in Nat : \E g : Part(n, g)}
<1>1. 0 \in S
  <2> DEFINE g == [m \in 0 .. 0 |-> <<>>]
  <2>1. \A m \in 0 .. 0 : m = 0
    OBVIOUS
  <2>2. Part(0, g)
    BY <2>1
  <2> QED
    BY <2>2
<1>2. ASSUME NEW n \in Nat, n \in S
      PROVE  n + 1 \in S
  <2>1. PICK g : Part(n, g)
    BY <1>2
  <2> DEFINE next == Edit(g[n], d[n + 1])
  <2> DEFINE h == [m \in 0 .. n + 1 |-> IF m = n + 1 THEN next ELSE g[m]]
  <2>2. ASSUME NEW m \in 0 .. n + 1
        PROVE  h[m] = IF m = 0 THEN <<>> ELSE Edit(h[m - 1], d[m])
    <3>1. CASE m = n + 1
      <4>1. h[n + 1] = next /\ h[n] = g[n] /\ m # 0 /\ m - 1 = n
        BY <3>1
      <4> HIDE DEF h
      <4> QED
        BY <3>1, <4>1
    <3>2. CASE m # n + 1
      <4>1. m \in 0 .. n /\ h[m] = g[m] /\ (m # 0 => m - 1 \in 0 .. n /\ h[m - 1] = g[m - 1])
        BY <2>2, <3>2
      <4>2. g[m] = IF m = 0 THEN <<>> ELSE Edit(g[m - 1], d[m])
        BY <2>1, <4>1
      <4> QED
        BY <4>1, <4>2
    <3> QED
      BY <3>1, <3>2
  <2>3. h = [m \in 0 .. n + 1 |-> h[m]]
    OBVIOUS
  <2> HIDE DEF h
  <2>4. Part(n + 1, h)
    BY <2>2, <2>3
  <2> HIDE DEF Part
  <2> QED
    BY <2>4
<1>3. \E g : Part(k, g)
  <2> HIDE DEF S
  <2>1. \A n \in Nat : n \in S
    BY <1>1, <1>2, Induction
  <2> QED
    BY <2>1 DEF S
<1>4. Edited(d) = (CHOOSE g : Part(k, g))[k]
  BY DEF Edited
<1> DEFINE g == CHOOSE g : Part(k, g)
<1>5. Part(k, g)
  BY <1>3
<1>6. Edited(d) = g[k] /\ k \in Nat
  BY <1>4
<1> HIDE DEF g
<1>7. g[0] = <<>> /\ \A n \in 1 .. k : g[n] = Edit(g[n - 1], d[n])
  <2>1. g[0] = <<>>
    BY <1>5, <1>6
  <2>2. ASSUME NEW n \in 1 .. k PROVE g[n] = Edit(g[n - 1], d[n])
    <3>1. n \in 0 .. k /\ n # 0
      BY <1>6
    <3> QED
      BY <1>5, <3>1
  <2> QED
    BY <2>1, <2>2
<1>8. Edits(d, g)
  BY <1>7 DEF Edits
<1> QED
  BY <1>6, <1>8

\* One key more, and none.
LEMMA EditedAppend ==
  ASSUME NEW d \in Seq(Nat), NEW x \in Nat
  PROVE  Edited(Append(d, x)) = Edit(Edited(d), x) /\ Edited(<<>>) = <<>>
<1> DEFINE k == Len(d)
<1>1. PICK e : e = Append(d, x) /\ e \in Seq(Nat)
  <2>1. Append(d, x) \in Seq(Nat)
    OBVIOUS
  <2> QED
    BY <2>1
<1>2. Len(e) = k + 1 /\ e[k + 1] = x /\ k \in Nat /\ \A n \in 1 .. k : e[n] = d[n]
  BY <1>1
<1>3. PICK g : Edits(d, g) /\ Edited(d) = g[k]
  BY EditedSteps
<1>4. PICK h : Edits(e, h) /\ Edited(e) = h[Len(e)]
  BY <1>1, EditedSteps
<1>5. \A n \in 1 .. k : g[n] = Edit(g[n - 1], d[n])
  BY <1>3 DEF Edits
<1>6. \A n \in 1 .. k + 1 : h[n] = Edit(h[n - 1], e[n])
  BY <1>2, <1>4 DEF Edits
<1> DEFINE S == {n \in Nat : n <= k => h[n] = g[n]}
<1> HIDE DEF k
<1>7. 0 \in S
  BY <1>3, <1>4 DEF Edits
<1>8. ASSUME NEW n \in Nat, n \in S
      PROVE  n + 1 \in S
  <2>1. SUFFICES ASSUME n + 1 <= k PROVE h[n + 1] = g[n + 1]
    OBVIOUS
  <2>2. n + 1 \in 1 .. k /\ n + 1 \in 1 .. k + 1 /\ (n + 1) - 1 = n
    BY <1>2, <2>1
  <2>3. h[n] = g[n]
    BY <1>2, <1>8, <2>1
  <2> QED
    BY <1>2, <1>5, <1>6, <2>2, <2>3
<1> HIDE DEF S
<1>9. k \in S
  BY <1>2, <1>7, <1>8, Induction
<1>10. h[k] = g[k]
  BY <1>2, <1>9 DEF S
<1>11. h[k + 1] = Edit(h[k], x)
  <2>1. k + 1 \in 1 .. k + 1 /\ (k + 1) - 1 = k
    BY <1>2
  <2> QED
    BY <1>2, <1>6, <2>1
<1>12. Edited(<<>>) = <<>>
  <2>1. PICK o : o = <<>> /\ o \in Seq(Nat)
    <3>1. <<>> \in Seq(Nat)
      OBVIOUS
    <3> QED
      BY <3>1
  <2>2. Len(o) = 0
    BY <2>1
  <2>3. PICK r : Edits(o, r) /\ Edited(o) = r[Len(o)]
    BY <2>1, EditedSteps
  <2> QED
    BY <2>1, <2>2, <2>3 DEF Edits
<1> QED
  BY <1>1, <1>2, <1>3, <1>4, <1>10, <1>11, <1>12

-------------------------------------------------------------------------------
\* What the prints, the strings, the numbers and the keys are.
LEMMA Inputs ==
  /\ \A p \in Prints : Expanded(p.data, p.args) \in Seq(Nat)
  /\ Strings \subseteq Seq(Nat)
  /\ \A n \in Numbers : n \in Int /\ Expanded(<<Percent, 100>>, <<n>>) = Writeint(n)
                        /\ Writeint(n) \in Seq(Nat) /\ Len(Writeint(n)) < Ring
  /\ \A c \in Keys : c \in Nat /\ c # Newline
  /\ MaxKeys \in Nat /\ MaxKeys < Ring
<1>1. \A n \in Numbers : n \in Int
  <2>1. INT_MAX \in Int
    BY DEF INT_MAX
  <2> QED
    BY <2>1, ConsoleAssumption
<1>2. \A n \in Numbers : Expanded(<<Percent, 100>>, <<n>>) = Writeint(n)
                         /\ Writeint(n) \in Seq(Nat)
  BY <1>1, ExpandedNumber, WriteintRead
<1>3. \A n \in Numbers : Len(Writeint(n)) < Ring
  BY PrintsAssumption DEF Ring
<1>4. MaxKeys \in Nat /\ MaxKeys < Ring
  BY ConsoleAssumption DEF Ring
<1> QED
  BY <1>1, <1>2, <1>3, <1>4, ConsoleAssumption, PrintsAssumption

\* Every step keeps screen and paper together.
LEMMA TogetherNext == Together /\ [ConsoleNext]_consoleVars => Together'
<1> SUFFICES ASSUME Together, [ConsoleNext]_consoleVars PROVE Together'
  OBVIOUS
<1>1. ASSUME NEW data \in Seq(Nat), Output(data)
      PROVE  Together'
  BY <1>1, TogetherRecords DEF Output
<1>2. CASE \E p \in Prints : Printf(p)
  BY <1>1, <1>2, Inputs DEF Printf
<1>3. CASE \E s \in Strings : Writestring(s)
  BY <1>1, <1>3, Inputs DEF Writestring
<1>4. CASE \E n \in Numbers : PrintNumber(n)
  BY <1>1, <1>4, Inputs DEF PrintNumber
<1>5. CASE Getline
  BY <1>5 DEF Getline, Together
<1>6. ASSUME NEW c \in Keys, Key(c)
      PROVE  Together'
  <2>1. c \in Nat /\ c # Newline /\ term' = Echo(term, c)
    BY <1>6, Inputs DEF Key
  <2>2. CASE c = 0
    <3>1. term' = term
      BY <2>1, <2>2 DEF Echo, BACKSPACE_BYTE
    <3>2. UNCHANGED <<paper, top, cornered>>
      BY <1>6, <2>2 DEF Key, BACKSPACE_BYTE
    <3> QED
      BY <3>1, <3>2 DEF Together
  <2>3. CASE c = BACKSPACE_BYTE
    <3>1. term' = HandleBackspace(term)
      BY <2>1, <2>3 DEF Echo, BACKSPACE_BYTE
    <3>2. /\ top' = top /\ cornered' = cornered
          /\ ~ cornered => paper' = [paper EXCEPT ![top + term'.row + 1][term'.col] = SPACE]
      BY <1>6, <2>3 DEF Key
    <3>3. term' \in Terms
      <4>1. Back(term) \in Terms /\ SPACE \in Nat
        BY BackTerms DEF Together, SPACE
      <4> QED
        BY <3>1, <4>1, BackTerms, PutAt DEF Together, Terms
    <3>4. ASSUME ~ cornered
          PROVE  PastTop(paper') = top /\ Rolled(term', At(term', paper'))
      <4>1. top = PastTop(paper) /\ Rolled(term, At(term, paper))
        BY <3>4 DEF Together
      <4>2. PICK h : h = top
        OBVIOUS
      <4>3. PICK u : u = HandleBackspace(term)
        OBVIOUS
      <4>4. PICK q : q = Rubbed(paper, h + u.row + 1, u.col)
        OBVIOUS
      <4>5. PastTop(q) = h /\ Rolled(u, At(u, q))
        BY <4>1, <4>2, <4>3, <4>4, BackRolled
      <4>6. term' = u
        BY <3>1, <4>3
      <4>7. paper' = [paper EXCEPT ![h + u.row + 1][u.col] = SPACE]
        BY <3>2, <3>4, <4>2, <4>6
      <4>8. paper' = q
        BY <4>4, <4>7 DEF Rubbed
      <4> QED
        BY <4>2, <4>5, <4>6, <4>8
    <3> QED
      BY <3>2, <3>3, <3>4 DEF Together
  <2>4. CASE c # 0 /\ c # BACKSPACE_BYTE
    <3>1. term' = TerminalPutchar(term, c)
      BY <2>1, <2>4 DEF Echo
    <3>2. Write(term, <<c>>) = TerminalPutchar(term, c) /\ <<c>> \in Seq(Nat)
      BY <2>1, WriteOne DEF Char
    <3>3. Records(<<c>>)
      BY <1>6, <2>4 DEF Key
    <3> QED
      BY <3>1, <3>2, <3>3, TogetherRecords
  <2> QED
    BY <2>2, <2>3, <2>4
<1>7. CASE Enter
  <2>1. Newline \in Nat
    BY DEF Newline
  <2>2. Write(term, <<Newline>>) = HandleNewline(term) /\ <<Newline>> \in Seq(Nat)
    BY <2>1, WriteOne DEF Char
  <2>3. term' = HandleNewline(term) /\ Records(<<Newline>>)
    BY <1>7 DEF Enter
  <2> QED
    BY <2>2, <2>3, TogetherRecords
<1>8. CASE UNCHANGED consoleVars
  BY <1>8 DEF consoleVars, Together
<1> QED
  BY <1>2, <1>3, <1>4, <1>5, <1>6, <1>7, <1>8 DEF ConsoleNext

\* Screen and paper are together all the time.
LEMMA AlwaysTogether == ConsoleSpec => []Together
  BY TogetherInit, TogetherNext, PTL DEF ConsoleSpec

-------------------------------------------------------------------------------
\* The inductive invariant of a line: it fits on the screen, and until a backspace goes
\* astray it is what was meant, and stands where getline was called.
Typed ==
  typing =>
    /\ astray \in BOOLEAN /\ keys \in Seq(Nat) /\ line \in Seq(Nat)
    /\ Len(line) <= Len(keys) /\ Len(keys) <= MaxKeys
    /\ ~astray => line = Edited(keys) /\ OnRing(term, start, line)

\* At the start no line is typed.
LEMMA TypedInit == ConsoleInit => Typed
  BY DEF ConsoleInit, Typed

\* A key that is typed.
LEMMA TypedKey ==
  ASSUME Typed, Together, NEW c \in Keys, Key(c)
  PROVE  Typed'
<1>1. /\ astray \in BOOLEAN /\ keys \in Seq(Nat) /\ line \in Seq(Nat)
      /\ Len(line) <= Len(keys) /\ Len(keys) <= MaxKeys
      /\ ~astray => line = Edited(keys) /\ OnRing(term, start, line)
  BY DEF Typed, Key
<1>2. /\ Len(keys) < MaxKeys /\ term' = Echo(term, c) /\ line' = LineWith(c)
      /\ keys' = Append(keys, c) /\ astray' = (astray \/ Astray(c)) /\ start' = start
  BY DEF Key
<1>3. c \in Nat /\ MaxKeys \in Nat /\ MaxKeys < Ring
  BY Inputs
<1>4. keys' \in Seq(Nat) /\ Len(keys') = Len(keys) + 1 /\ Len(keys) \in Nat /\ Len(line) \in Nat
  BY <1>1, <1>2, <1>3
<1>5. Edited(keys') = Edit(Edited(keys), c)
  BY <1>1, <1>2, <1>3, EditedAppend
<1>6. astray' \in BOOLEAN
  BY <1>1, <1>2 DEF Astray
<1>7. Len(line) < Ring /\ Ring \in Nat
  <2>1. Ring \in Nat
    BY ConsoleAssumption DEF Ring
  <2> QED
    BY <1>1, <1>2, <1>3, <1>4, <2>1
<1>8. CASE c = 0
  <2>1. line' = line /\ term' = term /\ Edit(Edited(keys), c) = Edited(keys)
    BY <1>2, <1>8 DEF LineWith, Echo, Edit, BACKSPACE_BYTE
  <2>2. ~ astray' => ~ astray
    BY <1>2
  <2> QED
    BY <1>1, <1>2, <1>3, <1>4, <1>5, <1>6, <2>1, <2>2 DEF Typed
<1>9. CASE c = BACKSPACE_BYTE
  <2>1. term' = HandleBackspace(term)
        /\ Edit(Edited(keys), c) =
             IF Edited(keys) = <<>> THEN Edited(keys) ELSE Front(Edited(keys))
    BY <1>2, <1>9 DEF Echo, Edit, BACKSPACE_BYTE
  <2>2. line' = IF line # <<>> THEN Front(line) ELSE Append(line, c)
    BY <1>2, <1>9 DEF LineWith, BACKSPACE_BYTE
  <2>3. line' \in Seq(Nat) /\ Len(line') <= Len(keys')
    <3>1. CASE line = <<>>
      BY <1>1, <1>3, <1>4, <2>2, <3>1
    <3>2. CASE line # <<>>
      <4>1. PICK m : m = Len(line) - 1
        OBVIOUS
      <4>2. m \in Nat /\ Len(line) = m + 1
        BY <1>1, <3>2, <4>1
      <4>3. PICK e : e = SubSeq(line, 1, m)
        OBVIOUS
      <4>4. e \in Seq(Nat) /\ Len(e) = m
        BY <1>1, <4>2, <4>3
      <4>5. line' = e
        BY <2>2, <3>2, <4>1, <4>3 DEF Front
      <4> QED
        BY <1>1, <1>4, <4>2, <4>4, <4>5
    <3> QED
      BY <3>1, <3>2
  <2>4. ASSUME ~ astray' PROVE line' = Edited(keys') /\ OnRing(term', start', line')
    <3>1. ~ astray /\ line # <<>> /\ Cursor(term) # 0
      BY <1>2, <1>9, <2>4 DEF Astray
    <3>2. line = Edited(keys) /\ OnRing(term, start, line)
      BY <1>1, <3>1
    <3>3. line' = Front(line)
      BY <2>2, <3>1
    <3>4. OnRing(HandleBackspace(term), start, Front(line))
      BY <1>1, <1>7, <3>1, <3>2, OnRingBack
    <3>5. line' = Edited(keys')
      BY <1>5, <2>1, <3>1, <3>2, <3>3
    <3> QED
      BY <1>2, <2>1, <3>3, <3>4, <3>5
  <2> QED
    BY <1>2, <1>3, <1>4, <1>6, <2>3, <2>4 DEF Typed
<1>10. CASE c # 0 /\ c # BACKSPACE_BYTE
  <2>1. term' = TerminalPutchar(term, c) /\ line' = Append(line, c)
        /\ Edit(Edited(keys), c) = Append(Edited(keys), c)
    BY <1>2, <1>10 DEF LineWith, Echo, Edit
  <2>2. line' \in Seq(Nat) /\ Len(line') <= Len(keys')
    BY <1>1, <1>3, <1>4, <2>1
  <2>3. ASSUME ~ astray' PROVE line' = Edited(keys') /\ OnRing(term', start', line')
    <3>1. line = Edited(keys) /\ OnRing(term, start, line)
      BY <1>1, <1>2, <2>3
    <3>2. OnRing(TerminalPutchar(term, c), start, Append(line, c))
      BY <1>1, <1>3, <1>7, <3>1, OnRingPut
    <3> QED
      BY <1>2, <1>5, <2>1, <3>1, <3>2
  <2> QED
    BY <1>2, <1>3, <1>4, <1>6, <2>2, <2>3 DEF Typed
<1> QED
  BY <1>8, <1>9, <1>10

\* Every step keeps a line what was meant.
LEMMA TypedNext == Typed /\ Together /\ [ConsoleNext]_consoleVars => Typed'
<1> SUFFICES ASSUME Typed, Together, [ConsoleNext]_consoleVars PROVE Typed'
  OBVIOUS
<1>1. CASE \/ \E p \in Prints : Printf(p)
           \/ \E s \in Strings : Writestring(s)
           \/ \E n \in Numbers : PrintNumber(n)
  BY <1>1 DEF Printf, Writestring, PrintNumber, Output, Typed
<1>2. CASE Getline
  <2>1. line' = <<>> /\ keys' = <<>> /\ astray' = FALSE /\ term' = term /\ start' = Cursor(term)
    BY <1>2 DEF Getline
  <2>2. PICK o : o = <<>> /\ o \in Seq(Nat) /\ Len(o) = 0
    <3>1. <<>> \in Seq(Nat) /\ Len(<<>>) = 0
      OBVIOUS
    <3> QED
      BY <3>1
  <2>3. Edited(o) = o
    <3>1. 0 \in Nat
      OBVIOUS
    <3> QED
      BY <2>2, <3>1, EditedAppend
  <2>4. PICK t : t = term
    OBVIOUS
  <2>5. t \in Terms /\ Cursor(t) \in Cells /\ Cursor(t) \in Nat
    BY <2>4, CursorOnScreen DEF Together
  <2>6. Wrapped(Cursor(t)) = Cursor(t)
    <3>1. Ring \in Nat \ {0} /\ Cursor(t) < Ring
      <4>1. Ring \in Nat \ {0}
        BY ConsoleAssumption DEF Ring
      <4> QED
        BY <2>5, <4>1 DEF Cells, Ring
    <3> QED
      BY <2>5, <3>1, Around
  <2>7. OnRing(t, Cursor(t), o)
    <3>1. Cursor(t) + Len(o) = Cursor(t)
      BY <2>2, <2>5
    <3>2. 1 .. Len(o) = {}
      BY <2>2
    <3> QED
      BY <2>5, <2>6, <3>1, <3>2 DEF OnRing
  <2>8. Len(o) <= MaxKeys /\ Len(o) <= Len(o)
    BY <2>2, Inputs
  <2>9. line' = o /\ keys' = o /\ astray' = FALSE
    BY <2>1, <2>2
  <2>10. OnRing(term', start', line')
    BY <2>1, <2>4, <2>7, <2>9
  <2>11. line' = Edited(keys')
    BY <2>3, <2>9
  <2> QED
    BY <2>2, <2>8, <2>9, <2>10, <2>11 DEF Typed
<1>3. CASE \E c \in Keys : Key(c)
  BY <1>3, TypedKey
<1>4. CASE Enter
  BY <1>4 DEF Enter, Typed
<1>5. CASE UNCHANGED consoleVars
  BY <1>5 DEF consoleVars, Typed
<1> QED
  BY <1>1, <1>2, <1>3, <1>4, <1>5 DEF ConsoleNext

\* What was typed is what stands there, all the time.
LEMMA AlwaysTyped == ConsoleSpec => []Typed
<1>1. ConsoleInit => Typed /\ Together
  BY TypedInit, TogetherInit
<1>2. Typed /\ Together /\ [ConsoleNext]_consoleVars => (Typed /\ Together)'
  BY TypedNext, TogetherNext
<1> QED
  BY <1>1, <1>2, PTL DEF ConsoleSpec

-------------------------------------------------------------------------------
\* How far the cursor has gone around.
LEMMA GoneAround ==
  ASSUME NEW c \in Cells, NEW k \in Nat, k < Ring, NEW e, e = Wrapped(c + k)
  PROVE  (e - c) % Ring = k
<1>1. Ring \in Nat \ {0}
  BY ConsoleAssumption DEF Ring
<1>2. c \in Nat /\ c < Ring
  BY <1>1 DEF Cells, Ring
<1>3. e = IF c + k < Ring THEN c + k ELSE c + k - Ring
  BY <1>1, <1>2, Around
<1> DEFINE x == e - c
<1> DEFINE m == x % Ring
<1> DEFINE q == x \div Ring
<1>4. x \in Int /\ (x = k \/ x = k - Ring)
  BY <1>1, <1>2, <1>3
<1>5. x = Ring * q + m /\ q \in Int /\ m \in 0 .. Ring - 1
  BY <1>1, <1>4
<1> HIDE DEF x, q, m
<1>6. CASE x = k
  <2>1. Ring * q = k - m /\ -Ring < k - m /\ k - m < Ring /\ Ring * q \in Int
    BY <1>1, <1>5, <1>6
  <2>2. q = 0
    <3>1. CASE 0 <= k - m
      BY <1>1, <1>5, <2>1, <3>1, SmallMultiple
    <3>2. CASE k - m < 0
      <4>1. PICK r \in Int : r = -q
        BY <1>5
      <4>2. Ring * r = m - k
        BY <1>1, <1>5, <2>1, <4>1
      <4>3. 0 <= Ring * r /\ Ring * r < Ring
        BY <1>1, <1>5, <2>1, <3>2, <4>2
      <4>4. r = 0
        BY <1>1, <4>1, <4>3, SmallMultiple
      <4> QED
        BY <1>5, <4>1, <4>4
    <3> QED
      BY <1>5, <3>1, <3>2
  <2>3. Ring * q = 0
    BY <1>1, <2>2
  <2> QED
    BY <1>1, <1>5, <2>1, <2>3 DEF m, x
<1>7. CASE x = k - Ring
  <2>1. PICK p \in Int : p = q + 1
    BY <1>5
  <2>2. Ring * p = Ring * q + Ring
    BY <1>1, <1>5, <2>1
  <2>3. Ring * p = k - m /\ -Ring < k - m /\ k - m < Ring /\ Ring * p \in Int
    BY <1>1, <1>5, <1>7, <2>2
  <2>4. p = 0
    <3>1. CASE 0 <= k - m
      BY <1>1, <2>1, <2>3, <3>1, SmallMultiple
    <3>2. CASE k - m < 0
      <4>1. PICK r \in Int : r = -p
        BY <2>1
      <4>2. Ring * r = m - k
        BY <1>1, <1>5, <2>1, <2>3, <4>1
      <4>3. 0 <= Ring * r /\ Ring * r < Ring
        BY <1>1, <1>5, <2>3, <3>2, <4>2
      <4>4. r = 0
        BY <1>1, <4>1, <4>3, SmallMultiple
      <4> QED
        BY <2>1, <4>1, <4>4
    <3> QED
      BY <1>5, <3>1, <3>2
  <2>5. Ring * p = 0
    BY <1>1, <2>4
  <2> QED
    BY <1>1, <1>5, <2>3, <2>5 DEF m, x
<1> QED
  BY <1>4, <1>6, <1>7

\* Characters that make no new row, and are fewer than the cells, stand where the
\* cursor was.
LEMMA WriteOnRing ==
  ASSUME NEW t \in Terms, NEW d \in Seq(Nat), Len(d) < Ring,
         \A i \in 1 .. Len(d) : d[i] # Newline
  PROVE  OnRing(Write(t, d), Cursor(t), d)
<1> DEFINE c == Cursor(t)
<1> DEFINE S == {n \in Nat : n <= Len(d) =>
                               OnRing(Progress(t, d)[n], c, SubSeq(d, 1, n))}
<1>1. Ring \in Nat \ {0} /\ c \in Cells /\ c \in Nat /\ c < Ring
  <2>1. Ring \in Nat \ {0}
    BY ConsoleAssumption DEF Ring
  <2> QED
    BY <2>1, CursorOnScreen DEF Cells, Ring
<1>2. 0 \in S
  <2>1. PICK o : o = SubSeq(d, 1, 0)
    OBVIOUS
  <2>2. Len(o) = 0
    BY <2>1
  <2>3. Wrapped(c) = c
    BY <1>1, Around
  <2>4. c + Len(o) = c /\ 1 .. Len(o) = {}
    BY <1>1, <2>2
  <2>5. OnRing(t, c, o)
    BY <1>1, <2>3, <2>4 DEF OnRing
  <2>6. Progress(t, d)[0] = t
    BY ProgressSteps
  <2> QED
    BY <2>1, <2>5, <2>6
<1>3. ASSUME NEW n \in Nat, n \in S
      PROVE  n + 1 \in S
  <2>1. SUFFICES ASSUME n + 1 <= Len(d)
                 PROVE  OnRing(Progress(t, d)[n + 1], c, SubSeq(d, 1, n + 1))
    OBVIOUS
  <2>2. n + 1 \in 1 .. Len(d) /\ d[n + 1] \in Nat /\ (n + 1) - 1 = n /\ d[n + 1] # Newline
        /\ n < Ring
    BY <1>1, <2>1
  <2>3. OnRing(Progress(t, d)[n], c, SubSeq(d, 1, n))
    BY <1>3, <2>1
  <2>4. Progress(t, d)[n + 1] = Char(Progress(t, d)[n], d[n + 1])
    BY <2>2, ProgressSteps
  <2>5. Char(Progress(t, d)[n], d[n + 1]) = TerminalPutchar(Progress(t, d)[n], d[n + 1])
    BY <2>2 DEF Char
  <2>6. PICK s : s = SubSeq(d, 1, n)
    OBVIOUS
  <2>7. s \in Seq(Nat) /\ Len(s) = n /\ \A i \in 1 .. n : s[i] = d[i]
    BY <2>1, <2>6
  <2>8. SubSeq(d, 1, n + 1) = Append(s, d[n + 1])
    BY <2>1, <2>2, <2>6
  <2>9. OnRing(TerminalPutchar(Progress(t, d)[n], d[n + 1]), c, Append(s, d[n + 1]))
    BY <2>2, <2>3, <2>6, <2>7, OnRingPut
  <2> QED
    BY <2>4, <2>5, <2>8, <2>9
<1> HIDE DEF S
<1>4. \A n \in Nat : n \in S
  BY <1>2, <1>3, Induction
<1>5. OnRing(Progress(t, d)[Len(d)], c, SubSeq(d, 1, Len(d)))
  BY <1>4 DEF S
<1>6. SubSeq(d, 1, Len(d)) = d
  OBVIOUS
<1> QED
  BY <1>5, <1>6 DEF Write

\* A number that was printed reads back.
LEMMA NumberReads ==
  ASSUME NEW t \in Terms, NEW n \in Numbers, NEW u, u = Write(t, Writeint(n))
  PROVE  Spelled(Shown(u, Cursor(t), (Cursor(u) - Cursor(t)) % (VGA_WIDTH * VGA_HEIGHT))) = n
<1>1. PICK d : d = Writeint(n)
  OBVIOUS
<1>2. n \in Int /\ d \in Seq(Nat) /\ Len(d) < Ring
  BY <1>1, Inputs
<1>3. Spelled(d) = n /\ \A i \in 1 .. Len(d) : d[i] # Newline
  BY <1>1, <1>2, WriteintRead
<1>4. OnRing(u, Cursor(t), d)
  BY <1>1, <1>2, <1>3, WriteOnRing
<1>5. d = Shown(u, Cursor(t), Len(d))
  BY <1>2, <1>4, OnRingShown
<1>6. Cursor(t) \in Cells /\ Cursor(u) = Wrapped(Cursor(t) + Len(d)) /\ Len(d) \in Nat
  BY <1>2, <1>4 DEF OnRing
<1>7. (Cursor(u) - Cursor(t)) % Ring = Len(d)
  BY <1>2, <1>6, GoneAround
<1>8. (Cursor(u) - Cursor(t)) % (VGA_WIDTH * VGA_HEIGHT) = Len(d)
  BY <1>7 DEF Ring
<1> QED
  BY <1>3, <1>5, <1>8

-------------------------------------------------------------------------------
\* Until the last cell is filled, the screen shows the last rows of what was printed
\* (kernel_printf, terminal_write, getline): none is lost, none shown twice.
THEOREM ScreenShowsLatest == ConsoleSpec => []ShowsLatest
  BY AlwaysTogether, TogetherShows, PTL

\* What getline is about to return is what the user meant and what the screen shows,
\* until a backspace goes astray.
THEOREM LineStaysShown == ConsoleSpec => []LineIsShown
<1>1. Typed => LineIsShown
  <2>1. SUFFICES ASSUME Typed, typing, ~ astray
                 PROVE  /\ line = Edited(keys)
                        /\ line = Shown(term, start, Len(line))
                        /\ Cursor(term) = (start + Len(line)) % (VGA_WIDTH * VGA_HEIGHT)
    BY DEF LineIsShown
  <2>2. line = Edited(keys) /\ line \in Seq(Nat) /\ OnRing(term, start, line)
    BY <2>1 DEF Typed
  <2> QED
    BY <2>2, OnRingShown
<1> QED
  BY <1>1, AlwaysTyped, PTL

\* A number that is printed reads back from the screen as that number (kernel_printf,
\* terminal_writeint), wherever the cursor was.
THEOREM PrintedNumbersReadBack == ConsoleSpec => NumbersReadBack
<1>1. ASSUME Together, NEW n \in Numbers, PrintNumber(n)
      PROVE  LET size == (Cursor(term') - Cursor(term)) % (VGA_WIDTH * VGA_HEIGHT)
             IN  Spelled(Shown(term', Cursor(term), size)) = n
  <2>1. term' = Write(term, Writeint(n)) /\ term \in Terms
    BY <1>1, Inputs DEF PrintNumber, Output, Together
  <2> QED
    BY <2>1, NumberReads
<1>2. Together /\ [ConsoleNext]_consoleVars =>
        [\A n \in Numbers :
           PrintNumber(n) =>
             LET size == (Cursor(term') - Cursor(term)) % (VGA_WIDTH * VGA_HEIGHT)
             IN  Spelled(Shown(term', Cursor(term), size)) = n]_consoleVars
  BY <1>1
<1> QED
  BY <1>2, AlwaysTogether, PTL DEF ConsoleSpec, NumbersReadBack
===============================================================================
