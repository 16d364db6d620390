-------------------------------- MODULE Streams --------------------------------
(***************************************************************************)
(* Open files: the open system call and its table of files (sys/fcntl.c),  *)
(* the streams of the C library on top (schismlibc/_stdio.c), and the two  *)
(* system calls that print and read a character (include/kernel_util.c).   *)
(*                                                                         *)
(* The table lies where the pointer kernel_vfs points, which is never set: *)
(* at address zero, in memory the firmware used.  So any of its slots may  *)
(* look allocated from the start, and its names, one array of bytes, may   *)
(* begin with whatever was left there.                                     *)
(*                                                                         *)
(* A call runs to its end before the next one: a system call enters        *)
(* through an interrupt gate.  The mode of a file is stored and never      *)
(* read; it is left out.  Bytes written or read behind the buffer of a     *)
(* stream are in memory the model does not have, and so is the byte behind *)
(* a local array that every look at a stored name clears (fcntl.c:35).     *)
(*                                                                         *)
(* Nobody looks whether a standard stream could be opened.  putchar and    *)
(* getchar take a NULL one for a FILE at address zero, where the table is: *)
(* what that does to the table, and to the memory it then points to, is    *)
(* not followed; the model ends there, with the flag nullUsed set.         *)
(***************************************************************************)
EXTENDS Integers, Sequences, SequencesExt

CONSTANTS
  FOPEN_MAX,     \* slots of the table: 1024
  NAMESIZE,      \* bytes for a name: 12
  BUFSIZ,        \* bytes of a stream's buffer: 512
  Modulus,       \* values of filePos, an unsigned number: 2^32
  Chars,         \* characters, 0 excluded
  Names,         \* names passed to fopen: nonempty, at most NAMESIZE long, as the
                 \* system call expects (fcntl.c:4, :67); of a longer one the byte
                 \* behind the slot would be written too (fcntl.c:68)
  Leftovers,     \* what the bytes of the names may be at the start
  KSTDIN, KSTDOUT, KSTDERR   \* the names of the three standard streams

ASSUME StreamsAssumption ==
  /\ FOPEN_MAX \in Nat \ {0}
  /\ NAMESIZE \in Nat \ {0}
  /\ BUFSIZ \in Nat \ {0}
  /\ Modulus \in Nat /\ Modulus > BUFSIZ + 1
  /\ Chars \subseteq Nat \ {0}
  /\ \A l \in Leftovers : l \in [0 .. (NAMESIZE * FOPEN_MAX - 1) -> Nat]
  /\ {KSTDIN, KSTDOUT, KSTDERR} \subseteq Names
  /\ \A n \in Names : n \in Seq(Nat \ {0}) /\ Len(n) \in 1 .. NAMESIZE

FDs == 0 .. (FOPEN_MAX - 1)
NULL == 0

VARIABLES
  allocated,   \* kernel_vfs->allocated: which slots are taken
  names,       \* kernel_vfs->names: the bytes of all the names
  files,       \* kernel_vfs->files: slot -> FILE
  file,        \* the FILEs there are, by the order they were opened in
  std,         \* the streams kstdin, kstdout, kstderr, NULL before and without
  boot,        \* which of the three is opened next
  nullUsed,    \* history: whether a NULL stream was used
  last         \* history: what the last putchar or getchar was given and gave

vars == <<allocated, names, files, file, std, boot, nullUsed, last>>

-------------------------------------------------------------------------------
Blank == [fd |-> 0, filePos |-> 0, bufferSize |-> 0, eof |-> FALSE, ferr |-> FALSE,
          buf |-> [i \in 0 .. (BUFSIZ - 1) |-> 0], name |-> <<>>]

Init == /\ allocated \in [FDs -> BOOLEAN]
        /\ names \in Leftovers
        /\ files = [fd \in FDs |-> NULL]
        /\ file = <<>>
        /\ std = [in |-> NULL, out |-> NULL, err |-> NULL]
        /\ boot = "in"
        /\ nullUsed = FALSE
        /\ last = [given |-> 0, gave |-> 0]

\* open_helper.  The first free slot; the name in a slot ends at a zero or where
\* the slot ends.
Free == {fd \in FDs : ~allocated[fd]}
FirstFree == CHOOSE fd \in Free : \A f \in Free : fd <= f

\* The same operators with a plausible slip: slots that overlap, the byte behind
\* the last one printed.
SlipSlot(fd) == (NAMESIZE - 1) * fd
SlipPrinted(f) == f.buf[f.filePos]

Slot(fd) == NAMESIZE * fd
SlotBytes(fd) == [i \in 1 .. NAMESIZE |-> names[Slot(fd) + i - 1]]
StoredName(fd) ==
  LET bytes == SlotBytes(fd)
      ends == {i \in 1 .. NAMESIZE : bytes[i] = 0}
      length == IF ends = {} THEN NAMESIZE
                ELSE (CHOOSE i \in ends : \A j \in ends : i <= j) - 1
  IN  SubSeq(bytes, 1, length)

Taken(n) == \E fd \in FDs : StoredName(fd) = n

\* Only the bytes of the name are written into the slot, no zero behind them.
NamesWith(fd, n) ==
  [i \in DOMAIN names |->
     IF i - Slot(fd) \in 0 .. (Len(n) - 1) THEN n[i - Slot(fd) + 1] ELSE names[i]]

Marked(fd) == [allocated EXCEPT ![fd] = TRUE]

\* The call that succeeds: the FILE it returns is the one opened last.
Open(n) ==
  /\ Free # {}
  /\ ~Taken(n)
  /\ file' = Append(file, [Blank EXCEPT !.fd = FirstFree, !.name = n])
  /\ allocated' = Marked(FirstFree)
  /\ files' = [files EXCEPT ![FirstFree] = Len(file) + 1]
  /\ names' = NamesWith(FirstFree, n)

\* No slot, a name that is there already, or no memory, for the FILE or for its
\* buffer (the FILE is then lost).
OpenFails == UNCHANGED <<allocated, names, files, file>>

\* kernel_main opens the three standard streams and does not look at the result.
BootName == CASE boot = "in" -> KSTDIN [] boot = "out" -> KSTDOUT [] boot = "err" -> KSTDERR
AfterBoot == CASE boot = "in" -> "out" [] boot = "out" -> "err" [] boot = "err" -> "done"

OpenStandard ==
  /\ boot # "done"
  /\ \/ Open(BootName) /\ std' = [std EXCEPT ![boot] = Len(file')]
     \/ OpenFails /\ UNCHANGED std
  /\ boot' = AfterBoot
  /\ UNCHANGED <<nullUsed, last>>

\* A program opens a file.
Fopen(n) ==
  /\ boot = "done"
  /\ Open(n)
  /\ UNCHANGED <<std, boot, nullUsed, last>>

-------------------------------------------------------------------------------
\* The buffer is thought full at bufferSize - 1, an unsigned number.
Full(f) == f.filePos = (f.bufferSize - 1) % Modulus
Stored(f, at, c) ==
  IF at \in DOMAIN f.buf THEN [f EXCEPT !.buf[at] = c] ELSE f

AfterFputc(f, c) ==
  IF Full(f) THEN [f EXCEPT !.eof = TRUE, !.ferr = TRUE]
  ELSE [Stored(f, f.filePos, c) EXCEPT !.filePos = (f.filePos + 1) % Modulus]

Fputc(s, c) ==
  /\ file' = [file EXCEPT ![s] = AfterFputc(@, c)]
  /\ UNCHANGED <<allocated, names, files, std, boot, nullUsed, last>>

\* A standard stream that could not be opened is used all the same.
UseNull(s) ==
  /\ s = NULL
  /\ nullUsed' = TRUE
  /\ UNCHANGED <<allocated, names, files, file, std, boot, last>>

\* syscall_putchar prints the byte before the position and moves it back.
Printed(f) == f.buf[f.filePos - 1]
AfterPrint(f) == [f EXCEPT !.filePos = (f.filePos - 1) % Modulus]

PrintOn(s, c) ==
  /\ s # NULL
  /\ LET f == AfterFputc(file[s], c)
     IN  \/ /\ Full(file[s])
            /\ file' = [file EXCEPT ![s] = f]
            /\ UNCHANGED last
         \/ /\ ~Full(file[s])
            /\ file' = [file EXCEPT ![s] = AfterPrint(f)]
            /\ last' = [given |-> c, gave |-> Printed(f)]
  /\ UNCHANGED <<allocated, names, files, std, boot, nullUsed>>

Putchar(c) == PrintOn(std.out, c) \/ UseNull(std.out)

\* The position moves on past the byte that was read.
Fgetc(s) ==
  /\ file[s].filePos # 0
  /\ file' = [file EXCEPT ![s].filePos = (@ + 1) % Modulus]
  /\ UNCHANGED <<allocated, names, files, std, boot, nullUsed, last>>

\* syscall_getchar stores the key at the position; getchar then takes it.
AfterGetchar(f, key) ==
  [Stored(f, f.filePos, key) EXCEPT
     !.filePos = IF f.filePos > 0 THEN f.filePos - 1 ELSE 0]

ReadFrom(s, key) ==
  /\ s # NULL
  /\ ~Full(file[s])
  /\ LET f == file[s]
     IN  /\ file' = [file EXCEPT ![s] = AfterGetchar(f, key)]
         /\ last' = [given |-> key, gave |-> Stored(f, f.filePos, key).buf[f.filePos]]
  /\ UNCHANGED <<allocated, names, files, std, boot, nullUsed>>

Getchar(key) == ReadFrom(std.in, key) \/ UseNull(std.in)

\* The standard streams are used through putchar and getchar, other files
\* through fputc and fgetc, by a program that looks at what fopen returned.
Others == DOMAIN file \ {std.in, std.out}

Next == /\ ~nullUsed
        /\ \/ OpenStandard
           \/ \E n \in Names : Fopen(n)
           \/ /\ boot = "done"
              /\ \/ \E s \in Others : Fgetc(s) \/ \E c \in Chars : Fputc(s, c)
                 \/ \E c \in Chars : Putchar(c)
                 \/ \E key \in Chars \cup {0} : Getchar(key)

Spec == Init /\ [][Next]_vars

-------------------------------------------------------------------------------
\* The table agrees with the FILEs: each FILE has a slot of its own, marked as
\* taken, that leads back to it and still begins with its name, whatever was
\* opened next to it since - until a NULL stream is used.
TableAgrees ==
  ~nullUsed => \A i \in DOMAIN file :
    LET fd == file[i].fd
    IN  /\ allocated[fd]
        /\ files[fd] = i
        /\ IsPrefix(file[i].name, StoredName(fd))

\* putchar prints the character it was given, getchar returns the key that was
\* pressed, however often they are called and whatever happens to other files -
\* until a NULL stream is used.
CharactersPassThrough == ~nullUsed => last.gave = last.given
===============================================================================
