---------------------------------- MODULE Boot ----------------------------------
(***************************************************************************)
(* kernel_main from the boot loader's information to the program it        *)
(* starts: _MB_setFlagsAndAddr and _MB_FillHeader, readHeader,             *)
(* getSectionHeaders and createFlatBinaryAtLocation, initRamData,          *)
(* initKernelMalloc, and the call of the entry point.                      *)
(*                                                                         *)
(* All of it reads and writes one memory without an owner: GRUB left the   *)
(* program's ELF file and the map of the memory anywhere in it, the heap   *)
(* is laid over whatever is behind the kernel, and the program goes to a   *)
(* fixed address.  What a cell holds is a tag: a cell of the file, an      *)
(* entry of the map, something of the heap.  A header takes one cell.      *)
(* Where there is no memory, nothing can be kept.                          *)
(*                                                                         *)
(* GRUB and the linker are external.  The kernel has no fallback without a *)
(* heap: it goes on from address 0, and is not followed there.             *)
(***************************************************************************)
EXTENDS Integers, Sequences

CONSTANTS
  Word,              \* 2^32
  PAGE_SIZE,         \* 4096
  KERNEL_HEAP_MAX,   \* 4194000
  heapBottom,        \* where the kernel ends: heapLoc of the linker script
  Overrun,           \* how far beyond its end the heap is used (KernelHeap)
  progLoc,           \* 16777216
  Memory,            \* the addresses that are followed
  Grubs              \* what GRUB may have left

SHT_NULL == 0
SHT_PROGBITS == 1
SHT_SYMTAB == 2
SHT_NOBITS == 8
AVAILABLE == 1       \* the type of usable memory in the map

HeapCells == heapBottom .. heapBottom + KERNEL_HEAP_MAX + Overrun - 1

\* The sections that are copied, and the sum of the sizes of the first n of them.
Loaded(s) == s.type \in {SHT_PROGBITS, SHT_NOBITS}
Behind(offset, s) == offset + s.size
PackedSize(sections) ==
  LET size[n \in 0 .. Len(sections)] ==
        IF n = 0 THEN 0
        ELSE size[n - 1] + (IF Loaded(sections[n]) THEN sections[n].size ELSE 0)
  IN size[Len(sections)]
FileCells(g) == g.modsAddr .. g.modsAddr + g.shoff + Len(g.sections) - 1
MapCells(g) == g.mmapAddr .. g.mmapAddr + Len(g.mmap) - 1

\* The memory there is.
Installed(g) ==
  UNION {region.base[1] .. region.base[1] + region.length[1] - 1 :
           region \in {g.mmap[k] : k \in {n \in DOMAIN g.mmap : /\ g.mmap[n].type = AVAILABLE
                                                             /\ g.mmap[n].base[2] = 0}}}

\* GRUB leaves the file and the map in memory, apart and clear of the place for the
\* program; the heap is clear of that place, too.
ASSUME BootAssumption ==
  /\ {Word, PAGE_SIZE, KERNEL_HEAP_MAX, heapBottom} \subseteq Nat \ {0}
  /\ KERNEL_HEAP_MAX >= 2 * PAGE_SIZE
  /\ HeapCells \subseteq Memory
  /\ \A g \in Grubs :
       LET program == progLoc .. progLoc + PackedSize(g.sections) - 1
       IN /\ g.mmap \in Seq([base : Nat \X Nat, length : Nat \X Nat, type : Nat])
          /\ program \subseteq Memory /\ program \cap HeapCells = {}
          /\ FileCells(g) \cup MapCells(g) \subseteq Memory \cap Installed(g)
          /\ FileCells(g) \cap program = {}
          /\ MapCells(g) \cap (FileCells(g) \cup program) = {}

\* The file is an ELF file that holds what its headers say.
ASSUME FileAssumption ==
  /\ {progLoc, Overrun} \subseteq Nat
  /\ \A g \in Grubs :
       /\ {g.modsAddr, g.shoff, g.mmapAddr} \subseteq Nat
       /\ g.sections \in Seq([type : Nat, addr : Nat, offset : Nat, size : Nat])
       /\ \A k \in DOMAIN g.sections :
            LET s == g.sections[k]
            IN  s.type = SHT_PROGBITS => s.offset + s.size <= g.shoff + Len(g.sections)

\* The map is sorted and no two regions overlap.  Its numbers have two words.
Number(words) == words[1] + words[2] * Word

ASSUME MapAssumption ==
  \A g \in Grubs : \A k \in DOMAIN g.mmap :
    /\ {g.mmap[k].base[1], g.mmap[k].length[1]} \subseteq 0 .. Word - 1
    /\ \A n \in 1 .. k - 1 :
         Number(g.mmap[n].base) + Number(g.mmap[n].length) <= Number(g.mmap[k].base)

VARIABLES
  grub,        \* the file and the map GRUB left, and where
  mem,         \* what is in memory
  mbh,         \* the multiboot header, copied
  executable,  \* the ELF header, copied
  step,        \* how far kernel_main is
  i,           \* the index of the loop it is in
  progOffset,  \* how much of the program is in place
  ram,         \* kernelMasterRam
  heapStart    \* of masterHeap

vars == <<grub, mem, mbh, executable, step, i, progOffset, ram, heapStart>>

-------------------------------------------------------------------------------
\* The same operators with a plausible slip: the heap set up before the program
\* is loaded, a region taken by its start only, a page of the TSS not taken off
\* the rest.
SlipAfter(s) == CASE s = "elf" -> "map" [] s = "map" -> "heap"
                  [] s = "heap" -> "load" [] s = "load" -> "launch"
SlipInside(base, end, type) == heapBottom > base /\ type = AVAILABLE
SlipUserspaceSize(size) == size \div PAGE_SIZE - (size \div 4) \div PAGE_SIZE

-------------------------------------------------------------------------------
\* kernel_main's order.
After(s) == CASE s = "elf" -> "load" [] s = "load" -> "map"
              [] s = "map" -> "heap" [] s = "heap" -> "launch"

GoOn == step' = After(step) /\ i' = 1

\* What the memory holds after f is written to the cells of its domain.
Written(f) ==
  LET kept == DOMAIN f \cap Installed(grub)
  IN [a \in Memory |-> IF a \in kept THEN f[a] ELSE mem[a]]

\* What is read from memory: the header of a section, an entry of the map.  What
\* was written over is taken for nothing to load and no region.
Section(k) ==
  IF mem[mbh.modsAddr + executable.e_shoff + k - 1] = <<"file", executable.e_shoff + k - 1>>
    THEN grub.sections[k] ELSE [type |-> SHT_NULL, addr |-> 0, offset |-> 0, size |-> 0]

Region(k) ==
  IF mem[mbh.mmapAddr + k - 1] = <<"map", k>>
    THEN grub.mmap[k] ELSE [base |-> <<0, 0>>, length |-> <<0, 0>>, type |-> 0]

NoRam == [start |-> 0, size |-> 0, kernelspaceSize |-> 0, TSSStart |-> 0,
          userspaceStart |-> 0, userspaceSize |-> 0]

Init ==
  /\ grub \in Grubs
  /\ mem = [a \in Memory |->
              IF a \notin Installed(grub) THEN <<"nothing", 0>>
              ELSE IF a \in FileCells(grub) THEN <<"file", a - grub.modsAddr>>
              ELSE IF a \in MapCells(grub) THEN <<"map", a - grub.mmapAddr + 1>>
              ELSE <<"free", 0>>]
  /\ mbh = [modsAddr |-> 0, mmapAddr |-> 0, mmapLength |-> 0]
  /\ executable = [e_entry |-> 0, e_shoff |-> 0, e_shnum |-> 0]
  /\ step = "multiboot"
  /\ i = 1
  /\ progOffset = 0
  /\ ram = NoRam
  /\ heapStart = 0

\* _MB_setFlagsAndAddr, _MB_FillHeader.
FillHeader ==
  /\ step = "multiboot"
  /\ mbh' = [modsAddr |-> grub.modsAddr, mmapAddr |-> grub.mmapAddr,
             mmapLength |-> Len(grub.mmap)]
  /\ step' = "elf"
  /\ UNCHANGED <<grub, mem, executable, i, progOffset, ram, heapStart>>

\* readHeader, getSectionHeaders: the header is copied, the section headers stay.
ReadHeader ==
  /\ step = "elf"
  /\ executable' = [e_entry |-> grub.entry, e_shoff |-> grub.shoff,
                    e_shnum |-> Len(grub.sections)]
  /\ GoOn
  /\ UNCHANGED <<grub, mem, mbh, progOffset, ram, heapStart>>

\* createFlatBinaryAtLocation: one section behind the other, wherever it is linked.
CopySection ==
  /\ step = "load"
  /\ i <= executable.e_shnum
  /\ LET s == Section(i)
         to == progLoc + progOffset
         from == mbh.modsAddr + s.offset
     IN IF Loaded(s)
          THEN /\ mem' = Written([a \in to .. to + s.size - 1 |-> mem[from + (a - to)]])
               /\ progOffset' = Behind(progOffset, s)
          ELSE UNCHANGED <<mem, progOffset>>
  /\ i' = i + 1
  /\ UNCHANGED <<grub, mbh, executable, step, ram, heapStart>>

ProgramLoaded ==
  /\ step = "load"
  /\ i > executable.e_shnum
  /\ GoOn
  /\ UNCHANGED <<grub, mem, mbh, executable, progOffset, ram, heapStart>>

\* initRamData: the high and the low word of a number are added.
Sum(words) == (words[1] + words[2]) % Word

Inside(base, end, type) == heapBottom > base /\ heapBottom < end /\ type = AVAILABLE

\* A quarter for the kernel, a page for the TSS, the pages left over for programs.
UserspaceSize(size) == size \div PAGE_SIZE - (size \div 4) \div PAGE_SIZE - 1

RamData(base, size) ==
  [start |-> base, size |-> size,
   kernelspaceSize |-> (size \div 4) \div PAGE_SIZE,
   TSSStart |-> (base + size \div 4) % Word,
   userspaceStart |-> (base + size \div 4 + PAGE_SIZE) % Word,
   userspaceSize |-> UserspaceSize(size) % Word]

\* Entries are taken to be as GRUB writes them, with a size word of 20: the code counts
\* the bytes by that word and the words by six (kernel_util.c:17, :31).
LookAtRegion ==
  /\ step = "map"
  /\ i <= mbh.mmapLength
  /\ LET region == Region(i)
         base == Sum(region.base)
         size == Sum(region.length)
     IN IF Inside(base, (base + size) % Word, region.type)
          THEN /\ ram' = RamData(base, size)
               /\ GoOn
          ELSE /\ i' = i + 1
               /\ UNCHANGED <<ram, step>>
  /\ UNCHANGED <<grub, mem, mbh, executable, progOffset, heapStart>>

\* The map is over: none of its regions holds the kernel.
NoRegion ==
  /\ step = "map"
  /\ i > mbh.mmapLength
  /\ GoOn
  /\ UNCHANGED <<grub, mem, mbh, executable, progOffset, ram, heapStart>>

\* initKernelMalloc: the first header goes to the start of the heap.
Fits(size) == KERNEL_HEAP_MAX <= size

InitHeap ==
  /\ step = "heap"
  /\ Fits(ram.size)
  /\ heapStart' = heapBottom
  /\ mem' = Written([a \in {heapBottom} |-> <<"heap", 0>>])
  /\ GoOn
  /\ UNCHANGED <<grub, mbh, executable, progOffset, ram>>

HeapTooBig ==
  /\ step = "heap"
  /\ ~Fits(ram.size)
  /\ step' = "no heap"
  /\ UNCHANGED <<grub, mem, mbh, executable, i, progOffset, ram, heapStart>>

\* The GDT, the IDT, the bus, the disk and the streams: blocks are given out from
\* the bottom up, and their owners write to them.
UseHeap ==
  /\ heapStart # 0
  /\ step # "running"
  /\ \E last \in HeapCells :
       mem' = Written([a \in heapBottom .. last |-> <<"heap", 0>>])
  /\ UNCHANGED <<grub, mbh, executable, step, i, progOffset, ram, heapStart>>

\* The call of e_entry.
Launch ==
  /\ step = "launch"
  /\ step' = "running"
  /\ UNCHANGED <<grub, mem, mbh, executable, i, progOffset, ram, heapStart>>

Next == \/ FillHeader \/ ReadHeader \/ CopySection \/ ProgramLoaded
        \/ LookAtRegion \/ NoRegion \/ InitHeap \/ HeapTooBig \/ UseHeap \/ Launch

Spec == Init /\ [][Next]_vars

-------------------------------------------------------------------------------
\* The k-th section is linked right behind the loaded ones in front of it.
NoGapBefore(sections, k) ==
  \A n \in 1 .. k : Loaded(sections[n]) =>
    sections[n].addr = progLoc + PackedSize(SubSeq(sections, 1, n - 1))

\* Where the program starts to run, its code and data are what the file has, at
\* the addresses they are linked to, up to the first gap between two sections:
\* the loader closes gaps.  The heap may lie over the file by then.  Nothing looks
\* whether there is memory that far up.
ProgramInPlace ==
  step = "running" =>
    \A k \in DOMAIN grub.sections :
      LET s == grub.sections[k]
      IN /\ s.type = SHT_PROGBITS
         /\ NoGapBefore(grub.sections, k)
         /\ s.addr .. s.addr + s.size - 1 \subseteq Installed(grub)
         => \A n \in 0 .. s.size - 1 : mem[s.addr + n] = <<"file", s.offset + n>>

\* An available region below Word that the kernel ends in the midst of.
Usable(region) ==
  /\ region.type = AVAILABLE
  /\ region.base[2] = 0 /\ region.length[2] = 0
  /\ region.base[1] < heapBottom /\ heapBottom < region.base[1] + region.length[1]
  /\ region.base[1] + region.length[1] < Word

\* The memory the heap is measured against is the region the kernel lies in, with
\* its true start and size, also where the words of a region beyond 4 GiB add up
\* to one that seems to hold the kernel: the map is sorted.
KernelsRegion ==
  step \in {"heap", "no heap", "launch", "running"} =>
    \A k \in DOMAIN grub.mmap : Usable(grub.mmap[k]) =>
      ram.start = grub.mmap[k].base[1] /\ ram.size = grub.mmap[k].length[1]

\* The parts the memory is divided into lie one behind the other, and end less
\* than a page behind the region: each size is rounded for itself.
PartsApart ==
  heapStart # 0 =>
    /\ ram.start + ram.kernelspaceSize * PAGE_SIZE <= ram.TSSStart
    /\ ram.TSSStart + PAGE_SIZE <= ram.userspaceStart
    /\ ram.userspaceStart + ram.userspaceSize * PAGE_SIZE < ram.start + ram.size + PAGE_SIZE
===============================================================================
