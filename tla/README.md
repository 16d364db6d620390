# A verification project for schismx86

schismx86 is a small 32-bit x86 kernel. It boots through multiboot, sets up a
heap, a GDT, an IDT and the two PICs, finds an AHCI disk on the PCI bus, keeps a
very simple file system on it (XSFS) and runs one ELF program that talks to the
kernel through one system call.

There is one processor, no scheduler and no lock. What makes the code hard is
elsewhere:

- devices run beside the kernel and answer when they like: the AHCI host bus
  adapter (HBA), the interrupt controllers, the PS/2 keyboard;
- every wait is a loop on a register, without a timeout;
- power may fail between two sector writes of one file-system operation;
- data structures live in raw memory next to what they describe (heap headers,
  file records, a table of open files at an address nobody chose).

## The system and its parts

| Part | Code | State it keeps | Modules | Status |
|---|---|---|---|---|
| Kernel heap | `include/stdlib.c` | free list with headers in the heap | `KernelHeap`, `AbstractHeap`, `KernelHeapProofs`, `NumberFacts` | modelled, proved |
| XSFS | `include/xsfs.c` | records in the last sector, extents | `XSFS`, `AbstractFS`, `XSFSProofs`, `NumberFacts` | modelled, proved |
| ATA commands | `include/schismATA.c` | command table, header, scratch buffers | `ATADisk`, `AbstractDisk`, `ATADiskProofs` | modelled, proved |
| PCI enumeration | `include/schismPCI.c`, `_AHCI_getBDF` | list of records | `PCI`, `AHCIProofs` | modelled, proved |
| AHCI bring-up | `include/schismAHCI.c` | port registers, device list | `AHCIBringUp`, `MCAHCIBringUp`, `AHCIProofs`, on top of `PCI` | modelled, proved |
| Open files, streams | `sys/fcntl.c`, `schismlibc/_stdio.c`, `include/kernel_util.c` | table of files, FILEs | `Streams`, `MCStreams`, `StreamsConsoleProofs` | modelled, proved |
| Interrupts | `include/schism_PIC.c`, `schism_IDT.c`, `ISR_Test.c`, `*Interrupt.s` | IDT, masks, offsets | `Interrupts`, `InputProofs` | modelled, proved |
| PS/2 keyboard | `include/schismPS2.c`, `kernel_getch` | shift state | `Keyboard`, `InputProofs` | partly, proved |
| Console | `include/schismKernelIO.c` | cursor, screen, line being typed | `Console`, `MCConsole`, `StreamsConsoleProofs` | modelled, proved |
| Memory map, multiboot header | `include/kernel_util.c`, `include/schismMultiBoot.c` | header, `kernelMasterRam` | `Boot`, `MCBoot`, `BootProofs` | modelled, proved |
| ELF loader | `include/extractElf.c` | the program in memory | `Boot`, `MCBoot`, `BootProofs` | modelled, proved |
| Boot order | `kernel.c` | | `Boot`, `AHCIBringUp`, `Interrupts`, `Streams` | partly |

Not modelled, and why:

- the GDT (`schismGDT.c` and two stubs): three constant descriptors over all of
  memory, encoded once; there is no state and no order;
- memExplore: an interactive viewer of memory that `kernel_main` does not call
  and that keeps nothing but the address it shows;
- the program library's start-up code and string functions: no state; its
  `stdio.c` is the code of `_stdio.c` again, which `Streams` models;
- port I/O and assembly stubs: single instructions. The devices behind the ports
  are external parts of the modules that talk to them;
- of the keyboard controller, `_PS2_selfTest`, which nothing calls, and the two
  commands to the controller itself;
- of `kernel_main`, the disk calls behind the program's return.

How they interact: GRUB leaves the program's ELF file and the map of the memory
somewhere in memory; `kernel_main` copies the program to its place, chooses the
region of the map it lies in itself, and initialises the heap behind its own
end, over whatever is there. PCI, the IDT, the AHCI driver, the file table and
`readFile` allocate from it, and nothing in the kernel gives anything back. XSFS
reads and writes sectors through the ATA commands, which use the port, the
command list and the scratch buffers that the AHCI bring-up left, on the first
controller of the PCI list. A program reaches `open`, `putchar` and `getchar`
through `int 0xC0`, which enters the kernel behind an interrupt gate, so that a
system call is not interrupted. `getchar` ends in `kernel_getch`, which polls the
keyboard; the keyboard interrupt itself only sets a flag.

What makes each part correct:

- heap: regions in use never overlap each other or a header; a request returns;
  it fails only when there is no room;
- XSFS: extents stay apart and large enough; an update touches one file only,
  also after a power failure; what is read is what was written;
- ATA: the HBA sees complete commands only, and the driver keeps its hands off
  buffers in use; a write reaches its sector, a read returns what is there;
- PCI: the scan's counters come to an end, and the search finds the first
  controller there is;
- AHCI: engines are stopped before a reset and started in order, on memory of
  the kernel; the bring-up ends with a port the commands can use;
- streams: the table and the open files agree; characters pass unchanged;
- interrupts: no vector without a gate is met, only the keyboard gets through,
  and it goes on getting through;
- keyboard: identification and typing do not disturb each other; keys arrive
  once, in order, with the shift that was held;
- console: the screen shows the end of what was printed, whatever mixture of
  wrapping, newlines, scrolling and backspaces it came from; the line handed
  over is the line shown; a number printed reads back as that number;
- boot: the program is in place before the heap is laid over its file; the heap
  is measured against the kernel's own region; the parts of it lie apart.

## The modules

### KernelHeap

A header is three 32-bit words in the heap itself (size, next, status), and
`mem` holds those words, so that a header that is overwritten really is lost.
One iteration of the loop of `kernel_malloc` or `kernel_malloc_align` is one
step: `TakeBlock` (the block fits: size, status, cut, link, return), `NextBlock`
or `OutOfMemory`. `InitKernelMalloc` may fail when the memory map reports too
little RAM. `Fill` is an owner writing into its region; `Free` is `free`, which
writes the status word in front of the pointer.

`KernelSpec` is the heap as the kernel uses it: nothing is freed (the calls of
`free` in `kernel.c` are comments). `Spec` adds `Free`. `AbstractHeap` is what
an allocator promises - regions apart and aligned - and `KeepsPromise` says
that the list implements it, mapping the regions handed out to `owned`.

Sizes and alignments are any numbers, so a header may start at any byte (the
kernel's own `kernel_malloc_align(0xFF, 256)` cuts a block of 511 bytes): `mem`
has a word at every address, and storing one spoils those that share bytes with
it (`Store`). `live`, `headers`, `cuts` and `grants` are history variables.

### XSFS and AbstractFS

`recs` is the sequence of records in front of the end mark, `disk` what the data
sectors hold. A call that writes one sector is one action. `updateFile` is one
action for each sector it writes: `UpdateFile` (write the record back, or
delete the file), `Recreate`, `WriteSector` in a loop, `UpdateDone`; `PowerLoss`
may come between any two of them. The code's quirks are kept: the buffer pointer
never advances, the loop runs to the old end block, the first record of a name
counts whatever its type, a deleted record is taken over when it is large
enough, and the end mark of a full sector is lost - from there on an operation
is not followed (`Terminated`).

`AbstractFS` is a map from names to contents; `ImplementsFiles` says that XSFS
implements it where files are one sector long and of one size.

### ATADisk and AbstractDisk

`FillTable`, `FillScratch`, `FillHeader`, `Issue` and `Return` are the driver, in
the order of the code, for the three commands; the HBA may `Fetch`, `Transfer`,
`Complete` or `Fail` between any two of them. `table` turns to garbage when the
function returns, because it is a local of it. Where the stack puts it is chosen
with the call (`Frames`): nothing in the code aligns it, and an HBA that drops
the low bits of its address (`TableFound`) finds it only when it happens to be
aligned. An IDENTIFY, which the header calls a write, may deliver nothing. The
byte `lba0` is `Lba`. `AbstractDisk` says that a call is carried out once before
it returns.

### PCI and AHCIBringUp

In `PCI`, one round of the three loops of `_PCI_enumerate` is one step (`Absent`,
`Present`), and so is one record of the walk in `_AHCI_getBDF` (`StartSearch`,
`TakeRecord`, `NextRecord`). The address is put together and taken apart as on
the wire (`MakeBusDevFunc`, `Decode`), and the counters wrap as their 8 bits do.
What is plugged in is chosen at the start and external.

`AHCIBringUp` EXTENDS it: `FindController` is the whole of `PCI`, and the rest
of the driver waits for it. Then come `_AHCI_getBaseAddress`,
`_AHCI_initDeviceList` and `_AHCI_configure`, with one action for the code
between two points where the HBA matters; `CommandEngine`, `FISEngine`,
`ErrorsCleared` and `Reset` are the HBA following the registers. What the
firmware left - the ports in any of five states (`Draining` is FR still set
behind an FRE that is clear already), AHCI mode on or off, the registers in the
memory space or not - is chosen when the driver first knows where the registers
are. A register that is not in the memory space reads as ones. Writing the error
register and waiting for it to read zero are two steps (`ClearErrors`,
`PortReady`); a link reports an error when it comes up after the reset, and no
other one while the driver waits - with new errors arriving for ever that loop
would not end.

### Interrupts

Every port write of `PIC_remap`, `IRQ_disable` and `IRQ_enable` is one step, so
that the state machine of the chip behind the port (initialisation words, then
masks) is followed. Devices raise their lines at any moment, masked or not.
A system call enters the vector the code has as a literal (`SystemCallVector`),
and goes through only because its gate was packed for that vector.

### Keyboard

`_PS2_CheckDevice` step by step, then `kernel_getch` byte by byte, against a
user who types all the time and holds shift keys whenever he likes, also while
the keyboard does not scan. `typed` records each key with the shift that was down
and `got` what `kernel_getch` returned; the two are compared. A shift key that
went down before the end of the check is one the kernel has not heard of
(`unseen`): `waitForAck` drops its byte. Until the key repeats or is released,
the keys typed with it may lose their shift, and `KeysInOrder` says so.

### Streams

`open_helper` with its table, `fputc`, `putchar`, `fgetc`, `getchar` and the two
system calls behind them. `kernel_vfs` is never set, so the table lies at address
0: any slot may look allocated at the start and the names begin with whatever was
there (`Leftovers`). The standard streams are used through `putchar` and
`getchar` only, as the programs in the repository do. Nobody checks whether they
could be opened: `UseNull` is a call on a NULL one, which takes the table at
address 0 for a FILE. The model ends there (`nullUsed`), and the properties speak
of what comes before. Names are at most a slot long, as the system call expects
of its caller (`fcntl.c:4`, `67`).

### Console

The screen is `term`, a record of buffer and cursor; one action is one call that
prints (`Printf`, `Writestring`, `PrintNumber`) or one key in `getline` (`Key`,
`Enter`). `kernel_printf`, `terminal_write` and the number functions are
operators on sequences of characters, `terminal_putchar`,
`terminal_handle_newline` and `terminal_handle_backspace` operators on `term`.
`Progress`, `Expanded`, `Edited` and `Value` go through a sequence with a
recursive function, so that they can be reasoned about.
A '\n' that reaches `putchar` as a character is a glyph, as the code has it: the
system call behind `putchar` does not end a line (`kernel_util.c:91`). The
history variable `paper` is a roll on which the same characters are written
without scrolling; the screen is compared with its end. Behind the last cell
`terminal_putchar` goes on at the top (`cornered`), and from then on the screen
promises nothing. `getline` itself is called by memExplore only.

### Boot

One memory holds tags: a cell of the file, an entry of the map, something of the
heap, nothing. What the loader and `initRamData` read they read from there, so a
wrong order is seen as a wrong program, not as a wrong flag. `CopySection` is one
round of the loader's loop, `LookAtRegion` one round of the search of the map;
`UseHeap` stands for everything that allocates between the heap's initialisation
and the program, and writes over any part of the heap. Numbers of 64 bits are
pairs of words, which the code adds up (`Sum`). GRUB and the linker are external:
they leave the file anywhere that is clear of the place for the program
(`BootAssumption`, `FileAssumption`). The map is in the order of the addresses
and its parts do not overlap (`MapAssumption`); a region that ends at the last
address or behind it has no end the code could compare with, and is not looked
for. Each entry of the map has a size word of 20, as GRUB writes it: the code
counts the bytes by that word and its index by six words (`kernel_util.c:17`,
`31`).

## The runs

| Run | States | What it asks |
|---|---|---|
| heap_kernel | 11 153 | the kernel's own use, nothing freed, with and without alignment, with too little RAM |
| heap_free_one_size | 21 089 | `free` in use with requests of one size |
| xsfs_general | 141 199 | two names, duplicates, files of one and two sectors, power failures |
| xsfs_one_size | 7 314 | refinement and reading back, one-sector files |
| ata_disk | 206 344 | driver and HBA interleaved, with device errors, the table on the stack aligned or not |
| ahci_bring_up | 905 025 | up to two functions anywhere on the bus; then up to two ports, every device on them, the five states firmware may leave them in |
| interrupts | 960 | the whole boot of the PICs and the run after it |
| keyboard | 43 188 | a user typing, with shift held or not, before, during and after the check |
| streams | 989 109 | all orders of opening, printing and reading, streams that failed to open included |
| console | 623 259 | prints, strings, numbers and lines in any order |
| program | 14 842 | every size of the kernel's memory, two places for the file, two programs |
| ata_disk_alias | | ends in a counterexample, see below |

### Bounds

- Heap: 30 bytes (42 with `free`) hold two or three blocks with headers, and a
  size of 7 puts the headers at odd addresses: enough for an exact fit, a cut, a
  rest too small to cut, a list that runs past the end, and a block freed between
  two others. The overrun itself is proved for every size.
- XSFS: two names, two sizes, sectors of 2 bytes. Three places in the record
  sector and two records created at most in the general run, four places and
  three records with one size; `MaxRecords` bounds the records ever created.
  A deleted record between two used ones, a shrunk file, a grown file and a
  reused record all occur.
- ATA: two sectors and a byte of two values; the alias run adds a third sector.
  Two places for the table, one aligned and one not. One command in flight is all
  the driver ever has.
- PCI and AHCI: two buses of two devices of two functions, with none, one or two
  functions at any places: the first, the last, on the bus that is left out,
  before and behind one another. Three ports in the register space, at most two
  of them implemented, without a gap.
- Interrupts: the timer, the keyboard and one line of the second PIC stand for
  the rest; each line only matters through its chip and its mask.
- Keyboard: three bytes unread (`MaxQueue`), three keys after the check
  (`MaxTyped`), one shift key.
- Streams: three slots of two bytes, names of one and two bytes, buffers of two
  bytes, positions modulo 4 in place of 2^32.
- Console: a line of input is shorter than the screen, and so is a number
  (assumptions of the module; `getline` itself has no bound, see below). Run on
  a screen of three rows of two cells and a TAB of two blanks, so that
  one call wraps, scrolls and does both at once; `MaxCalls` = 4 calls and
  `MaxKeys` = 5 keys a line, enough to wrap a line over the screen's edge, to
  fill the last cell and to take characters back over the edge of a row.
  Numbers: zero, a negative one ending in zero, one of three digits.
- Boot: 64 cells, words of 128, pages of 3, a heap of 20 cells. The kernel's
  region has each size from 16 to 55: smaller than the heap, as large, larger.
  A map of only two parts that meet where the kernel ends makes the search fail.
  The file lies in the heap's way or behind the program. One program is packed
  without gaps, the other has helloWorld.o's gap.

### Fairness

Weak fairness of the kernel's own steps: there is nothing else for the one
processor to run. Weak fairness of each reaction of a device that the hardware
documentation promises (the HBA following ST and FRE, clearing the reset bit and
the error bits that were written, carrying out a command; the PIC and the
processor delivering a pending request; the keyboard answering a command). In
`Interrupts` the return from a system call is among the kernel's steps. That is
generous: `getchar` polls behind the interrupt gate until a key comes, so
`KeysGetThrough` holds where users type. None for what nobody owes: a device
error, a key press, a power failure, a request for memory.

Deadlock is not checked where the system really stops: at the end of the
bring-up, in the loop on CI after a device error, when the keyboard has nothing
to say, when a request meets a heap that failed to initialise, when all slots
are taken or a NULL stream was used, when the bounds of the console are used up, when the program has
started or there is no heap.

### Disagreements with the repository's own words

The sector number is cut to one byte; `schismATA.c:164` calls it "the sector we
are writing to". `ata_disk_alias` ends in a write that goes to another sector.

Others seen while modelling, without a run of their own. The models do what the
code does in each case they reach; where a property depends on it, its comment
or assumption says so.

- Heap: it is compared with the size of the whole region, not with what is left
  of it behind the kernel (`stdlib.c:12-15`); a block reused for another size is
  cut over the header behind it (`61-69`); an exact fit loses the rest of the
  list (`73`); `free` of an aligned pointer misses the header (`172`).
- XSFS: `updateFile` deletes a file before its larger successor exists, although
  `xsfs.h:80` says a new file is allocated and the current one deleted; deleted
  records still match a name (`xsfs.c:258`), the disk is never found full (`76`),
  the test for a full sector is one off (`86`), longer files get the first block
  of the buffer everywhere (`218`).
- ATA: the command table is a packed local (`schismATA.c:48`, `110`, `190`, `248`)
  at whatever address the stack has, although `schismAHCI.h:166` says it "must be
  128 byte aligned": the HBA drops the low bits and fetches something else.
  `RunsTheIssuedCommand`, `CommandReturns` and `ImplementsDisk` promise nothing
  of such a command but that it is not carried out as another one. IDENTIFY
  reads, but its header says write (`111`); `sectorSize` is set only when the disk
  reports 0 (`129`); `_ATA_readSector` returns the shared scratch buffer (`261`).
- PCI and AHCI: bus 255 is never scanned (`schismPCI.c:77`), the result of
  `_AHCI_getBDF` is ignored (`kernel.c:242`), the registers are read before the
  memory space is enabled (`schismAHCI.c:262`), the number of implemented ports
  is used as their range (`68`), a port with FRE clear and FR set is not waited
  for (`87`), so that the reset may find it running, although `61` says that all
  implemented ports are idle by then: `IdleBeforeReset` has it as an exception.
- Streams: names get no end mark, so a file can be opened twice under one name
  where bytes were left behind it in its slot, although `fcntl.c:29` says this is
  checked; `fputc` never finds its buffer full (`_stdio.c:30`); `kernel_main` goes
  on with streams that could not be opened (`kernel.c:251-265`) and `putchar` and
  `getchar` use them (`_stdio.c:48`, `70`); the check of the names writes a byte
  behind a local array (`fcntl.c:35`), and of a name longer than a slot one byte
  too many is copied (`68`) - neither is in the model.
- Interrupts: exceptions have no gate (`kernel.c:219`).
- Keyboard: a shift key held across the check loses its byte to `waitForAck`
  (`schismPS2.c:40`), and what is typed with it comes without shift; releasing
  one of two shift keys ends shift (`schismKernelIO.c:268`); extended keys are
  two keys (`277`).
- Console: `terminal_putchar` goes on in row 0 instead of scrolling (`63-64`);
  a BACKSPACE in an empty line is stored, and the line has no bound (`476-482`).
- Boot: sections are packed without gaps (`extractElf.h:91`; helloWorld.o links
  its frames at 0x0100021c, they land at 0x0100021b), sections without contents
  get bytes of the file instead of zeros; the words of 64-bit numbers are added
  (`kernel_util.c:20`), programs may be promised part of a page behind the
  region (`57`); `mods_count` is not looked at (`kernel.c:167`).

`hazards` in PROJECT.json lists those that are hard to test, with the properties
that watch them.

## What is proved

### The heap

`KernelHeapProofs`, for every heap address and length, every set of sizes and
every set of alignments (`HeapAssumption` only says that they are numbers, an
alignment and the heap's address not 0), about `KernelSpec`, the last one about
`Spec`:

| Theorem | States |
|---|---|
| `Invariance` | the inductive invariant `IInv` holds always |
| `KernelHeapTypes` | type correctness |
| `HeadersStayIntact` | no region covers a header in use |
| `RegionsInsideBlocks` | every region, aligned or not, lies in the block cut for it |
| `OverrunIsBounded` | the list outgrows the heap by 9 bytes a cut, at most HeapMax / 3 cuts |
| `FailureIsHonest` | a request that returns 0 found no free block large enough anywhere |
| `HeapKeepsPromise` | the list implements `AbstractHeap` |
| `OneSizeKeepsPromise` | so does the list with `free`, where every caller asks for one size and for no alignment |

None of the first six properties is inductive alone. `IInv` adds the shape of the
list without `free`: before initialisation there is no heap (`Down`); afterwards
(`Up`) there is a tail `t` such that every block in use ends at or before `t`,
any two blocks in use are apart, every header belongs to a block in use or is
`t`, and `t` is either the one free block, with an exact account of its size and
the cuts so far, or, once the heap is used up, the end of the last block. That
account is where the overrun comes from: each cut uses 12 bytes and charges 3.
`TakesTail` shows that a block that is taken is always `t`; `CutIInv` and
`WholeIInv` carry the shape over the two outcomes; `AlignUpBounds` is the
arithmetic of the alignment loop. The facts about division that it needs are in
`NumberFacts`, which most of the other proofs use too, with induction over the
numbers and functions defined by recursion: both are stated with sets and
functions, since the library's theorems take operators.

With `free` in use that shape is gone: free blocks lie between blocks in use, and
a block that is taken again gets the end mark as its link, so blocks drop off the
list. `OneSizeKeepsPromise` rests on `FreeIInv(s)` instead, which does not speak
of the list at all but of every header ever written: any two are at least a
header and a payload apart, all but the last one have size `s`, and the last one
lies no further behind the start of the heap than four times what has been taken
from its size. So only the last block is ever cut (`CutFree`), any other one is
taken at its full size (`WholeFree`), and a block somebody owns is never free
(`TakenFree`). `free` is a `Return` of the abstract heap because a region
determines its block (`GrantsDiffer`). The assumption `OneSize(s)` is the point
of the theorem and not a convenience: with two sizes a block that is reused is
cut over the header behind it (`stdlib.c:54-69`), and with an alignment `free`
misses the status word (`172`). The kernel itself does not call `free`.

### The file system

`XSFSProofs`, for every disk, every set of names, every set of sizes, duplicates
allowed or not, and any number of records (`XSFSAssumption` only says that the
numbers are numbers and a sector is not empty), about `Spec`:

| Theorem | States |
|---|---|
| `Invariance` | the inductive invariant `IInv` holds always |
| `TypeCorrect` | type correctness |
| `ExtentsStayApart` | no sector belongs to two records, deleted ones included |
| `SizesFit` | a file's size never exceeds the sectors of its record |
| `WritesStayInside` | no sector write of `updateFile` hits a file of another name |
| `FilesKeepPromise` | XSFS implements `AbstractFS` |
| `ReadsWhatWasWritten` | what was written last under a name is what is read |

`IInv` says that the records are laid out (`Laid`): each extent may be empty,
holds the size recorded with it, and ends before the next one starts. The size
is what makes reuse safe: `createFile` compares sizes in bytes, not extents, so
a record may only be taken over because its own size fits its extent
(`CreateLaid`). An update that shrinks a file records a shorter extent and yet
loops to the old end, so `OpOK` says of the loop in progress, and not of its
record, that no other name has a sector between where it is and where it ends.
`BlocksLeast` shows that the code computes the least number of sectors that
hold a size, and `FirstFound` that a search yields a record it looks for.

The last two assume that every file is one sector long and all have one size
(`OneSectorFiles`), that the disk has a sector for each record
(`SectorForEach`), and that a name is not created twice - each is a quirk of the
code that breaks the promise otherwise (listed below the runs). Their invariant
`FInv` is simple because of that: the i-th record has the i-th data sector and a
used record is the first of its name (`Units`), what a sector holds is what was
stored under its record's name, and an update in progress is about to write the
one sector of its record, or has written it.

### The PCI bus and the AHCI adapter

`AHCIProofs`, for every number of buses, devices and functions and everything
that may be plugged in:

| Theorem | States |
|---|---|
| `SearchFindsFirst` | `FirstController`, of the scan and search alone |
| `BringUpFindsFirst` | the same of the bring-up as a whole |

The invariant is `ListIsScan` - the records are the functions the scan has
passed, each with its class, in the scan's order, none missing - with what the
walk has passed over. The number the address is made of identifies the place
(`Decode` inverts `MakeBusDevFunc`), and `Before` is a total order that
`Advance` steps through without leaving anything out.

The same module, for every number of ports, every value of `PI`, every state the
firmware leaves the ports in and every delay of the HBA:

| Theorem | States |
|---|---|
| `EnginesOnKernelMemory` | `NoStaleMemory`, from the end of the reset on |
| `EnginesInOrder` | `EngineOrder` |
| `ResetWhenIdle` | `IdleBeforeReset`, with its exception - assuming `Gapless`: `PI` counts its ports from 0 without a gap |
| `PortIsReady` | `ReadyForCommands` - assuming `Gapless` |

`MInv` says that a reset belongs to the driver's wait for it, that every port is
quiet when it is over, and that from there on a port that is not quiet has both
its bases in the kernel's memory. `JInv` follows the loop that stops the ports:
those it has passed are idle and stay so, since an engine that rests moves only
when told to; those ahead of it receive FISes only if FRE is set or the firmware
handed them over so (`Handed`), which is why it is enough, but for those, to look
at FRE once the commands have stopped. What the loop has
passed is all of `PI` only if the number of its bits is the highest port's number
plus one: that is what `Gapless` says. With a gap the loop leaves out the last
ports, and the reset finds them as the firmware left them. `RInv`, for the last
theorem, follows what is left of the driver from there: each entry of the device
list belongs to a port that has a device and is the type the signature says, the
port chosen is the first disk of the list, and its engines are told to start only
after its memory is set up. It speaks of an adapter whose registers the firmware
left in the memory space: without that the driver reads ones, which is listed
above.

### The disk commands

`ATADiskProofs`, for every set of sectors, of data, of sizes and of byte counts:

| Theorem | States |
|---|---|
| `IssuedCommandRuns` | what the HBA runs is the complete command of the waiting call, where the stack aligns its table |
| `BuffersNotShared` | the driver writes nothing the HBA may be using |
| `DriverImplementsDisk` | the driver implements `AbstractDisk` - assuming that every sector number fits into `lba0` |

The assumption of the third is what `ata_disk_alias` breaks. `AInv` says how far
the command is built at each place of the driver, and that the HBA rests until
it is issued and is then in one of three states: waiting (or failed), running
with exactly that command, or done with the disk and the buffer as the call
wants them.

### The streams

`StreamsConsoleProofs`, for every size of the table, of a slot and of a buffer,
every set of names and whatever the memory held at the start:

| Theorem | States |
|---|---|
| `TableAndFilesAgree` | each FILE has a slot of its own, which leads back to it and begins with its name, until a NULL stream is used |
| `CharactersUnchanged` | putchar and getchar pass on the character they were given, on streams that could be opened |

`SInv`: each FILE owns its slot, in which its name is written, and standard input
and output are different FILEs at position 0 of their buffers. Names of two slots
share no byte, so opening one file leaves the names of the others alone; and a
character is put and taken at position 0 of one stream's own buffer.

### The interrupts

`InputProofs`, for every set of devices and every state of the masks:

| Theorem | States |
|---|---|
| `NoVectorWithoutGate` | no interrupt, spurious or not, meets a vector without a gate |
| `OnlyKeyboardInterrupts` | only the keyboard's line is delivered |

`IInv` follows what each chip expects: after `k` words of `PIC_remap` it waits
for word `k + 1`, from the third on it has its offset, and after the last one a
write is a mask. Only then do `IRQ_disable` and `IRQ_enable` mean what they say.

### The keyboard

The second half of `InputProofs`, for every set of keys, every number of them and
every moment at which they are typed:

| Theorem | States |
|---|---|
| `IdentityIsRead` | `IdentityRead`: the check reads the identity the keyboard sent |
| `KeysStayInOrder` | `KeysInOrder`: what was got is what was typed first, each key once, with the shift held then, but for a shift key held since before the end of the check - assuming one shift key |

For the first, `KInv` says what is on its way from the keyboard at each place of
the check (`OnTheWay`): once scanning is off no key gets between an answer and
the driver, and the loop in front throws away what was there before. For the
second, `TInv` follows the bytes behind the last acknowledgement: read in
order, starting with the kernel's flag and the number of keys got, they lead to
the shift that is held and known of (`Heard`) and the number of keys typed
(`Linked`). The kernel keeps
one flag for both shift keys (`schismKernelIO.c:268`), so with two of them the
order is right and the shift is not: hence the assumption.

### The console

The second half of `StreamsConsoleProofs`, for every size of the screen, every
text, every key and every number of calls:

| Theorem | States |
|---|---|
| `ScreenShowsLatest` | `ShowsLatest`, until the last cell is filled |
| `LineStaysShown` | `LineIsShown`: meant, stored and shown are one, until a backspace goes astray |
| `PrintedNumbersReadBack` | `NumbersReadBack` |

`Together` is the invariant of the first: the terminal and the roll of paper are
at the same place (`At`) and the screen is the end of the roll (`Rolled`).
`PutRolled`, `NewlineRolled`, `RightRolled` and `BackRolled` carry it over what
each character does, the scroll among them; `WriteRolled` takes it through a
text, character by character. For a line the screen is a ring of cells instead,
since `terminal_putchar` goes from the last to the first: `OnRing` says that the
characters stand from a cell on, around the ring, with the cursor behind them,
and `OnRingPut` and `OnRingBack` add and take one. It asks that a line be shorter
than the screen, or it would run into its own beginning. `Typed` adds that the
line is what the keys mean. For the numbers, `LeastFirstSteps` shows that the
digits are computed at all (a recursion on n \div 10), and `DigitsSpell` that
they read back; `WriteOnRing` that they stand where the cursor was. Inductions
over a text or a number are inductions over a set of numbers (`Induction`,
`FromSmaller`), which first-order provers can do.

### The memory

`BootProofs`, for every map, file, page and heap size that the assumptions allow:

| Theorem | States |
|---|---|
| `PartsLieApart` | `PartsApart` |
| `HeapIsMeasuredAgainstTheKernelsRegion` | `KernelsRegion`: the region found is the one the kernel lies in |
| `ProgramIsInPlace` | `ProgramInPlace`: each section is in its place when the program starts |

The first is arithmetic modulo the word. Its invariant is that `kernelMasterRam`
is zero or made from some base and size whose sum, modulo the word, lies behind
the kernel's end; that it does rules out a wrap, and the heap's having been
accepted makes the region large enough for the subtraction of a page not to go
below zero. `PartsOfARegion` is the arithmetic.

`LInv` is the invariant of the other two. Of the map: it is whole until the
search is over, and the region looked for is not one the search has passed over.
Of the program: the file is whole until it is loaded, the sections in front of
the one being copied are in their places, and from then on all of them stay
there, because the heap is clear of the program's place. `PackedSize` relates the
place of a section to the sizes in front of it, by induction over the list.

### Only model-checked

- Termination of requests and every other liveness property: `RequestReturns`,
  `UpdateEnds`, `CommandReturns`, `BringUpEnds`, `KeysGetThrough`, `KeysArrive`,
  `CheckEnds` (liveness and ENABLED are beyond the proof system).

Every invariant, action property and refinement of the passing runs is stated by
a theorem; `KeepsPromise` by one for each of the two heap runs.

## Plan

Done: the heap, the file system, the disk commands, PCI with the AHCI bring-up,
the interrupts, the keyboard, the streams, the console, and the boot from GRUB to
the program; proofs as above. What is left:

1. The two commands to the keyboard controller, and a keyboard with extended
   keys.
2. The composition of XSFS with the disk commands, so that a power failure may
   come in the midst of a sector.
