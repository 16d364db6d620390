------------------------------- MODULE BootProofs -------------------------------
(***************************************************************************)
(* The memory at boot, for everything GRUB may leave: the parts the kernel *)
(* divides its region into, in arithmetic modulo Word; that the region is  *)
(* the one the kernel lies in; and that the program it starts is what the  *)
(* file has, though the loader, the map and the heap share the memory.     *)
(***************************************************************************)
EXTENDS Boot, NumberFacts, TLAPS

-------------------------------------------------------------------------------
\* A quarter of a number, and the whole pages in it.
LEMMA Pages ==
  ASSUME NEW n \in Nat
  PROVE  /\ n \div PAGE_SIZE \in Nat
         /\ (n \div PAGE_SIZE) * PAGE_SIZE <= n
         /\ n < (n \div PAGE_SIZE) * PAGE_SIZE + PAGE_SIZE
<1>1. PAGE_SIZE \in Nat \ {0}
  BY BootAssumption
<1> DEFINE q == n \div PAGE_SIZE
<1>2. /\ q \in Nat
      /\ n = PAGE_SIZE * q + (n % PAGE_SIZE)
      /\ n % PAGE_SIZE \in 0 .. PAGE_SIZE - 1
  BY <1>1, DivMod
<1> HIDE DEF q
<1>3. PAGE_SIZE * q = q * PAGE_SIZE /\ q * PAGE_SIZE \in Nat
  BY <1>1, <1>2
<1> QED
  BY <1>1, <1>2, <1>3 DEF q

\* The parts of a region that ends below Word and has room for two pages.
LEMMA PartsOfARegion ==
  ASSUME NEW base \in Nat, NEW size \in Nat,
         base + size < Word, size >= 2 * PAGE_SIZE
  PROVE  LET parts == RamData(base, size)
         IN /\ parts.start + parts.kernelspaceSize * PAGE_SIZE <= parts.TSSStart
            /\ parts.TSSStart + PAGE_SIZE <= parts.userspaceStart
            /\ parts.userspaceStart + parts.userspaceSize * PAGE_SIZE
                 < parts.start + parts.size + PAGE_SIZE
<1> DEFINE quarter == size \div 4
<1> DEFINE all == size \div PAGE_SIZE
<1> DEFINE kernel == quarter \div PAGE_SIZE
<1> DEFINE user == all - kernel - 1
<1>1. PAGE_SIZE \in Nat \ {0} /\ Word \in Nat \ {0}
  BY BootAssumption
<1>2. /\ quarter \in Nat /\ 4 * quarter <= size /\ size < 4 * quarter + 4
  OBVIOUS
<1>3. /\ all \in Nat /\ all * PAGE_SIZE <= size /\ size < all * PAGE_SIZE + PAGE_SIZE
  BY Pages
<1>4. /\ kernel \in Nat /\ kernel * PAGE_SIZE <= quarter
      /\ quarter < kernel * PAGE_SIZE + PAGE_SIZE
  BY <1>2, Pages
<1>5. RamData(base, size) =
        [start |-> base, size |-> size, kernelspaceSize |-> kernel,
         TSSStart |-> (base + quarter) % Word,
         userspaceStart |-> (base + quarter + PAGE_SIZE) % Word,
         userspaceSize |-> user % Word]
  BY DEF RamData, UserspaceSize
<1> HIDE DEF quarter, all, kernel
<1>6. (base + quarter) % Word = base + quarter
  BY <1>1, <1>2
<1>7. (base + quarter + PAGE_SIZE) % Word = base + quarter + PAGE_SIZE
  BY <1>1, <1>2
<1>8. user \in Nat /\ user < Word
  <2>1. all >= 2
    <3>1. SUFFICES ASSUME all <= 1 PROVE FALSE
      BY <1>3
    <3>2. all * PAGE_SIZE <= PAGE_SIZE
      BY <1>1, <1>3, <3>1
    <3> QED
      BY <1>1, <1>3, <3>2
  <2>2. kernel < all
    <3>1. SUFFICES ASSUME kernel >= all PROVE FALSE
      BY <1>3, <1>4
    <3>2. kernel * PAGE_SIZE >= all * PAGE_SIZE
      BY <1>1, <1>3, <1>4, <3>1
    <3>3. kernel * PAGE_SIZE \in Nat /\ all * PAGE_SIZE \in Nat
      BY <1>1, <1>3, <1>4
    <3> QED
      BY <1>1, <1>2, <1>3, <1>4, <3>2, <3>3
  <2>3. all <= size
    <3>1. all <= all * PAGE_SIZE /\ all * PAGE_SIZE \in Nat
      BY <1>1, <1>3
    <3> QED
      BY <1>3, <3>1
  <2> QED
    BY <1>1, <1>3, <1>4, <2>2, <2>3
<1>9. user % Word = user
  BY <1>1, <1>8
<1>10. /\ kernel * PAGE_SIZE \in Nat /\ all * PAGE_SIZE \in Nat
       /\ user * PAGE_SIZE = all * PAGE_SIZE - kernel * PAGE_SIZE - PAGE_SIZE
  BY <1>1, <1>3, <1>4
<1> HIDE DEF user
<1> QED
  BY <1>1, <1>2, <1>3, <1>4, <1>5, <1>6, <1>7, <1>9, <1>10

-------------------------------------------------------------------------------
\* The inductive invariant: the parts are those of a region the kernel ends in,
\* and there is a heap only if it is no larger than that region.
Known ==
  /\ grub \in Grubs
  /\ i \in Nat \ {0}
  /\ mbh.mmapLength \in {0, Len(grub.mmap)}

OfARegion ==
  \E base, size \in 0 .. Word - 1 :
    /\ Inside(base, (base + size) % Word, AVAILABLE)
    /\ ram = RamData(base, size)

HeapFits ==
  heapStart # 0 => /\ Fits(ram.size)
                   /\ step \in {"launch", "running"}

BInv == Known /\ (ram = NoRam \/ OfARegion) /\ HeapFits

\* The invariant implies the property.
LEMMA BInvApart == BInv => PartsApart
<1> SUFFICES ASSUME BInv, heapStart # 0 PROVE PartsApart
  BY DEF PartsApart
<1>1. /\ PAGE_SIZE \in Nat \ {0} /\ Word \in Nat \ {0} /\ heapBottom \in Nat
      /\ KERNEL_HEAP_MAX \in Nat /\ KERNEL_HEAP_MAX >= 2 * PAGE_SIZE
  BY BootAssumption
<1>2. KERNEL_HEAP_MAX <= ram.size
  BY DEF BInv, HeapFits, Fits
<1>3. ram # NoRam
  BY <1>1, <1>2 DEF NoRam
<1>4. PICK base, size \in 0 .. Word - 1 :
        /\ Inside(base, (base + size) % Word, AVAILABLE)
        /\ ram = RamData(base, size)
  BY <1>3 DEF BInv, OfARegion
<1>5. ram.size = size
  BY <1>4 DEF RamData
<1>6. base + size < Word
  <2>1. SUFFICES ASSUME base + size >= Word PROVE FALSE
    BY <1>1
  <2>2. (base + size) % Word = base + size - Word
    BY <1>1, <2>1
  <2> QED
    BY <1>1, <1>4, <2>2 DEF Inside
<1> QED
  BY <1>1, <1>2, <1>4, <1>5, <1>6, PartsOfARegion DEF PartsApart

\* The invariant holds at first.
LEMMA BInvInit == Init => BInv
BY DEF Init, BInv, Known, HeapFits

\* What is taken for a region is a start and a size below Word.
LEMMA RegionTaken ==
  ASSUME BInv, LookAtRegion, ram' # ram
  PROVE  OfARegion' /\ step' = "heap"
<1> DEFINE base == Sum(Region(i).base)
<1> DEFINE size == Sum(Region(i).length)
<1>1. /\ Inside(base, (base + size) % Word, Region(i).type)
      /\ ram' = RamData(base, size)
      /\ step' = "heap"
  BY DEF LookAtRegion, GoOn, After
<1>2. Region(i) \in [base : Nat \X Nat, length : Nat \X Nat, type : Nat]
  <2>1. grub.mmap \in Seq([base : Nat \X Nat, length : Nat \X Nat, type : Nat])
    BY BootAssumption DEF BInv, Known
  <2>2. i \in DOMAIN grub.mmap
    BY <2>1 DEF BInv, Known, LookAtRegion
  <2>3. grub.mmap[i] \in [base : Nat \X Nat, length : Nat \X Nat, type : Nat]
    <3> DEFINE R == [base : Nat \X Nat, length : Nat \X Nat, type : Nat]
    <3>1. grub.mmap \in Seq(R)
      BY <2>1
    <3> HIDE DEF R
    <3>2. grub.mmap[i] \in R
      BY <2>2, <3>1
    <3> QED
      BY <3>2 DEF R
  <2> QED
    BY <2>3 DEF Region
<1>3. \A words \in Nat \X Nat : Sum(words) \in 0 .. Word - 1
  <2>1. Word \in Nat \ {0}
    BY BootAssumption
  <2> QED
    BY <2>1 DEF Sum
<1>4. base \in 0 .. Word - 1 /\ size \in 0 .. Word - 1
  BY <1>2, <1>3
<1>5. Inside(base, (base + size) % Word, AVAILABLE)
  BY <1>1 DEF Inside
<1> HIDE DEF base, size
<1> QED
  BY <1>1, <1>4, <1>5 DEF OfARegion, Inside

\* The invariant is kept by every step.
LEMMA BInvNext == BInv /\ [Next]_vars => BInv'
<1> SUFFICES ASSUME BInv, [Next]_vars PROVE BInv'
  OBVIOUS
<1> USE DEF BInv, Known
<1>1. CASE FillHeader
  BY <1>1 DEF FillHeader, OfARegion, HeapFits
<1>2. CASE ReadHeader
  BY <1>2 DEF ReadHeader, OfARegion, HeapFits, GoOn
<1>3. CASE CopySection
  BY <1>3 DEF CopySection, OfARegion, HeapFits
<1>4. CASE ProgramLoaded
  BY <1>4 DEF ProgramLoaded, OfARegion, HeapFits, GoOn
<1>5. CASE LookAtRegion
  <2>1. heapStart = 0 /\ UNCHANGED <<grub, mbh, heapStart>>
    BY <1>5 DEF LookAtRegion, HeapFits
  <2>2. i' \in Nat \ {0}
    BY <1>5 DEF LookAtRegion, GoOn
  <2>3. ram' = NoRam \/ OfARegion'
    <3>1. CASE ram' = ram
      BY <3>1 DEF OfARegion
    <3>2. CASE ram' # ram
      BY <1>5, <3>2, RegionTaken
    <3> QED
      BY <3>1, <3>2
  <2> QED
    BY <2>1, <2>2, <2>3 DEF HeapFits
<1>6. CASE NoRegion
  BY <1>6 DEF NoRegion, OfARegion, HeapFits, GoOn
<1>7. CASE InitHeap
  BY <1>7 DEF InitHeap, OfARegion, HeapFits, GoOn, After
<1>8. CASE HeapTooBig
  BY <1>8 DEF HeapTooBig, OfARegion, HeapFits
<1>9. CASE UseHeap
  BY <1>9 DEF UseHeap, OfARegion, HeapFits
<1>10. CASE Launch
  BY <1>10 DEF Launch, OfARegion, HeapFits
<1>11. CASE UNCHANGED vars
  BY <1>11 DEF vars, OfARegion, HeapFits
<1> QED
  BY <1>1, <1>2, <1>3, <1>4, <1>5, <1>6, <1>7, <1>8, <1>9, <1>10, <1>11 DEF Next

\* The parts the memory is divided into lie one behind the other (initRamData),
\* whatever the words of the map add up to.
THEOREM PartsLieApart == Spec => []PartsApart
<1> QED
  BY BInvInit, BInvNext, BInvApart, PTL DEF Spec

-------------------------------------------------------------------------------
\* The sizes of the loaded sections, added up.
SectionType == [type : Nat, addr : Nat, offset : Nat, size : Nat]
Share(s) == IF Loaded(s) THEN s.size ELSE 0

AddsUp(s, f) == /\ f \in [Nat -> Nat]
                /\ f[0] = 0
                /\ \A n \in Nat : n < Len(s) => f[n + 1] = f[n] + Share(s[n + 1])

\* A section, and what it adds, are what the sum needs.
LEMMA ShareOf ==
  ASSUME NEW s \in Seq(SectionType), NEW n \in 1 .. Len(s)
  PROVE  s[n] \in SectionType /\ Share(s[n]) \in Nat
<1>1. s[n] \in SectionType
  OBVIOUS
<1> QED
  BY <1>1 DEF Share, SectionType

\* The recursive function of the definition exists, and adds them up.
LEMMA PackedSum ==
  ASSUME NEW s \in Seq(SectionType)
  PROVE  \E f : AddsUp(s, f) /\ PackedSize(s) = f[Len(s)]
<1> DEFINE L == Len(s)
<1> DEFINE share == [n \in Nat |-> IF n \in 1 .. L THEN Share(s[n]) ELSE 0]
<1> DEFINE h == [p \in Nat \X Nat |-> p[2] + share[p[1] + 1]]
<1>0. L \in Nat
  OBVIOUS
<1>1. share \in [Nat -> Nat]
  BY ShareOf
<1>2. h \in [Nat \X Nat -> Nat]
  <2> HIDE DEF share
  <2>1. ASSUME NEW p \in Nat \X Nat
        PROVE  p[2] + share[p[1] + 1] \in Nat
    <3>1. p[2] \in Nat /\ p[1] + 1 \in Nat
      OBVIOUS
    <3>2. share[p[1] + 1] \in Nat
      BY <1>1, <3>1
    <3> QED
      BY <3>1, <3>2
  <2> QED
    BY <2>1
<1>3. PICK f : Recursive(f, Nat, 0, h)
  <2> HIDE DEF h
  <2>1. 0 \in Nat
    OBVIOUS
  <2> QED
    BY <1>2, <2>1, Recursion
<1>4. \A n \in Nat : f[n + 1] = f[n] + share[n + 1]
  <2> HIDE DEF share
  <2> QED
    BY <1>3 DEF Recursive
<1>5. AddsUp(s, f)
  <2>1. ASSUME NEW n \in Nat, n < L
        PROVE  share[n + 1] = Share(s[n + 1])
    BY <1>0, <2>1
  <2> HIDE DEF share, h
  <2> QED
    BY <1>3, <1>4, <2>1 DEF AddsUp, Recursive
<1> DEFINE Size(g) ==
      g = [n \in 0 .. L |-> IF n = 0 THEN 0
                            ELSE g[n - 1] + (IF Loaded(s[n]) THEN s[n].size ELSE 0)]
<1>6. \E g : Size(g)
  <2> DEFINE g == [n \in 0 .. L |-> f[n]]
  <2>1. ASSUME NEW n \in 0 .. L, n # 0
        PROVE  g[n] = g[n - 1] + Share(s[n])
    <3>1. n - 1 \in Nat /\ n - 1 < L /\ n - 1 \in 0 .. L /\ (n - 1) + 1 = n
      BY <2>1
    <3>2. f[(n - 1) + 1] = f[n - 1] + Share(s[(n - 1) + 1])
      BY <1>5, <3>1 DEF AddsUp
    <3> QED
      BY <3>1, <3>2
  <2>2. g[0] = 0
    BY <1>5 DEF AddsUp
  <2>3. g = [n \in 0 .. L |-> g[n]]
    OBVIOUS
  <2> HIDE DEF g
  <2>4. Size(g)
    BY <2>1, <2>2, <2>3 DEF Share
  <2> QED
    BY <2>4
<1> DEFINE size == CHOOSE g : Size(g)
<1>7. Size(size)
  BY <1>6, Zenon
<1>8. PackedSize(s) = size[L]
  BY Zenon DEF PackedSize
<1> HIDE DEF size
<1>9. \A n \in Nat : n \in {m \in Nat : m <= L => size[m] = f[m]}
  <2> DEFINE S == {m \in Nat : m <= L => size[m] = f[m]}
  <2>1. 0 \in S
    BY <1>5, <1>7 DEF AddsUp
  <2>2. ASSUME NEW n \in Nat, n \in S
        PROVE  n + 1 \in S
    <3>1. SUFFICES ASSUME n + 1 <= L PROVE size[n + 1] = f[n + 1]
      OBVIOUS
    <3>2. n < L /\ size[n] = f[n]
      BY <2>2, <3>1
    <3>3. size[n + 1] = size[n] + Share(s[n + 1])
      <4>1. n + 1 \in 0 .. L /\ n + 1 # 0 /\ (n + 1) - 1 = n
        BY <1>0, <3>1
      <4> QED
        BY <1>7, <4>1 DEF Share
    <3> QED
      BY <1>5, <3>2, <3>3 DEF AddsUp
  <2> HIDE DEF S
  <2>3. \A n \in Nat : n \in S
    BY <2>1, <2>2, Induction
  <2> QED
    BY <2>3 DEF S
<1>10. size[L] = f[L]
  BY <1>9
<1> QED
  BY <1>5, <1>8, <1>10

\* The sum never gets smaller.
LEMMA RunningSum ==
  ASSUME NEW s \in Seq(SectionType), NEW f, AddsUp(s, f)
  PROVE  \A m, n \in 0 .. Len(s) : m <= n => f[m] <= f[n]
<1> DEFINE L == Len(s)
<1> DEFINE S == {d \in Nat : \A m \in Nat : m + d <= L => f[m] <= f[m + d]}
<1>0. f \in [Nat -> Nat] /\ L \in Nat
  BY DEF AddsUp
<1>1. 0 \in S
  BY <1>0
<1>2. ASSUME NEW d \in Nat, d \in S
      PROVE  d + 1 \in S
  <2>1. SUFFICES ASSUME NEW m \in Nat, m + (d + 1) <= L
                 PROVE  f[m] <= f[m + (d + 1)]
    OBVIOUS
  <2> DEFINE k == m + d
  <2>2. k \in Nat /\ k < L /\ k + 1 = m + (d + 1) /\ k + 1 \in 1 .. Len(s)
    BY <1>0, <2>1
  <2>3. f[m] <= f[k]
    BY <1>2, <2>2
  <2> HIDE DEF k
  <2>4. f[k + 1] = f[k] + Share(s[k + 1])
    BY <2>2 DEF AddsUp
  <2>5. Share(s[k + 1]) \in Nat
    BY <2>2, ShareOf
  <2>6. f[k] \in Nat /\ f[m] \in Nat
    BY <1>0, <2>2
  <2> QED
    BY <2>2, <2>3, <2>4, <2>5, <2>6
<1> HIDE DEF S
<1>3. \A d \in Nat : d \in S
  BY <1>1, <1>2, Induction
<1>4. ASSUME NEW m \in 0 .. L, NEW n \in 0 .. L, m <= n
      PROVE  f[m] <= f[n]
  <2>1. n - m \in Nat /\ m + (n - m) = n /\ m \in Nat /\ n <= L
    BY <1>0, <1>4
  <2>2. n - m \in S
    BY <1>3, <2>1
  <2>3. f[m] <= f[m + (n - m)]
    BY <2>1, <2>2 DEF S
  <2> QED
    BY <2>1, <2>3
<1> QED
  BY <1>4

\* What is loaded before the n-th section, and that it is never more than all.
LEMMA PackedPrefixes ==
  ASSUME NEW s \in Seq(SectionType)
  PROVE  \E f : /\ AddsUp(s, f)
                /\ \A n \in 0 .. Len(s) : /\ PackedSize(SubSeq(s, 1, n)) = f[n]
                                          /\ f[n] <= f[Len(s)]
                /\ PackedSize(s) = f[Len(s)]
<1> DEFINE L == Len(s)
<1>1. PICK f : AddsUp(s, f) /\ PackedSize(s) = f[L]
  BY PackedSum
<1>2. ASSUME NEW n \in 0 .. L
      PROVE  PackedSize(SubSeq(s, 1, n)) = f[n]
  <2> DEFINE t == SubSeq(s, 1, n)
  <2>1. t \in Seq(SectionType) /\ Len(t) = n /\ \A m \in 1 .. n : t[m] = s[m]
    OBVIOUS
  <2> HIDE DEF t
  <2>2. PICK g : AddsUp(t, g) /\ PackedSize(t) = g[n]
    BY <2>1, PackedSum
  <2> DEFINE S == {m \in Nat : m <= n => g[m] = f[m]}
  <2>3. 0 \in S
    BY <1>1, <2>2 DEF AddsUp
  <2>4. ASSUME NEW m \in Nat, m \in S
        PROVE  m + 1 \in S
    <3>1. SUFFICES ASSUME m + 1 <= n PROVE g[m + 1] = f[m + 1]
      OBVIOUS
    <3>2. m < n /\ m < L /\ g[m] = f[m] /\ t[m + 1] = s[m + 1]
      BY <2>1, <2>4, <3>1
    <3>3. g[m + 1] = g[m] + Share(t[m + 1])
      BY <2>1, <2>2, <3>2 DEF AddsUp
    <3>4. f[m + 1] = f[m] + Share(s[m + 1])
      BY <1>1, <3>2 DEF AddsUp
    <3> QED
      BY <3>2, <3>3, <3>4
  <2> HIDE DEF S
  <2>5. n \in S
    BY <2>3, <2>4, Induction
  <2>6. g[n] = f[n]
    BY <2>5 DEF S
  <2> QED
    BY <2>2, <2>6 DEF t
<1>3. \A n \in 0 .. L : f[n] <= f[L]
  BY <1>1, RunningSum
<1> QED
  BY <1>1, <1>2, <1>3

-------------------------------------------------------------------------------
\* The inductive invariant of the loader and of the search for the memory.  What
\* kernel_main copied is what GRUB left.
Prefix(sections, n) == PackedSize(SubSeq(sections, 1, n))
ToLoad == {"multiboot", "elf", "load"}
LoadedBy == {"map", "heap", "no heap", "launch", "running"}

CopiesOK ==
  /\ step # "multiboot" => /\ mbh.modsAddr = grub.modsAddr
                           /\ mbh.mmapAddr = grub.mmapAddr
                           /\ mbh.mmapLength = Len(grub.mmap)
  /\ step \notin {"multiboot", "elf"} => /\ executable.e_shoff = grub.shoff
                                         /\ executable.e_shnum = Len(grub.sections)

LoopOK ==
  /\ step \in {"multiboot", "elf"} => i = 1 /\ progOffset = 0
  /\ step = "load" => /\ i \in 1 .. Len(grub.sections) + 1
                      /\ progOffset = Prefix(grub.sections, i - 1)
  /\ step = "map" => i \in Nat \ {0}

\* The file is whole until the program is loaded, the map until it was read.
FileOK == step \in ToLoad =>
            \A a \in FileCells(grub) : mem[a] = <<"file", a - grub.modsAddr>>
MapOK == step \in ToLoad \cup {"map"} =>
           \A a \in MapCells(grub) : mem[a] = <<"map", a - grub.mmapAddr + 1>>

\* Where the k-th section is copied to, and that it is there.
Place(k) == progLoc + Prefix(grub.sections, k - 1)
Placed(k) ==
  LET s == grub.sections[k]
  IN  s.type = SHT_PROGBITS =>
        \A n \in 0 .. s.size - 1 :
          Place(k) + n \in Installed(grub) => mem[Place(k) + n] = <<"file", s.offset + n>>

\* The sections in front of i are in their places; from then on all of them.
PlacedOK ==
  /\ step = "load" => \A k \in DOMAIN grub.sections : k < i => Placed(k)
  /\ step \in LoadedBy => \A k \in DOMAIN grub.sections : Placed(k)

\* The region that is looked for was not passed over.
RegionOK == step = "map" => \A k \in DOMAIN grub.mmap : k < i => ~Usable(grub.mmap[k])

LInv == /\ DOMAIN mem = Memory /\ step \in ToLoad \cup LoadedBy
        /\ CopiesOK /\ LoopOK /\ FileOK /\ MapOK /\ PlacedOK /\ RegionOK /\ KernelsRegion

\* What is known of the file and the map GRUB left.
LEMMA GrubFile ==
  ASSUME grub \in Grubs
  PROVE  /\ grub.sections \in Seq(SectionType) /\ Len(grub.sections) \in Nat
         /\ grub.modsAddr \in Nat /\ grub.shoff \in Nat /\ grub.mmapAddr \in Nat
         /\ Len(grub.mmap) \in Nat
         /\ progLoc \in Nat /\ Overrun \in Nat
         /\ heapBottom \in Nat \ {0} /\ KERNEL_HEAP_MAX \in Nat \ {0}
<1> QED
  BY FileAssumption, BootAssumption DEF SectionType

\* Where GRUB left them.
LEMMA GrubMemory ==
  ASSUME grub \in Grubs
  PROVE  LET program == progLoc .. progLoc + PackedSize(grub.sections) - 1
         IN /\ program \subseteq Memory /\ program \cap HeapCells = {}
            /\ FileCells(grub) \cup MapCells(grub) \subseteq Memory \cap Installed(grub)
            /\ FileCells(grub) \cap program = {}
            /\ MapCells(grub) \cap (FileCells(grub) \cup program) = {}
BY BootAssumption

\* The place of the k-th section, and of the one behind it.
LEMMA PlaceFacts ==
  ASSUME grub \in Grubs, NEW k \in DOMAIN grub.sections
  PROVE  /\ k \in 1 .. Len(grub.sections)
         /\ grub.sections[k] \in SectionType
         /\ Prefix(grub.sections, k - 1) \in Nat
         /\ Prefix(grub.sections, k) = Prefix(grub.sections, k - 1) + Share(grub.sections[k])
         /\ Prefix(grub.sections, k) <= PackedSize(grub.sections)
         /\ PackedSize(grub.sections) \in Nat
         /\ Prefix(grub.sections, 0) = 0
<1> DEFINE s == grub.sections
<1> DEFINE L == Len(s)
<1>1. s \in Seq(SectionType) /\ L \in Nat
  BY GrubFile
<1>2. k \in 1 .. L
  BY <1>1
<1>3. PICK f : /\ AddsUp(s, f)
               /\ \A n \in 0 .. L : /\ PackedSize(SubSeq(s, 1, n)) = f[n]
                                    /\ f[n] <= f[L]
               /\ PackedSize(s) = f[L]
  BY <1>1, PackedPrefixes
<1>4. /\ k - 1 \in Nat /\ k - 1 < L /\ (k - 1) + 1 = k
      /\ k - 1 \in 0 .. L /\ k \in 0 .. L /\ 0 \in 0 .. L
  BY <1>1, <1>2
<1>5. f[k] = f[k - 1] + Share(s[k])
  BY <1>3, <1>4 DEF AddsUp
<1>6. /\ Prefix(grub.sections, k - 1) = f[k - 1] /\ Prefix(grub.sections, k) = f[k]
      /\ Prefix(grub.sections, 0) = f[0]
  BY <1>3, <1>4 DEF Prefix
<1>7. f[k - 1] \in Nat /\ f[L] \in Nat /\ f[0] = 0 /\ f[k] <= f[L]
  BY <1>1, <1>3, <1>4 DEF AddsUp
<1>8. s[k] \in SectionType
  BY <1>1, <1>2, ShareOf
<1> QED
  BY <1>2, <1>3, <1>5, <1>6, <1>7, <1>8

\* Nothing is loaded behind the program's cells.
LEMMA InProgram ==
  ASSUME grub \in Grubs, NEW k \in DOMAIN grub.sections, Loaded(grub.sections[k]),
         NEW n \in 0 .. grub.sections[k].size - 1
  PROVE  Place(k) + n \in progLoc .. progLoc + PackedSize(grub.sections) - 1
<1> DEFINE s == grub.sections[k]
<1>1. progLoc \in Nat
  BY GrubFile
<1>2. s.size \in Nat
  BY PlaceFacts DEF SectionType
<1>3. Prefix(grub.sections, k) = Prefix(grub.sections, k - 1) + s.size
  BY PlaceFacts DEF Share
<1>4. /\ Prefix(grub.sections, k - 1) \in Nat /\ PackedSize(grub.sections) \in Nat
      /\ Prefix(grub.sections, k) <= PackedSize(grub.sections)
  BY PlaceFacts
<1>5. n \in Nat /\ n <= s.size - 1
  BY <1>2
<1> HIDE DEF s
<1> QED
  BY <1>1, <1>2, <1>3, <1>4, <1>5 DEF Place

\* The cell of a section's header belongs to the file.
LEMMA HeaderCell ==
  ASSUME grub \in Grubs, NEW k \in 1 .. Len(grub.sections)
  PROVE  grub.modsAddr + grub.shoff + k - 1 \in FileCells(grub)
<1> DEFINE at == grub.modsAddr
<1> DEFINE off == grub.shoff
<1> DEFINE L == Len(grub.sections)
<1>1. at \in Nat /\ off \in Nat /\ L \in Nat
  BY GrubFile
<1>2. FileCells(grub) = at .. at + off + L - 1
  BY DEF FileCells
<1> HIDE DEF at, off, L
<1>3. k \in 1 .. L
  BY DEF L
<1>4. at + off + k - 1 \in at .. at + off + L - 1
  BY <1>1, <1>3
<1> QED
  BY <1>2, <1>4 DEF at, off

\* So do the cells of its contents.
LEMMA ContentCell ==
  ASSUME grub \in Grubs, NEW k \in DOMAIN grub.sections,
         grub.sections[k].type = SHT_PROGBITS, NEW n \in 0 .. grub.sections[k].size - 1
  PROVE  grub.modsAddr + grub.sections[k].offset + n \in FileCells(grub)
<1> DEFINE s == grub.sections[k]
<1>1. s.offset + s.size <= grub.shoff + Len(grub.sections)
  BY FileAssumption
<1>2. s.offset \in Nat /\ s.size \in Nat
  BY PlaceFacts DEF SectionType
<1>3. n \in Nat /\ n <= s.size - 1
  BY <1>2
<1>4. grub.modsAddr \in Nat /\ grub.shoff \in Nat /\ Len(grub.sections) \in Nat
  BY GrubFile
<1> DEFINE at == grub.modsAddr
<1> DEFINE off == grub.shoff
<1> DEFINE L == Len(grub.sections)
<1> DEFINE from == s.offset
<1> DEFINE size == s.size
<1>5. FileCells(grub) = at .. at + off + L - 1
  BY DEF FileCells
<1>6. at + from + n \in at .. at + off + L - 1
  <2>1. /\ from + size <= off + L /\ from \in Nat /\ size \in Nat
        /\ n \in Nat /\ n <= size - 1 /\ at \in Nat /\ off \in Nat /\ L \in Nat
    BY <1>1, <1>2, <1>3, <1>4
  <2> HIDE DEF at, off, L, from, size
  <2> QED
    BY <2>1
<1> QED
  BY <1>5, <1>6

\* The cell of an entry belongs to the map.
LEMMA EntryCell ==
  ASSUME grub \in Grubs, NEW k \in 1 .. Len(grub.mmap)
  PROVE  grub.mmapAddr + k - 1 \in MapCells(grub)
<1> QED
  BY GrubFile DEF MapCells

-------------------------------------------------------------------------------
\* The invariant holds at first.
LEMMA LInvInit == Init => LInv
<1> SUFFICES ASSUME Init PROVE LInv
  OBVIOUS
<1>1. grub \in Grubs /\ step = "multiboot" /\ i = 1 /\ progOffset = 0
  BY DEF Init
<1>2. DOMAIN mem = Memory
  BY DEF Init
<1>3. FileCells(grub) \cup MapCells(grub) \subseteq Memory \cap Installed(grub)
  BY <1>1, GrubMemory
<1>4. FileOK
  BY <1>3 DEF Init, FileOK
<1>5. MapCells(grub) \cap FileCells(grub) = {}
  BY <1>1, GrubMemory
<1>6. MapOK
  BY <1>3, <1>5 DEF Init, MapOK
<1> QED
  BY <1>1, <1>2, <1>4, <1>6
     DEF LInv, CopiesOK, LoopOK, PlacedOK, RegionOK, KernelsRegion, ToLoad, LoadedBy

\* What is written goes to the cells it is for, and to no other.
LEMMA WrittenCells ==
  ASSUME NEW f, mem' = Written(f), UNCHANGED grub
  PROVE  /\ DOMAIN mem' = Memory
         /\ \A a \in Memory : a \notin DOMAIN f => mem'[a] = mem[a]
         /\ \A a \in Memory : a \in DOMAIN f /\ a \in Installed(grub) => mem'[a] = f[a]
BY DEF Written

\* Steps that write nothing.
LEMMA Unwritten ==
  ASSUME LInv, UNCHANGED <<grub, mem>>
  PROVE  /\ DOMAIN mem' = Memory
         /\ step \in ToLoad /\ step' \in ToLoad => FileOK'
         /\ step \in ToLoad \cup {"map"} => MapOK'
         /\ \A k \in DOMAIN grub.sections : Placed(k) => Placed(k)'
<1>1. \A k \in DOMAIN grub.sections : Placed(k) => Placed(k)'
  BY DEF Placed, Place, Prefix
<1> QED
  BY <1>1 DEF LInv, FileOK, MapOK

\* What each step does to the invariant: the multiboot header is copied;
LEMMA FillHeaderLInv == LInv /\ grub \in Grubs /\ FillHeader => LInv'
<1> SUFFICES ASSUME LInv, grub \in Grubs, FillHeader PROVE LInv'
  OBVIOUS
<1>1. /\ step = "multiboot" /\ step' = "elf" /\ UNCHANGED <<grub, mem, i, progOffset>>
      /\ mbh'.modsAddr = grub.modsAddr /\ mbh'.mmapAddr = grub.mmapAddr
      /\ mbh'.mmapLength = Len(grub.mmap)
  BY DEF FillHeader
<1>2. DOMAIN mem' = Memory /\ FileOK' /\ MapOK'
  BY <1>1, Unwritten DEF ToLoad
<1> QED
  BY <1>1, <1>2
     DEF LInv, CopiesOK, LoopOK, PlacedOK, RegionOK, KernelsRegion, ToLoad, LoadedBy

\* the ELF header is copied, and the loop over the sections starts;
LEMMA ReadHeaderLInv == LInv /\ grub \in Grubs /\ ReadHeader => LInv'
<1> SUFFICES ASSUME LInv, grub \in Grubs, ReadHeader PROVE LInv'
  OBVIOUS
<1>1. /\ step = "elf" /\ step' = "load" /\ i' = 1
      /\ UNCHANGED <<grub, mem, mbh, progOffset>>
      /\ executable'.e_shoff = grub.shoff /\ executable'.e_shnum = Len(grub.sections)
  BY DEF ReadHeader, GoOn, After
<1>2. DOMAIN mem' = Memory /\ FileOK' /\ MapOK'
  BY <1>1, Unwritten DEF ToLoad
<1>3. Len(grub.sections) \in Nat /\ grub.sections \in Seq(SectionType)
  BY GrubFile
<1>4. progOffset = 0 /\ progOffset' = 0
  BY <1>1 DEF LInv, LoopOK
<1>5. Prefix(grub.sections, 0) = 0
  <2>1. PICK f : /\ AddsUp(grub.sections, f)
                 /\ \A n \in 0 .. Len(grub.sections) :
                      PackedSize(SubSeq(grub.sections, 1, n)) = f[n]
    BY <1>3, PackedPrefixes
  <2> QED
    BY <1>3, <2>1 DEF AddsUp, Prefix
<1>6. Prefix(grub.sections, i - 1)' = 0
  <2>1. i' - 1 = 0
    BY <1>1
  <2> QED
    BY <1>1, <1>5, <2>1
<1>7. LoopOK'
  BY <1>1, <1>3, <1>4, <1>6 DEF LoopOK
<1>8. \A k \in DOMAIN grub.sections : ~(k < 1)
  BY <1>3
<1>9. PlacedOK'
  BY <1>1, <1>8 DEF PlacedOK, LoadedBy
<1> QED
  BY <1>1, <1>2, <1>7, <1>9
     DEF LInv, CopiesOK, RegionOK, KernelsRegion, ToLoad, LoadedBy

\* Where the loader is: the header it reads and the place it copies to.
LEMMA CopyFrom ==
  ASSUME LInv, grub \in Grubs, step = "load", i <= executable.e_shnum
  PROVE  /\ i \in DOMAIN grub.sections
         /\ Section(i) = grub.sections[i]
         /\ progLoc + progOffset = Place(i)
         /\ mbh.modsAddr = grub.modsAddr
<1>1. /\ mbh.modsAddr = grub.modsAddr /\ executable.e_shoff = grub.shoff
      /\ executable.e_shnum = Len(grub.sections)
  BY DEF LInv, CopiesOK
<1>2. i \in 1 .. Len(grub.sections) + 1 /\ progOffset = Prefix(grub.sections, i - 1)
  BY DEF LInv, LoopOK
<1>3. i \in 1 .. Len(grub.sections) /\ Len(grub.sections) \in Nat
  BY <1>1, <1>2, GrubFile
<1> DEFINE a == grub.modsAddr + grub.shoff + i - 1
<1>4. a \in FileCells(grub)
  BY <1>3, HeaderCell
<1>5. mem[a] = <<"file", a - grub.modsAddr>>
  BY <1>4 DEF LInv, FileOK, ToLoad
<1>6. a - grub.modsAddr = grub.shoff + i - 1
  BY <1>3, GrubFile
<1>7. Section(i) = grub.sections[i]
  BY <1>1, <1>5, <1>6 DEF Section
<1>8. grub.sections \in Seq(SectionType)
  BY GrubFile
<1>9. i \in DOMAIN grub.sections
  BY <1>3, <1>8
<1> QED
  BY <1>1, <1>2, <1>7, <1>9 DEF Place

\* The sections in front of the k-th one end where its place begins.
LEMMA PlaceOrder ==
  ASSUME grub \in Grubs, NEW k \in DOMAIN grub.sections, NEW m \in DOMAIN grub.sections,
         m < k
  PROVE  Prefix(grub.sections, m) <= Prefix(grub.sections, k - 1)
<1> DEFINE s == grub.sections
<1>1. s \in Seq(SectionType) /\ Len(s) \in Nat
  BY GrubFile
<1>2. PICK f : /\ AddsUp(s, f)
               /\ \A n \in 0 .. Len(s) : PackedSize(SubSeq(s, 1, n)) = f[n]
  BY <1>1, PackedPrefixes
<1>3. k \in 1 .. Len(s) /\ m \in 1 .. Len(s)
  BY <1>1
<1>4. m \in 0 .. Len(s) /\ k - 1 \in 0 .. Len(s) /\ m <= k - 1
  BY <1>1, <1>3
<1>5. f[m] <= f[k - 1]
  BY <1>1, <1>2, <1>4, RunningSum
<1> QED
  BY <1>2, <1>4, <1>5 DEF Prefix

\* Two sections have no cell in common.
LEMMA PlacesApart ==
  ASSUME grub \in Grubs, NEW k \in DOMAIN grub.sections, NEW m \in DOMAIN grub.sections,
         m < k, Loaded(grub.sections[m]), NEW n \in 0 .. grub.sections[m].size - 1
  PROVE  Place(m) + n < Place(k)
<1> DEFINE before == Prefix(grub.sections, m - 1)
<1> DEFINE size == grub.sections[m].size
<1>1. /\ before \in Nat /\ Prefix(grub.sections, m) = before + size
      /\ size \in Nat /\ Prefix(grub.sections, k - 1) \in Nat /\ progLoc \in Nat
  BY GrubFile, PlaceFacts DEF Share, SectionType
<1>2. Prefix(grub.sections, m) <= Prefix(grub.sections, k - 1)
  BY PlaceOrder
<1>3. n \in Nat /\ n <= size - 1
  BY <1>1
<1>4. Place(m) = progLoc + before /\ Place(k) = progLoc + Prefix(grub.sections, k - 1)
  BY DEF Place
<1> HIDE DEF before, size
<1> QED
  BY <1>1, <1>2, <1>3, <1>4

\* What a copied section changes in memory: its own cells, which then hold it.
LEMMA CopyTo ==
  ASSUME LInv, grub \in Grubs, CopySection
  PROVE  LET s == grub.sections[i]
         IN /\ DOMAIN mem' = Memory
            /\ \A a \in Memory :
                 (Loaded(s) => a \notin Place(i) .. Place(i) + s.size - 1) => mem'[a] = mem[a]
            /\ Loaded(s) =>
                 \A n \in 0 .. s.size - 1 :
                   Place(i) + n \in Installed(grub) =>
                     mem'[Place(i) + n] = mem[grub.modsAddr + s.offset + n]
            /\ progOffset' = progOffset + Share(s)
<1> DEFINE s == grub.sections[i]
<1> DEFINE to == Place(i)
<1> DEFINE from == grub.modsAddr + s.offset
<1>1. step = "load" /\ i <= executable.e_shnum /\ UNCHANGED grub
  BY DEF CopySection
<1>2. i \in DOMAIN grub.sections /\ Section(i) = s
  BY <1>1, CopyFrom
<1>2a. progLoc + progOffset = to /\ mbh.modsAddr = grub.modsAddr
  BY <1>1, CopyFrom
<1>3. DOMAIN mem = Memory /\ progOffset = Prefix(grub.sections, i - 1)
  BY <1>1 DEF LInv, LoopOK
<1>4. s \in SectionType /\ Prefix(grub.sections, i - 1) \in Nat
  BY <1>2, PlaceFacts
<1>5. CASE ~Loaded(s)
  <2>1. UNCHANGED <<mem, progOffset>>
    BY <1>2, <1>5 DEF CopySection
  <2>2. progOffset + Share(s) = progOffset
    BY <1>3, <1>4, <1>5 DEF Share
  <2> QED
    BY <1>3, <1>5, <2>1, <2>2
<1>6. CASE Loaded(s)
  <2> DEFINE f == [a \in to .. to + s.size - 1 |-> mem[from + (a - to)]]
  <2>1. mem' = Written(f) /\ progOffset' = Behind(progOffset, s)
    BY <1>2, <1>2a, <1>6 DEF CopySection
  <2>2. progOffset' = progOffset + Share(s)
    BY <1>6, <2>1 DEF Behind, Share
  <2>3. to \in Nat /\ s.size \in Nat /\ from \in Nat
    <3>1. s.size \in Nat /\ s.offset \in Nat
      BY <1>4 DEF SectionType
    <3>2. grub.modsAddr \in Nat /\ progLoc \in Nat
      BY GrubFile
    <3> QED
      BY <1>4, <3>1, <3>2 DEF Place
  <2>4. DOMAIN f = to .. to + s.size - 1
    OBVIOUS
  <2>5. ASSUME NEW n \in 0 .. s.size - 1
        PROVE  to + n \in DOMAIN f /\ f[to + n] = mem[from + n] /\ to + n \in Memory
    <3>1. n \in Nat /\ n <= s.size - 1
      BY <2>3
    <3>2. to + n \in to .. to + s.size - 1 /\ (to + n) - to = n
      <4> DEFINE size == s.size
      <4>1. size \in Nat /\ n <= size - 1
        BY <2>3, <3>1
      <4> HIDE DEF to, size
      <4>2. to + n \in to .. to + size - 1 /\ (to + n) - to = n
        BY <2>3, <3>1, <4>1
      <4> QED
        BY <4>2 DEF size
    <3>3. to + n \in Memory
      BY <1>2, <1>6, InProgram, GrubMemory
    <3> HIDE DEF to, from
    <3> QED
      BY <3>2, <3>3
  <2> HIDE DEF f, to, from
  <2>6. /\ DOMAIN mem' = Memory
        /\ \A a \in Memory : a \notin DOMAIN f => mem'[a] = mem[a]
        /\ \A a \in Memory : a \in DOMAIN f /\ a \in Installed(grub) => mem'[a] = f[a]
    BY <1>1, <2>1, WrittenCells
  <2>7. \A n \in 0 .. s.size - 1 : to + n \in Installed(grub) => mem'[to + n] = mem[from + n]
    BY <2>5, <2>6
  <2> QED
    BY <1>6, <2>2, <2>4, <2>6, <2>7 DEF to, from
<1> QED
  BY <1>5, <1>6

\* a section is copied, clear of the file, the map and the sections before it;
LEMMA CopySectionLInv == LInv /\ grub \in Grubs /\ CopySection => LInv'
<1> SUFFICES ASSUME LInv, grub \in Grubs, CopySection PROVE LInv'
  OBVIOUS
<1> DEFINE s == grub.sections[i]
<1> DEFINE own == Place(i) .. Place(i) + s.size - 1
<1>1. /\ step = "load" /\ i <= executable.e_shnum /\ i' = i + 1
      /\ UNCHANGED <<grub, mbh, executable, step>>
  BY DEF CopySection
<1>2. i \in DOMAIN grub.sections /\ i \in 1 .. Len(grub.sections) /\ s \in SectionType
  BY <1>1, CopyFrom, PlaceFacts
<1>3. /\ DOMAIN mem' = Memory
      /\ \A a \in Memory : (Loaded(s) => a \notin own) => mem'[a] = mem[a]
      /\ Loaded(s) =>
           \A n \in 0 .. s.size - 1 :
             Place(i) + n \in Installed(grub) =>
               mem'[Place(i) + n] = mem[grub.modsAddr + s.offset + n]
      /\ progOffset' = progOffset + Share(s)
  BY CopyTo
<1>4. s.size \in Nat /\ s.offset \in Nat /\ Place(i) \in Nat /\ grub.modsAddr \in Nat
  <2>1. s.size \in Nat /\ s.offset \in Nat
    BY <1>2 DEF SectionType
  <2>2. progLoc \in Nat /\ grub.modsAddr \in Nat
    BY GrubFile
  <2> QED
    BY <1>2, <2>1, <2>2, PlaceFacts DEF Place
<1> DEFINE program == progLoc .. progLoc + PackedSize(grub.sections) - 1
<1>5. Loaded(s) => \A a \in own : a \in program
  <2>1. SUFFICES ASSUME Loaded(s), NEW a \in own PROVE a \in program
    OBVIOUS
  <2>2. a - Place(i) \in 0 .. s.size - 1 /\ Place(i) + (a - Place(i)) = a
    <3> DEFINE to == Place(i)
    <3> DEFINE size == s.size
    <3>1. a \in to .. to + size - 1 /\ to \in Nat /\ size \in Nat
      BY <1>4
    <3> HIDE DEF to, size
    <3>2. a - to \in 0 .. size - 1 /\ to + (a - to) = a
      BY <3>1
    <3> QED
      BY <3>2 DEF to, size
  <2> HIDE DEF own
  <2> QED
    BY <1>2, <2>1, <2>2, InProgram
<1> HIDE DEF own
<1>6. \A a \in Memory : a \notin program => mem'[a] = mem[a]
  BY <1>3, <1>5
<1>7. FileCells(grub) \cup MapCells(grub) \subseteq Memory /\ FileCells(grub) \cap program = {}
      /\ MapCells(grub) \cap program = {}
  BY GrubMemory
<1> HIDE DEF program, s
<1>8. FileOK'
  <2>1. \A a \in FileCells(grub) : mem'[a] = mem[a]
    BY <1>6, <1>7
  <2>2. \A a \in FileCells(grub) : mem[a] = <<"file", a - grub.modsAddr>>
    BY <1>1 DEF LInv, FileOK, ToLoad
  <2> QED
    BY <1>1, <2>1, <2>2 DEF FileOK
<1>9. MapOK'
  <2>1. \A a \in MapCells(grub) : mem'[a] = mem[a]
    BY <1>6, <1>7
  <2>2. \A a \in MapCells(grub) : mem[a] = <<"map", a - grub.mmapAddr + 1>>
    BY <1>1 DEF LInv, MapOK, ToLoad
  <2> QED
    BY <1>1, <2>1, <2>2 DEF MapOK
<1>10. CopiesOK' /\ RegionOK' /\ KernelsRegion'
  BY <1>1 DEF LInv, CopiesOK, RegionOK, KernelsRegion
<1>11. LoopOK'
  <2>1. progOffset = Prefix(grub.sections, i - 1)
    BY <1>1 DEF LInv, LoopOK
  <2>2. progOffset' = Prefix(grub.sections, i)
    BY <1>2, <1>3, <2>1, PlaceFacts DEF s
  <2>3. i' - 1 = i /\ i' \in 1 .. Len(grub.sections) + 1
    BY <1>1, <1>2, GrubFile
  <2>4. Prefix(grub.sections, i - 1)' = Prefix(grub.sections, i)
    BY <1>1, <2>3
  <2> QED
    BY <1>1, <2>2, <2>3, <2>4 DEF LoopOK
<1>12. ASSUME NEW k \in DOMAIN grub.sections, k < i
       PROVE  Placed(k)'
  <2> DEFINE t == grub.sections[k]
  <2>1. SUFFICES ASSUME t.type = SHT_PROGBITS, NEW n \in 0 .. t.size - 1,
                        Place(k) + n \in Installed(grub)
                 PROVE  mem'[Place(k) + n] = <<"file", t.offset + n>>
    BY <1>1 DEF Placed, Place
  <2>2. mem[Place(k) + n] = <<"file", t.offset + n>>
    BY <1>1, <1>12, <2>1 DEF LInv, PlacedOK, Placed
  <2>3. Loaded(t)
    BY <2>1 DEF Loaded
  <2>4. Place(k) + n < Place(i) /\ Place(k) + n \in Memory
    BY <1>2, <1>12, <2>3, PlacesApart, InProgram, GrubMemory
  <2>5. Place(k) + n \notin own
    BY <1>4, <2>4 DEF own
  <2> QED
    BY <1>3, <2>2, <2>4, <2>5
<1>13. ASSUME s.type = SHT_PROGBITS, NEW n \in 0 .. s.size - 1,
              Place(i) + n \in Installed(grub)
       PROVE  mem'[Place(i) + n] = <<"file", s.offset + n>>
  <2> DEFINE a == grub.modsAddr + s.offset + n
  <2>1. mem'[Place(i) + n] = mem[a]
    BY <1>3, <1>13 DEF Loaded
  <2>2. a \in FileCells(grub)
    BY <1>2, <1>13, ContentCell DEF s
  <2>3. a - grub.modsAddr = s.offset + n
    <3>1. n \in Nat
      BY <1>4
    <3> QED
      BY <1>4, <3>1
  <2> HIDE DEF a
  <2>4. mem[a] = <<"file", a - grub.modsAddr>>
    BY <1>1, <2>2 DEF LInv, FileOK, ToLoad
  <2> QED
    BY <2>1, <2>3, <2>4
<1>14. ASSUME NEW k \in DOMAIN grub.sections, k < i + 1
       PROVE  Placed(k)'
  <2>1. CASE k < i
    BY <1>12, <2>1
  <2>2. CASE k = i
    BY <1>1, <1>13, <2>2 DEF Placed, Place, s
  <2>3. k \in Int /\ i \in Int
    BY <1>2, <1>14, PlaceFacts
  <2> QED
    BY <1>14, <2>1, <2>2, <2>3
<1>15. PlacedOK'
  BY <1>1, <1>14 DEF PlacedOK, LoadedBy
<1> QED
  BY <1>1, <1>3, <1>8, <1>9, <1>10, <1>11, <1>15 DEF LInv, ToLoad

\* the last section was copied;
LEMMA ProgramLoadedLInv == LInv /\ grub \in Grubs /\ ProgramLoaded => LInv'
<1> SUFFICES ASSUME LInv, grub \in Grubs, ProgramLoaded PROVE LInv'
  OBVIOUS
<1>1. /\ step = "load" /\ i > executable.e_shnum /\ step' = "map" /\ i' = 1
      /\ UNCHANGED <<grub, mem, mbh, executable>>
  BY DEF ProgramLoaded, GoOn, After
<1>2. DOMAIN mem' = Memory /\ MapOK' /\ \A k \in DOMAIN grub.sections : Placed(k) => Placed(k)'
  BY <1>1, Unwritten DEF ToLoad
<1>3. \A k \in DOMAIN grub.sections : k < i
  <2>1. i > Len(grub.sections) /\ i \in Nat
    BY <1>1 DEF LInv, CopiesOK, LoopOK
  <2> QED
    BY <2>1, PlaceFacts, GrubFile
<1>4. \A k \in DOMAIN grub.sections : Placed(k)
  BY <1>1, <1>3 DEF LInv, PlacedOK
<1>5. PlacedOK'
  BY <1>1, <1>2, <1>4 DEF PlacedOK, LoadedBy
<1>6. RegionOK'
  <2>1. \A k \in DOMAIN grub.mmap : ~(k < 1)
    BY BootAssumption
  <2> QED
    BY <1>1, <2>1 DEF RegionOK
<1> QED
  BY <1>1, <1>2, <1>5, <1>6
     DEF LInv, CopiesOK, LoopOK, FileOK, KernelsRegion, ToLoad, LoadedBy

-------------------------------------------------------------------------------
\* An entry of the map.
RegionType == [base : Nat \X Nat, length : Nat \X Nat, type : Nat]

\* The map as GRUB left it.
LEMMA GrubMap ==
  ASSUME grub \in Grubs
  PROVE  /\ grub.mmap \in Seq(RegionType)
         /\ DOMAIN grub.mmap = 1 .. Len(grub.mmap) /\ Len(grub.mmap) \in Nat
         /\ \A k \in DOMAIN grub.mmap :
              /\ grub.mmap[k] \in RegionType
              /\ {grub.mmap[k].base[1], grub.mmap[k].length[1]} \subseteq 0 .. Word - 1
              /\ \A n \in DOMAIN grub.mmap : n < k =>
                   Number(grub.mmap[n].base) + Number(grub.mmap[n].length)
                     <= Number(grub.mmap[k].base)
<1>1. grub.mmap \in Seq(RegionType)
  BY BootAssumption DEF RegionType
<1> HIDE DEF RegionType
<1>2. DOMAIN grub.mmap = 1 .. Len(grub.mmap) /\ Len(grub.mmap) \in Nat
  BY <1>1
<1>3. ASSUME NEW k \in DOMAIN grub.mmap
      PROVE  grub.mmap[k] \in RegionType
  BY <1>1
<1>4. ASSUME NEW k \in DOMAIN grub.mmap, NEW n \in DOMAIN grub.mmap, n < k
      PROVE  n \in 1 .. k - 1
  BY <1>2, <1>4
<1> QED
  BY <1>1, <1>2, <1>3, <1>4, MapAssumption

\* What is read of the map is what GRUB left there.
LEMMA RegionRead ==
  ASSUME LInv, grub \in Grubs, step = "map", i \in 1 .. Len(grub.mmap)
  PROVE  Region(i) = grub.mmap[i]
<1> DEFINE a == grub.mmapAddr + i - 1
<1>1. a \in MapCells(grub)
  BY EntryCell
<1>2. mem[a] = <<"map", a - grub.mmapAddr + 1>>
  BY <1>1 DEF LInv, MapOK
<1>3. a - grub.mmapAddr + 1 = i
  BY GrubFile
<1>4. mbh.mmapAddr = grub.mmapAddr
  BY DEF LInv, CopiesOK
<1> QED
  BY <1>2, <1>3, <1>4 DEF Region

\* Below Word the sum of the words is the number.
LEMMA SumOfLow ==
  ASSUME NEW words \in Nat \X Nat, words[1] < Word, words[2] = 0
  PROVE  Sum(words) = words[1] /\ Number(words) = words[1]
<1>1. Word \in Nat \ {0}
  BY BootAssumption
<1> QED
  BY <1>1 DEF Sum, Number

\* The loop stops at the usable region, if it did not before.
LEMMA UsableInside ==
  ASSUME grub \in Grubs, NEW k \in DOMAIN grub.mmap, Usable(grub.mmap[k])
  PROVE  LET base == Sum(grub.mmap[k].base)
             size == Sum(grub.mmap[k].length)
         IN /\ base = grub.mmap[k].base[1] /\ size = grub.mmap[k].length[1]
            /\ Inside(base, (base + size) % Word, grub.mmap[k].type)
<1> DEFINE r == grub.mmap[k]
<1>1. Word \in Nat \ {0} /\ heapBottom \in Nat
  BY BootAssumption
<1>2. r \in RegionType /\ r.base[1] \in 0 .. Word - 1 /\ r.length[1] \in 0 .. Word - 1
  BY GrubMap
<1>3. r.base \in Nat \X Nat /\ r.length \in Nat \X Nat
  BY <1>2 DEF RegionType
<1>4. /\ r.type = AVAILABLE /\ r.base[2] = 0 /\ r.length[2] = 0
      /\ r.base[1] < heapBottom /\ heapBottom < r.base[1] + r.length[1]
      /\ r.base[1] + r.length[1] < Word
  BY DEF Usable
<1>5. Sum(r.base) = r.base[1] /\ Sum(r.length) = r.length[1]
  BY <1>1, <1>2, <1>3, <1>4, SumOfLow
<1>6. (r.base[1] + r.length[1]) % Word = r.base[1] + r.length[1]
  BY <1>1, <1>2, <1>4
<1> HIDE DEF r
<1>7. Inside(r.base[1], r.base[1] + r.length[1], r.type)
  BY <1>1, <1>4 DEF Inside
<1> QED
  BY <1>5, <1>6, <1>7 DEF r

\* A number of two words that is below Word has no high word.
LEMMA LowNumber ==
  ASSUME NEW words \in Nat \X Nat, Number(words) < Word
  PROVE  words[2] = 0 /\ words[1] < Word
<1>1. Word \in Nat \ {0}
  BY BootAssumption
<1> DEFINE low == words[1]
<1> DEFINE high == words[2]
<1>2. low \in Nat /\ high \in Nat /\ low + high * Word < Word
  BY DEF Number
<1> HIDE DEF low, high
<1>3. high = 0
  <2>1. SUFFICES ASSUME high >= 1 PROVE FALSE
    BY <1>2
  <2>2. high * Word >= Word
    BY <1>1, <1>2, <2>1
  <2> QED
    BY <1>1, <1>2, <2>2
<1> QED
  BY <1>1, <1>2, <1>3 DEF low, high

\* No region in front of the usable one is taken for it.
LEMMA BeforeUsable ==
  ASSUME grub \in Grubs, NEW k \in DOMAIN grub.mmap, Usable(grub.mmap[k]),
         NEW n \in DOMAIN grub.mmap, n < k
  PROVE  LET base == Sum(grub.mmap[n].base)
             size == Sum(grub.mmap[n].length)
         IN ~Inside(base, (base + size) % Word, grub.mmap[n].type)
<1> DEFINE r == grub.mmap[n]
<1> DEFINE u == grub.mmap[k]
<1>1. Word \in Nat \ {0} /\ heapBottom \in Nat
  BY BootAssumption
<1>2. /\ r \in RegionType /\ u \in RegionType
      /\ Number(r.base) + Number(r.length) <= Number(u.base)
      /\ u.base[1] \in 0 .. Word - 1
  BY GrubMap
<1>3. r.base \in Nat \X Nat /\ r.length \in Nat \X Nat /\ u.base \in Nat \X Nat
  BY <1>2 DEF RegionType
<1>4. Number(u.base) = u.base[1] /\ u.base[1] < heapBottom
  BY <1>1, <1>2, <1>3, SumOfLow DEF Usable
<1> HIDE DEF r, u
<1> DEFINE first == Number(r.base)
<1> DEFINE second == Number(r.length)
<1>5. first \in Nat /\ second \in Nat
  BY <1>1, <1>3 DEF Number
<1> HIDE DEF first, second
<1>6. first + second <= u.base[1] /\ u.base[1] \in Nat /\ u.base[1] < Word
  BY <1>1, <1>2, <1>4 DEF first, second
<1>7. first < Word /\ second < Word
  BY <1>1, <1>5, <1>6
<1>8. /\ r.base[2] = 0 /\ r.base[1] < Word
      /\ r.length[2] = 0 /\ r.length[1] < Word
  BY <1>3, <1>7, LowNumber DEF first, second
<1>9. Sum(r.base) = first /\ Sum(r.length) = second
  BY <1>3, <1>8, SumOfLow DEF first, second
<1>10. (first + second) % Word = first + second
  BY <1>1, <1>5, <1>6
<1>11. ~(heapBottom < first + second)
  BY <1>1, <1>4, <1>5, <1>6
<1> QED
  BY <1>9, <1>10, <1>11 DEF Inside, r

\* an entry of the map is looked at;
LEMMA LookAtRegionLInv == LInv /\ grub \in Grubs /\ LookAtRegion => LInv'
<1> SUFFICES ASSUME LInv, grub \in Grubs, LookAtRegion PROVE LInv'
  OBVIOUS
<1> DEFINE base == Sum(Region(i).base)
<1> DEFINE size == Sum(Region(i).length)
<1> DEFINE inside == Inside(base, (base + size) % Word, Region(i).type)
<1>1. /\ step = "map" /\ i <= mbh.mmapLength
      /\ UNCHANGED <<grub, mem, mbh, executable>>
      /\ inside => ram' = RamData(base, size) /\ step' = "heap"
      /\ ~inside => i' = i + 1 /\ step' = "map"
  BY DEF LookAtRegion, GoOn, After
<1>2. i \in 1 .. Len(grub.mmap) /\ i \in DOMAIN grub.mmap
  BY <1>1, GrubMap DEF LInv, CopiesOK, LoopOK
<1>3. Region(i) = grub.mmap[i]
  BY <1>1, <1>2, RegionRead
<1>4. \A k \in DOMAIN grub.mmap : k < i => ~Usable(grub.mmap[k])
  BY <1>1 DEF LInv, RegionOK
<1>5. DOMAIN mem' = Memory /\ MapOK' /\ \A k \in DOMAIN grub.sections : Placed(k) => Placed(k)'
  BY <1>1, Unwritten
<1>6. \A k \in DOMAIN grub.sections : Placed(k)
  BY <1>1 DEF LInv, PlacedOK, LoadedBy
<1>7. step' \in {"map", "heap"}
  BY <1>1
<1>8. PlacedOK'
  BY <1>1, <1>5, <1>6, <1>7 DEF PlacedOK, LoadedBy
<1>9. \A k \in DOMAIN grub.mmap : k < i \/ k = i \/ i < k
  BY <1>2, GrubMap
<1>10. CASE inside
  <2>1. ASSUME NEW k \in DOMAIN grub.mmap, Usable(grub.mmap[k])
        PROVE  k = i
    BY <1>2, <1>3, <1>4, <1>9, <1>10, <2>1, BeforeUsable
  <2>2. ASSUME NEW k \in DOMAIN grub.mmap, Usable(grub.mmap[k])
        PROVE  base = grub.mmap[k].base[1] /\ size = grub.mmap[k].length[1]
    BY <1>3, <2>1, <2>2, UsableInside
  <2>3. ram'.start = base /\ ram'.size = size
    BY <1>1, <1>10 DEF RamData
  <2>4. KernelsRegion'
    BY <1>1, <2>2, <2>3 DEF KernelsRegion, Usable
  <2> QED
    BY <1>1, <1>5, <1>8, <1>10, <2>4
       DEF LInv, CopiesOK, LoopOK, FileOK, RegionOK, ToLoad, LoadedBy
<1>11. CASE ~inside
  <2>1. ~Usable(grub.mmap[i])
    BY <1>2, <1>3, <1>11, UsableInside
  <2>2. i' = i + 1 /\ i \in Nat /\ i' \in Nat \ {0}
    BY <1>1, <1>2, <1>11
  <2>3. \A k \in DOMAIN grub.mmap : k < i + 1 => k < i \/ k = i
    BY <1>2, GrubMap
  <2>4. RegionOK'
    BY <1>1, <1>4, <2>1, <2>2, <2>3 DEF RegionOK, Usable
  <2> QED
    BY <1>1, <1>5, <1>8, <1>11, <2>2, <2>4
       DEF LInv, CopiesOK, LoopOK, FileOK, KernelsRegion, ToLoad, LoadedBy
<1> QED
  BY <1>10, <1>11

\* the map has no region for the kernel;
LEMMA NoRegionLInv == LInv /\ grub \in Grubs /\ NoRegion => LInv'
<1> SUFFICES ASSUME LInv, grub \in Grubs, NoRegion PROVE LInv'
  OBVIOUS
<1>1. /\ step = "map" /\ i > mbh.mmapLength /\ step' = "heap"
      /\ UNCHANGED <<grub, mem, mbh, executable, ram>>
  BY DEF NoRegion, GoOn, After
<1>2. \A k \in DOMAIN grub.mmap : k < i
  BY <1>1, GrubMap DEF LInv, CopiesOK, LoopOK
<1>3. \A k \in DOMAIN grub.mmap : ~Usable(grub.mmap[k])
  BY <1>1, <1>2 DEF LInv, RegionOK
<1>4. DOMAIN mem' = Memory /\ \A k \in DOMAIN grub.sections : Placed(k) => Placed(k)'
  BY <1>1, Unwritten
<1>5. PlacedOK'
  BY <1>1, <1>4 DEF LInv, PlacedOK, LoadedBy
<1>6. KernelsRegion'
  BY <1>1, <1>3 DEF KernelsRegion, Usable
<1> QED
  BY <1>1, <1>4, <1>5, <1>6
     DEF LInv, CopiesOK, LoopOK, FileOK, MapOK, RegionOK, ToLoad, LoadedBy

\* The heap is clear of the program.
LEMMA OutOfTheHeap ==
  ASSUME LInv, grub \in Grubs, step \in {"heap", "launch"}, UNCHANGED grub,
         NEW f, DOMAIN f \subseteq HeapCells, mem' = Written(f)
  PROVE  DOMAIN mem' = Memory /\ \A k \in DOMAIN grub.sections : Placed(k)'
<1>1. /\ DOMAIN mem' = Memory
      /\ \A a \in Memory : a \notin DOMAIN f => mem'[a] = mem[a]
  BY WrittenCells
<1>2. ASSUME NEW k \in DOMAIN grub.sections
      PROVE  Placed(k)'
  <2> DEFINE s == grub.sections[k]
  <2>1. SUFFICES ASSUME s.type = SHT_PROGBITS, NEW n \in 0 .. s.size - 1,
                        Place(k) + n \in Installed(grub)
                 PROVE  mem'[Place(k) + n] = <<"file", s.offset + n>>
    BY DEF Placed, Place
  <2>2. Loaded(s)
    BY <2>1 DEF Loaded
  <2>3. /\ Place(k) + n \in progLoc .. progLoc + PackedSize(grub.sections) - 1
        /\ Place(k) + n \in Memory /\ Place(k) + n \notin HeapCells
    BY <2>2, InProgram, GrubMemory
  <2>4. mem[Place(k) + n] = <<"file", s.offset + n>>
    BY <2>1 DEF LInv, PlacedOK, LoadedBy, Placed
  <2> QED
    BY <1>1, <2>3, <2>4
<1> QED
  BY <1>1, <1>2

\* the heap is laid out;
LEMMA InitHeapLInv == LInv /\ grub \in Grubs /\ InitHeap => LInv'
<1> SUFFICES ASSUME LInv, grub \in Grubs, InitHeap PROVE LInv'
  OBVIOUS
<1> DEFINE f == [a \in {heapBottom} |-> <<"heap", 0>>]
<1>1. /\ step = "heap" /\ step' = "launch"
      /\ UNCHANGED <<grub, mbh, executable, ram>> /\ mem' = Written(f)
  BY DEF InitHeap, GoOn, After
<1>2. heapBottom \in HeapCells
  BY GrubFile DEF HeapCells
<1>3. DOMAIN f \subseteq HeapCells
  BY <1>2
<1> HIDE DEF f
<1>4. DOMAIN mem' = Memory /\ \A k \in DOMAIN grub.sections : Placed(k)'
  BY <1>1, <1>3, OutOfTheHeap
<1>5. PlacedOK'
  BY <1>1, <1>4 DEF PlacedOK
<1>6. KernelsRegion'
  BY <1>1 DEF LInv, KernelsRegion, Usable
<1> QED
  BY <1>1, <1>4, <1>5, <1>6
     DEF LInv, CopiesOK, LoopOK, FileOK, MapOK, RegionOK, ToLoad, LoadedBy

\* and blocks of it are written to.
LEMMA UseHeapLInv == LInv /\ BInv /\ UseHeap => LInv'
<1> SUFFICES ASSUME LInv, BInv, UseHeap PROVE LInv'
  OBVIOUS
<1>0. grub \in Grubs
  BY DEF BInv, Known
<1>1. PICK last \in HeapCells : mem' = Written([a \in heapBottom .. last |-> <<"heap", 0>>])
  BY DEF UseHeap
<1> DEFINE f == [a \in heapBottom .. last |-> <<"heap", 0>>]
<1>2. /\ step = "launch" /\ step' = "launch"
      /\ UNCHANGED <<grub, mbh, executable, ram>> /\ mem' = Written(f)
  BY <1>1 DEF UseHeap, BInv, HeapFits
<1>3. DOMAIN f \subseteq HeapCells
  BY <1>0, GrubFile DEF HeapCells
<1> HIDE DEF f
<1>4. DOMAIN mem' = Memory /\ \A k \in DOMAIN grub.sections : Placed(k)'
  BY <1>0, <1>2, <1>3, OutOfTheHeap
<1>5. PlacedOK'
  BY <1>2, <1>4 DEF PlacedOK
<1>6. KernelsRegion'
  BY <1>2 DEF LInv, KernelsRegion, Usable
<1> QED
  BY <1>2, <1>4, <1>5, <1>6
     DEF LInv, CopiesOK, LoopOK, FileOK, MapOK, RegionOK, ToLoad, LoadedBy

\* The steps that change neither memory nor what was found in it.
LEMMA IdleLInv ==
  ASSUME LInv, UNCHANGED <<grub, mem, mbh, executable, i, progOffset, ram>>,
         \/ step' = step
         \/ step = "heap" /\ step' = "no heap"
         \/ step = "launch" /\ step' = "running"
  PROVE  LInv'
<1>1. /\ DOMAIN mem' = Memory
      /\ \A k \in DOMAIN grub.sections : Placed(k) => Placed(k)'
  BY Unwritten
<1>2. KernelsRegion'
  BY DEF LInv, KernelsRegion, Usable
<1>3. PlacedOK'
  BY <1>1 DEF LInv, PlacedOK, LoadedBy
<1>4. RegionOK' /\ CopiesOK' /\ step' \in ToLoad \cup LoadedBy
  BY DEF LInv, RegionOK, CopiesOK, Usable, ToLoad, LoadedBy
<1>5. LoopOK'
  BY DEF LInv, LoopOK, Prefix
<1>6. FileOK' /\ MapOK'
  BY DEF LInv, FileOK, MapOK, ToLoad
<1> QED
  BY <1>1, <1>2, <1>3, <1>4, <1>5, <1>6 DEF LInv

\* The invariant is kept by every step.
LEMMA LInvNext == LInv /\ BInv /\ [Next]_vars => LInv'
<1> SUFFICES ASSUME LInv, BInv, [Next]_vars PROVE LInv'
  OBVIOUS
<1>0. grub \in Grubs
  BY DEF BInv, Known
<1>1. CASE FillHeader
  BY <1>0, <1>1, FillHeaderLInv
<1>2. CASE ReadHeader
  BY <1>0, <1>2, ReadHeaderLInv
<1>3. CASE CopySection
  BY <1>0, <1>3, CopySectionLInv
<1>4. CASE ProgramLoaded
  BY <1>0, <1>4, ProgramLoadedLInv
<1>5. CASE LookAtRegion
  BY <1>0, <1>5, LookAtRegionLInv
<1>6. CASE NoRegion
  BY <1>0, <1>6, NoRegionLInv
<1>7. CASE InitHeap
  BY <1>0, <1>7, InitHeapLInv
<1>8. CASE HeapTooBig
  BY <1>8, IdleLInv DEF HeapTooBig
<1>9. CASE UseHeap
  BY <1>9, UseHeapLInv
<1>10. CASE Launch
  BY <1>10, IdleLInv DEF Launch
<1>11. CASE UNCHANGED vars
  BY <1>11, IdleLInv DEF vars
<1> QED
  BY <1>1, <1>2, <1>3, <1>4, <1>5, <1>6, <1>7, <1>8, <1>9, <1>10, <1>11 DEF Next

-------------------------------------------------------------------------------
\* The memory the heap is measured against is the region the kernel lies in, with
\* its true start and size (initRamData), for every sorted map.
THEOREM HeapIsMeasuredAgainstTheKernelsRegion == Spec => []KernelsRegion
<1>1. LInv => KernelsRegion
  BY DEF LInv
<1> QED
  BY <1>1, BInvInit, BInvNext, LInvInit, LInvNext, PTL DEF Spec

\* Where the program starts, a section with nothing missing before it has its place
\* where it is linked.
LEMMA LInvInPlace == LInv /\ BInv => ProgramInPlace
<1> SUFFICES ASSUME LInv, BInv, step = "running", NEW k \in DOMAIN grub.sections,
                    grub.sections[k].type = SHT_PROGBITS, NoGapBefore(grub.sections, k),
                    grub.sections[k].addr .. grub.sections[k].addr
                      + grub.sections[k].size - 1 \subseteq Installed(grub),
                    NEW n \in 0 .. grub.sections[k].size - 1
             PROVE  mem[grub.sections[k].addr + n]
                      = <<"file", grub.sections[k].offset + n>>
  BY DEF ProgramInPlace
<1> DEFINE s == grub.sections[k]
<1>1. grub \in Grubs
  BY DEF BInv, Known
<1>2. k \in 1 .. k /\ Loaded(s)
  BY <1>1, PlaceFacts DEF Loaded
<1>3. s.addr = Place(k)
  BY <1>2 DEF NoGapBefore, Place, Prefix
<1>4. Place(k) + n \in Installed(grub)
  <2>1. s.addr \in Nat /\ s.size \in Nat
    BY <1>1, PlaceFacts DEF SectionType
  <2> DEFINE at == s.addr
  <2> DEFINE size == s.size
  <2>2. at + n \in at .. at + size - 1
    <3>1. at \in Nat /\ size \in Nat /\ n \in 0 .. size - 1
      BY <2>1
    <3> HIDE DEF at, size
    <3> QED
      BY <3>1
  <2> QED
    BY <1>3, <2>2
<1>5. Placed(k)
  BY DEF LInv, PlacedOK, LoadedBy
<1> QED
  BY <1>3, <1>4, <1>5 DEF Placed

\* Where the program starts to run, its code and data are what the file has, at the
\* addresses they are linked to (createFlatBinaryAtLocation).
THEOREM ProgramIsInPlace == Spec => []ProgramInPlace
<1> QED
  BY BInvInit, BInvNext, LInvInit, LInvNext, LInvInPlace, PTL DEF Spec

===============================================================================
