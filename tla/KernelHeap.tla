------------------------------ MODULE KernelHeap ------------------------------
(***************************************************************************)
(* The kernel heap (include/stdlib.c): a first-fit free list whose         *)
(* headers live in the memory they describe.                               *)
(*                                                                         *)
(* A header at byte address h is three 32-bit words: the size of the       *)
(* payload at h, the address of the next header (0: none) at h + 4 and the *)
(* status at h + 8; the payload starts at h + 12.  A request is a walk of  *)
(* the list that takes one loop iteration per step.  The kernel is         *)
(* single-threaded here: no interrupt handler allocates.                   *)
(*                                                                         *)
(* mem gives the 32-bit word that starts at an address.  Sizes are any     *)
(* number of bytes (schismAHCI.c:182 asks for 0xFF aligned to 256), so     *)
(* headers need not be aligned and two words may share bytes: what is left *)
(* of a word that was overwritten in part is Junk.  Memory outside Addr is *)
(* not modelled: a walk that leaves it (a heap that failed to initialise,  *)
(* a corrupted link) is not followed any further.                          *)
(***************************************************************************)
EXTENDS Integers, FiniteSets

CONSTANTS HeapBottom,   \* where the linker puts the heap
          HeapMax,      \* KERNEL_HEAP_MAX, the size asked for
          RamSizes,     \* amounts of RAM the memory map may report
          Sizes,        \* sizes that callers ask for
          Alignments    \* alignments that callers ask for

ASSUME HeapAssumption ==
  /\ HeapBottom \in Nat \ {0}
  /\ HeapMax \in Nat
  /\ RamSizes \subseteq Nat
  /\ Sizes \subseteq Nat
  /\ Alignments \subseteq Nat \ {0}

ALLOCATED_MEMORY == 0
FREE_MEMORY == 1

HeaderBytes == 12       \* three words
ChargedBytes == 3       \* what a cut takes off the free size: words, not bytes

\* A cut costs 12 bytes and is charged 3, so the list may reach this far.
Addr == HeapBottom .. (HeapBottom + 4 * HeapMax + 24)

Junk == 7               \* what an owner writes, and a word overwritten in part

VARIABLES
  heapStart,   \* masterHeap.heapStart: 0 when initialisation failed
  mem,         \* Addr -> word
  call,        \* the request being served
  cur,         \* the local "block" of that request
  live,        \* history: the regions handed out and not freed
  headers,     \* history: every address a header was written at
  cuts,        \* history: how many times a block was cut in two
  grants       \* history: parity of the blocks handed out

vars == <<heapStart, mem, call, cur, live, headers, cuts, grants>>

-------------------------------------------------------------------------------
\* The same operators with a plausible slip: a block taken whatever its status,
\* cut whatever its size, cut without charging its header, linked to the old
\* successor; the wrong way round in the alignment loop; a walk that
\* does not advance; a fill with "<=".
SlipFits(b, want) == mem[b] >= want
SlipCuttable(size, want) == size - want > 0
SlipRemainder(size, want) == size - want
SlipLink(b, want) == mem[b + 4]
SlipAlignUp(p, a) == p - (p % a)
SlipFollow(b) == b
SlipMemFill(r) ==
  [a \in Addr |-> IF r.ptr < a + 4 /\ a <= r.ptr + r.len THEN Junk ELSE mem[a]]

-------------------------------------------------------------------------------
\* A request: what it is, how many bytes the list must provide, the size and
\* the alignment the caller asked for.
NoCall == [op |-> "idle", want |-> 0, len |-> 0, align |-> 1]
Booting == [op |-> "boot", want |-> 0, len |-> 0, align |-> 1]
MallocCall(n) == [op |-> "malloc", want |-> n, len |-> n, align |-> 1]
AlignCall(n, a) == [op |-> "align", want |-> n + a, len |-> n, align |-> a]

Calls == {MallocCall(n) : n \in Sizes}
           \cup {AlignCall(n, a) : n \in Sizes, a \in Alignments}

SizeOf(b) == mem[b]
NextOf(b) == mem[b + 4]
StatusOf(b) == mem[b + 8]

Fits(b, want) == SizeOf(b) >= want /\ StatusOf(b) = FREE_MEMORY

\* The block is worth cutting: "blockSize - size > 3".
Cuttable(size, want) == size - want > ChargedBytes

\* The rest of a block that is cut, and where its header goes.
Remainder(size, want) == size - want - ChargedBytes
CutPoint(b, want) == b + want + HeaderBytes

\* What a block that is cut links to: its own rest.
Link(b, want) == CutPoint(b, want)

\* The "offset" loop of kernel_malloc_align.
AlignUp(p, a) == IF p % a = 0 THEN p ELSE p + (a - (p % a))

\* What a block hands to its caller.
RegionOf(b, c) ==
  [hdr |-> b, want |-> c.want, len |-> c.len, align |-> c.align,
   ptr |-> AlignUp(b + HeaderBytes, c.align)]

\* The word at a has a byte in the region.
Covers(r, a) == r.len > 0 /\ r.ptr < a + 4 /\ a < r.ptr + r.len

\* The word v stored at a: the words that share bytes with it are spoilt.
Store(m, a, v) ==
  [x \in Addr |-> IF x = a THEN v
                  ELSE IF a - 4 < x /\ x < a + 4 THEN Junk ELSE m[x]]

\* The three words of a header.
StoreHeader(m, h, size, next, status) ==
  Store(Store(Store(m, h, size), h + 4, next), h + 8, status)

-------------------------------------------------------------------------------
Init == /\ heapStart = 0
        /\ mem = [a \in Addr |-> 0]
        /\ call = Booting
        /\ cur = 0
        /\ live = {}
        /\ headers = {}
        /\ cuts = 0
        /\ grants = 0

\* initKernelMalloc: one free block, unless more was asked for than there is.
InitKernelMalloc(ramSize) ==
  /\ call = Booting
  /\ call' = NoCall
  /\ IF HeapMax > ramSize
       THEN /\ heapStart' = 0
            /\ UNCHANGED <<mem, headers>>
       ELSE /\ heapStart' = HeapBottom
            /\ headers' = {HeapBottom}
            /\ mem' = StoreHeader(mem, HeapBottom, HeapMax, 0, FREE_MEMORY)
  /\ UNCHANGED <<cur, live, cuts, grants>>

\* A caller enters kernel_malloc or kernel_malloc_align.
Request(c) ==
  /\ call = NoCall
  /\ call' = c
  /\ cur' = heapStart
  /\ UNCHANGED <<heapStart, mem, live, headers, cuts, grants>>

Searching == call \in Calls /\ cur \in Addr

\* The loop found a block: its header, and that of its rest if it is worth a
\* cut.  The two headers share no byte.
MemAfterTake(b, want) ==
  IF Cuttable(SizeOf(b), want)
    THEN StoreHeader(StoreHeader(mem, b, want, Link(b, want), ALLOCATED_MEMORY),
                     CutPoint(b, want), Remainder(SizeOf(b), want), NextOf(b),
                     FREE_MEMORY)
    ELSE StoreHeader(mem, b, want, 0, ALLOCATED_MEMORY)

TakeBlock ==
  /\ Searching
  /\ Fits(cur, call.want)
  /\ mem' = MemAfterTake(cur, call.want)
  /\ live' = live \cup {RegionOf(cur, call)}
  /\ IF Cuttable(SizeOf(cur), call.want)
       THEN /\ headers' = headers \cup {CutPoint(cur, call.want)}
            /\ cuts' = cuts + 1
       ELSE UNCHANGED <<headers, cuts>>
  /\ grants' = 1 - grants
  /\ call' = NoCall
  /\ UNCHANGED <<heapStart, cur>>

Follow(b) == NextOf(b)

NextBlock ==
  /\ Searching
  /\ ~Fits(cur, call.want)
  /\ NextOf(cur) # 0
  /\ cur' = Follow(cur)
  /\ UNCHANGED <<heapStart, mem, call, live, headers, cuts, grants>>

\* The end of the list: the call returns 0.
OutOfMemory ==
  /\ Searching
  /\ ~Fits(cur, call.want)
  /\ NextOf(cur) = 0
  /\ call' = NoCall
  /\ UNCHANGED <<heapStart, mem, cur, live, headers, cuts, grants>>

\* free: the word before the pointer is taken for the status of its block.
FreeMark(r) == r.ptr - 4

Free(r) ==
  /\ call = NoCall
  /\ mem' = Store(mem, FreeMark(r), FREE_MEMORY)
  /\ live' = live \ {r}
  /\ UNCHANGED <<heapStart, call, cur, headers, cuts, grants>>

\* The owner of a region fills it (kernel_memcpy, kernel_memclr, fputc, DMA).
MemFill(r) == [a \in Addr |-> IF Covers(r, a) THEN Junk ELSE mem[a]]

Fill(r) ==
  /\ call = NoCall
  /\ mem' = MemFill(r)
  /\ UNCHANGED <<heapStart, call, cur, live, headers, cuts, grants>>

Step == TakeBlock \/ NextBlock \/ OutOfMemory

\* The kernel as it is built: nothing is ever given back (every call of free
\* in kernel.c is commented out).
KernelNext == \/ \E ramSize \in RamSizes : InitKernelMalloc(ramSize)
              \/ \E c \in Calls : Request(c)
              \/ Step
              \/ \E r \in live : Fill(r)

Next == KernelNext \/ \E r \in live : Free(r)

KernelSpec == Init /\ [][KernelNext]_vars /\ WF_vars(Step)
Spec == Init /\ [][Next]_vars /\ WF_vars(Step)

-------------------------------------------------------------------------------
RegionType ==
  [hdr : Addr, want : Nat, len : Sizes, align : Alignments \cup {1}, ptr : Addr]

\* The types of the variables.
TypeOK == /\ heapStart \in {0, HeapBottom}
          /\ mem \in [Addr -> Nat]
          /\ call \in Calls \cup {NoCall, Booting}
          /\ cur \in Nat
          /\ live \subseteq RegionType
          /\ headers \subseteq Addr
          /\ cuts \in Nat
          /\ grants \in {0, 1}

\* The header of every block somebody owns still says what malloc wrote into
\* it, whatever the owners wrote into their regions since: no region covers
\* a header (stdlib.c, the cut at lines 61-69).
HeadersIntact ==
  \A r \in live : /\ SizeOf(r.hdr) = r.want
                  /\ StatusOf(r.hdr) = ALLOCATED_MEMORY
                  /\ NextOf(r.hdr) \in headers \cup {0}

\* Every region lies inside the block cut for it, behind the header.
InsideBlock ==
  \A r \in live : /\ r.hdr + HeaderBytes <= r.ptr
                  /\ r.ptr + r.len <= r.hdr + HeaderBytes + r.want

\* The list outgrows the heap by no more than the nine bytes each cut leaves
\* uncharged, and there are no more cuts than a third of the heap's bytes.
BoundedOverrun ==
  /\ 3 * cuts <= HeapMax
  /\ \A r \in live :
       r.ptr + r.len <= HeapBottom + HeapMax + HeaderBytes
                          + (HeaderBytes - ChargedBytes) * cuts

\* kernel_malloc returns 0 only when no free block in memory is large enough.
HonestFailure ==
  [][OutOfMemory =>
       \A h \in headers : ~ Fits(h, call.want)]_vars

\* Every request returns once the heap is initialised: the walk terminates.
RequestReturns ==
  (call \in Calls /\ heapStart # 0) ~> (call = NoCall)

\* The heap keeps the promise of AbstractHeap.
Granted == {[ptr |-> r.ptr, len |-> r.len, align |-> r.align] : r \in live}
Promise == INSTANCE AbstractHeap WITH owned <- Granted, Places <- Addr
KeepsPromise == Promise!Spec
===============================================================================
