--------------------------- MODULE KernelHeapProofs ---------------------------
(***************************************************************************)
(* The kernel heap in the kernel's own use (KernelSpec) is safe for every  *)
(* heap, every set of sizes and every set of alignments.  With free in use *)
(* (Spec) it is safe for every heap whose callers ask for one size only:   *)
(* the second half of this module.                                         *)
(***************************************************************************)
EXTENDS KernelHeap, NumberFacts, TLAPS

End(r) == r.hdr + HeaderBytes + r.want

\* One region and the header in front of it, below the tail t of the list.
RegionOK(r, t) ==
  /\ HeapBottom <= r.hdr
  /\ r.hdr + HeaderBytes <= r.ptr
  /\ r.ptr + r.len <= End(r)
  /\ r.ptr % r.align = 0
  /\ End(r) <= t
  /\ r.hdr \in headers
  /\ SizeOf(r.hdr) = r.want
  /\ StatusOf(r.hdr) = ALLOCATED_MEMORY
  /\ NextOf(r.hdr) \in headers \cup {0}

\* The list as a whole: the blocks in use lie apart below t; t is the header of
\* the one free block, or, when the heap is used up, the end of the last block.
Shape(t) ==
  /\ HeapBottom <= t
  /\ \A r \in live : RegionOK(r, t)
  /\ \A r, s \in live : r = s \/ End(r) <= s.hdr \/ End(s) <= r.hdr
  /\ \A h \in headers : h = t \/ \E r \in live : h = r.hdr
  /\ 3 * cuts <= HeapMax
  /\ t \in headers =>
       /\ StatusOf(t) = FREE_MEMORY
       /\ NextOf(t) = 0
       /\ t + SizeOf(t) = HeapBottom + HeapMax + 9 * cuts
       /\ SizeOf(t) + 3 * cuts <= HeapMax
       /\ \A r \in live : NextOf(r.hdr) # 0
  /\ t \notin headers => t <= HeapBottom + HeapMax + HeaderBytes + 9 * cuts

\* Before initialisation, and for ever when it failed.
Down == /\ heapStart = 0
        /\ cur = 0
        /\ live = {}
        /\ headers = {}
        /\ cuts = 0

Up == /\ heapStart = HeapBottom
      /\ call # Booting
      /\ HeapBottom \in headers
      /\ call \in Calls => cur \in headers
      /\ \E t \in Nat : Shape(t)

IInv == TypeOK /\ (Down \/ Up)

-------------------------------------------------------------------------------
\* Rounding up to an alignment moves a pointer forward by less than the
\* alignment, onto a multiple of it (kernel_malloc_align, lines 141-149).
LEMMA AlignUpBounds ==
  ASSUME NEW p \in Nat, NEW a \in Nat \ {0}
  PROVE  /\ AlignUp(p, a) \in p .. (p + a - 1)
         /\ AlignUp(p, a) % a = 0
<1>1. CASE p % a = 0
  BY <1>1 DEF AlignUp
<1>2. CASE p % a # 0
  <2> DEFINE q == p \div a
  <2> DEFINE r == p % a
  <2>1. p = a * q + r /\ q \in Nat /\ r \in 0 .. (a - 1)
    BY DivMod
  <2>2. AlignUp(p, a) = p + (a - r)
    BY <1>2 DEF AlignUp
  <2>3. p + (a - r) = a * (q + 1) /\ q + 1 \in Nat
    <3> HIDE DEF q, r
    <3> QED
      BY <2>1
  <2>4. (a * (q + 1)) % a = 0
    <3> HIDE DEF q, r
    <3> QED
      BY <2>3, MultipleMod
  <2>5. AlignUp(p, a) % a = 0
    BY <2>2, <2>3, <2>4
  <2> QED
    BY <1>2, <2>1, <2>2, <2>5
<1> QED
  BY <1>1, <1>2

\* What a request may be: the bytes wanted cover the size and the alignment.
LEMMA CallBounds ==
  ASSUME HeapAssumption, NEW c \in Calls
  PROVE  /\ c.want \in Nat /\ c.len \in Nat /\ c.align \in Nat \ {0}
         /\ c.len \in Sizes /\ c.align \in Alignments \cup {1}
         /\ c.len + c.align - 1 <= c.want
         /\ c # NoCall /\ c # Booting
<1>1. CASE \E n \in Sizes : c = MallocCall(n)
  BY <1>1 DEF HeapAssumption, MallocCall, NoCall, Booting
<1>2. CASE \E n \in Sizes, a \in Alignments : c = AlignCall(n, a)
  BY <1>2 DEF HeapAssumption, AlignCall, NoCall, Booting
<1> QED
  BY <1>1, <1>2 DEF Calls

\* The region cut from block b: inside the block, aligned as asked for.
LEMMA RegionBounds ==
  ASSUME HeapAssumption, NEW c \in Calls, NEW b \in Nat
  PROVE  LET r == RegionOf(b, c)
         IN  /\ r.hdr = b /\ r.want = c.want /\ r.len = c.len /\ r.align = c.align
             /\ r.ptr \in Nat
             /\ b + HeaderBytes <= r.ptr
             /\ r.ptr + r.len <= b + HeaderBytes + c.want
             /\ r.ptr % r.align = 0
<1> DEFINE p == b + HeaderBytes
<1>1. p \in Nat
  BY DEF HeaderBytes
<1>2. AlignUp(p, c.align) \in p .. (p + c.align - 1)
  BY <1>1, CallBounds, AlignUpBounds
<1>3. AlignUp(p, c.align) % c.align = 0
  BY <1>1, CallBounds, AlignUpBounds
<1>4. RegionOf(b, c).ptr = AlignUp(p, c.align)
  BY DEF RegionOf
<1>5. /\ RegionOf(b, c).hdr = b /\ RegionOf(b, c).want = c.want
      /\ RegionOf(b, c).len = c.len /\ RegionOf(b, c).align = c.align
  BY DEF RegionOf
<1> HIDE DEF p
<1> QED
  BY <1>1, <1>2, <1>3, <1>4, <1>5, CallBounds DEF p, HeaderBytes
-------------------------------------------------------------------------------
\* The invariant holds at first.
LEMMA InitIInv == ASSUME HeapAssumption, Init PROVE IInv
<1>1. TypeOK
  BY DEF HeapAssumption, Init, TypeOK, Addr
<1>2. Down
  BY DEF Init, Down
<1> QED
  BY <1>1, <1>2 DEF IInv

\* A header at or below HeapBottom + HeapMax + 9 * cuts is inside Addr.
LEMMA InAddr ==
  ASSUME HeapAssumption, NEW n \in Nat, 3 * n <= HeapMax,
         NEW a \in Nat, HeapBottom <= a, a <= HeapBottom + HeapMax + 9 * n + 24
  PROVE  a \in Addr
BY DEF HeapAssumption, Addr

\* The types of what is in use.
LEMMA LiveTypes ==
  ASSUME HeapAssumption, TypeOK, NEW r \in live
  PROVE  /\ r.hdr \in Nat /\ r.want \in Nat /\ r.ptr \in Nat /\ r.len \in Nat
         /\ r.len \in Sizes /\ r.align \in Alignments \cup {1}
         /\ r.hdr \in Addr /\ r.ptr \in Addr
         /\ r \in RegionType
<1>1. r \in RegionType
  BY DEF TypeOK
<1>2. Addr \subseteq Nat /\ Sizes \subseteq Nat
  BY DEF Addr, HeapAssumption
<1> QED
  BY <1>1, <1>2 DEF RegionType

\* Every header lies inside Addr with its three words.
LEMMA HeaderInAddr ==
  ASSUME HeapAssumption, TypeOK, NEW t \in Nat, Shape(t), NEW h \in headers
  PROVE  h \in Nat /\ \A k \in 0 .. 11 : h + k \in Addr
<1>1. h \in Nat /\ HeapBottom <= h /\ HeapBottom \in Nat /\ HeapMax \in Nat /\ cuts \in Nat
  BY DEF TypeOK, Addr, HeapAssumption
<1>2. h <= HeapBottom + HeapMax + 9 * cuts + 12
  <2>1. CASE h = t
    <3>1. t + SizeOf(t) = HeapBottom + HeapMax + 9 * cuts
      BY <2>1 DEF Shape
    <3>2. SizeOf(t) \in Nat
      BY <2>1 DEF TypeOK, SizeOf
    <3> QED
      BY <1>1, <2>1, <3>1, <3>2
  <2>2. CASE \E r \in live : h = r.hdr
    <3>1. PICK r \in live : h = r.hdr
      BY <2>2
    <3>2. h + 12 <= t
      BY <3>1, LiveTypes DEF Shape, RegionOK, End, HeaderBytes
    <3>3. CASE t \in headers
      <4>1. t + SizeOf(t) = HeapBottom + HeapMax + 9 * cuts
        BY <3>3 DEF Shape
      <4>2. SizeOf(t) \in Nat
        BY <3>3 DEF TypeOK, SizeOf
      <4> QED
        BY <1>1, <3>2, <4>1, <4>2
    <3>4. CASE t \notin headers
      BY <1>1, <3>2, <3>4 DEF Shape, HeaderBytes
    <3> QED
      BY <3>3, <3>4
  <2> QED
    BY <2>1, <2>2 DEF Shape
<1>3. 3 * cuts <= HeapMax
  BY DEF Shape
<1> QED
  BY <1>1, <1>2, <1>3, InAddr

\* Initialisation makes the heap one free block.
LEMMA BootIInv ==
  ASSUME HeapAssumption, IInv, NEW ramSize \in RamSizes, InitKernelMalloc(ramSize)
  PROVE  IInv'
<1>1. TypeOK /\ Down
  BY DEF IInv, InitKernelMalloc, Up
<1>2. CASE HeapMax > ramSize
  BY <1>1, <1>2 DEF IInv, InitKernelMalloc, Down, TypeOK
<1>3. CASE ~(HeapMax > ramSize)
  <2>1. HeapBottom \in Addr /\ HeapBottom + 4 \in Addr /\ HeapBottom + 8 \in Addr
    BY DEF Addr, HeapAssumption
  <2>2. /\ heapStart' = HeapBottom /\ headers' = {HeapBottom} /\ call' = NoCall
        /\ live' = {} /\ cuts' = 0 /\ cur' = 0 /\ grants' = grants
        /\ mem' \in [Addr -> Nat]
        /\ mem'[HeapBottom] = HeapMax
        /\ mem'[HeapBottom + 4] = 0
        /\ mem'[HeapBottom + 8] = FREE_MEMORY
    <3>1. /\ heapStart' = HeapBottom /\ headers' = {HeapBottom} /\ call' = NoCall
          /\ live' = live /\ cuts' = cuts /\ cur' = cur /\ grants' = grants
          /\ mem' = StoreHeader(mem, HeapBottom, HeapMax, 0, FREE_MEMORY)
      BY <1>3 DEF InitKernelMalloc
    <3>2. /\ mem \in [Addr -> Nat] /\ HeapBottom \in Nat /\ HeapMax \in Nat
          /\ FREE_MEMORY \in Nat
      BY <1>1 DEF TypeOK, HeapAssumption, FREE_MEMORY
    <3>3. /\ mem' \in [Addr -> Nat]
          /\ mem'[HeapBottom] = HeapMax
          /\ mem'[HeapBottom + 4] = 0
          /\ mem'[HeapBottom + 8] = FREE_MEMORY
      BY <2>1, <3>1, <3>2 DEF StoreHeader, Store, Junk
    <3> QED
      BY <1>1, <3>1, <3>3 DEF Down
  <2>3. TypeOK'
    BY <1>1, <2>1, <2>2 DEF TypeOK
  <2>4. call' # Booting /\ call' \notin Calls
    BY <2>2, CallBounds DEF NoCall, Booting
  <2>5. Shape(HeapBottom)'
    BY <2>2 DEF Shape, SizeOf, NextOf, StatusOf, HeapAssumption
  <2>6. Up'
    BY <2>2, <2>4, <2>5 DEF Up, HeapAssumption
  <2> QED
    BY <2>3, <2>6 DEF IInv
<1> QED
  BY <1>2, <1>3

\* A request starts at the head of the list.
LEMMA RequestIInv ==
  ASSUME HeapAssumption, IInv, NEW c \in Calls, Request(c)
  PROVE  IInv'
<1>1. TypeOK'
  BY DEF IInv, Request, TypeOK, HeapAssumption
<1>2. CASE Down
  BY <1>1, <1>2 DEF IInv, Request, Down
<1>3. CASE Up
  <2>1. PICK t \in Nat : Shape(t)
    BY <1>3 DEF Up
  <2>2. Shape(t)'
    BY <2>1 DEF Request, Shape, RegionOK, SizeOf, NextOf, StatusOf, End
  <2>3. call' # Booting /\ cur' \in headers'
    BY <1>3, CallBounds DEF Request, Up
  <2>4. Up'
    BY <1>3, <2>2, <2>3 DEF Request, Up
  <2> QED
    BY <1>1, <2>4 DEF IInv
<1> QED
  BY <1>2, <1>3 DEF IInv

\* A walk is under way only when the heap is up.
LEMMA SearchingUp ==
  ASSUME HeapAssumption, IInv, Searching
  PROVE  Up /\ cur \in headers /\ cur \in Addr /\ call \in Calls
BY DEF HeapAssumption, IInv, Searching, Down, Up, Addr

\* The search goes on to the next block.
LEMMA NextBlockIInv ==
  ASSUME HeapAssumption, IInv, NextBlock
  PROVE  IInv'
<1>1. Up /\ cur \in headers /\ cur \in Addr /\ call \in Calls
  BY SearchingUp DEF NextBlock
<1>2. PICK t \in Nat : Shape(t)
  BY <1>1 DEF Up
<1>3. cur' \in headers
  <2>1. CASE cur = t
    BY <1>1, <1>2, <2>1 DEF NextBlock, Shape
  <2>2. CASE \E r \in live : cur = r.hdr
    BY <1>2, <2>2 DEF NextBlock, Follow, Shape, RegionOK
  <2> QED
    BY <1>1, <1>2, <2>1, <2>2 DEF Shape
<1>4. TypeOK'
  BY <1>3 DEF IInv, TypeOK, NextBlock, Addr, HeapAssumption
<1>5. Shape(t)'
  BY <1>2 DEF NextBlock, Shape, RegionOK, SizeOf, NextOf, StatusOf, End
<1>6. Up'
  BY <1>1, <1>3, <1>5 DEF NextBlock, Up
<1> QED
  BY <1>4, <1>6 DEF IInv

\* The search ends without a block.
LEMMA OutOfMemoryIInv ==
  ASSUME HeapAssumption, IInv, OutOfMemory
  PROVE  IInv'
<1>1. Up /\ call \in Calls
  BY SearchingUp DEF OutOfMemory
<1>2. PICK t \in Nat : Shape(t)
  BY <1>1 DEF Up
<1>3. TypeOK'
  BY DEF IInv, TypeOK, OutOfMemory
<1>4. Shape(t)'
  BY <1>2 DEF OutOfMemory, Shape, RegionOK, SizeOf, NextOf, StatusOf, End
<1>5. call' # Booting /\ call' \notin Calls
  BY CallBounds DEF OutOfMemory, NoCall, Booting
<1>6. Up'
  BY <1>1, <1>4, <1>5 DEF OutOfMemory, Up
<1> QED
  BY <1>3, <1>6 DEF IInv

\* Filling a region changes no header: headers lie outside every region.
LEMMA FillIInv ==
  ASSUME HeapAssumption, IInv, NEW f \in live, Fill(f)
  PROVE  IInv'
<1>1. Up
  BY DEF IInv, Down
<1>2. PICK t \in Nat : Shape(t)
  BY <1>1 DEF Up
<1>3. TypeOK'
  BY DEF IInv, TypeOK, Fill, MemFill, Junk
<1>4. \A a \in Addr : ~Covers(f, a) => mem'[a] = mem[a]
  BY DEF Fill, MemFill
<1>5. /\ f.hdr \in Nat /\ f.want \in Nat /\ f.ptr \in Nat /\ f.len \in Nat
      /\ RegionOK(f, t)
  BY <1>2, LiveTypes DEF Shape, IInv
<1>6. ASSUME NEW h \in headers
      PROVE  \A k \in 0 .. 8 : h + k \in Addr => mem'[h + k] = mem[h + k]
  <2>1. h \in Nat
    BY DEF IInv, TypeOK, Addr, HeapAssumption
  <2>2. CASE h = t
    BY <1>4, <1>5, <2>1, <2>2 DEF RegionOK, End, Covers, HeaderBytes
  <2>3. CASE \E r \in live : h = r.hdr
    <3>1. PICK r \in live : h = r.hdr
      BY <2>3
    <3>2. /\ r = f \/ End(r) <= f.hdr \/ End(f) <= r.hdr
          /\ RegionOK(r, t) /\ r.want \in Nat
      BY <1>2, LiveTypes DEF Shape, IInv
    <3> QED
      BY <1>4, <1>5, <2>1, <3>1, <3>2 DEF RegionOK, End, Covers, HeaderBytes
  <2> QED
    BY <1>2, <2>2, <2>3 DEF Shape
<1>7. \A h \in headers : h \in Nat /\ h \in Addr /\ h + 4 \in Addr /\ h + 8 \in Addr
  <2> TAKE h \in headers
  <2>1. h \in Nat /\ \A k \in 0 .. 11 : h + k \in Addr
    BY <1>2, HeaderInAddr DEF IInv
  <2>2. h + 0 \in Addr /\ h + 4 \in Addr /\ h + 8 \in Addr
    BY <2>1
  <2> QED
    BY <2>1, <2>2
<1>8. \A h \in headers : /\ mem'[h] = mem[h]
                         /\ mem'[h + 4] = mem[h + 4]
                         /\ mem'[h + 8] = mem[h + 8]
  <2> TAKE h \in headers
  <2>1. h \in Nat /\ h + 0 = h
    BY <1>7
  <2> QED
    BY <1>6, <1>7, <2>1
<1>9. Shape(t)'
  BY <1>2, <1>8 DEF Fill, Shape, RegionOK, SizeOf, NextOf, StatusOf, End
<1>10. Up'
  BY <1>1, <1>9 DEF Fill, Up
<1> QED
  BY <1>3, <1>10 DEF IInv
\* The block a request takes is the tail of the list, the only free one.
LEMMA TakesTail ==
  ASSUME HeapAssumption, IInv, TakeBlock, NEW t \in Nat, Shape(t)
  PROVE  cur = t /\ t \in headers
<1>1. cur \in headers /\ StatusOf(cur) = FREE_MEMORY
  BY SearchingUp DEF TakeBlock, Fits
<1>2. \A r \in live : StatusOf(r.hdr) # FREE_MEMORY
  BY DEF Shape, RegionOK, FREE_MEMORY, ALLOCATED_MEMORY
<1> QED
  BY <1>1, <1>2 DEF Shape

\* The tail is cut in two: the front becomes a block in use, the rest the tail.
LEMMA CutIInv ==
  ASSUME HeapAssumption, IInv, TakeBlock, NEW t \in Nat, Shape(t),
         NEW w, w = call.want, Cuttable(SizeOf(t), w),
         NEW u, u = CutPoint(t, w)
  PROVE  u \in Nat /\ TypeOK' /\ Shape(u)'
<1>0. PICK n : n = RegionOf(t, call)
  OBVIOUS
<1>1. cur = t /\ t \in headers /\ call \in Calls /\ TypeOK
  BY TakesTail, SearchingUp DEF TakeBlock, IInv
<1>2. w \in Nat /\ u \in Nat /\ u = t + 12 + w
  BY <1>1, CallBounds DEF CutPoint, HeaderBytes
<1>3. /\ SizeOf(t) \in Nat /\ SizeOf(t) > w + 3
      /\ t + SizeOf(t) = HeapBottom + HeapMax + 9 * cuts
      /\ SizeOf(t) + 3 * cuts <= HeapMax
      /\ NextOf(t) = 0
      /\ cuts \in Nat /\ HeapMax \in Nat /\ HeapBottom \in Nat
  BY <1>1, <1>2
     DEF Shape, TypeOK, SizeOf, Cuttable, ChargedBytes, HeapAssumption
<1>4. t \in Addr /\ t + 4 \in Addr /\ t + 8 \in Addr
  <2>1. \A k \in 0 .. 11 : t + k \in Addr
    BY <1>1, HeaderInAddr
  <2> QED
    BY <1>1, <2>1 DEF TypeOK
<1>5. u \in Addr /\ u + 4 \in Addr /\ u + 8 \in Addr
  <2>1. HeapBottom <= u /\ u + 8 <= HeapBottom + HeapMax + 9 * cuts + 24
    BY <1>2, <1>3 DEF Shape
  <2> QED
    BY <1>2, <1>3, <2>1, InAddr
<1>6. /\ w = call.want
      /\ mem' = StoreHeader(StoreHeader(mem, t, w, u, ALLOCATED_MEMORY),
                            u, Remainder(SizeOf(t), w), NextOf(t), FREE_MEMORY)
  BY <1>1 DEF TakeBlock, MemAfterTake, Link
<1>7. /\ mem' \in [Addr -> Nat]
      /\ \A a \in Addr : a + 4 <= t => mem'[a] = mem[a]
      /\ mem'[t] = w /\ mem'[t + 8] = ALLOCATED_MEMORY /\ mem'[t + 4] = u
      /\ mem'[u] = SizeOf(t) - w - 3 /\ mem'[u + 4] = 0 /\ mem'[u + 8] = FREE_MEMORY
  <2>1. /\ mem \in [Addr -> Nat] /\ Addr \subseteq Nat
        /\ ALLOCATED_MEMORY \in Nat /\ FREE_MEMORY \in Nat
        /\ Remainder(SizeOf(t), w) = SizeOf(t) - w - 3
        /\ SizeOf(t) - w - 3 \in Nat /\ NextOf(t) = 0 /\ t \in Nat
    <3>1. mem \in [Addr -> Nat]
      BY <1>1 DEF TypeOK
    <3>2. Addr \subseteq Nat
      BY DEF Addr, HeapAssumption
    <3> QED
      BY <1>2, <1>3, <3>1, <3>2
         DEF Remainder, ChargedBytes, ALLOCATED_MEMORY, FREE_MEMORY
  <2>2. PICK p : p = StoreHeader(mem, t, w, u, ALLOCATED_MEMORY)
    OBVIOUS
  <2>3. /\ p \in [Addr -> Nat]
        /\ p[t] = w /\ p[t + 4] = u /\ p[t + 8] = ALLOCATED_MEMORY
        /\ \A x \in Addr : x + 4 <= t \/ t + 12 <= x => p[x] = mem[x]
    BY <1>2, <1>4, <2>1, <2>2 DEF StoreHeader, Store, Junk
  <2>4. mem' = StoreHeader(p, u, SizeOf(t) - w - 3, 0, FREE_MEMORY)
    BY <1>6, <2>1, <2>2
  <2>5. /\ mem' \in [Addr -> Nat]
        /\ mem'[u] = SizeOf(t) - w - 3 /\ mem'[u + 4] = 0
        /\ mem'[u + 8] = FREE_MEMORY
        /\ \A x \in Addr : x + 4 <= u \/ u + 12 <= x => mem'[x] = p[x]
    BY <1>2, <1>5, <2>1, <2>3, <2>4 DEF StoreHeader, Store, Junk
  <2> QED
    BY <1>2, <1>4, <2>1, <2>3, <2>5
<1>8. /\ live' = live \cup {n} /\ headers' = headers \cup {u} /\ cuts' = cuts + 1
      /\ call' = NoCall /\ heapStart' = heapStart /\ cur' = cur
      /\ grants' = 1 - grants
  BY <1>0, <1>1 DEF TakeBlock
<1>9. /\ n.hdr = t /\ n.want = w /\ n.ptr \in Nat
      /\ n.len \in Sizes /\ n.align \in Alignments \cup {1} /\ n.len \in Nat
      /\ t + 12 <= n.ptr /\ n.ptr + n.len <= u /\ n.ptr % n.align = 0
  <2>1. /\ n.hdr = t /\ n.want = call.want /\ n.len = call.len /\ n.align = call.align
        /\ n.ptr \in Nat /\ t + 12 <= n.ptr
        /\ n.ptr + n.len <= t + 12 + call.want /\ n.ptr % n.align = 0
    BY <1>0, <1>1, RegionBounds DEF HeaderBytes
  <2>2. call.len \in Nat /\ call.len \in Sizes /\ call.align \in Alignments \cup {1}
    BY <1>1, CallBounds
  <2> QED
    BY <1>2, <2>1, <2>2
<1>10. n \in RegionType
  <2>1. n.ptr \in Addr
    BY <1>2, <1>3, <1>4, <1>5, <1>9 DEF Addr
  <2> QED
    BY <1>0, <1>2, <1>4, <1>9, <2>1 DEF RegionType, RegionOf
<1>11. TypeOK'
  <2>1. headers' \subseteq Addr /\ live' \subseteq RegionType
    BY <1>1, <1>5, <1>8, <1>10 DEF TypeOK
  <2>2. cuts' \in Nat /\ grants' \in {0, 1} /\ heapStart' \in {0, HeapBottom} /\ cur' \in Nat
    BY <1>1, <1>8 DEF TypeOK
  <2> QED
    BY <1>7, <1>8, <2>1, <2>2 DEF TypeOK
<1>12. \A r \in live : /\ End(r) <= t /\ r.hdr \in Nat
                       /\ mem'[r.hdr] = mem[r.hdr]
                       /\ mem'[r.hdr + 4] = mem[r.hdr + 4]
                       /\ mem'[r.hdr + 8] = mem[r.hdr + 8]
  <2> TAKE r \in live
  <2>1. RegionOK(r, t) /\ r.hdr \in Nat /\ r.want \in Nat /\ r.hdr \in headers
    BY <1>1, LiveTypes DEF Shape, RegionOK
  <2>2. r.hdr + 12 <= t
    BY <2>1 DEF RegionOK, End, HeaderBytes
  <2>3. \A k \in 0 .. 11 : r.hdr + k \in Addr
    BY <1>1, <2>1, HeaderInAddr
  <2>4. r.hdr \in Addr /\ r.hdr + 4 \in Addr /\ r.hdr + 8 \in Addr
    BY <2>1, <2>3 DEF TypeOK
  <2> QED
    BY <1>7, <2>1, <2>2, <2>4 DEF RegionOK
<1>13. \A r \in live' : RegionOK(r, u)'
  <2>1. RegionOK(n, u)'
    BY <1>1, <1>2, <1>7, <1>8, <1>9
       DEF RegionOK, Shape, End, SizeOf, StatusOf, NextOf, HeaderBytes
  <2>2. ASSUME NEW r \in live PROVE RegionOK(r, u)'
    <3>1. RegionOK(r, t)
      BY DEF Shape
    <3>2. r.want \in Nat
      BY <1>1, LiveTypes
    <3> QED
      BY <1>2, <1>8, <1>12, <3>1, <3>2
         DEF RegionOK, End, SizeOf, StatusOf, NextOf, HeaderBytes
  <2> QED
    BY <1>8, <2>1, <2>2
<1>14. \A r, s \in live' : r = s \/ End(r) <= s.hdr \/ End(s) <= r.hdr
  BY <1>8, <1>9, <1>12 DEF Shape
<1>15. \A h \in headers' : h = u \/ \E r \in live' : h = r.hdr
  BY <1>8, <1>9 DEF Shape
<1>16. \A r \in live' : NextOf(r.hdr)' # 0
  BY <1>1, <1>2, <1>7, <1>8, <1>9, <1>12 DEF Shape, NextOf
<1>17. /\ HeapBottom <= u
       /\ 3 * cuts' <= HeapMax
       /\ StatusOf(u)' = FREE_MEMORY /\ NextOf(u)' = 0
       /\ u + SizeOf(u)' = HeapBottom + HeapMax + 9 * cuts'
       /\ SizeOf(u)' + 3 * cuts' <= HeapMax
       /\ u \in headers'
  <2>1. /\ SizeOf(u)' = SizeOf(t) - w - 3 /\ NextOf(u)' = 0
        /\ StatusOf(u)' = FREE_MEMORY
    BY <1>7 DEF SizeOf, NextOf, StatusOf
  <2>2. HeapBottom <= t
    BY DEF Shape
  <2> QED
    BY <1>2, <1>3, <1>8, <2>1, <2>2
<1>18. Shape(u)'
  BY <1>13, <1>14, <1>15, <1>16, <1>17 DEF Shape, End
<1> QED
  BY <1>2, <1>11, <1>18
\* The tail is taken whole: the list has no free block any more.
LEMMA WholeIInv ==
  ASSUME HeapAssumption, IInv, TakeBlock, NEW t \in Nat, Shape(t),
         NEW w, w = call.want, ~Cuttable(SizeOf(t), w),
         NEW u, u = t + HeaderBytes + w
  PROVE  u \in Nat /\ TypeOK' /\ Shape(u)'
<1>0. PICK n : n = RegionOf(t, call)
  OBVIOUS
<1>1. cur = t /\ t \in headers /\ call \in Calls /\ TypeOK
  BY TakesTail, SearchingUp DEF TakeBlock, IInv
<1>2. w \in Nat /\ u \in Nat /\ u = t + 12 + w
  BY <1>1, CallBounds DEF HeaderBytes
<1>3. /\ SizeOf(t) \in Nat /\ SizeOf(t) >= w
      /\ t + SizeOf(t) = HeapBottom + HeapMax + 9 * cuts
      /\ SizeOf(t) + 3 * cuts <= HeapMax
      /\ HeapBottom <= t
      /\ cuts \in Nat /\ HeapMax \in Nat /\ HeapBottom \in Nat
  BY <1>1, <1>2 DEF Shape, TypeOK, SizeOf, TakeBlock, Fits, HeapAssumption
<1>4. t \in Addr /\ t + 4 \in Addr /\ t + 8 \in Addr
  <2>1. \A k \in 0 .. 11 : t + k \in Addr
    BY <1>1, HeaderInAddr
  <2> QED
    BY <1>1, <2>1 DEF TypeOK
<1>5. u \in Addr /\ u <= HeapBottom + HeapMax + 12 + 9 * cuts
  <2>1. HeapBottom <= u /\ u <= HeapBottom + HeapMax + 9 * cuts + 12
    BY <1>2, <1>3
  <2> QED
    BY <1>2, <1>3, <2>1, InAddr
<1>6. mem' = StoreHeader(mem, t, w, 0, ALLOCATED_MEMORY)
  BY <1>1 DEF TakeBlock, MemAfterTake
<1>7. /\ mem' \in [Addr -> Nat]
      /\ \A a \in Addr : a + 4 <= t => mem'[a] = mem[a]
      /\ mem'[t] = w /\ mem'[t + 8] = ALLOCATED_MEMORY /\ mem'[t + 4] = 0
  <2>1. /\ mem \in [Addr -> Nat] /\ t \in Nat /\ Addr \subseteq Nat
        /\ ALLOCATED_MEMORY \in Nat
    BY <1>1 DEF TypeOK, ALLOCATED_MEMORY, Addr, HeapAssumption
  <2> QED
    BY <1>2, <1>4, <1>6, <2>1 DEF StoreHeader, Store, Junk
<1>8. /\ live' = live \cup {n} /\ headers' = headers /\ cuts' = cuts
      /\ call' = NoCall /\ heapStart' = heapStart /\ cur' = cur
      /\ grants' = 1 - grants
  BY <1>0, <1>1 DEF TakeBlock
<1>9. /\ n.hdr = t /\ n.want = w /\ n.ptr \in Nat
      /\ n.len \in Sizes /\ n.align \in Alignments \cup {1} /\ n.len \in Nat
      /\ t + 12 <= n.ptr /\ n.ptr + n.len <= u /\ n.ptr % n.align = 0
  <2>1. /\ n.hdr = t /\ n.want = call.want /\ n.len = call.len /\ n.align = call.align
        /\ n.ptr \in Nat /\ t + 12 <= n.ptr
        /\ n.ptr + n.len <= t + 12 + call.want /\ n.ptr % n.align = 0
    BY <1>0, <1>1, RegionBounds DEF HeaderBytes
  <2>2. call.len \in Nat /\ call.len \in Sizes /\ call.align \in Alignments \cup {1}
    BY <1>1, CallBounds
  <2> QED
    BY <1>2, <2>1, <2>2
<1>10. n \in RegionType
  <2>1. n.ptr \in Addr
    BY <1>2, <1>3, <1>4, <1>5, <1>9 DEF Addr
  <2> QED
    BY <1>0, <1>2, <1>4, <1>9, <2>1 DEF RegionType, RegionOf
<1>11. TypeOK'
  <2>1. headers' \subseteq Addr /\ live' \subseteq RegionType
    BY <1>1, <1>8, <1>10 DEF TypeOK
  <2>2. cuts' \in Nat /\ grants' \in {0, 1} /\ heapStart' \in {0, HeapBottom} /\ cur' \in Nat
    BY <1>1, <1>8 DEF TypeOK
  <2> QED
    BY <1>7, <1>8, <2>1, <2>2 DEF TypeOK
<1>12. \A r \in live : /\ End(r) <= t /\ r.hdr \in Nat
                       /\ mem'[r.hdr] = mem[r.hdr]
                       /\ mem'[r.hdr + 4] = mem[r.hdr + 4]
                       /\ mem'[r.hdr + 8] = mem[r.hdr + 8]
  <2> TAKE r \in live
  <2>1. RegionOK(r, t) /\ r.hdr \in Nat /\ r.want \in Nat /\ r.hdr \in headers
    BY <1>1, LiveTypes DEF Shape, RegionOK
  <2>2. r.hdr + 12 <= t
    BY <2>1 DEF RegionOK, End, HeaderBytes
  <2>3. \A k \in 0 .. 11 : r.hdr + k \in Addr
    BY <1>1, <2>1, HeaderInAddr
  <2>4. r.hdr \in Addr /\ r.hdr + 4 \in Addr /\ r.hdr + 8 \in Addr
    BY <2>1, <2>3 DEF TypeOK
  <2> QED
    BY <1>7, <2>1, <2>2, <2>4 DEF RegionOK
<1>13. \A r \in live' : RegionOK(r, u)'
  <2>1. RegionOK(n, u)'
    BY <1>1, <1>2, <1>7, <1>8, <1>9
       DEF RegionOK, Shape, End, SizeOf, StatusOf, NextOf, HeaderBytes
  <2>2. ASSUME NEW r \in live PROVE RegionOK(r, u)'
    <3>1. RegionOK(r, t)
      BY DEF Shape
    <3>2. r.want \in Nat
      BY <1>1, LiveTypes
    <3> QED
      BY <1>2, <1>8, <1>12, <3>1, <3>2
         DEF RegionOK, End, SizeOf, StatusOf, NextOf, HeaderBytes
  <2> QED
    BY <1>8, <2>1, <2>2
<1>14. \A r, s \in live' : r = s \/ End(r) <= s.hdr \/ End(s) <= r.hdr
  BY <1>8, <1>9, <1>12 DEF Shape
<1>15. \A h \in headers' : h = u \/ \E r \in live' : h = r.hdr
  BY <1>8, <1>9 DEF Shape
<1>16. u \notin headers'
  <2>1. ASSUME NEW r \in live PROVE r.hdr <= t
    BY <1>1, <1>12, LiveTypes DEF End, HeaderBytes
  <2>2. \A h \in headers : h <= t
    BY <2>1 DEF Shape
  <2> QED
    BY <1>1, <1>2, <1>8, <2>2 DEF TypeOK, Addr, HeapAssumption
<1>17. /\ HeapBottom <= u /\ 3 * cuts' <= HeapMax
       /\ u <= HeapBottom + HeapMax + HeaderBytes + 9 * cuts'
  BY <1>2, <1>3, <1>5, <1>8 DEF HeaderBytes
<1>18. Shape(u)'
  BY <1>13, <1>14, <1>15, <1>16, <1>17 DEF Shape, End
<1> QED
  BY <1>2, <1>11, <1>18

\* The search ends with a block.
LEMMA TakeBlockIInv ==
  ASSUME HeapAssumption, IInv, TakeBlock
  PROVE  IInv'
<1>1. Up /\ call \in Calls
  BY SearchingUp DEF TakeBlock
<1>2. PICK t \in Nat : Shape(t)
  BY <1>1 DEF Up
<1>3. PICK w : w = call.want
  OBVIOUS
<1>4. TypeOK' /\ \E u \in Nat : Shape(u)'
  <2>1. CASE Cuttable(SizeOf(t), w)
    BY <1>2, <1>3, <2>1, CutIInv
  <2>2. CASE ~Cuttable(SizeOf(t), w)
    BY <1>2, <1>3, <2>2, WholeIInv
  <2> QED
    BY <2>1, <2>2
<1>5. /\ heapStart' = heapStart /\ call' # Booting /\ call' \notin Calls
      /\ headers \subseteq headers'
  BY CallBounds DEF TakeBlock, NoCall, Booting
<1> QED
  BY <1>1, <1>4, <1>5 DEF IInv, Up
\* Every step preserves the invariant.
LEMMA StepIInv ==
  ASSUME HeapAssumption, IInv, [KernelNext]_vars
  PROVE  IInv'
<1>1. CASE \E ramSize \in RamSizes : InitKernelMalloc(ramSize)
  BY <1>1, BootIInv
<1>2. CASE \E c \in Calls : Request(c)
  BY <1>2, RequestIInv
<1>3. CASE TakeBlock
  BY <1>3, TakeBlockIInv
<1>4. CASE NextBlock
  BY <1>4, NextBlockIInv
<1>5. CASE OutOfMemory
  BY <1>5, OutOfMemoryIInv
<1>6. CASE \E r \in live : Fill(r)
  BY <1>6, FillIInv
<1>7. CASE UNCHANGED vars
  BY <1>7 DEF vars, IInv, TypeOK, Down, Up, Shape, RegionOK, End, SizeOf, NextOf,
              StatusOf
<1> QED
  BY <1>1, <1>2, <1>3, <1>4, <1>5, <1>6, <1>7 DEF KernelNext, Step

THEOREM Invariance == KernelSpec => []IInv
<1>1. Init => IInv
  BY HeapAssumption, InitIInv
<1>2. IInv /\ [KernelNext]_vars => IInv'
  BY HeapAssumption, StepIInv
<1> QED
  BY <1>1, <1>2, PTL DEF KernelSpec

-------------------------------------------------------------------------------
\* The variables of the heap keep their types.
THEOREM KernelHeapTypes == KernelSpec => []TypeOK
<1>1. IInv => TypeOK
  BY DEF IInv
<1> QED
  BY <1>1, Invariance, PTL

\* Whatever the owners write into their regions, the header of every block in
\* use keeps saying what kernel_malloc wrote into it.
THEOREM HeadersStayIntact == KernelSpec => []HeadersIntact
<1>1. IInv => HeadersIntact
  BY DEF IInv, Down, Up, Shape, RegionOK, HeadersIntact
<1> QED
  BY <1>1, Invariance, PTL

\* Every region, aligned or not, lies inside the block cut for it.
THEOREM RegionsInsideBlocks == KernelSpec => []InsideBlock
<1>1. IInv => InsideBlock
  BY DEF IInv, Down, Up, Shape, RegionOK, InsideBlock, End
<1> QED
  BY <1>1, Invariance, PTL

\* The heap outgrows its size by at most nine bytes for every cut, and by at
\* most three times its size in all.
THEOREM OverrunIsBounded == KernelSpec => []BoundedOverrun
<1>1. ASSUME IInv PROVE BoundedOverrun
  <2>1. CASE Down
    BY <2>1, HeapAssumption DEF Down, BoundedOverrun, HeapAssumption
  <2>2. CASE Up
    <3>1. PICK t \in Nat : Shape(t)
      BY <2>2 DEF Up
    <3>2. t <= HeapBottom + HeapMax + 12 + 9 * cuts
      <4>1. t \in headers => SizeOf(t) \in Nat
        BY <1>1 DEF IInv, TypeOK, SizeOf
      <4> QED
        BY <1>1, <3>1, <4>1, HeapAssumption
           DEF Shape, HeaderBytes, IInv, TypeOK, HeapAssumption
    <3>3. ASSUME NEW r \in live
          PROVE  r.ptr + r.len <= HeapBottom + HeapMax + 12 + 9 * cuts
      <4>1. RegionOK(r, t)
        BY <3>1 DEF Shape
      <4>2. /\ r.ptr \in Nat /\ r.len \in Nat /\ End(r) \in Nat /\ cuts \in Nat
            /\ HeapBottom \in Nat /\ HeapMax \in Nat
        BY <1>1, HeapAssumption, LiveTypes
           DEF IInv, End, HeaderBytes, TypeOK, HeapAssumption
      <4> QED
        BY <3>2, <4>1, <4>2 DEF RegionOK
    <3> QED
      BY <3>1, <3>3 DEF BoundedOverrun, Shape, HeaderBytes, ChargedBytes
  <2> QED
    BY <1>1, <2>1, <2>2 DEF IInv
<1> QED
  BY <1>1, Invariance, PTL

\* kernel_malloc returns 0 only when no free block anywhere is large enough.
THEOREM FailureIsHonest == KernelSpec => HonestFailure
<1>1. ASSUME IInv, OutOfMemory
      PROVE  \A h \in headers : ~Fits(h, call.want)
  <2>1. Up /\ cur \in headers
    BY <1>1, HeapAssumption, SearchingUp DEF OutOfMemory
  <2>2. PICK t \in Nat : Shape(t)
    BY <2>1 DEF Up
  <2>3. \A h \in headers : h = t \/ ~Fits(h, call.want)
    BY <2>2 DEF Shape, RegionOK, Fits, FREE_MEMORY, ALLOCATED_MEMORY
  <2>4. t \in headers => cur = t
    BY <1>1, <2>1, <2>2 DEF OutOfMemory, Shape
  <2> QED
    BY <1>1, <2>3, <2>4 DEF OutOfMemory
<1>2. IInv => [OutOfMemory => \A h \in headers : ~Fits(h, call.want)]_vars
  BY <1>1
<1> QED
  BY <1>2, Invariance, PTL DEF HonestFailure
-------------------------------------------------------------------------------
GrantOf(r) == [ptr |-> r.ptr, len |-> r.len, align |-> r.align]

\* Handing out a block is a grant of the abstract heap.
LEMMA TakeBlockGrants ==
  ASSUME HeapAssumption, IInv, TakeBlock
  PROVE  Promise!Next
<1>1. Up /\ call \in Calls /\ TypeOK /\ cur \in Nat
  BY SearchingUp DEF TakeBlock, IInv, TypeOK
<1>2. PICK t \in Nat : Shape(t)
  BY <1>1 DEF Up
<1>3. cur = t /\ TypeOK'
  BY <1>2, TakesTail, TakeBlockIInv DEF IInv
<1>4. PICK n : n = RegionOf(cur, call)
  OBVIOUS
<1>5. live' = live \cup {n} /\ grants' = 1 - grants
  BY <1>4 DEF TakeBlock
<1>6. PICK g : g = GrantOf(n)
  OBVIOUS
<1>7. Granted' = Granted \cup {g}
  BY <1>5, <1>6 DEF Granted, GrantOf
<1>8. n \in RegionType
  BY <1>3, <1>5 DEF TypeOK
<1>9. /\ n.ptr \in Addr /\ n.len \in Sizes /\ n.align \in Alignments \cup {1}
  BY <1>8 DEF RegionType
<1>10. g.ptr = n.ptr /\ g.len = n.len /\ g.align = n.align /\ g \in Promise!Region
  BY <1>6, <1>9 DEF GrantOf, Promise!Region
<1>11. t <= n.ptr /\ n.ptr % n.align = 0 /\ n.ptr \in Nat
  BY <1>1, <1>3, <1>4, RegionBounds DEF HeaderBytes
<1>12. ASSUME NEW s \in Granted PROVE Promise!Apart(g, s)
  <2>1. PICK r \in live : s = GrantOf(r)
    BY DEF Granted, GrantOf
  <2>2. s.ptr = r.ptr /\ s.len = r.len
    BY <2>1 DEF GrantOf
  <2>3. RegionOK(r, t) /\ r.ptr \in Nat /\ r.len \in Nat /\ End(r) \in Nat
    BY <1>1, <1>2, LiveTypes DEF Shape, End, HeaderBytes
  <2>4. s.ptr + s.len <= n.ptr
    BY <1>11, <2>2, <2>3 DEF RegionOK
  <2> QED
    BY <1>10, <2>4 DEF Promise!Apart
<1>13. Promise!Grant(g)
  BY <1>5, <1>7, <1>10, <1>11, <1>12 DEF Promise!Grant
<1> QED
  BY <1>10, <1>13 DEF Promise!Next

\* In the kernel's own use the heap implements the abstract heap: no two
\* regions handed out overlap, and each is aligned as asked for.
THEOREM HeapKeepsPromise == KernelSpec => KeepsPromise
<1>1. Init => Promise!Init
  BY DEF Init, Promise!Init, Granted
<1>2. IInv /\ [KernelNext]_vars => [Promise!Next]_<<Granted, grants>>
  <2> SUFFICES ASSUME IInv, [KernelNext]_vars
               PROVE  [Promise!Next]_<<Granted, grants>>
    OBVIOUS
  <2>1. CASE TakeBlock
    BY <2>1, HeapAssumption, TakeBlockGrants
  <2>2. CASE ~TakeBlock
    <3>1. UNCHANGED <<live, grants>>
      BY <2>2 DEF KernelNext, Step, InitKernelMalloc, Request, NextBlock, OutOfMemory,
                  Fill, vars
    <3> QED
      BY <3>1 DEF Granted
  <2> QED
    BY <2>1, <2>2
<1> QED
  BY <1>1, <1>2, Invariance, PTL DEF KernelSpec, KeepsPromise, Promise!Spec

-------------------------------------------------------------------------------
(***************************************************************************)
(* With free in use and requests of one size s, every block but the last   *)
(* one has that size, so only the last one is ever cut.  A freed block     *)
(* that is taken again loses its link, and the list may lose blocks behind *)
(* it; but the blocks, on the list or off it, stay apart.                  *)
(***************************************************************************)

\* All the blocks there are, m being the last one; the overrun of the heap is
\* less than four times what has been taken from the size of the last block.
Blocks(m, s) ==
  /\ \A h \in headers : h = m \/ (SizeOf(h) = s /\ h + HeaderBytes + s <= m)
  /\ \A g, h \in headers :
       g = h \/ g + HeaderBytes + s <= h \/ h + HeaderBytes + s <= g
  /\ \A h \in headers : NextOf(h) \in headers \cup {0}
  /\ m - HeapBottom <= 4 * (HeapMax - SizeOf(m))
  /\ \A r \in live : /\ r.hdr \in headers
                     /\ r.ptr = r.hdr + HeaderBytes
                     /\ r.want = s /\ r.len = s /\ r.align = 1
                     /\ SizeOf(r.hdr) = s
                     /\ StatusOf(r.hdr) = ALLOCATED_MEMORY

\* The heap is initialised, and a walk has reached a header.
FreeUp(s) == /\ heapStart = HeapBottom
             /\ call # Booting
             /\ HeapBottom \in headers
             /\ call \in Calls => cur \in headers
             /\ \E m \in headers : Blocks(m, s)

FreeIInv(s) == TypeOK /\ (Down \/ FreeUp(s))

\* Every caller asks for s bytes, none for an alignment.
OneSize(s) == Sizes = {s} /\ Alignments = {}

\* The only request there is.
LEMMA OneCall ==
  ASSUME HeapAssumption, NEW s, OneSize(s), NEW c \in Calls
  PROVE  /\ s \in Nat /\ c.want = s /\ c.len = s /\ c.align = 1
         /\ c # NoCall /\ c # Booting
<1>1. s \in Nat /\ c = MallocCall(s)
  BY DEF OneSize, Calls, HeapAssumption
<1> QED
  BY <1>1 DEF MallocCall, NoCall, Booting

\* The three words of every header lie inside Addr, with room to spare.
LEMMA BlockInAddr ==
  ASSUME HeapAssumption, TypeOK, NEW s \in Nat, NEW m \in headers, Blocks(m, s),
         NEW h \in headers
  PROVE  /\ h \in Nat /\ HeapBottom <= h
         /\ h \in Addr /\ h + 4 \in Addr /\ h + 8 \in Addr /\ h + 12 \in Addr
<1>1. /\ h \in Nat /\ m \in Nat /\ HeapBottom \in Nat /\ HeapMax \in Nat
      /\ HeapBottom <= h /\ SizeOf(m) \in Nat
  BY DEF TypeOK, Addr, HeapAssumption, SizeOf
<1>2. h <= m /\ m - HeapBottom <= 4 * (HeapMax - SizeOf(m))
  BY <1>1 DEF Blocks, HeaderBytes
<1>3. h <= HeapBottom + 4 * HeapMax
  BY <1>1, <1>2
<1> QED
  BY <1>1, <1>3 DEF Addr

\* The invariant holds at first.
LEMMA InitFree == ASSUME HeapAssumption, NEW s, Init PROVE FreeIInv(s)
<1>1. IInv
  BY InitIInv
<1> QED
  BY <1>1 DEF IInv, Up, Init, FreeIInv

\* Initialisation makes the heap one free block.
LEMMA BootFree ==
  ASSUME HeapAssumption, NEW s \in Nat, FreeIInv(s),
         NEW ramSize \in RamSizes, InitKernelMalloc(ramSize)
  PROVE  FreeIInv(s)'
<1>1. TypeOK /\ Down
  BY DEF FreeIInv, InitKernelMalloc, FreeUp
<1>2. CASE HeapMax > ramSize
  BY <1>1, <1>2 DEF FreeIInv, InitKernelMalloc, Down, TypeOK
<1>3. CASE ~(HeapMax > ramSize)
  <2>1. HeapBottom \in Addr /\ HeapBottom + 4 \in Addr /\ HeapBottom + 8 \in Addr
    BY DEF Addr, HeapAssumption
  <2>2. /\ heapStart' = HeapBottom /\ headers' = {HeapBottom} /\ call' = NoCall
        /\ live' = {} /\ cuts' = 0 /\ cur' = 0 /\ grants' = grants
        /\ mem' \in [Addr -> Nat]
        /\ mem'[HeapBottom] = HeapMax
        /\ mem'[HeapBottom + 4] = 0
    <3>1. /\ heapStart' = HeapBottom /\ headers' = {HeapBottom} /\ call' = NoCall
          /\ live' = live /\ cuts' = cuts /\ cur' = cur /\ grants' = grants
          /\ mem' = StoreHeader(mem, HeapBottom, HeapMax, 0, FREE_MEMORY)
      BY <1>3 DEF InitKernelMalloc
    <3>2. /\ mem \in [Addr -> Nat] /\ HeapBottom \in Nat /\ HeapMax \in Nat
          /\ FREE_MEMORY \in Nat
      BY <1>1 DEF TypeOK, HeapAssumption, FREE_MEMORY
    <3>3. /\ mem' \in [Addr -> Nat]
          /\ mem'[HeapBottom] = HeapMax
          /\ mem'[HeapBottom + 4] = 0
          /\ mem'[HeapBottom + 8] = FREE_MEMORY
      BY <2>1, <3>1, <3>2 DEF StoreHeader, Store, Junk
    <3> QED
      BY <1>1, <3>1, <3>3 DEF Down
  <2>3. TypeOK'
    BY <1>1, <2>1, <2>2 DEF TypeOK
  <2>4. call' # Booting /\ call' \notin Calls
    BY <2>2, CallBounds DEF NoCall, Booting
  <2>5. Blocks(HeapBottom, s)'
    BY <2>2 DEF Blocks, SizeOf, NextOf, HeapAssumption
  <2>6. FreeUp(s)'
    BY <2>2, <2>4, <2>5 DEF FreeUp
  <2> QED
    BY <2>3, <2>6 DEF FreeIInv
<1> QED
  BY <1>2, <1>3

\* A request starts at the head of the list.
LEMMA RequestFree ==
  ASSUME HeapAssumption, NEW s \in Nat, FreeIInv(s), NEW c \in Calls, Request(c)
  PROVE  FreeIInv(s)'
<1>1. TypeOK'
  BY DEF FreeIInv, Request, TypeOK, HeapAssumption
<1>2. CASE Down
  BY <1>1, <1>2 DEF FreeIInv, Request, Down
<1>3. CASE FreeUp(s)
  <2>1. PICK m \in headers : Blocks(m, s)
    BY <1>3 DEF FreeUp
  <2>2. Blocks(m, s)'
    BY <2>1 DEF Request, Blocks, SizeOf, NextOf, StatusOf
  <2>3. call' # Booting /\ cur' \in headers'
    BY <1>3, CallBounds DEF Request, FreeUp
  <2>4. FreeUp(s)'
    BY <1>3, <2>2, <2>3 DEF Request, FreeUp
  <2> QED
    BY <1>1, <2>4 DEF FreeIInv
<1> QED
  BY <1>2, <1>3 DEF FreeIInv

\* A walk is under way only when the heap is up.
LEMMA SearchingFree ==
  ASSUME HeapAssumption, NEW s \in Nat, FreeIInv(s), Searching
  PROVE  FreeUp(s) /\ cur \in headers /\ cur \in Addr /\ call \in Calls /\ TypeOK
BY DEF HeapAssumption, FreeIInv, Searching, Down, FreeUp, Addr

\* The search goes on to the next block or ends without one.
LEMMA WalkFree ==
  ASSUME HeapAssumption, NEW s \in Nat, FreeIInv(s), NextBlock \/ OutOfMemory
  PROVE  FreeIInv(s)'
<1>1. FreeUp(s) /\ cur \in headers /\ cur \in Addr /\ call \in Calls /\ TypeOK
  BY SearchingFree DEF NextBlock, OutOfMemory
<1>2. PICK m \in headers : Blocks(m, s)
  BY <1>1 DEF FreeUp
<1>3. UNCHANGED <<heapStart, mem, live, headers, cuts, grants>>
  BY DEF NextBlock, OutOfMemory
<1>4. Blocks(m, s)'
  BY <1>2, <1>3 DEF Blocks, SizeOf, NextOf, StatusOf
<1>5. CASE NextBlock
  <2>1. cur' \in headers /\ call' = call
    BY <1>1, <1>2, <1>5 DEF NextBlock, Follow, Blocks
  <2>2. TypeOK'
    BY <1>1, <1>3, <2>1 DEF TypeOK, Addr, HeapAssumption
  <2> QED
    BY <1>1, <1>3, <1>4, <2>1, <2>2 DEF FreeIInv, FreeUp
<1>6. CASE OutOfMemory
  <2>1. call' = NoCall /\ cur' = cur
    BY <1>6 DEF OutOfMemory
  <2>2. TypeOK'
    BY <1>1, <1>3, <2>1 DEF TypeOK
  <2>3. call' # Booting /\ call' \notin Calls
    BY <2>1, CallBounds DEF NoCall, Booting
  <2> QED
    BY <1>1, <1>3, <1>4, <2>2, <2>3 DEF FreeIInv, FreeUp
<1> QED
  BY <1>5, <1>6

\* Filling a region changes no header: the blocks lie apart.
LEMMA FillFree ==
  ASSUME HeapAssumption, NEW s \in Nat, FreeIInv(s), NEW f \in live, Fill(f)
  PROVE  FreeIInv(s)'
<1>1. FreeUp(s) /\ TypeOK
  BY DEF FreeIInv, Down
<1>2. PICK m \in headers : Blocks(m, s)
  BY <1>1 DEF FreeUp
<1>3. TypeOK'
  BY <1>1 DEF TypeOK, Fill, MemFill, Junk
<1>4. f.hdr \in headers /\ f.hdr \in Nat /\ f.ptr = f.hdr + 12 /\ f.len = s
  BY <1>1, <1>2, BlockInAddr DEF Blocks, HeaderBytes
<1>5. \A a \in Addr :
        a + 4 <= f.hdr + 12 \/ f.hdr + 12 + s <= a => mem'[a] = mem[a]
  <2>1. Addr \subseteq Nat
    BY DEF Addr, HeapAssumption
  <2> QED
    BY <1>4, <2>1 DEF Fill, MemFill, Covers
<1>6. \A h \in headers : /\ mem'[h] = mem[h]
                         /\ mem'[h + 4] = mem[h + 4]
                         /\ mem'[h + 8] = mem[h + 8]
  <2> TAKE h \in headers
  <2>1. h \in Nat /\ h \in Addr /\ h + 4 \in Addr /\ h + 8 \in Addr
    BY <1>1, <1>2, BlockInAddr
  <2>2. h = f.hdr \/ h + 12 + s <= f.hdr \/ f.hdr + 12 + s <= h
    BY <1>2, <1>4 DEF Blocks, HeaderBytes
  <2> QED
    BY <1>4, <1>5, <2>1, <2>2
<1>7. UNCHANGED <<heapStart, call, cur, live, headers>>
  BY DEF Fill
<1>8. Blocks(m, s)'
  BY <1>2, <1>6, <1>7 DEF Blocks, SizeOf, NextOf, StatusOf
<1> QED
  BY <1>1, <1>3, <1>7, <1>8 DEF FreeIInv, FreeUp

\* free marks the block it is given and no other one.
LEMMA FreeFree ==
  ASSUME HeapAssumption, NEW s \in Nat, FreeIInv(s), NEW f \in live, Free(f)
  PROVE  FreeIInv(s)'
<1>1. FreeUp(s) /\ TypeOK
  BY DEF FreeIInv, Down
<1>2. PICK m \in headers : Blocks(m, s)
  BY <1>1 DEF FreeUp
<1>3. /\ f.hdr \in headers /\ f.hdr \in Nat /\ f.hdr + 8 \in Addr
      /\ FreeMark(f) = f.hdr + 8
  BY <1>1, <1>2, BlockInAddr DEF Blocks, HeaderBytes, FreeMark
<1>4. /\ mem' = Store(mem, f.hdr + 8, FREE_MEMORY)
      /\ live' = live \ {f}
      /\ UNCHANGED <<heapStart, call, cur, headers, cuts, grants>>
  BY <1>3 DEF Free
<1>5. /\ TypeOK'
      /\ \A x \in Addr : x + 4 <= f.hdr + 8 \/ f.hdr + 12 <= x => mem'[x] = mem[x]
  <2>1. mem \in [Addr -> Nat] /\ FREE_MEMORY \in Nat /\ Addr \subseteq Nat
    BY <1>1 DEF TypeOK, FREE_MEMORY, Addr, HeapAssumption
  <2>2. /\ mem' \in [Addr -> Nat]
        /\ \A x \in Addr : x + 4 <= f.hdr + 8 \/ f.hdr + 8 + 4 <= x
                              => mem'[x] = mem[x]
    BY <1>3, <1>4, <2>1 DEF Store, Junk
  <2> QED
    BY <1>1, <1>3, <1>4, <2>2 DEF TypeOK
<1>6. \A h \in headers : /\ mem'[h] = mem[h]
                         /\ mem'[h + 4] = mem[h + 4]
                         /\ h # f.hdr => mem'[h + 8] = mem[h + 8]
  <2> TAKE h \in headers
  <2>1. h \in Nat /\ h \in Addr /\ h + 4 \in Addr /\ h + 8 \in Addr
    BY <1>1, <1>2, BlockInAddr
  <2>2. h = f.hdr \/ h + 12 + s <= f.hdr \/ f.hdr + 12 + s <= h
    BY <1>2, <1>3 DEF Blocks, HeaderBytes
  <2> QED
    BY <1>3, <1>5, <2>1, <2>2
<1>7. \A r \in live' : r \in live /\ r.hdr \in headers /\ r.hdr # f.hdr
  <2> TAKE r \in live'
  <2>1. r \in live /\ r # f /\ r \in RegionType /\ f \in RegionType
    BY <1>1, <1>4 DEF TypeOK
  <2>2. /\ r.hdr \in headers
        /\ r.want = f.want /\ r.len = f.len /\ r.align = f.align
        /\ r.ptr = r.hdr + 12 /\ f.ptr = f.hdr + 12
    BY <1>2, <2>1 DEF Blocks, HeaderBytes
  <2>3. r.hdr = f.hdr => r = f
    BY <2>1, <2>2 DEF RegionType
  <2> QED
    BY <2>1, <2>2, <2>3
<1>8. Blocks(m, s)'
  <2>1. /\ \A h \in headers' :
             h = m \/ (SizeOf(h)' = s /\ h + HeaderBytes + s <= m)
        /\ \A h \in headers' : NextOf(h)' \in headers' \cup {0}
        /\ m - HeapBottom <= 4 * (HeapMax - SizeOf(m)')
    BY <1>2, <1>4, <1>6 DEF Blocks, SizeOf, NextOf
  <2>2. \A r \in live' : /\ r.hdr \in headers'
                         /\ r.ptr = r.hdr + HeaderBytes
                         /\ r.want = s /\ r.len = s /\ r.align = 1
                         /\ SizeOf(r.hdr)' = s
                         /\ StatusOf(r.hdr)' = ALLOCATED_MEMORY
    BY <1>2, <1>4, <1>6, <1>7 DEF Blocks, SizeOf, StatusOf
  <2> QED
    BY <1>2, <1>4, <2>1, <2>2 DEF Blocks
<1> QED
  BY <1>1, <1>4, <1>5, <1>8 DEF FreeIInv, FreeUp

\* The last block is cut in two: its rest becomes the last block.
LEMMA CutFree ==
  ASSUME HeapAssumption, NEW s \in Nat, OneSize(s), FreeIInv(s), TakeBlock,
         NEW m \in headers, Blocks(m, s), Cuttable(SizeOf(cur), s),
         NEW u, u = CutPoint(cur, s)
  PROVE  /\ mem' \in [Addr -> Nat]
         /\ cur = m /\ u \in Nat /\ u = m + 12 + s
         /\ u \in Addr /\ u + 4 \in Addr /\ u + 8 \in Addr
         /\ headers' = headers \cup {u}
         /\ mem'[m] = s /\ mem'[m + 4] = u /\ mem'[m + 8] = ALLOCATED_MEMORY
         /\ mem'[u] = mem[m] - s - 3 /\ mem'[u + 4] = mem[m + 4]
         /\ u - HeapBottom <= 4 * (HeapMax - mem'[u])
         /\ \A a \in Addr : a + 4 <= m => mem'[a] = mem[a]
<1>1. cur \in headers /\ call \in Calls /\ TypeOK
  BY SearchingFree DEF TakeBlock
<1>2. call.want = s
  BY <1>1, OneCall
<1>3. cur = m
  <2>1. SizeOf(cur) = s => ~Cuttable(SizeOf(cur), s)
    BY DEF Cuttable, ChargedBytes
  <2> QED
    BY <1>1, <2>1 DEF Blocks
<1>4. /\ m \in Nat /\ HeapBottom <= m
      /\ m \in Addr /\ m + 4 \in Addr /\ m + 8 \in Addr
  BY <1>1, BlockInAddr
<1>5. u \in Nat /\ u = m + 12 + s
  BY <1>3, <1>4 DEF CutPoint, HeaderBytes
<1>6. /\ SizeOf(m) \in Nat /\ SizeOf(m) > s + 3
      /\ m - HeapBottom <= 4 * (HeapMax - SizeOf(m))
      /\ HeapMax \in Nat /\ HeapBottom \in Nat
      /\ mem \in [Addr -> Nat]
  BY <1>1, <1>3 DEF Blocks, TypeOK, SizeOf, Cuttable, ChargedBytes, HeapAssumption
<1>7. u - HeapBottom <= 4 * (HeapMax - (SizeOf(m) - s - 3))
  BY <1>4, <1>5, <1>6
<1>8. u \in Addr /\ u + 4 \in Addr /\ u + 8 \in Addr
  <2>1. HeapBottom \in Nat /\ HeapMax \in Nat
    BY <1>6
  <2>2. HeapBottom <= u /\ u <= HeapBottom + 4 * HeapMax
    BY <1>4, <1>5, <1>6, <1>7
  <2> QED
    BY <1>5, <2>1, <2>2 DEF Addr
<1>9. mem' = StoreHeader(StoreHeader(mem, m, s, u, ALLOCATED_MEMORY),
                         u, Remainder(SizeOf(m), s), NextOf(m), FREE_MEMORY)
  BY <1>2, <1>3 DEF TakeBlock, MemAfterTake, Link
<1>10. headers' = headers \cup {u}
  BY <1>2 DEF TakeBlock
<1>11. SizeOf(m) - s - 3 \in Nat /\ NextOf(m) \in Nat
  BY <1>4, <1>6 DEF NextOf
<1>12. /\ mem' \in [Addr -> Nat]
       /\ mem'[m] = s /\ mem'[m + 4] = u /\ mem'[m + 8] = ALLOCATED_MEMORY
       /\ mem'[u] = SizeOf(m) - s - 3 /\ mem'[u + 4] = NextOf(m)
       /\ \A a \in Addr : a + 4 <= m => mem'[a] = mem[a]
  <2>1. /\ ALLOCATED_MEMORY \in Nat /\ FREE_MEMORY \in Nat /\ Addr \subseteq Nat
        /\ Remainder(SizeOf(m), s) = SizeOf(m) - s - 3
    BY DEF Remainder, ChargedBytes, ALLOCATED_MEMORY, FREE_MEMORY, Addr,
           HeapAssumption
  <2>2. PICK p : p = StoreHeader(mem, m, s, u, ALLOCATED_MEMORY)
    OBVIOUS
  <2>3. /\ p \in [Addr -> Nat]
        /\ p[m] = s /\ p[m + 4] = u /\ p[m + 8] = ALLOCATED_MEMORY
        /\ \A x \in Addr : x + 4 <= m \/ m + 12 <= x => p[x] = mem[x]
    BY <1>4, <1>5, <1>6, <2>1, <2>2 DEF StoreHeader, Store, Junk
  <2>4. mem' = StoreHeader(p, u, SizeOf(m) - s - 3, NextOf(m), FREE_MEMORY)
    BY <1>9, <2>1, <2>2
  <2>5. /\ mem' \in [Addr -> Nat]
        /\ mem'[u] = SizeOf(m) - s - 3 /\ mem'[u + 4] = NextOf(m)
        /\ \A x \in Addr : x + 4 <= u \/ u + 12 <= x => mem'[x] = p[x]
    BY <1>5, <1>8, <1>11, <2>1, <2>3, <2>4 DEF StoreHeader, Store, Junk
  <2> QED
    BY <1>4, <1>5, <2>1, <2>3, <2>5
<1> QED
  BY <1>3, <1>5, <1>7, <1>8, <1>10, <1>12 DEF SizeOf, NextOf

\* A block that fits exactly, or almost, is taken as it is and loses its link.
LEMMA WholeFree ==
  ASSUME HeapAssumption, NEW s \in Nat, OneSize(s), FreeIInv(s), TakeBlock,
         NEW m \in headers, Blocks(m, s), ~Cuttable(SizeOf(cur), s)
  PROVE  /\ mem' \in [Addr -> Nat]
         /\ headers' = headers
         /\ mem'[cur] = s /\ mem'[cur + 4] = 0 /\ mem'[cur + 8] = ALLOCATED_MEMORY
         /\ \A a \in Addr : a + 4 <= cur \/ cur + 12 <= a => mem'[a] = mem[a]
<1>1. cur \in headers /\ call \in Calls /\ TypeOK
  BY SearchingFree DEF TakeBlock
<1>2. call.want = s
  BY <1>1, OneCall
<1>3. /\ cur \in Nat /\ cur \in Addr /\ cur + 4 \in Addr /\ cur + 8 \in Addr
      /\ mem \in [Addr -> Nat] /\ Addr \subseteq Nat
  BY <1>1, BlockInAddr DEF TypeOK, Addr, HeapAssumption
<1>4. /\ headers' = headers
      /\ mem' = StoreHeader(mem, cur, s, 0, ALLOCATED_MEMORY)
  BY <1>2 DEF TakeBlock, MemAfterTake
<1> QED
  BY <1>3, <1>4 DEF ALLOCATED_MEMORY, StoreHeader, Store, Junk

\* The region handed out is the payload of the block, and nobody owns it.
LEMMA TakenFree ==
  ASSUME HeapAssumption, NEW s \in Nat, OneSize(s), FreeIInv(s), TakeBlock,
         NEW m \in headers, Blocks(m, s),
         NEW n, n = RegionOf(cur, call)
  PROVE  /\ live' = live \cup {n} /\ n \in RegionType
         /\ n.hdr = cur /\ n.ptr = cur + HeaderBytes
         /\ n.want = s /\ n.len = s /\ n.align = 1
         /\ \A r \in live : r.hdr # cur
<1>1. cur \in headers /\ call \in Calls /\ TypeOK /\ StatusOf(cur) = FREE_MEMORY
  BY SearchingFree DEF TakeBlock, Fits
<1>2. call.want = s /\ call.len = s /\ call.align = 1 /\ s \in Sizes
  BY <1>1, OneCall DEF OneSize
<1>3. cur \in Nat /\ cur \in Addr /\ cur + 12 \in Addr
  BY <1>1, BlockInAddr
<1>4. AlignUp(cur + 12, 1) = cur + 12
  BY <1>3 DEF AlignUp
<1>5. n = [hdr |-> cur, want |-> s, len |-> s, align |-> 1, ptr |-> cur + 12]
  BY <1>2, <1>4 DEF RegionOf, HeaderBytes
<1>6. n \in RegionType
  BY <1>2, <1>3, <1>5 DEF RegionType
<1>7. live' = live \cup {n}
  BY DEF TakeBlock
<1>8. \A r \in live : r.hdr # cur
  BY <1>1 DEF Blocks, FREE_MEMORY, ALLOCATED_MEMORY
<1> QED
  BY <1>5, <1>6, <1>7, <1>8 DEF HeaderBytes

\* The search ends with a block, cut or whole.
LEMMA TakeFree ==
  ASSUME HeapAssumption, NEW s \in Nat, OneSize(s), FreeIInv(s), TakeBlock
  PROVE  FreeIInv(s)'
<1>1. FreeUp(s) /\ cur \in headers /\ cur \in Addr /\ call \in Calls /\ TypeOK
  BY SearchingFree DEF TakeBlock
<1>2. PICK m \in headers : Blocks(m, s)
  BY <1>1 DEF FreeUp
<1>3. PICK n : n = RegionOf(cur, call)
  OBVIOUS
<1>4. /\ live' = live \cup {n} /\ n \in RegionType
      /\ n.hdr = cur /\ n.ptr = cur + HeaderBytes
      /\ n.want = s /\ n.len = s /\ n.align = 1
      /\ \A r \in live : r.hdr # cur
  BY <1>2, <1>3, TakenFree
<1>5. /\ heapStart' = heapStart /\ cur' = cur /\ call' = NoCall
      /\ grants' = 1 - grants /\ cuts' \in {cuts, cuts + 1}
  BY DEF TakeBlock
<1>6. call' # Booting /\ call' \notin Calls
  BY <1>5, CallBounds DEF NoCall, Booting
<1>7. \A h \in headers : /\ h \in Nat
                         /\ h \in Addr /\ h + 4 \in Addr /\ h + 8 \in Addr
  BY <1>1, <1>2, BlockInAddr
<1>8. ASSUME mem' \in [Addr -> Nat], headers' \subseteq Addr
      PROVE  TypeOK'
  BY <1>1, <1>4, <1>5, <1>8 DEF TypeOK
<1>9. \E q \in headers' : Blocks(q, s)' /\ mem' \in [Addr -> Nat] /\ headers' \subseteq Addr
  <2>1. CASE Cuttable(SizeOf(cur), s)
    <3>1. PICK u : u = CutPoint(cur, s)
      OBVIOUS
    <3>2. /\ mem' \in [Addr -> Nat]
          /\ cur = m /\ u \in Nat /\ u = m + 12 + s
          /\ u \in Addr /\ u + 4 \in Addr /\ u + 8 \in Addr
          /\ headers' = headers \cup {u}
          /\ mem'[m] = s /\ mem'[m + 4] = u /\ mem'[m + 8] = ALLOCATED_MEMORY
          /\ mem'[u] = mem[m] - s - 3 /\ mem'[u + 4] = mem[m + 4]
          /\ u - HeapBottom <= 4 * (HeapMax - mem'[u])
          /\ \A a \in Addr : a + 4 <= m => mem'[a] = mem[a]
      BY <1>2, <2>1, <3>1, CutFree
    <3>3. \A h \in headers : h # m => /\ h + 12 + s <= m
                                      /\ mem'[h] = mem[h]
                                      /\ mem'[h + 4] = mem[h + 4]
                                      /\ mem'[h + 8] = mem[h + 8]
      <4>1. \A h \in headers : h # m => h + 12 + s <= m
        BY <1>2 DEF Blocks, HeaderBytes
      <4> QED
        BY <1>7, <3>2, <4>1
    <3>4. \A h \in headers : h + 12 + s <= u /\ mem'[h] = s
      BY <1>2, <1>7, <3>2, <3>3 DEF Blocks, SizeOf
    <3>5. \A h \in headers' : NextOf(h)' \in headers' \cup {0}
      BY <1>2, <3>2, <3>3 DEF Blocks, NextOf
    <3>6. \A g, h \in headers' :
            g = h \/ g + HeaderBytes + s <= h \/ h + HeaderBytes + s <= g
      BY <1>2, <3>2, <3>4 DEF Blocks, HeaderBytes
    <3>7. \A r \in live' : /\ r.hdr \in headers'
                           /\ r.ptr = r.hdr + HeaderBytes
                           /\ r.want = s /\ r.len = s /\ r.align = 1
                           /\ SizeOf(r.hdr)' = s
                           /\ StatusOf(r.hdr)' = ALLOCATED_MEMORY
      BY <1>2, <1>4, <3>2, <3>3 DEF Blocks, SizeOf, StatusOf
    <3>8. Blocks(u, s)'
      BY <3>2, <3>4, <3>5, <3>6, <3>7 DEF Blocks, SizeOf, HeaderBytes
    <3>9. headers' \subseteq Addr
      BY <1>7, <3>2
    <3> QED
      BY <3>2, <3>8, <3>9
  <2>2. CASE ~Cuttable(SizeOf(cur), s)
    <3>1. /\ mem' \in [Addr -> Nat]
          /\ headers' = headers
          /\ mem'[cur] = s /\ mem'[cur + 4] = 0 /\ mem'[cur + 8] = ALLOCATED_MEMORY
          /\ \A a \in Addr : a + 4 <= cur \/ cur + 12 <= a => mem'[a] = mem[a]
      BY <1>2, <2>2, WholeFree
    <3>2. \A h \in headers : h # cur => /\ mem'[h] = mem[h]
                                        /\ mem'[h + 4] = mem[h + 4]
                                        /\ mem'[h + 8] = mem[h + 8]
      <4>1. \A h \in headers : h = cur \/ h + 12 <= cur \/ cur + 12 <= h
        BY <1>1, <1>2, <1>7 DEF Blocks, HeaderBytes
      <4> QED
        BY <1>1, <1>7, <3>1, <4>1
    <3>3. m - HeapBottom <= 4 * (HeapMax - mem'[m])
      <4>1. /\ m - HeapBottom <= 4 * (HeapMax - mem[m])
            /\ mem[m] \in Nat /\ HeapMax \in Nat /\ HeapBottom \in Nat /\ m \in Nat
        BY <1>1, <1>2, <1>7 DEF Blocks, SizeOf, TypeOK, HeapAssumption
      <4>2. mem[cur] >= s
        <5>1. call.want = s
          BY <1>1, OneCall
        <5> QED
          BY <5>1 DEF TakeBlock, Fits, SizeOf
      <4> QED
        BY <3>1, <3>2, <4>1, <4>2
    <3>4. \A h \in headers' : /\ h = m \/ (SizeOf(h)' = s /\ h + HeaderBytes + s <= m)
                              /\ NextOf(h)' \in headers' \cup {0}
      BY <1>2, <3>1, <3>2 DEF Blocks, SizeOf, NextOf
    <3>5. \A r \in live' : /\ r.hdr \in headers'
                           /\ r.ptr = r.hdr + HeaderBytes
                           /\ r.want = s /\ r.len = s /\ r.align = 1
                           /\ SizeOf(r.hdr)' = s
                           /\ StatusOf(r.hdr)' = ALLOCATED_MEMORY
      BY <1>1, <1>2, <1>4, <3>1, <3>2 DEF Blocks, SizeOf, StatusOf
    <3>6. Blocks(m, s)'
      BY <1>2, <3>1, <3>3, <3>4, <3>5 DEF Blocks, SizeOf
    <3> QED
      BY <1>7, <3>1, <3>6
  <2> QED
    BY <2>1, <2>2
<1>10. HeapBottom \in headers'
  BY <1>1 DEF FreeUp, TakeBlock
<1> QED
  BY <1>1, <1>5, <1>6, <1>8, <1>9, <1>10 DEF FreeIInv, FreeUp

\* Every step preserves the invariant.
LEMMA StepFree ==
  ASSUME HeapAssumption, NEW s \in Nat, OneSize(s), FreeIInv(s), [Next]_vars
  PROVE  FreeIInv(s)'
<1>1. CASE \E ramSize \in RamSizes : InitKernelMalloc(ramSize)
  BY <1>1, BootFree
<1>2. CASE \E c \in Calls : Request(c)
  BY <1>2, RequestFree
<1>3. CASE TakeBlock
  BY <1>3, TakeFree
<1>4. CASE NextBlock \/ OutOfMemory
  BY <1>4, WalkFree
<1>5. CASE \E r \in live : Fill(r)
  BY <1>5, FillFree
<1>6. CASE \E r \in live : Free(r)
  BY <1>6, FreeFree
<1>7. CASE UNCHANGED vars
  BY <1>7 DEF vars, FreeIInv, TypeOK, Down, FreeUp, Blocks, SizeOf, NextOf, StatusOf
<1> QED
  BY <1>1, <1>2, <1>3, <1>4, <1>5, <1>6, <1>7 DEF Next, KernelNext, Step

-------------------------------------------------------------------------------
\* Two regions in use that look alike to their callers are the same region.
LEMMA GrantsDiffer ==
  ASSUME HeapAssumption, NEW s \in Nat, TypeOK, NEW m \in headers, Blocks(m, s),
         NEW q \in live, NEW r \in live, GrantOf(q) = GrantOf(r)
  PROVE  q = r
<1>1. q \in RegionType /\ r \in RegionType
  BY DEF TypeOK
<1>2. q.ptr = r.ptr
  BY DEF GrantOf
<1>3. /\ q.ptr = q.hdr + 12 /\ r.ptr = r.hdr + 12
      /\ q.want = r.want /\ q.len = r.len /\ q.align = r.align
      /\ q.hdr \in headers /\ r.hdr \in headers
  BY DEF Blocks, HeaderBytes
<1>4. q.hdr \in Nat /\ r.hdr \in Nat
  BY <1>3, BlockInAddr
<1>5. q.hdr = r.hdr
  <2>1. q.hdr + 12 = r.hdr + 12
    BY <1>2, <1>3, Zenon
  <2> QED
    BY <1>4, <2>1
<1> QED
  BY <1>1, <1>2, <1>3, <1>5 DEF RegionType

\* Handing out a block is a grant of the abstract heap, also when the block has
\* been in use before.
LEMMA TakeFreeGrants ==
  ASSUME HeapAssumption, NEW s \in Nat, OneSize(s), FreeIInv(s), TakeBlock
  PROVE  Promise!Next
<1>1. FreeUp(s) /\ cur \in headers /\ TypeOK
  BY SearchingFree DEF TakeBlock
<1>2. PICK m \in headers : Blocks(m, s)
  BY <1>1 DEF FreeUp
<1>3. PICK n : n = RegionOf(cur, call)
  OBVIOUS
<1>4. /\ live' = live \cup {n} /\ n \in RegionType
      /\ n.hdr = cur /\ n.ptr = cur + 12
      /\ n.want = s /\ n.len = s /\ n.align = 1
      /\ \A r \in live : r.hdr # cur
  BY <1>2, <1>3, TakenFree DEF HeaderBytes
<1>5. PICK g : g = GrantOf(n)
  OBVIOUS
<1>6. g.ptr = n.ptr /\ g.len = n.len /\ g.align = n.align /\ g \in Promise!Region
  BY <1>4, <1>5 DEF GrantOf, RegionType, Promise!Region
<1>7. Granted' = Granted \cup {g} /\ grants' = 1 - grants
  BY <1>4, <1>5 DEF Granted, GrantOf, TakeBlock
<1>8. cur \in Nat
  BY <1>1, <1>2, BlockInAddr
<1>9. ASSUME NEW o \in Granted PROVE Promise!Apart(g, o)
  <2>1. PICK r \in live : o = GrantOf(r)
    BY DEF Granted, GrantOf
  <2>2. o.ptr = r.hdr + 12 /\ o.len = s /\ r.hdr \in headers
    BY <1>2, <2>1 DEF GrantOf, Blocks, HeaderBytes
  <2>3. r.hdr \in Nat
    BY <1>1, <1>2, <2>2, BlockInAddr
  <2>4. r.hdr + 12 + s <= cur \/ cur + 12 + s <= r.hdr
    BY <1>1, <1>2, <1>4, <2>2 DEF Blocks, HeaderBytes
  <2> QED
    BY <1>4, <1>6, <1>8, <2>2, <2>3, <2>4 DEF Promise!Apart
<1>10. g.ptr % g.align = 0
  BY <1>4, <1>6, <1>8
<1> QED
  BY <1>6, <1>7, <1>9, <1>10 DEF Promise!Next, Promise!Grant

\* free is the return of the region to the abstract heap.
LEMMA FreeReturns ==
  ASSUME HeapAssumption, NEW s \in Nat, FreeIInv(s), NEW f \in live, Free(f)
  PROVE  Promise!Next
<1>1. FreeUp(s) /\ TypeOK
  BY DEF FreeIInv, Down
<1>2. PICK m \in headers : Blocks(m, s)
  BY <1>1 DEF FreeUp
<1>3. PICK g : g = GrantOf(f)
  OBVIOUS
<1>4. g \in Granted
  BY <1>3 DEF Granted, GrantOf
<1>5. live' = live \ {f} /\ grants' = grants
  BY DEF Free
<1>6. \A r \in live : GrantOf(r) = g => r = f
  BY <1>1, <1>2, <1>3, GrantsDiffer
<1>7. Granted = {GrantOf(r) : r \in live} /\ Granted' = {GrantOf(r) : r \in live'}
  BY DEF Granted, GrantOf
<1>8. Granted' = Granted \ {g}
  BY <1>3, <1>5, <1>6, <1>7
<1> QED
  BY <1>4, <1>5, <1>8 DEF Promise!Next, Promise!Return

\* With free in use, a heap whose callers all ask for the same number of bytes
\* implements the abstract heap: no region is handed out that somebody still
\* owns, however often the blocks have been freed and taken again.
THEOREM OneSizeKeepsPromise ==
  ASSUME NEW s, OneSize(s)
  PROVE  Spec => KeepsPromise
<1>1. s \in Nat
  BY HeapAssumption DEF OneSize, HeapAssumption
<1>2. Init => FreeIInv(s) /\ Promise!Init
  BY HeapAssumption, InitFree DEF Init, Promise!Init, Granted
<1>3. FreeIInv(s) /\ [Next]_vars => FreeIInv(s)'
  BY <1>1, HeapAssumption, StepFree
<1>4. FreeIInv(s) /\ [Next]_vars => [Promise!Next]_<<Granted, grants>>
  <2> SUFFICES ASSUME FreeIInv(s), [Next]_vars
               PROVE  [Promise!Next]_<<Granted, grants>>
    OBVIOUS
  <2>1. CASE TakeBlock
    BY <1>1, <2>1, HeapAssumption, TakeFreeGrants
  <2>2. CASE \E r \in live : Free(r)
    BY <1>1, <2>2, HeapAssumption, FreeReturns
  <2>3. CASE ~TakeBlock /\ ~(\E r \in live : Free(r))
    <3>1. UNCHANGED <<live, grants>>
      BY <2>3 DEF Next, KernelNext, Step, InitKernelMalloc, Request, NextBlock,
                  OutOfMemory, Fill, vars
    <3> QED
      BY <3>1 DEF Granted
  <2> QED
    BY <2>1, <2>2, <2>3
<1> QED
  BY <1>2, <1>3, <1>4, PTL DEF Spec, KeepsPromise, Promise!Spec
===============================================================================
