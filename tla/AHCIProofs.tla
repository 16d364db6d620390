------------------------------- MODULE AHCIProofs ------------------------------
(***************************************************************************)
(* The bring-up of the AHCI adapter.  First the scan of the PCI bus and    *)
(* the search of its records, for every size of the bus and whatever is    *)
(* plugged in: the search ends with the first AHCI controller.  Proved for *)
(* the bus alone, and for the bring-up that scans it.  Then the ports of   *)
(* the adapter: the order of their engines, the memory they run on, that   *)
(* the adapter is reset only when they rest, and that the first hard       *)
(* disk's port is ready when the driver is done.                           *)
(***************************************************************************)
EXTENDS AHCIBringUp, NumberFacts, FiniteSetTheorems, TLAPS

-------------------------------------------------------------------------------
\* The chipset decodes the place that was encoded.
LEMMA DecodeMake ==
  ASSUME NEW p \in Places
  PROVE  Decode(MakeBusDevFunc(p)) = p
<1> DEFINE F == LastFunction + 1
<1> DEFINE D == LastDevice + 1
<1> DEFINE b == p.bus
<1> DEFINE d == p.device
<1> DEFINE f == p.function
<1>1. /\ F \in Nat \ {0} /\ D \in Nat \ {0}
      /\ b \in Nat /\ d \in 0 .. (D - 1) /\ f \in 0 .. (F - 1)
      /\ p = [bus |-> b, device |-> d, function |-> f]
  BY PCIAssumption DEF Places
<1>2. MakeBusDevFunc(p) = b * (F * D) + d * F + f
  BY DEF MakeBusDevFunc
<1> HIDE DEF F, D, b, d, f
<1>3. F * D \in Nat \ {0}
  BY <1>1
<1>4. /\ b * D + d \in Nat
      /\ b * (F * D) + d * F + f = F * (b * D + d) + f
  BY <1>1
<1>5. d * F + f \in 0 .. (F * D - 1)
  <2>1. d * F <= (D - 1) * F
    BY <1>1
  <2>2. (D - 1) * F = F * D - F /\ d * F \in Nat
    BY <1>1
  <2> QED
    BY <1>1, <1>3, <2>1, <2>2
<1>6. /\ MakeBusDevFunc(p) \div F = b * D + d
      /\ MakeBusDevFunc(p) % F = f
  <2> DEFINE q == b * D + d
  <2>1. (F * q + f) \div F = q /\ (F * q + f) % F = f
    <3> HIDE DEF q
    <3> QED
      BY <1>1, <1>4, QuotientUnique DEF q
  <2> QED
    BY <1>2, <1>4, <2>1
<1>7. (b * D + d) % D = d
  <2>1. b * D + d = D * b + d
    BY <1>1
  <2> QED
    BY <1>1, <2>1, QuotientUnique
<1>8. MakeBusDevFunc(p) \div (F * D) = b
  <2>1. b * (F * D) + d * F + f = (F * D) * b + (d * F + f)
    BY <1>1
  <2> DEFINE r == d * F + f
  <2> DEFINE a == F * D
  <2>2. (a * b + r) \div a = b
    <3>1. a \in Nat \ {0} /\ r \in 0 .. (a - 1)
      BY <1>3, <1>5
    <3> HIDE DEF r, a
    <3> QED
      BY <1>1, <3>1, QuotientUnique
  <2> QED
    BY <1>2, <2>1, <2>2
<1>9. Decode(MakeBusDevFunc(p)) = [bus |-> MakeBusDevFunc(p) \div (F * D),
                                   device |-> (MakeBusDevFunc(p) \div F) % D,
                                   function |-> MakeBusDevFunc(p) % F]
  BY DEF Decode, F, D
<1> QED
  BY <1>1, <1>6, <1>7, <1>8, <1>9

\* The next place of the scan comes right behind the one before.
LEMMA AdvanceIsNext ==
  ASSUME NEW p \in Places, More(p)
  PROVE  /\ Advance(p) \in Places
         /\ \A q \in Places : Before(q, Advance(p)) <=> Before(q, p) \/ q = p
<1>1. /\ LastBus \in Nat /\ LastDevice \in Nat /\ LastFunction \in Nat
      /\ p.bus \in 0 .. LastBus /\ p.device \in 0 .. LastDevice
      /\ p.function \in 0 .. LastFunction
      /\ p.bus < LastBus
      /\ p = [bus |-> p.bus, device |-> p.device, function |-> p.function]
  BY PCIAssumption DEF Places, More
<1>2. \A q \in Places : /\ q.bus \in 0 .. LastBus /\ q.device \in 0 .. LastDevice
                        /\ q.function \in 0 .. LastFunction
                        /\ (q = p <=> q.bus = p.bus /\ q.device = p.device
                                        /\ q.function = p.function)
  BY DEF Places
<1>3. CASE p.function < LastFunction
  <2>1. Advance(p) = [bus |-> p.bus, device |-> p.device, function |-> p.function + 1]
    BY <1>1, <1>3 DEF Advance
  <2> QED
    BY <1>1, <1>2, <2>1, <1>3 DEF Before, Places
<1>4. CASE p.function = LastFunction /\ p.device < LastDevice
  <2>1. Advance(p) = [bus |-> p.bus, device |-> p.device + 1, function |-> 0]
    <3>1. Advance(p) = [p EXCEPT !.device = @ + 1, !.function = 0]
      BY <1>1, <1>4 DEF Advance
    <3> QED
      BY <1>1, <3>1
  <2> QED
    BY <1>1, <1>2, <2>1, <1>4 DEF Before, Places
<1>5. CASE p.function = LastFunction /\ p.device = LastDevice
  <2>1. (p.bus + 1) % (LastBus + 1) = p.bus + 1
    BY <1>1
  <2>2. Advance(p) = [bus |-> p.bus + 1, device |-> 0, function |-> 0]
    BY <1>1, <1>5, <2>1 DEF Advance
  <2> QED
    BY <1>1, <1>2, <2>2, <1>5 DEF Before, Places
<1> QED
  BY <1>1, <1>3, <1>4, <1>5

\* The scan leaves the bus before the last one for the first place of the last.
LEMMA EndsOnFirst ==
  ASSUME NEW p \in Places, More(p), ~More(Advance(p))
  PROVE  Advance(p) = [bus |-> LastBus, device |-> 0, function |-> 0]
<1>1. /\ LastBus \in Nat /\ p.bus \in 0 .. LastBus /\ p.bus < LastBus
      /\ p = [bus |-> p.bus, device |-> p.device, function |-> p.function]
  BY PCIAssumption DEF Places, More
<1>2. CASE p.function < LastFunction
  <2>1. Advance(p).bus = p.bus
    BY <1>1, <1>2 DEF Advance
  <2> QED
    BY <1>1, <2>1 DEF More
<1>3. CASE ~(p.function < LastFunction) /\ p.device < LastDevice
  <2>1. Advance(p) = [p EXCEPT !.device = @ + 1, !.function = 0]
    BY <1>3 DEF Advance
  <2>2. Advance(p).bus = p.bus
    BY <1>1, <2>1
  <2> QED
    BY <1>1, <2>2 DEF More
<1>4. CASE ~(p.function < LastFunction) /\ ~(p.device < LastDevice)
  <2>1. (p.bus + 1) % (LastBus + 1) = p.bus + 1
    BY <1>1
  <2>2. Advance(p) = [bus |-> p.bus + 1, device |-> 0, function |-> 0]
    BY <1>4, <2>1 DEF Advance
  <2> QED
    BY <1>1, <2>2 DEF More
<1> QED
  BY <1>2, <1>3, <1>4

-------------------------------------------------------------------------------
\* The inductive invariant.  The scan ends on the first place of the last bus,
\* and the search has passed no controller.
Ended == ~More(at) => at = [bus |-> LastBus, device |-> 0, function |-> 0]

Walked ==
  /\ walk # 0 => ~More(at)
  /\ \A k \in DOMAIN pciBus : k < walk => pciBus[k].class # AHCI
  /\ hostBus # NotFound =>
       /\ walk \in DOMAIN pciBus
       /\ pciBus[walk].class = AHCI
       /\ hostBus = pciBus[walk].place

PInv == PCITypeOK /\ ListIsScan /\ Ended /\ Walked

\* The invariant holds at first.
LEMMA PInvInit == PCIInit => PInv
<1> SUFFICES ASSUME PCIInit PROVE PInv
  OBVIOUS
<1> USE PCIAssumption DEF PCIInit
<1>1. First \in Places
  BY DEF First, Places
<1>2. PCITypeOK
  BY <1>1 DEF PCITypeOK
<1>3. \A p \in Places : ~Before(p, First)
  BY DEF Before, First, Places
<1>4. ListIsScan
  BY <1>3 DEF ListIsScan, Plugged
<1>5. Ended
  BY DEF Ended, More, First
<1>6. Walked
  BY DEF Walked
<1> QED
  BY <1>2, <1>4, <1>5, <1>6 DEF PInv

\* What the scan reads at a place is what is plugged in there.
LEMMA ReadsThePlace ==
  ASSUME NEW p \in Places, config \in [Places -> Classes]
  PROVE  ReadConfig(p) = config[p]
BY DecodeMake DEF ReadConfig

\* The records of the list, one by one.
LEMMA RecordsOfTheList ==
  ASSUME pciBus \in Seq([place : Places, class : Classes])
  PROVE  /\ Len(pciBus) \in Nat
         /\ DOMAIN pciBus = 1 .. Len(pciBus)
         /\ \A k \in DOMAIN pciBus : pciBus[k].place \in Places
<1> DEFINE R == [place : Places, class : Classes]
<1>1. \A r \in R : r.place \in Places
  OBVIOUS
<1>2. pciBus \in Seq(R)
  OBVIOUS
<1> HIDE DEF R
<1>3. /\ Len(pciBus) \in Nat
      /\ DOMAIN pciBus = 1 .. Len(pciBus)
      /\ \A k \in DOMAIN pciBus : pciBus[k] \in R
  BY <1>2
<1> QED
  BY <1>1, <1>3

\* Appending a record.
LEMMA AppendRecord ==
  ASSUME NEW r \in [place : Places, class : Classes],
         pciBus \in Seq([place : Places, class : Classes])
  PROVE  /\ Append(pciBus, r) \in Seq([place : Places, class : Classes])
         /\ DOMAIN Append(pciBus, r) = 1 .. Len(pciBus) + 1
         /\ \A k \in DOMAIN pciBus : Append(pciBus, r)[k] = pciBus[k]
         /\ Append(pciBus, r)[Len(pciBus) + 1] = r
<1> DEFINE R == [place : Places, class : Classes]
<1>1. r \in R /\ pciBus \in Seq(R)
  OBVIOUS
<1> HIDE DEF R
<1>2. Append(pciBus, r) \in Seq(R)
  BY <1>1
<1>3. /\ DOMAIN Append(pciBus, r) = 1 .. Len(pciBus) + 1
      /\ \A k \in DOMAIN pciBus : Append(pciBus, r)[k] = pciBus[k]
      /\ Append(pciBus, r)[Len(pciBus) + 1] = r
  BY <1>1
<1> QED
  BY <1>2, <1>3 DEF R

\* An empty place is passed.
LEMMA AbsentPInv == PInv /\ Absent => PInv'
<1> SUFFICES ASSUME PInv, Absent PROVE PInv'
  OBVIOUS
<1>1. /\ at \in Places /\ at' = Advance(at) /\ More(at)
      /\ walk = 0 /\ UNCHANGED <<config, pciBus, walk, hostBus>>
      /\ config[at] = PCI_NO_DEVICE
  BY ReadsThePlace DEF PInv, PCITypeOK, Absent
<1>2. /\ at' \in Places
      /\ \A q \in Places : Before(q, at') <=> Before(q, at) \/ q = at
  BY <1>1, AdvanceIsNext
<1>3. PCITypeOK'
  BY <1>1, <1>2 DEF PInv, PCITypeOK
<1>4. ListIsScan'
  <2>1. /\ Plugged' = Plugged /\ at \notin Plugged
        /\ \A k \in DOMAIN pciBus : pciBus[k].place \in Places
    BY <1>1, RecordsOfTheList DEF PInv, PCITypeOK, Plugged
  <2> QED
    BY <1>1, <1>2, <2>1 DEF PInv, ListIsScan, Plugged
<1>5. Ended'
  BY <1>1, EndsOnFirst DEF Ended
<1>6. Walked'
  BY <1>1 DEF PInv, Walked, ListIsScan, PCITypeOK, NotFound, Places
<1> QED
  BY <1>3, <1>4, <1>5, <1>6 DEF PInv

\* A function that answers gets the last record of the list.
LEMMA PresentPInv == PInv /\ Present => PInv'
<1> SUFFICES ASSUME PInv, Present PROVE PInv'
  OBVIOUS
<1> DEFINE rec == [place |-> at, class |-> config[at]]
<1>1. /\ at \in Places /\ at' = Advance(at) /\ More(at)
      /\ walk = 0 /\ UNCHANGED <<config, walk, hostBus>>
      /\ pciBus' = Append(pciBus, rec)
      /\ config[at] # PCI_NO_DEVICE /\ config[at] \in Classes
  BY ReadsThePlace DEF PInv, PCITypeOK, Present, Link
<1>2. /\ at' \in Places
      /\ \A q \in Places : Before(q, at') <=> Before(q, at) \/ q = at
  BY <1>1, AdvanceIsNext
<1>3. rec \in [place : Places, class : Classes]
  BY <1>1
<1>4. /\ pciBus \in Seq([place : Places, class : Classes])
      /\ pciBus' \in Seq([place : Places, class : Classes])
      /\ DOMAIN pciBus = 1 .. Len(pciBus) /\ Len(pciBus) \in Nat
      /\ DOMAIN pciBus' = 1 .. Len(pciBus) + 1
      /\ \A k \in DOMAIN pciBus : pciBus'[k] = pciBus[k] /\ pciBus[k].place \in Places
      /\ pciBus'[Len(pciBus) + 1] = rec
  <2>1. pciBus \in Seq([place : Places, class : Classes])
    BY DEF PInv, PCITypeOK
  <2> HIDE DEF rec
  <2> QED
    BY <1>1, <1>3, <2>1, RecordsOfTheList, AppendRecord
<1>5. PCITypeOK'
  BY <1>1, <1>2, <1>4 DEF PInv, PCITypeOK
<1>6. ListIsScan'
  <2>1. /\ \A k \in DOMAIN pciBus : /\ config[pciBus[k].place] = pciBus[k].class
                                   /\ pciBus[k].place \in Plugged
                                   /\ Before(pciBus[k].place, at)
        /\ \A k, m \in DOMAIN pciBus : k < m => Before(pciBus[k].place, pciBus[m].place)
        /\ \A p \in Plugged : Before(p, at) => \E k \in DOMAIN pciBus : pciBus[k].place = p
    BY DEF PInv, ListIsScan
  <2>2. Plugged' = Plugged /\ at \in Plugged
    BY <1>1 DEF Plugged
  <2>3. \A k \in DOMAIN pciBus' : k \in DOMAIN pciBus \/ k = Len(pciBus) + 1
    BY <1>4
  <2>4. rec.place = at /\ rec.class = config[at]
    OBVIOUS
  <2> HIDE DEF rec
  <2>5. \A k \in DOMAIN pciBus' : /\ config'[pciBus'[k].place] = pciBus'[k].class
                                /\ pciBus'[k].place \in Plugged'
                                /\ Before(pciBus'[k].place, at')
    BY <1>1, <1>2, <1>4, <2>1, <2>2, <2>3, <2>4
  <2>6. \A k, m \in DOMAIN pciBus' : k < m => Before(pciBus'[k].place, pciBus'[m].place)
    BY <1>4, <2>1, <2>3, <2>4
  <2>7. \A p \in Plugged' : Before(p, at') => \E k \in DOMAIN pciBus' : pciBus'[k].place = p
    <3> SUFFICES ASSUME NEW p \in Plugged, Before(p, at')
                 PROVE  \E k \in DOMAIN pciBus' : pciBus'[k].place = p
      BY <2>2
    <3>1. Before(p, at) \/ p = at
      BY <1>2 DEF Plugged
    <3>2. CASE p = at
      BY <3>2, <1>4, <2>4
    <3>3. CASE Before(p, at)
      <4>1. PICK k \in DOMAIN pciBus : pciBus[k].place = p
        BY <3>3, <2>1
      <4> QED
        BY <4>1, <1>4
    <3> QED
      BY <3>1, <3>2, <3>3
  <2> QED
    BY <2>5, <2>6, <2>7 DEF ListIsScan
<1>7. Ended'
  BY <1>1, EndsOnFirst DEF Ended
<1>8. Walked'
  <2>1. hostBus = NotFound
    BY <1>1, <1>4 DEF PInv, Walked
  <2> QED
    BY <1>1, <1>4, <2>1 DEF Walked
<1> QED
  BY <1>5, <1>6, <1>7, <1>8 DEF PInv

\* The search leaves the list alone.
LEMMA SearchPInv == PInv /\ (StartSearch \/ TakeRecord \/ NextRecord) => PInv'
<1> SUFFICES ASSUME PInv, StartSearch \/ TakeRecord \/ NextRecord PROVE PInv'
  OBVIOUS
<1>1. UNCHANGED <<config, at, pciBus>>
  BY DEF StartSearch, TakeRecord, NextRecord
<1>2. ListIsScan' /\ Ended' /\ (More(at))' = More(at)
  BY <1>1 DEF PInv, ListIsScan, Ended, Plugged, More
<1>3. /\ walk \in Nat /\ DOMAIN pciBus \subseteq Nat \ {0}
      /\ \A k \in DOMAIN pciBus : pciBus[k].place \in Places
  BY RecordsOfTheList DEF PInv, PCITypeOK
<1>4. CASE StartSearch
  <2>1. PCITypeOK'
    BY <1>1, <1>4 DEF PInv, PCITypeOK, StartSearch
  <2>2. Walked'
    BY <1>1, <1>2, <1>3, <1>4 DEF PInv, Walked, StartSearch
  <2> QED
    BY <1>2, <2>1, <2>2 DEF PInv
<1>5. CASE TakeRecord
  <2>1. PCITypeOK'
    BY <1>1, <1>3, <1>5 DEF PInv, PCITypeOK, TakeRecord, Searching
  <2>2. Walked'
    BY <1>1, <1>2, <1>3, <1>5 DEF PInv, Walked, TakeRecord, Searching, Matches
  <2> QED
    BY <1>2, <2>1, <2>2 DEF PInv
<1>6. CASE NextRecord
  <2>1. PCITypeOK'
    BY <1>1, <1>3, <1>6 DEF PInv, PCITypeOK, NextRecord
  <2>2. Walked'
    BY <1>1, <1>2, <1>3, <1>6 DEF PInv, Walked, NextRecord, Searching, Matches
  <2> QED
    BY <1>2, <2>1, <2>2 DEF PInv
<1> QED
  BY <1>4, <1>5, <1>6

\* The invariant implies the property.
LEMMA PInvFirst == PInv => FirstController
<1> SUFFICES ASSUME PInv, SearchOver PROVE FirstController
  BY DEF FirstController
<1> DEFINE controllers == {p \in Plugged : config[p] = AHCI /\ p.bus < LastBus}
<1>1. /\ \A p \in Places : p.bus \in Int /\ p.device \in 0 .. LastDevice
                              /\ p.function \in 0 .. LastFunction
      /\ \A p \in Places : Before(p, at) <=> p.bus < LastBus
  <2>1. at = [bus |-> LastBus, device |-> 0, function |-> 0]
    BY DEF SearchOver, PInv, Ended
  <2> QED
    BY <2>1, PCIAssumption DEF Places, Before
<1>2. \A k \in DOMAIN pciBus : /\ config[pciBus[k].place] = pciBus[k].class
                             /\ pciBus[k].place \in Plugged
                             /\ Before(pciBus[k].place, at)
  BY DEF PInv, ListIsScan
<1>3. \A p \in controllers : \E k \in DOMAIN pciBus : /\ pciBus[k].place = p
                                                    /\ pciBus[k].class = AHCI
                                                    /\ k >= walk
  <2> SUFFICES ASSUME NEW p \in controllers
               PROVE  \E k \in DOMAIN pciBus : /\ pciBus[k].place = p
                                             /\ pciBus[k].class = AHCI
                                             /\ k >= walk
    OBVIOUS
  <2>1. PICK k \in DOMAIN pciBus : pciBus[k].place = p
    BY <1>1 DEF PInv, ListIsScan, Plugged
  <2>2. pciBus[k].class = AHCI
    BY <1>2, <2>1
  <2>3. ~(k < walk) /\ k \in Int /\ walk \in Int
    BY <2>2 DEF PInv, Walked, PCITypeOK
  <2> QED
    BY <2>1, <2>2, <2>3
<1>4. CASE hostBus = NotFound
  <2>1. DOMAIN pciBus = 1 .. Len(pciBus) /\ Len(pciBus) \in Nat /\ walk \in Nat
    BY DEF PInv, PCITypeOK
  <2>2. \A k \in DOMAIN pciBus : k < walk
    BY <1>4, <2>1 DEF SearchOver
  <2>3. controllers = {}
    BY <1>3, <2>1, <2>2
  <2> QED
    BY <1>4, <2>3 DEF FirstController
<1>5. CASE hostBus # NotFound
  <2>1. /\ walk \in DOMAIN pciBus /\ pciBus[walk].class = AHCI
        /\ hostBus = pciBus[walk].place
    BY <1>5 DEF PInv, Walked
  <2>2. hostBus \in controllers
    BY <1>1, <1>2, <2>1 DEF Plugged
  <2>3. \A p \in controllers : p = hostBus \/ Before(hostBus, p)
    <3> SUFFICES ASSUME NEW p \in controllers
                 PROVE  p = hostBus \/ Before(hostBus, p)
      OBVIOUS
    <3>1. PICK k \in DOMAIN pciBus : pciBus[k].place = p /\ k >= walk
      BY <1>3
    <3>2. k \in Int /\ walk \in Int
      BY <2>1 DEF PInv, PCITypeOK
    <3> QED
      BY <2>1, <3>1, <3>2 DEF PInv, ListIsScan
  <2> QED
    BY <1>5, <2>2, <2>3 DEF FirstController
<1> QED
  BY <1>4, <1>5

\* The invariant is kept by every step.
LEMMA PInvNext == PInv /\ [PCINext]_pciVars => PInv'
<1>1. PInv /\ UNCHANGED pciVars => PInv'
  <2> SUFFICES ASSUME PInv, UNCHANGED pciVars PROVE PInv'
    OBVIOUS
  <2> USE DEF PInv, pciVars
  <2>1. PCITypeOK'
    BY DEF PCITypeOK
  <2>2. ListIsScan'
    BY DEF ListIsScan, Plugged
  <2>3. Ended' /\ Walked'
    BY DEF Ended, Walked, More
  <2> QED
    BY <2>1, <2>2, <2>3
<1> QED
  BY <1>1, AbsentPInv, PresentPInv, SearchPInv DEF PCINext

-------------------------------------------------------------------------------
\* The scan of a bus ends with the first controller on it, whatever is plugged in
\* and however large the bus is (_PCI_enumerate, then _AHCI_getBDF).
THEOREM SearchFindsFirst == PCISpec => []FirstController
<1>1. PCISpec => PCIInit /\ [][PCINext]_pciVars
  BY PTL DEF PCISpec
<1> QED
  BY <1>1, PInvInit, PInvNext, PInvFirst, PTL

\* Nothing else in the bring-up touches the bus.
LEMMA BringUpScans == [Next]_vars => [PCINext]_pciVars
BY DEF Next, vars, pciVars, hardware, Driver, HBA, FindController, GetBaseAddress,
   Firmware, ListPort, EnableAHCI, SkipPort, StopPort, StopFIS, PortStopped,
   ResetHBA, ReenableAHCI, NoDisk, SetBases, StartFIS, StartCommands, ClearErrors,
   PortReady, Reset, CommandEngine, FISEngine, ErrorsCleared

\* The bring-up works on the first controller.
THEOREM BringUpFindsFirst == Spec => []FirstController
<1>1. Init => PInv
  BY PInvInit DEF Init
<1>2. PInv /\ [Next]_vars => PInv'
  BY PInvNext, BringUpScans
<1> QED
  BY <1>1, <1>2, PInvFirst, PTL DEF Spec

-------------------------------------------------------------------------------
\* The registers of a port, and what changing one of them leaves alone.
Regs == [st : BOOLEAN, fre : BOOLEAN, fr : BOOLEAN, cr : BOOLEAN,
         fb : {"firmware", "kernel"}, cl : {"firmware", "kernel"},
         serr : {"none", "pending", "clearing"}]

\* No engine runs or is told to.
Quiet(r) == ~(r.st \/ r.fre \/ r.fr \/ r.cr)

\* What the firmware hands over.
LEMMA HandedOver == {Stopped, Receiving, Running, Stopping, Draining} \subseteq Regs
<1>1. Stopped \in Regs
  BY DEF Stopped, Regs
<1>2. Receiving \in Regs
  BY <1>1 DEF Receiving, Regs
<1>3. Running \in Regs
  BY <1>2 DEF Running, Regs
<1>4. Stopping \in Regs
  BY <1>3 DEF Stopping, Regs
<1>5. Draining \in Regs
  BY <1>1 DEF Draining, Regs
<1> QED
  BY <1>1, <1>2, <1>3, <1>4, <1>5

\* Writing ST.
LEMMA ChangeST ==
  ASSUME NEW r \in Regs, NEW b \in BOOLEAN
  PROVE  LET n == [r EXCEPT !.st = b]
         IN /\ n \in Regs /\ n.st = b /\ n.fre = r.fre /\ n.fr = r.fr /\ n.cr = r.cr
            /\ n.fb = r.fb /\ n.cl = r.cl
BY DEF Regs

\* Writing FRE.
LEMMA ChangeFRE ==
  ASSUME NEW r \in Regs, NEW b \in BOOLEAN
  PROVE  LET n == [r EXCEPT !.fre = b]
         IN /\ n \in Regs /\ n.st = r.st /\ n.fre = b /\ n.fr = r.fr /\ n.cr = r.cr
            /\ n.fb = r.fb /\ n.cl = r.cl
BY DEF Regs

\* FR follows.
LEMMA ChangeFR ==
  ASSUME NEW r \in Regs, NEW b \in BOOLEAN
  PROVE  LET n == [r EXCEPT !.fr = b]
         IN /\ n \in Regs /\ n.st = r.st /\ n.fre = r.fre /\ n.fr = b /\ n.cr = r.cr
            /\ n.fb = r.fb /\ n.cl = r.cl
BY DEF Regs

\* CR follows.
LEMMA ChangeCR ==
  ASSUME NEW r \in Regs, NEW b \in BOOLEAN
  PROVE  LET n == [r EXCEPT !.cr = b]
         IN /\ n \in Regs /\ n.st = r.st /\ n.fre = r.fre /\ n.fr = r.fr /\ n.cr = b
            /\ n.fb = r.fb /\ n.cl = r.cl
BY DEF Regs

\* Clearing the errors.
LEMMA ChangeSERR ==
  ASSUME NEW r \in Regs, NEW e \in {"none", "pending", "clearing"}
  PROVE  LET n == [r EXCEPT !.serr = e]
         IN /\ n \in Regs /\ n.st = r.st /\ n.fre = r.fre /\ n.fr = r.fr /\ n.cr = r.cr
            /\ n.fb = r.fb /\ n.cl = r.cl /\ n.serr = e
BY DEF Regs

\* Writing ones to the error register.
LEMMA ErrorsWrittenTo ==
  ASSUME NEW r \in Regs
  PROVE  LET n == [r EXCEPT !.serr = Written(r.serr)]
         IN /\ n \in Regs /\ n.st = r.st /\ n.fre = r.fre /\ n.fr = r.fr /\ n.cr = r.cr
            /\ n.fb = r.fb /\ n.cl = r.cl
<1>1. Written(r.serr) \in {"none", "pending", "clearing"}
  BY DEF Written
<1> QED
  BY <1>1, ChangeSERR

\* Writing both base addresses.
LEMMA ChangeBases ==
  ASSUME NEW r \in Regs
  PROVE  LET n == Bases(r)
         IN /\ n \in Regs /\ n.st = r.st /\ n.fre = r.fre /\ n.fr = r.fr /\ n.cr = r.cr
            /\ n.fb = "kernel" /\ n.cl = "kernel"
BY DEF Regs, Bases

\* Changing the registers of one port.
LEMMA PortChanges ==
  ASSUME port \in [Ports -> Regs], NEW i, NEW r, i \in Ports => r \in Regs,
         port' = [port EXCEPT ![i] = r]
  PROVE  /\ port' \in [Ports -> Regs]
         /\ \A p \in Ports : port'[p] = IF p = i THEN r ELSE port[p]
OBVIOUS

-------------------------------------------------------------------------------
\* The inductive invariant of the memory.  A reset in progress belongs to the
\* driver's wait for it; when it is over every port is quiet, and from there on a
\* port that is not has both its bases in the kernel's memory.
Stage == drv.at
Round == drv.i
Late == {"find disk", "start FIS", "wait FR", "wait CR", "wait SERR", "done"}
Starting == {"start FIS", "wait FR", "wait CR", "wait SERR"}
NoCommands == {"find disk", "start FIS", "wait FR"}
Kernel(r) == r.fb = "kernel" /\ r.cl = "kernel"

TypesOK ==
  /\ port \in [Ports -> Regs]
  /\ ghc \in [ae : BOOLEAN, ie : BOOLEAN, hr : BOOLEAN]
  /\ ctrl \in [mem : BOOLEAN, io : BOOLEAN, master : BOOLEAN]

ControlOK ==
  /\ ghc.hr => Stage = "wait HR"
  /\ Stage \notin {"pci", "list"} => ctrl.master /\ ctrl.mem
  /\ Stage \in Late => ghc.ae

\* What is known of a port after the reset.
QuietOK == Stage = "wait HR" /\ ~ghc.hr => \A p \in Ports : Quiet(port[p])
LateOK == Stage \in Late => \A p \in Ports : Quiet(port[p]) \/ Kernel(port[p])
StartOK == Stage \in Starting /\ Round \in Ports => Kernel(port[Round])
CommandsOK == Stage \in NoCommands => \A p \in Ports : ~port[p].st /\ ~port[p].cr

MInv == TypesOK /\ ControlOK /\ QuietOK /\ LateOK /\ StartOK /\ CommandsOK

\* The fields of where the driver is.
LEMMA Rings ==
  ASSUME NEW s, NEW k
  PROVE  At(s).at = s /\ At(s).i = 0 /\ Ring(s, k).at = s /\ Ring(s, k).i = k
BY DEF At, Ring

\* The invariant holds at first.
LEMMA InitMInv == Init => MInv
<1> SUFFICES ASSUME Init PROVE MInv
  OBVIOUS
<1>1. Stage = "pci"
  BY Rings DEF Init, Stage
<1>2. Stopped \in Regs
  BY DEF Stopped, Regs
<1>3. TypesOK
  BY <1>2 DEF Init, TypesOK
<1>4. ~ghc.hr
  BY DEF Init
<1> QED
  BY <1>1, <1>3, <1>4 DEF MInv, ControlOK, QuietOK, LateOK, StartOK, CommandsOK,
     Late, Starting, NoCommands

\* The stages before the reset.
LEMMA EarlyMInv ==
  ASSUME TypesOK', ~ghc'.hr,
         Stage' \in {"pci", "list", "ports", "wait CR clear", "wait FR clear"},
         Stage' \notin {"pci", "list"} => ctrl'.master /\ ctrl'.mem
  PROVE  MInv'
BY DEF MInv, ControlOK, QuietOK, LateOK, StartOK, CommandsOK, Late, Starting, NoCommands

\* Before the list nothing is known of the ports but their types.
LEMMA FindMInv == MInv /\ (FindController \/ GetBaseAddress) => MInv'
<1> SUFFICES ASSUME MInv, FindController \/ GetBaseAddress PROVE MInv'
  OBVIOUS
<1>1. CASE FindController
  <2>1. Stage' = "pci" /\ UNCHANGED <<port, ghc, ctrl, drv>>
    BY <1>1 DEF FindController, Stage
  <2>2. TypesOK' /\ ~ghc'.hr
    BY <2>1 DEF MInv, TypesOK, ControlOK, Stage
  <2> QED
    BY <2>1, <2>2, EarlyMInv
<1>2. CASE GetBaseAddress
  <2>1. Stage' = "list"
    BY <1>2, Rings DEF GetBaseAddress, Stage
  <2>2. PICK ae, mem, master \in BOOLEAN :
          /\ ghc' = [ae |-> ae, ie |-> FALSE, hr |-> FALSE]
          /\ ctrl' = [mem |-> mem, io |-> mem, master |-> master]
    BY <1>2 DEF GetBaseAddress, Firmware
  <2>4. port' \in [Ports -> Regs]
    BY <1>2, HandedOver DEF GetBaseAddress, Firmware
  <2>5. ghc' \in [ae : BOOLEAN, ie : BOOLEAN, hr : BOOLEAN] /\ ~ghc'.hr
    BY <2>2
  <2>6. ctrl' \in [mem : BOOLEAN, io : BOOLEAN, master : BOOLEAN]
    BY <2>2
  <2> QED
    BY <2>1, <2>4, <2>5, <2>6, EarlyMInv DEF TypesOK
<1> QED
  BY <1>1, <1>2

\* The steps that stop the ports leave the HBA out of a reset.
LEMMA StopMInv ==
  MInv /\ (ListPort \/ EnableAHCI \/ SkipPort \/ StopPort \/ StopFIS \/ PortStopped)
    => MInv'
<1> SUFFICES ASSUME MInv,
                    ListPort \/ EnableAHCI \/ SkipPort \/ StopPort \/ StopFIS \/ PortStopped
             PROVE  MInv'
  OBVIOUS
<1>1. TypesOK /\ ~ghc.hr
  BY DEF MInv, ControlOK, Stage, ListPort, EnableAHCI, SkipPort, StopPort, StopFIS,
         PortStopped
<1>2. CASE ListPort
  <2>1. Stage' = "list" /\ UNCHANGED <<port, ghc, ctrl>>
    BY <1>2, Rings DEF ListPort, Stage
  <2> QED
    BY <1>1, <2>1, EarlyMInv DEF TypesOK
<1>3. CASE EnableAHCI
  <2>1. /\ Stage' = "ports" /\ UNCHANGED port
        /\ ctrl' = Enabled(ctrl) /\ ghc' = [ghc EXCEPT !.ae = TRUE]
    BY <1>3, Rings DEF EnableAHCI, Stage
  <2>2. ctrl' \in [mem : BOOLEAN, io : BOOLEAN, master : BOOLEAN] /\ ctrl'.master /\ ctrl'.mem
    BY <1>1, <2>1 DEF TypesOK, Enabled
  <2>3. ghc' \in [ae : BOOLEAN, ie : BOOLEAN, hr : BOOLEAN] /\ ~ghc'.hr
    BY <1>1, <2>1 DEF TypesOK
  <2> QED
    BY <1>1, <2>1, <2>2, <2>3, EarlyMInv DEF TypesOK
<1>4. CASE SkipPort \/ StopPort \/ StopFIS \/ PortStopped
  <2>1. UNCHANGED <<ghc, ctrl>> /\ ctrl.master /\ ctrl.mem
    BY <1>4 DEF SkipPort, StopPort, StopFIS, PortStopped, Stage, MInv, ControlOK
  <2>2. Stage' \in {"ports", "wait CR clear", "wait FR clear"}
    <3>1. drv' = NextPort => Stage' = "ports"
      BY Rings DEF NextPort, Stage
    <3>2. CASE SkipPort \/ PortStopped
      BY <3>1, <3>2 DEF SkipPort, PortStopped
    <3>3. CASE StopPort
      BY <3>3, Rings DEF StopPort, Stage
    <3>4. CASE StopFIS
      <4>1. drv' = Ring("wait FR clear", Round) \/ drv' = NextPort
        BY <3>4 DEF StopFIS, Round
      <4>2. drv' = Ring("wait FR clear", Round) => Stage' = "wait FR clear"
        BY Rings DEF Stage
      <4> QED
        BY <3>1, <4>1, <4>2
    <3> QED
      BY <1>4, <3>2, <3>3, <3>4
  <2>3. port' \in [Ports -> Regs]
    <3>1. CASE SkipPort \/ PortStopped
      BY <1>1, <3>1 DEF SkipPort, PortStopped, TypesOK
    <3>2. CASE StopPort
      <4>1. port' = [port EXCEPT ![Round] = [port[Round] EXCEPT !.st = FALSE]]
        BY <3>2 DEF StopPort, Round
      <4>2. Round \in Ports => [port[Round] EXCEPT !.st = FALSE] \in Regs
        BY <1>1, ChangeST DEF TypesOK
      <4> QED
        BY <1>1, <4>1, <4>2 DEF TypesOK
    <3>3. CASE StopFIS
      <4>1. port' = [port EXCEPT ![Round] = [port[Round] EXCEPT !.fre = FALSE]]
        BY <3>3 DEF StopFIS, Round
      <4>2. Round \in Ports => [port[Round] EXCEPT !.fre = FALSE] \in Regs
        BY <1>1, ChangeFRE DEF TypesOK
      <4> QED
        BY <1>1, <4>1, <4>2 DEF TypesOK
    <3> QED
      BY <1>4, <3>1, <3>2, <3>3
  <2> QED
    BY <1>1, <2>1, <2>2, <2>3, EarlyMInv DEF TypesOK
<1> QED
  BY <1>2, <1>3, <1>4

\* The reset is started, and waited for.
LEMMA ResetMInv == MInv /\ (ResetHBA \/ ReenableAHCI) => MInv'
<1> SUFFICES ASSUME MInv, ResetHBA \/ ReenableAHCI PROVE MInv'
  OBVIOUS
<1>1. TypesOK
  BY DEF MInv
<1>2. CASE ResetHBA
  <2>1. /\ Stage' = "wait HR" /\ ghc' = [ghc EXCEPT !.hr = TRUE]
        /\ UNCHANGED <<port, ctrl>> /\ ctrl.master /\ ctrl.mem
    BY <1>2, Rings DEF ResetHBA, Stage, MInv, ControlOK
  <2>2. ghc' \in [ae : BOOLEAN, ie : BOOLEAN, hr : BOOLEAN] /\ ghc'.hr
    BY <1>1, <2>1 DEF TypesOK
  <2> QED
    BY <1>1, <2>1, <2>2 DEF MInv, TypesOK, ControlOK, QuietOK, LateOK, StartOK, CommandsOK,
       Late, Starting, NoCommands
<1>3. CASE ReenableAHCI
  <2>1. /\ Stage' = "find disk" /\ ghc' = AfterReset(ghc) /\ ~ghc.hr
        /\ UNCHANGED <<port, ctrl>> /\ ctrl.master /\ ctrl.mem
        /\ \A p \in Ports : Quiet(port[p])
    BY <1>3, Rings DEF ReenableAHCI, ResetDone, Stage, MInv, ControlOK, QuietOK
  <2>2. ghc' \in [ae : BOOLEAN, ie : BOOLEAN, hr : BOOLEAN] /\ ~ghc'.hr /\ ghc'.ae
    BY <1>1, <2>1 DEF TypesOK, AfterReset
  <2>3. \A p \in Ports : ~port[p].st /\ ~port[p].cr
    BY <2>1 DEF Quiet
  <2> QED
    BY <1>1, <2>1, <2>2, <2>3 DEF MInv, TypesOK, ControlOK, QuietOK, LateOK, StartOK,
       CommandsOK, Late, Starting, NoCommands
<1> QED
  BY <1>2, <1>3

\* The stages behind the reset: one port changes, and stays or comes to be one
\* whose bases are in the kernel's memory.
LEMMA LateMInv ==
  ASSUME MInv, Stage \in Late, Stage' \in Late, UNCHANGED <<ghc, ctrl>>,
         port' \in [Ports -> Regs],
         \A p \in Ports : Quiet(port'[p]) \/ Kernel(port'[p]),
         Stage' \in Starting /\ Round' \in Ports => Kernel(port'[Round']),
         Stage' \in NoCommands => \A p \in Ports : ~port'[p].st /\ ~port'[p].cr
  PROVE  MInv'
<1>1. ~ghc.hr /\ ghc.ae /\ ctrl.master /\ ctrl.mem
  BY DEF MInv, ControlOK, Late
<1>2. TypesOK'
  BY DEF MInv, TypesOK
<1>3. ControlOK'
  BY <1>1 DEF ControlOK
<1>4. QuietOK'
  BY DEF QuietOK, Late
<1> QED
  BY <1>2, <1>3, <1>4 DEF MInv, LateOK, StartOK, CommandsOK

\* The port of the disk is started on the kernel's memory.
LEMMA StartMInv ==
  MInv /\ (NoDisk \/ SetBases \/ StartFIS \/ StartCommands \/ ClearErrors \/ PortReady)
    => MInv'
<1> SUFFICES ASSUME MInv,
                    NoDisk \/ SetBases \/ StartFIS \/ StartCommands \/ ClearErrors \/ PortReady
             PROVE  MInv'
  OBVIOUS
<1>1. port \in [Ports -> Regs] /\ UNCHANGED ctrl /\ UNCHANGED ghc
  BY DEF MInv, TypesOK, NoDisk, SetBases, StartFIS, StartCommands, ClearErrors, PortReady
<1>2. Stage \in Late => \A p \in Ports : Quiet(port[p]) \/ Kernel(port[p])
  BY DEF MInv, LateOK
<1>3. CASE NoDisk
  <2>1. Stage = "find disk" /\ Stage' = "done" /\ UNCHANGED port
    BY <1>3, Rings DEF NoDisk, Stage
  <2> QED
    BY <1>1, <1>2, <2>1, LateMInv DEF Late, Starting, NoCommands
<1>4. CASE SetBases
  <2> DEFINE k == HDDPort
  <2> HIDE DEF k
  <2>1. /\ Stage = "find disk" /\ Stage' = "start FIS" /\ Round' = k
        /\ port' = [port EXCEPT ![k] = Bases(port[k])]
    BY <1>4, Rings DEF SetBases, Stage, Round, k
  <2>2. k \in Ports => Bases(port[k]) \in Regs
    BY <1>1, ChangeBases
  <2>3. /\ port' \in [Ports -> Regs]
        /\ \A p \in Ports : port'[p] = IF p = k THEN Bases(port[k]) ELSE port[p]
    BY <1>1, <2>1, <2>2, PortChanges
  <2>4. \A p \in Ports : ~port[p].st /\ ~port[p].cr
    BY <2>1 DEF MInv, CommandsOK, NoCommands
  <2>5. k \in Ports => /\ Kernel(Bases(port[k]))
                       /\ ~Bases(port[k]).st /\ ~Bases(port[k]).cr
    BY <1>1, <2>4, ChangeBases DEF Kernel
  <2>6. \A p \in Ports : Quiet(port'[p]) \/ Kernel(port'[p])
    BY <1>2, <2>1, <2>3, <2>5 DEF Late
  <2>7. \A p \in Ports : ~port'[p].st /\ ~port'[p].cr
    BY <2>3, <2>4, <2>5
  <2>8. k \in Ports => Kernel(port'[k])
    BY <2>3, <2>5
  <2> QED
    BY <1>1, <2>1, <2>3, <2>6, <2>7, <2>8, LateMInv DEF Late
<1>5. CASE StartFIS
  <2> DEFINE n == [port[Round] EXCEPT !.fre = TRUE]
  <2>1. /\ Stage = "start FIS" /\ Stage' = "wait FR" /\ Round' = Round
        /\ port' = [port EXCEPT ![Round] = n]
    BY <1>5, Rings DEF StartFIS, Stage, Round
  <2>2. \A p \in Ports : ~port[p].st /\ ~port[p].cr
    BY <2>1 DEF MInv, CommandsOK, NoCommands
  <2>3. Round \in Ports => n \in Regs /\ Kernel(n) /\ ~n.st /\ ~n.cr
    <3> SUFFICES ASSUME Round \in Ports PROVE n \in Regs /\ Kernel(n) /\ ~n.st /\ ~n.cr
      OBVIOUS
    <3>1. port[Round] \in Regs /\ Kernel(port[Round])
      BY <1>1, <2>1 DEF MInv, StartOK, Starting
    <3> QED
      BY <2>2, <3>1, ChangeFRE DEF Kernel
  <2> HIDE DEF n
  <2>4. /\ port' \in [Ports -> Regs]
        /\ \A p \in Ports : port'[p] = IF p = Round THEN n ELSE port[p]
    BY <1>1, <2>1, <2>3, PortChanges
  <2>5. \A p \in Ports : Quiet(port'[p]) \/ Kernel(port'[p])
    BY <1>2, <2>1, <2>3, <2>4 DEF Late
  <2>6. \A p \in Ports : ~port'[p].st /\ ~port'[p].cr
    BY <2>2, <2>3, <2>4
  <2>7. Round \in Ports => Kernel(port'[Round])
    BY <2>3, <2>4
  <2> QED
    BY <1>1, <2>1, <2>4, <2>5, <2>6, <2>7, LateMInv DEF Late
<1>6. CASE StartCommands
  <2> DEFINE n == [port[Round] EXCEPT !.st = TRUE]
  <2>1. /\ Stage = "wait FR" /\ Stage' = "wait CR" /\ Round' = Round
        /\ port' = [port EXCEPT ![Round] = n]
    BY <1>6, Rings DEF StartCommands, Stage, Round
  <2>2. Round \in Ports => n \in Regs /\ Kernel(n)
    <3> SUFFICES ASSUME Round \in Ports PROVE n \in Regs /\ Kernel(n)
      OBVIOUS
    <3>1. port[Round] \in Regs /\ Kernel(port[Round])
      BY <1>1, <2>1 DEF MInv, StartOK, Starting
    <3> QED
      BY <3>1, ChangeST DEF Kernel
  <2> HIDE DEF n
  <2>3. /\ port' \in [Ports -> Regs]
        /\ \A p \in Ports : port'[p] = IF p = Round THEN n ELSE port[p]
    BY <1>1, <2>1, <2>2, PortChanges
  <2>4. \A p \in Ports : Quiet(port'[p]) \/ Kernel(port'[p])
    BY <1>2, <2>1, <2>2, <2>3 DEF Late
  <2>5. Round \in Ports => Kernel(port'[Round])
    BY <2>2, <2>3
  <2> QED
    BY <1>1, <2>1, <2>3, <2>4, <2>5, LateMInv DEF Late, NoCommands
<1>7. CASE ClearErrors
  <2> DEFINE n == [port[Round] EXCEPT !.serr = Written(port[Round].serr)]
  <2>1. /\ Stage = "wait CR" /\ Stage' = "wait SERR" /\ Round' = Round
        /\ port' = [port EXCEPT ![Round] = n]
    BY <1>7, Rings DEF ClearErrors, Stage, Round
  <2>2. Round \in Ports => n \in Regs /\ Kernel(n)
    <3> SUFFICES ASSUME Round \in Ports PROVE n \in Regs /\ Kernel(n)
      OBVIOUS
    <3>1. port[Round] \in Regs /\ Kernel(port[Round])
      BY <1>1, <2>1 DEF MInv, StartOK, Starting
    <3> QED
      BY <3>1, ErrorsWrittenTo DEF Kernel
  <2> HIDE DEF n
  <2>3. /\ port' \in [Ports -> Regs]
        /\ \A p \in Ports : port'[p] = IF p = Round THEN n ELSE port[p]
    BY <1>1, <2>1, <2>2, PortChanges
  <2>4. \A p \in Ports : Quiet(port'[p]) \/ Kernel(port'[p])
    BY <1>2, <2>1, <2>2, <2>3 DEF Late
  <2>5. Round \in Ports => Kernel(port'[Round])
    BY <2>2, <2>3
  <2> QED
    BY <1>1, <2>1, <2>3, <2>4, <2>5, LateMInv DEF Late, NoCommands
<1>8. CASE PortReady
  <2>1. Stage = "wait SERR" /\ Stage' = "done" /\ UNCHANGED port
    BY <1>8, Rings DEF PortReady, Stage
  <2> QED
    BY <1>1, <1>2, <2>1, LateMInv DEF Late, Starting, NoCommands
<1> QED
  BY <1>3, <1>4, <1>5, <1>6, <1>7, <1>8

-------------------------------------------------------------------------------
\* The HBA: a quiet port has no engine that follows.
LEMMA QuietRests ==
  ASSUME NEW r \in Regs, Quiet(r)
  PROVE  r.cr = r.st /\ r.fr = r.fre
<1>1. r.st \in BOOLEAN /\ r.fre \in BOOLEAN /\ r.fr \in BOOLEAN /\ r.cr \in BOOLEAN
  BY DEF Regs
<1>2. ~r.st /\ ~r.fre /\ ~r.fr /\ ~r.cr
  BY DEF Quiet
<1> QED
  BY <1>1, <1>2, Zenon

\* A register that the HBA changes by itself makes no quiet port run.
LEMMA EngineMInv ==
  ASSUME MInv, NEW p \in Ports, NEW n \in Regs,
         ~ghc.hr, Quiet(port[p]) => Quiet(n),
         port' = [port EXCEPT ![p] = n],
         n.fb = port[p].fb /\ n.cl = port[p].cl /\ n.st = port[p].st,
         ~port[p].st /\ ~port[p].cr => ~n.cr,
         UNCHANGED <<ghc, ctrl, drv>>
  PROVE  MInv'
<1>1. port \in [Ports -> Regs] /\ Stage' = Stage /\ Round' = Round
  BY DEF MInv, TypesOK, Stage, Round
<1>2. /\ port' \in [Ports -> Regs]
      /\ \A q \in Ports : port'[q] = IF q = p THEN n ELSE port[q]
  BY <1>1, PortChanges
<1>3. TypesOK' /\ ControlOK'
  BY <1>1, <1>2 DEF MInv, TypesOK, ControlOK
<1>4. QuietOK'
  BY <1>1, <1>2 DEF MInv, QuietOK
<1>5. Kernel(port[p]) => Kernel(n)
  BY DEF Kernel
<1>6. LateOK'
  BY <1>1, <1>2, <1>5 DEF MInv, LateOK
<1>7. StartOK'
  BY <1>1, <1>2, <1>5 DEF MInv, StartOK
<1>8. CommandsOK'
  BY <1>1, <1>2 DEF MInv, CommandsOK
<1> QED
  BY <1>3, <1>4, <1>6, <1>7, <1>8 DEF MInv

\* The command engine follows ST.
LEMMA CommandEngineMInv == ASSUME NEW p \in Ports PROVE MInv /\ CommandEngine(p) => MInv'
<1> SUFFICES ASSUME MInv, CommandEngine(p) PROVE MInv'
  OBVIOUS
<1> DEFINE r == port[p]
<1> DEFINE n == [r EXCEPT !.cr = r.st]
<1>1. /\ ~ghc.hr /\ r.cr # r.st
      /\ port' = [port EXCEPT ![p] = n]
      /\ UNCHANGED <<ghc, ctrl, drv>>
  BY DEF CommandEngine
<1>2. r \in Regs
  BY DEF MInv, TypesOK
<1>3. r.st \in BOOLEAN
  BY <1>2 DEF Regs
<1>4. n \in Regs /\ n.fb = r.fb /\ n.cl = r.cl /\ n.st = r.st /\ n.cr = r.st
  BY <1>2, <1>3, ChangeCR
<1>5. ~Quiet(r)
  BY <1>1, <1>2, QuietRests
<1> HIDE DEF n
<1> QED
  BY <1>1, <1>4, <1>5, EngineMInv

\* The FIS engine follows FRE.
LEMMA FISEngineMInv == ASSUME NEW p \in Ports PROVE MInv /\ FISEngine(p) => MInv'
<1> SUFFICES ASSUME MInv, FISEngine(p) PROVE MInv'
  OBVIOUS
<1> DEFINE r == port[p]
<1> DEFINE n == [r EXCEPT !.fr = r.fre]
<1>1. /\ ~ghc.hr /\ r.fr # r.fre
      /\ port' = [port EXCEPT ![p] = n]
      /\ UNCHANGED <<ghc, ctrl, drv>>
  BY DEF FISEngine
<1>2. r \in Regs
  BY DEF MInv, TypesOK
<1>3. r.fre \in BOOLEAN
  BY <1>2 DEF Regs
<1>4. n \in Regs /\ n.fb = r.fb /\ n.cl = r.cl /\ n.st = r.st /\ n.cr = r.cr
  BY <1>2, <1>3, ChangeFR
<1>5. ~Quiet(r)
  BY <1>1, <1>2, QuietRests
<1> HIDE DEF n
<1> QED
  BY <1>1, <1>4, <1>5, EngineMInv

\* Errors that were written go away.
LEMMA ErrorsClearedMInv == ASSUME NEW p \in Ports PROVE MInv /\ ErrorsCleared(p) => MInv'
<1> SUFFICES ASSUME MInv, ErrorsCleared(p) PROVE MInv'
  OBVIOUS
<1> DEFINE r == port[p]
<1> DEFINE n == [r EXCEPT !.serr = "none"]
<1>1. /\ ~ghc.hr /\ port' = [port EXCEPT ![p] = n]
      /\ UNCHANGED <<ghc, ctrl, drv>>
  BY DEF ErrorsCleared
<1>2. r \in Regs
  BY DEF MInv, TypesOK
<1>3. /\ n \in Regs /\ n.fb = r.fb /\ n.cl = r.cl
      /\ n.st = r.st /\ n.fre = r.fre /\ n.fr = r.fr /\ n.cr = r.cr
  BY <1>2, ChangeSERR
<1>4. Quiet(r) => Quiet(n)
  BY <1>3 DEF Quiet
<1> HIDE DEF n
<1> QED
  BY <1>1, <1>3, <1>4, EngineMInv

\* What the reset makes of a port is quiet.
LEMMA StoppedWith ==
  ASSUME NEW f \in {"firmware", "kernel"}, NEW c \in {"firmware", "kernel"},
         NEW e \in {"none", "pending", "clearing"}
  PROVE  LET r == [Stopped EXCEPT !.fb = f, !.cl = c, !.serr = e]
         IN r \in Regs /\ Quiet(r)
<1> DEFINE r == [[[Stopped EXCEPT !.fb = f] EXCEPT !.cl = c] EXCEPT !.serr = e]
<1>1. Stopped \in Regs /\ Quiet(Stopped)
  BY DEF Stopped, Regs, Quiet
<1>2. [Stopped EXCEPT !.fb = f] \in Regs /\ Quiet([Stopped EXCEPT !.fb = f])
  BY <1>1 DEF Regs, Quiet
<1>3. /\ [[Stopped EXCEPT !.fb = f] EXCEPT !.cl = c] \in Regs
      /\ Quiet([[Stopped EXCEPT !.fb = f] EXCEPT !.cl = c])
  BY <1>2 DEF Regs, Quiet
<1>4. r \in Regs /\ Quiet(r)
  BY <1>3 DEF Regs, Quiet
<1>5. r = [Stopped EXCEPT !.fb = f, !.cl = c, !.serr = e]
  OBVIOUS
<1> QED
  BY <1>4, <1>5

\* The reset makes every port quiet.
LEMMA ResetStops ==
  ASSUME port \in [Ports -> Regs], Reset
  PROVE  port' \in [Ports -> Regs] /\ \A p \in Ports : Quiet(port'[p])
<1> DEFINE n(p) == [Stopped EXCEPT !.fb = port[p].fb, !.cl = port[p].cl,
                                   !.serr = LinkError(p)]
<1>1. port' = [p \in Ports |-> n(p)]
  BY DEF Reset
<1>2. ASSUME NEW p \in Ports
      PROVE  n(p) \in Regs /\ Quiet(n(p))
  <2>1. /\ port[p].fb \in {"firmware", "kernel"}
        /\ port[p].cl \in {"firmware", "kernel"}
    BY DEF Regs
  <2> DEFINE up == LinkError(p)
  <2>2. up \in {"none", "pending", "clearing"}
    BY DEF LinkError
  <2>3. n(p) = [Stopped EXCEPT !.fb = port[p].fb, !.cl = port[p].cl, !.serr = up]
    OBVIOUS
  <2> HIDE DEF up
  <2> QED
    BY <2>1, <2>2, <2>3, StoppedWith
<1> HIDE DEF n
<1> QED
  BY <1>1, <1>2

\* A reset comes while the driver waits for it.
LEMMA HBAResetMInv == MInv /\ Reset => MInv'
<1> SUFFICES ASSUME MInv, Reset PROVE MInv'
  OBVIOUS
<1>1. /\ Stage = "wait HR" /\ Stage' = Stage /\ UNCHANGED ctrl
      /\ ghc' = [ae |-> FALSE, ie |-> FALSE, hr |-> FALSE]
  BY DEF Reset, MInv, ControlOK, Stage
<1>2. port' \in [Ports -> Regs] /\ \A p \in Ports : Quiet(port'[p])
  BY ResetStops DEF MInv, TypesOK
<1>3. ghc' \in [ae : BOOLEAN, ie : BOOLEAN, hr : BOOLEAN] /\ ~ghc'.hr
  BY <1>1
<1> QED
  BY <1>1, <1>2, <1>3 DEF MInv, TypesOK, ControlOK, QuietOK, LateOK, StartOK, CommandsOK,
     Late, Starting, NoCommands

\* Every step preserves the invariant.
LEMMA NextMInv == MInv /\ [Next]_vars => MInv'
<1> SUFFICES ASSUME MInv, [Next]_vars PROVE MInv'
  OBVIOUS
<1>1. CASE Driver
  BY <1>1, FindMInv, StopMInv, ResetMInv, StartMInv DEF Driver
<1>2. CASE HBA
  BY <1>2, CommandEngineMInv, FISEngineMInv, ErrorsClearedMInv, HBAResetMInv DEF HBA
<1>3. CASE UNCHANGED vars
  BY <1>3 DEF vars, MInv, TypesOK, ControlOK, QuietOK, LateOK, StartOK, CommandsOK,
     Stage, Round
<1> QED
  BY <1>1, <1>2, <1>3 DEF Next

\* The invariant holds always.
LEMMA MemoryInvariance == Spec => []MInv
<1>1. Spec => Init /\ [][Next]_vars
  BY PTL DEF Spec
<1> QED
  BY <1>1, InitMInv, NextMInv, PTL

\* No engine runs on memory of the firmware behind the reset, for every number of
\* ports and whatever the firmware left (schismAHCI.c:151, 199).
THEOREM EnginesOnKernelMemory == Spec => []NoStaleMemory
<1>1. MInv => NoStaleMemory
  <2> SUFFICES ASSUME MInv, Stage \in Late, NEW p \in Ports
               PROVE  /\ port[p].fr => port[p].fb = "kernel" /\ ghc.ae /\ ctrl.master
                      /\ port[p].cr => port[p].cl = "kernel" /\ ghc.ae /\ ctrl.master
    BY DEF NoStaleMemory, Stage, Late
  <2>1. ghc.ae /\ ctrl.master
    BY DEF MInv, ControlOK, Late
  <2>2. Quiet(port[p]) \/ Kernel(port[p])
    BY DEF MInv, LateOK
  <2> QED
    BY <2>1, <2>2 DEF Quiet, Kernel
<1> QED
  BY <1>1, MemoryInvariance, PTL

\* The engines of a port are started and stopped in the hardware's order.
LEMMA StepsInOrder ==
  ASSUME MInv, Driver, drv.at # "pci", NEW p \in Ports
  PROVE  /\ port[p].fre /\ ~port'[p].fre => ~port[p].cr
         /\ ~port[p].st /\ port'[p].st => port[p].fr /\ ~port[p].cr
<1>1. port \in [Ports -> Regs] /\ port[p] \in Regs
  BY DEF MInv, TypesOK
<1>2. CASE UNCHANGED port
  BY <1>2
<1>3. CASE StopPort
  <2> DEFINE n == [port[Round] EXCEPT !.st = FALSE]
  <2>1. port' = [port EXCEPT ![Round] = n]
    BY <1>3 DEF StopPort, Round
  <2>2. Round \in Ports => n \in Regs /\ ~n.st /\ n.fre = port[Round].fre
    BY <1>1, ChangeST
  <2> HIDE DEF n
  <2>3. port'[p] = IF p = Round THEN n ELSE port[p]
    BY <1>1, <2>1, <2>2, PortChanges
  <2> QED
    BY <2>2, <2>3
<1>4. CASE StopFIS
  <2> DEFINE n == [port[Round] EXCEPT !.fre = FALSE]
  <2>1. port' = [port EXCEPT ![Round] = n] /\ ~port[Round].cr
    BY <1>4 DEF StopFIS, CommandsStopped, Round
  <2>2. Round \in Ports => n \in Regs /\ n.st = port[Round].st
    BY <1>1, ChangeFRE
  <2> HIDE DEF n
  <2>3. port'[p] = IF p = Round THEN n ELSE port[p]
    BY <1>1, <2>1, <2>2, PortChanges
  <2> QED
    BY <2>1, <2>2, <2>3
<1>5. CASE SetBases
  <2> DEFINE k == HDDPort
  <2> HIDE DEF k
  <2>1. port' = [port EXCEPT ![k] = Bases(port[k])]
    BY <1>5 DEF SetBases, k
  <2>2. k \in Ports => /\ Bases(port[k]) \in Regs
                       /\ Bases(port[k]).st = port[k].st /\ Bases(port[k]).fre = port[k].fre
    BY <1>1, ChangeBases
  <2>3. port'[p] = IF p = k THEN Bases(port[k]) ELSE port[p]
    BY <1>1, <2>1, <2>2, PortChanges
  <2> QED
    BY <2>2, <2>3
<1>6. CASE StartFIS
  <2> DEFINE n == [port[Round] EXCEPT !.fre = TRUE]
  <2>1. port' = [port EXCEPT ![Round] = n]
    BY <1>6 DEF StartFIS, Round
  <2>2. Round \in Ports => n \in Regs /\ n.st = port[Round].st /\ n.fre
    BY <1>1, ChangeFRE
  <2> HIDE DEF n
  <2>3. port'[p] = IF p = Round THEN n ELSE port[p]
    BY <1>1, <2>1, <2>2, PortChanges
  <2> QED
    BY <2>2, <2>3
<1>7. CASE StartCommands
  <2> DEFINE n == [port[Round] EXCEPT !.st = TRUE]
  <2>1. port' = [port EXCEPT ![Round] = n] /\ port[Round].fr /\ Stage = "wait FR"
    BY <1>7 DEF StartCommands, FISRunning, Round, Stage
  <2>2. Round \in Ports => n \in Regs /\ n.fre = port[Round].fre
    BY <1>1, ChangeST
  <2> HIDE DEF n
  <2>3. port'[p] = IF p = Round THEN n ELSE port[p]
    BY <1>1, <2>1, <2>2, PortChanges
  <2>4. ~port[p].cr
    BY <2>1 DEF MInv, CommandsOK, NoCommands
  <2> QED
    BY <2>1, <2>2, <2>3, <2>4
<1>8. CASE ClearErrors
  <2> DEFINE n == [port[Round] EXCEPT !.serr = Written(port[Round].serr)]
  <2>1. port' = [port EXCEPT ![Round] = n]
    BY <1>8 DEF ClearErrors, Round
  <2>2. Round \in Ports => n \in Regs /\ n.st = port[Round].st /\ n.fre = port[Round].fre
    BY <1>1, ErrorsWrittenTo
  <2> HIDE DEF n
  <2>3. port'[p] = IF p = Round THEN n ELSE port[p]
    BY <1>1, <2>1, <2>2, PortChanges
  <2> QED
    BY <2>2, <2>3
<1> QED
  BY <1>2, <1>3, <1>4, <1>5, <1>6, <1>7, <1>8
     DEF Driver, FindController, GetBaseAddress, ListPort, EnableAHCI, SkipPort,
         PortStopped, ResetHBA, ReenableAHCI, NoDisk, PortReady

\* The driver stops and starts the engines of a port in order, whatever the firmware
\* left and however the HBA follows.
THEOREM EnginesInOrder == Spec => EngineOrder
<1>1. MInv /\ [Next]_vars =>
        [drv.at # "pci" => \A p \in Ports :
           /\ Driver /\ port[p].fre /\ ~port'[p].fre => ~port[p].cr
           /\ Driver /\ ~port[p].st /\ port'[p].st => port[p].fr /\ ~port[p].cr]_vars
  BY StepsInOrder
<1>2. Spec => [][Next]_vars
  BY PTL DEF Spec
<1> QED
  BY <1>1, <1>2, MemoryInvariance, PTL DEF EngineOrder

-------------------------------------------------------------------------------
\* The inductive invariant of the way to the reset: the ports the loop has passed
\* are idle, and a port that receives FISes without being told to was handed over so,
\* or is the one whose FRE the driver has just cleared.
Handed(p) == Receives(port[p]) => p \in firmware.draining
AtRest(r, p) == ~(r.st \/ r.fre \/ r.cr) /\ (r.fr => p \in firmware.draining)
Passed(k) == \A p \in pi : p < k => Idle(p)
Ahead(k) == \A p \in pi : p >= k => Handed(p)

LoopOK == Stage \in {"ports", "wait CR clear"} => Passed(Round) /\ Ahead(Round)
StopOK == Stage = "wait CR clear" /\ Round \in Ports => ~port[Round].st
StoppedOK ==
  Stage = "wait FR clear" =>
    /\ Passed(Round) /\ Ahead(Round + 1)
    /\ Round \in Ports => ~port[Round].st /\ ~port[Round].cr /\ ~port[Round].fre

JInv ==
  /\ Stage # "pci" => pi \in PortMaps
  /\ Stage \in {"list", "ports", "wait CR clear", "wait FR clear"} => Round \in Nat
  /\ Stage = "list" => \A p \in Ports : Handed(p)
  /\ LoopOK /\ StopOK /\ StoppedOK

\* Ports are numbers.
LEMMA PortNumbers ==
  /\ Ports \subseteq Nat
  /\ \A m \in PortMaps : m \subseteq Ports
BY AHCIAssumption DEF Ports

\* The invariant of the loops holds at first.
LEMMA InitJInv == Init => JInv
<1> SUFFICES ASSUME Init PROVE JInv
  OBVIOUS
<1>1. Stage = "pci"
  BY Rings DEF Init, Stage
<1> QED
  BY <1>1 DEF JInv, LoopOK, StopOK, StoppedOK

\* An engine that follows does not disturb an idle port, nor one ahead of the loop.
LEMMA EngineJInv ==
  ASSUME MInv, JInv, NEW p \in Ports, NEW n \in Regs,
         port' = [port EXCEPT ![p] = n],
         n.st = port[p].st, n.fre = port[p].fre,
         Receives(n) => Receives(port[p]),
         ~port[p].st /\ ~port[p].cr => ~n.cr,
         UNCHANGED <<pi, firmware, drv>>
  PROVE  JInv'
<1>1. port \in [Ports -> Regs] /\ Stage' = Stage /\ Round' = Round
  BY DEF MInv, TypesOK, Stage, Round
<1>2. \A q \in Ports : port'[q] = IF q = p THEN n ELSE port[q]
  BY <1>1, PortChanges
<1>3. Stage # "pci" => pi \subseteq Ports
  BY PortNumbers DEF JInv
<1>4. \A q \in Ports : /\ port'[q].st = port[q].st /\ port'[q].fre = port[q].fre
                       /\ ~port[q].st /\ ~port[q].cr => ~port'[q].cr
                       /\ Receives(port'[q]) => Receives(port[q])
  BY <1>2
<1>5. \A q \in Ports : Handed(q) => Handed(q)'
  BY <1>4 DEF Handed
<1>6. \A q \in Ports : Idle(q) => Idle(q)'
  BY <1>4 DEF Idle, Receives
<1>7. LoopOK'
  BY <1>1, <1>3, <1>5, <1>6 DEF JInv, LoopOK, Passed, Ahead
<1>8. StopOK'
  BY <1>1, <1>4 DEF JInv, StopOK
<1>9. StoppedOK'
  BY <1>1, <1>3, <1>4, <1>5, <1>6 DEF JInv, StoppedOK, Passed, Ahead
<1>10. Stage' = "list" => \A q \in Ports : Handed(q)'
  BY <1>1, <1>5 DEF JInv
<1> QED
  BY <1>1, <1>7, <1>8, <1>9, <1>10 DEF JInv

\* The HBA preserves the invariant of the loops.
LEMMA HBAJInv == MInv /\ JInv /\ HBA => JInv'
<1> SUFFICES ASSUME MInv, JInv, HBA PROVE JInv'
  OBVIOUS
<1>1. CASE Reset
  <2>1. Stage = "wait HR" /\ Stage' = Stage /\ UNCHANGED pi
    BY <1>1 DEF Reset, hardware, MInv, ControlOK, Stage
  <2> QED
    BY <2>1 DEF JInv, LoopOK, StopOK, StoppedOK
<1>2. ASSUME NEW p \in Ports, CommandEngine(p)
      PROVE  JInv'
  <2> DEFINE r == port[p]
  <2> DEFINE n == [r EXCEPT !.cr = r.st]
  <2>1. r.cr # r.st /\ port' = [port EXCEPT ![p] = n] /\ UNCHANGED <<pi, firmware, drv>>
    BY <1>2 DEF CommandEngine, hardware
  <2>2. r \in Regs
    BY DEF MInv, TypesOK
  <2>3. r.st \in BOOLEAN
    BY <2>2 DEF Regs
  <2>4. n \in Regs /\ n.fre = r.fre /\ n.fr = r.fr /\ n.st = r.st /\ n.cr = r.st
    BY <2>2, <2>3, ChangeCR
  <2>5. Receives(n) => Receives(r)
    BY <2>4 DEF Receives
  <2> HIDE DEF n
  <2> QED
    BY <2>1, <2>4, <2>5, EngineJInv
<1>3. ASSUME NEW p \in Ports, FISEngine(p)
      PROVE  JInv'
  <2> DEFINE r == port[p]
  <2> DEFINE n == [r EXCEPT !.fr = r.fre]
  <2>1. r.fr # r.fre /\ port' = [port EXCEPT ![p] = n] /\ UNCHANGED <<pi, firmware, drv>>
    BY <1>3 DEF FISEngine, hardware
  <2>2. r \in Regs
    BY DEF MInv, TypesOK
  <2>3. r.fre \in BOOLEAN
    BY <2>2 DEF Regs
  <2>4. n \in Regs /\ n.fre = r.fre /\ n.fr = r.fre /\ n.st = r.st /\ n.cr = r.cr
    BY <2>2, <2>3, ChangeFR
  <2>5. Receives(n) => Receives(r)
    BY <2>4 DEF Receives
  <2> HIDE DEF n
  <2> QED
    BY <2>1, <2>4, <2>5, EngineJInv
<1>4. ASSUME NEW p \in Ports, ErrorsCleared(p)
      PROVE  JInv'
  <2> DEFINE r == port[p]
  <2> DEFINE n == [r EXCEPT !.serr = "none"]
  <2>1. port' = [port EXCEPT ![p] = n] /\ UNCHANGED <<pi, firmware, drv>>
    BY <1>4 DEF ErrorsCleared, hardware
  <2>2. r \in Regs
    BY DEF MInv, TypesOK
  <2>3. n \in Regs /\ n.fre = r.fre /\ n.fr = r.fr /\ n.st = r.st /\ n.cr = r.cr
    BY <2>2, ChangeSERR
  <2>4. Receives(n) => Receives(r)
    BY <2>3 DEF Receives
  <2> HIDE DEF n
  <2> QED
    BY <2>1, <2>3, <2>4, EngineJInv
<1> QED
  BY <1>1, <1>2, <1>3, <1>4 DEF HBA

\* The loop over the ports starts with none passed.
LEMMA ListJInv ==
  MInv /\ JInv /\ (FindController \/ GetBaseAddress \/ ListPort \/ EnableAHCI) => JInv'
<1> SUFFICES ASSUME MInv, JInv, FindController \/ GetBaseAddress \/ ListPort \/ EnableAHCI
             PROVE  JInv'
  OBVIOUS
<1>1. CASE FindController
  <2>1. Stage' = "pci"
    BY <1>1 DEF FindController, Stage
  <2> QED
    BY <2>1 DEF JInv, LoopOK, StopOK, StoppedOK
<1>2. CASE GetBaseAddress
  <2>1. drv' = At("list") /\ pi' \in PortMaps
    BY <1>2 DEF GetBaseAddress, Firmware
  <2>2. Stage' = "list" /\ Round' = 0
    BY <2>1, Rings DEF Stage, Round
  <2>3. firmware'.draining = {p \in Ports : Receives(port'[p])}
    BY <1>2 DEF GetBaseAddress, Firmware
  <2>4. \A p \in Ports : Handed(p)'
    BY <2>3 DEF Handed
  <2> QED
    BY <2>1, <2>2, <2>4 DEF JInv, LoopOK, StopOK, StoppedOK
<1>3. CASE ListPort
  <2>1. Stage = "list" /\ drv' = Ring("list", Round + 1) /\ UNCHANGED <<pi, port, firmware>>
    BY <1>3 DEF ListPort, hardware, Stage, Round
  <2>2. Stage' = "list" /\ Round' = Round + 1
    BY <2>1, Rings DEF Stage, Round
  <2>3. \A p \in Ports : Handed(p)'
    BY <2>1 DEF JInv, Handed
  <2> QED
    BY <2>1, <2>2, <2>3 DEF JInv, LoopOK, StopOK, StoppedOK
<1>4. CASE EnableAHCI
  <2>1. Stage = "list" /\ drv' = At("ports") /\ UNCHANGED <<pi, port, firmware>>
    BY <1>4 DEF EnableAHCI, hardware, Stage
  <2>2. Stage' = "ports" /\ Round' = 0
    BY <2>1, Rings DEF Stage, Round
  <2>3. pi \in PortMaps /\ pi \subseteq Ports /\ Ports \subseteq Nat
    BY <2>1, PortNumbers DEF JInv
  <2>4. \A p \in pi : Handed(p)'
    BY <2>1, <2>3 DEF JInv, Handed
  <2>5. \A p \in pi : ~(p < 0)
    BY <2>3
  <2> QED
    BY <2>1, <2>2, <2>3, <2>4, <2>5 DEF JInv, LoopOK, StopOK, StoppedOK, Passed, Ahead
<1> QED
  BY <1>1, <1>2, <1>3, <1>4

\* On to the next round.
LEMMA NextPortRound == drv' = NextPort => Stage' = "ports" /\ Round' = Round + 1
BY Rings DEF NextPort, Stage, Round

\* On to the next port, when this one is idle.
LEMMA PassPort ==
  ASSUME JInv, UNCHANGED <<pi, firmware>>, drv' = NextPort, pi \in PortMaps, Round \in Nat,
         Passed(Round), Ahead(Round + 1),
         \A p \in Ports : p # Round => port'[p] = port[p],
         Round \in pi => AtRest(port'[Round], Round)
  PROVE  JInv'
<1>1. Stage' = "ports" /\ Round' = Round + 1
  BY NextPortRound
<1>2. pi \subseteq Ports /\ Ports \subseteq Nat
  BY PortNumbers
<1>3. \A p \in pi : p < Round + 1 => Idle(p)'
  <2> SUFFICES ASSUME NEW p \in pi, p < Round + 1 PROVE Idle(p)'
    OBVIOUS
  <2>1. CASE p = Round
    BY <2>1 DEF AtRest, Idle
  <2>2. CASE p # Round
    <3>1. p < Round /\ p \in Ports
      BY <1>2, <2>2
    <3> QED
      BY <2>2, <3>1 DEF Passed, Idle
  <2> QED
    BY <2>1, <2>2
<1>4. \A p \in pi : p >= Round + 1 => Handed(p)'
  <2> SUFFICES ASSUME NEW p \in pi, p >= Round + 1 PROVE Handed(p)'
    OBVIOUS
  <2>1. p # Round /\ p \in Ports
    BY <1>2
  <2> QED
    BY <2>1 DEF Ahead, Handed
<1>5. Passed(Round)' /\ Ahead(Round)'
  BY <1>1, <1>3, <1>4 DEF Passed, Ahead
<1>6. LoopOK'
  BY <1>5 DEF LoopOK
<1>7. StopOK' /\ StoppedOK'
  BY <1>1 DEF StopOK, StoppedOK
<1>8. pi' \in PortMaps /\ Round' \in Nat
  BY <1>1
<1> QED
  BY <1>1, <1>6, <1>7, <1>8 DEF JInv

\* The round's own port is one of those ahead.
LEMMA AheadFurther ==
  ASSUME pi \in PortMaps, Round \in Nat, Ahead(Round)
  PROVE  Ahead(Round + 1) /\ (Round \in pi => Handed(Round))
<1>1. pi \subseteq Nat
  BY PortNumbers
<1>2. \A p \in pi : p >= Round + 1 => p >= Round
  BY <1>1
<1>3. Round \in pi => Round >= Round
  OBVIOUS
<1> QED
  BY <1>2, <1>3 DEF Ahead

\* The loop stops a port before it goes on to the next.
LEMMA LoopJInv ==
  MInv /\ JInv /\ (SkipPort \/ StopPort \/ StopFIS \/ PortStopped) => JInv'
<1> SUFFICES ASSUME MInv, JInv, SkipPort \/ StopPort \/ StopFIS \/ PortStopped
             PROVE  JInv'
  OBVIOUS
<1>1. /\ UNCHANGED <<pi, firmware>> /\ pi \in PortMaps /\ Round \in Nat
      /\ port \in [Ports -> Regs]
  BY DEF SkipPort, StopPort, StopFIS, PortStopped, hardware, Stage, JInv, MInv, TypesOK
<1>2. pi \subseteq Ports /\ Ports \subseteq Nat
  BY <1>1, PortNumbers
<1>3. CASE SkipPort
  <2>1. Stage = "ports" /\ drv' = NextPort /\ UNCHANGED port /\ ~Busy(port[Round])
    BY <1>3 DEF SkipPort, Stage, Round
  <2>2. Passed(Round) /\ Ahead(Round)
    BY <2>1 DEF JInv, LoopOK
  <2>3. AtRest(port'[Round], Round)
    BY <2>1 DEF Busy, AtRest
  <2> QED
    BY <1>1, <2>1, <2>2, <2>3, AheadFurther, PassPort
<1>4. CASE StopPort
  <2> DEFINE n == [port[Round] EXCEPT !.st = FALSE]
  <2>1. /\ Stage = "ports" /\ drv' = Ring("wait CR clear", Round)
        /\ port' = [port EXCEPT ![Round] = n]
    BY <1>4 DEF StopPort, Stage, Round
  <2>2. Stage' = "wait CR clear" /\ Round' = Round
    BY <2>1, Rings DEF Stage, Round
  <2>3. Passed(Round) /\ Ahead(Round)
    BY <2>1 DEF JInv, LoopOK
  <2>4. Round \in Ports =>
          n \in Regs /\ ~n.st /\ n.fr = port[Round].fr /\ n.fre = port[Round].fre
    BY <1>1, ChangeST
  <2> HIDE DEF n
  <2>5. \A p \in Ports : port'[p] = IF p = Round THEN n ELSE port[p]
    BY <1>1, <2>1, <2>4, PortChanges
  <2>6. \A p \in pi : p < Round => Idle(p)'
    BY <1>1, <1>2, <2>3, <2>5 DEF Passed, Idle
  <2>7. \A p \in pi : p >= Round => Handed(p)'
    BY <1>1, <1>2, <2>3, <2>4, <2>5 DEF Ahead, Handed, Receives
  <2>8. Round \in Ports => ~port'[Round].st
    BY <2>4, <2>5
  <2> QED
    BY <1>1, <2>2, <2>6, <2>7, <2>8 DEF JInv, LoopOK, StopOK, StoppedOK, Passed, Ahead
<1>5. CASE StopFIS
  <2> DEFINE n == [port[Round] EXCEPT !.fre = FALSE]
  <2>1. /\ Stage = "wait CR clear" /\ ~port[Round].cr
        /\ port' = [port EXCEPT ![Round] = n]
    BY <1>5 DEF StopFIS, CommandsStopped, Stage, Round
  <2>2. Passed(Round) /\ Ahead(Round)
    BY <2>1 DEF JInv, LoopOK
  <2>3. Round \in Ports =>
          /\ n \in Regs /\ ~n.st /\ ~n.cr /\ ~n.fre /\ n.fr = port[Round].fr
    BY <1>1, <2>1, ChangeFRE DEF JInv, StopOK
  <2> HIDE DEF n
  <2>4. \A p \in Ports : port'[p] = IF p = Round THEN n ELSE port[p]
    BY <1>1, <2>1, <2>3, PortChanges
  <2>5. \A p \in Ports : p # Round => port'[p] = port[p]
    BY <2>4
  <2>6. CASE port[Round].fre
    <3>1. drv' = Ring("wait FR clear", Round)
      BY <1>5, <2>6 DEF StopFIS, Round
    <3>2. Stage' = "wait FR clear" /\ Round' = Round
      BY <3>1, Rings DEF Stage, Round
    <3>3. \A p \in pi : p < Round => Idle(p)'
      BY <1>1, <1>2, <2>2, <2>5 DEF Passed, Idle
    <3>4. \A p \in pi : p >= Round + 1 => Handed(p)'
      <4> SUFFICES ASSUME NEW p \in pi, p >= Round + 1 PROVE Handed(p)'
        OBVIOUS
      <4>1. p # Round /\ p \in Ports /\ p >= Round
        BY <1>1, <1>2
      <4> QED
        BY <1>1, <2>2, <2>5, <4>1 DEF Ahead, Handed
    <3>5. Round \in Ports => ~port'[Round].st /\ ~port'[Round].cr /\ ~port'[Round].fre
      BY <2>3, <2>4
    <3> QED
      BY <1>1, <3>2, <3>3, <3>4, <3>5 DEF JInv, LoopOK, StopOK, StoppedOK, Passed, Ahead
  <2>7. CASE ~port[Round].fre
    <3>1. drv' = NextPort
      BY <1>5, <2>7 DEF StopFIS, Round
    <3>2. Ahead(Round + 1) /\ (Round \in pi => Handed(Round))
      BY <1>1, <2>2, AheadFurther
    <3>3. Round \in pi => AtRest(port'[Round], Round)
      BY <1>1, <1>2, <2>3, <2>4, <2>7, <3>2 DEF AtRest, Handed, Receives
    <3> QED
      BY <1>1, <2>2, <2>5, <3>1, <3>2, <3>3, PassPort
  <2> QED
    BY <2>6, <2>7
<1>6. CASE PortStopped
  <2>1. Stage = "wait FR clear" /\ drv' = NextPort /\ UNCHANGED port /\ ~port[Round].fr
    BY <1>6 DEF PortStopped, FISStopped, Stage, Round
  <2>2. /\ Passed(Round) /\ Ahead(Round + 1)
        /\ Round \in pi => AtRest(port'[Round], Round)
    BY <1>1, <1>2, <2>1 DEF JInv, StoppedOK, AtRest
  <2> QED
    BY <1>1, <2>1, <2>2, PassPort
<1> QED
  BY <1>3, <1>4, <1>5, <1>6

\* After the loop nothing is asked of the ports.
LEMMA LateJInv ==
  MInv /\ JInv /\ (ResetHBA \/ ReenableAHCI \/ NoDisk \/ SetBases \/ StartFIS
                     \/ StartCommands \/ ClearErrors \/ PortReady) => JInv'
<1> SUFFICES ASSUME MInv, JInv,
                    ResetHBA \/ ReenableAHCI \/ NoDisk \/ SetBases \/ StartFIS
                      \/ StartCommands \/ ClearErrors \/ PortReady
             PROVE  JInv'
  OBVIOUS
<1>1. UNCHANGED pi /\ Stage # "pci"
  BY DEF ResetHBA, ReenableAHCI, NoDisk, SetBases, StartFIS, StartCommands, ClearErrors,
         PortReady,
         hardware, Stage
<1>2. Stage' \in {"wait HR", "find disk", "done", "start FIS", "wait FR", "wait CR",
                 "wait SERR"}
  <2>1. ResetHBA => drv'.at = "wait HR"
    BY Rings DEF ResetHBA
  <2>2. ReenableAHCI => drv'.at = "find disk"
    BY Rings DEF ReenableAHCI
  <2>3. NoDisk => drv'.at = "done"
    BY Rings DEF NoDisk
  <2>4. SetBases => drv'.at = "start FIS"
    <3> DEFINE k == HDDPort
    <3> HIDE DEF k
    <3>1. SetBases => drv' = Ring("start FIS", k)
      BY DEF SetBases, k
    <3> QED
      BY <3>1, Rings
  <2>5. StartFIS => drv'.at = "wait FR"
    <3>1. StartFIS => drv' = Ring("wait FR", Round)
      BY DEF StartFIS, Round
    <3> QED
      BY <3>1, Rings
  <2>6. StartCommands => drv'.at = "wait CR"
    <3>1. StartCommands => drv' = Ring("wait CR", Round)
      BY DEF StartCommands, Round
    <3> QED
      BY <3>1, Rings
  <2>7. PortReady => drv'.at = "done"
    <3>1. PortReady => drv' = At("done")
      BY DEF PortReady
    <3> QED
      BY <3>1, Rings
  <2>8. ClearErrors => drv'.at = "wait SERR"
    <3>1. ClearErrors => drv' = Ring("wait SERR", Round)
      BY DEF ClearErrors, Round
    <3> QED
      BY <3>1, Rings
  <2> QED
    BY <2>1, <2>2, <2>3, <2>4, <2>5, <2>6, <2>7, <2>8 DEF Stage
<1> QED
  BY <1>1, <1>2 DEF JInv, LoopOK, StopOK, StoppedOK

\* Every step preserves the invariant of the loops.
LEMMA NextJInv == MInv /\ JInv /\ [Next]_vars => JInv'
<1> SUFFICES ASSUME MInv, JInv, [Next]_vars PROVE JInv'
  OBVIOUS
<1>1. CASE UNCHANGED vars
  BY <1>1 DEF vars, hardware, JInv, LoopOK, StopOK, StoppedOK, Passed, Ahead, Handed, Idle,
     Stage, Round
<1> QED
  BY <1>1, HBAJInv, ListJInv, LoopJInv, LateJInv DEF Next, Driver

\* Both invariants hold always.
LEMMA JInvariance == Spec => [](MInv /\ JInv)
<1>1. Spec => Init /\ [][Next]_vars
  BY DEF Spec
<1>2. JInv /\ MInv /\ [Next]_vars => JInv'
  BY NextJInv
<1> QED
  BY <1>1, <1>2, InitJInv, MemoryInvariance, PTL

-------------------------------------------------------------------------------
\* PI counts its ports from 0 without a gap.
Gapless == \A m \in PortMaps : \E n \in Nat : m = 0 .. n - 1

\* No other step sets HR.
LEMMA ResetComesFrom == MInv /\ [Next]_vars /\ ~ghc.hr /\ ghc'.hr => ResetHBA
<1> SUFFICES ASSUME MInv, [Next]_vars, ~ghc.hr, ghc'.hr
             PROVE  ResetHBA
  OBVIOUS
<1>1. ghc \in [ae : BOOLEAN, ie : BOOLEAN, hr : BOOLEAN]
  BY DEF MInv, TypesOK
<1>2. ghc' # ghc
  OBVIOUS
<1>3. ~GetBaseAddress /\ ~Reset
  <2>1. Firmware => ~ghc'.hr
    BY DEF Firmware
  <2>2. Reset => ~ghc'.hr
    BY DEF Reset
  <2> QED
    BY <2>1, <2>2 DEF GetBaseAddress
<1>4. ~EnableAHCI /\ ~ReenableAHCI
  BY <1>1 DEF EnableAHCI, ReenableAHCI, AfterReset
<1>5. /\ ~FindController /\ ~ListPort /\ ~SkipPort /\ ~StopPort /\ ~StopFIS
      /\ ~PortStopped
  BY <1>2 DEF FindController, ListPort, SkipPort, StopPort, StopFIS, PortStopped
<1>6. ~NoDisk /\ ~SetBases /\ ~StartFIS /\ ~StartCommands /\ ~ClearErrors /\ ~PortReady
  BY <1>2 DEF NoDisk, SetBases, StartFIS, StartCommands, ClearErrors, PortReady
<1>7. \A p \in Ports : ~CommandEngine(p) /\ ~FISEngine(p) /\ ~ErrorsCleared(p)
  BY <1>2 DEF CommandEngine, FISEngine, ErrorsCleared
<1>8. vars' # vars
  BY <1>2 DEF vars
<1> QED
  BY <1>3, <1>4, <1>5, <1>6, <1>7, <1>8 DEF Next, Driver, HBA

\* The loop has passed every implemented port, if PI has no gap.
LEMMA ResetFromIdle ==
  ASSUME Gapless, MInv, JInv, [Next]_vars, ~ghc.hr, ghc'.hr, NEW p \in pi
  PROVE  Idle(p)
<1>1. ResetHBA
  BY ResetComesFrom
<1>2. Stage = "ports" /\ ~(Round < NumPorts)
  BY <1>1 DEF ResetHBA, MorePorts, Stage, Round
<1>3. ctrl.mem
  BY <1>2 DEF MInv, ControlOK
<1>4. pi \in PortMaps /\ Round \in Nat /\ Passed(Round)
  BY <1>2 DEF JInv, LoopOK
<1>5. PICK n \in Nat : pi = 0 .. n - 1
  BY <1>4 DEF Gapless
<1>6. Cardinality(pi) = n
  BY <1>5, FS_Interval
<1>7. ~(Round < n)
  BY <1>2, <1>3, <1>6 DEF NumPorts, Implemented
<1>8. p < Round
  BY <1>4, <1>5, <1>7
<1> QED
  BY <1>4, <1>8 DEF Passed

\* kernel_main resets the HBA only when every implemented port is idle, whatever
\* the firmware left running - on an HBA that numbers its ports without a gap, and
\* but for FR on a port that was handed over with FR set and FRE clear.
THEOREM ResetWhenIdle == ASSUME Gapless PROVE Spec => IdleBeforeReset
<1>1. MInv /\ JInv /\ [Next]_vars =>
        [~ghc.hr /\ ghc'.hr => \A p \in pi : Idle(p)]_vars
  BY ResetFromIdle
<1>2. Spec => [][Next]_vars
  BY DEF Spec
<1> QED
  BY <1>1, <1>2, JInvariance, PTL DEF IdleBeforeReset

-------------------------------------------------------------------------------
\* The inductive invariant of the way to the disk: the list has the ports below the
\* loop, one behind the other, while the registers are in the memory space.
Listed(n, list, says) ==
  /\ list \in Seq([port : Nat, type : Kinds])
  /\ \A k \in DOMAIN list : list[k].port \in 0 .. n - 1 /\ list[k].type = says[list[k].port]
  /\ \A k, m \in DOMAIN list : k < m => list[k].port < list[m].port
  /\ \A p \in 0 .. n - 1 : says[p] = AHCI_DEVICE_HDD =>
       \E k \in DOMAIN list : list[k].port = p

ListOK ==
  /\ Stage = "pci" => deviceList = <<>>
  /\ Stage # "pci" => pi \in PortMaps /\ sig \in [Ports -> Kinds]
  /\ Stage = "list" => ctrl.mem = firmware.mem
  /\ Stage = "list" /\ firmware.mem =>
       Round \in 0 .. Cardinality(pi) /\ Listed(Round, deviceList, sig)
  /\ Stage \notin {"pci", "list"} /\ firmware.mem => Listed(Cardinality(pi), deviceList, sig)

\* The port of the first hard disk is started, engine after engine.
DiskOK ==
  Stage \in Late /\ firmware.mem /\ HDDs # {} =>
    LET r == port[HDDPort]
    IN  /\ Stage \in Starting => Round = HDDPort
        /\ Stage \in {"wait FR", "wait CR", "wait SERR", "done"} => r.fre
        /\ Stage \in {"wait CR", "wait SERR", "done"} => r.fr /\ r.st
        /\ Stage \in {"wait SERR", "done"} => r.cr
        /\ Stage = "done" => r.serr = "none" /\ scratch

InterruptsOK == Stage \in Late => ghc.ie

RInv == ListOK /\ DiskOK /\ InterruptsOK

\* Ports without a gap are those below their number.
LEMMA GaplessPorts ==
  ASSUME Gapless, NEW m \in PortMaps
  PROVE  /\ Cardinality(m) \in Nat /\ m = 0 .. Cardinality(m) - 1
         /\ m \subseteq Ports /\ Ports \subseteq Nat
<1>1. PICK n \in Nat : m = 0 .. n - 1
  BY DEF Gapless
<1>2. Cardinality(m) = n
  BY <1>1, FS_Interval
<1> QED
  BY <1>1, <1>2, PortNumbers

\* The next port is appended if there is a device.
LEMMA ListedNext ==
  ASSUME NEW n \in Nat, NEW list, NEW says \in [Ports -> Kinds], NEW longer,
         Listed(n, list, says), n \in Ports,
         longer = IF says[n] # Nothing
                    THEN Append(list, [port |-> n, type |-> says[n]]) ELSE list
  PROVE  Listed(n + 1, longer, says)
<1> DEFINE R == [port : Nat, type : Kinds]
<1> DEFINE L == Len(list)
<1> DEFINE rec == [port |-> n, type |-> says[n]]
<1>1. list \in Seq(R) /\ rec \in R /\ rec.port = n /\ rec.type = says[n]
  BY DEF Listed
<1>2. /\ \A k \in DOMAIN list : /\ list[k].port \in 0 .. n - 1
                               /\ list[k].type = says[list[k].port]
      /\ \A k, m \in DOMAIN list : k < m => list[k].port < list[m].port
      /\ \A p \in 0 .. n - 1 : says[p] = AHCI_DEVICE_HDD =>
           \E k \in DOMAIN list : list[k].port = p
  BY DEF Listed
<1> HIDE DEF R, rec
<1>3. L \in Nat /\ DOMAIN list = 1 .. L
  BY <1>1
<1>4. \A p \in 0 .. (n + 1) - 1 : p \in 0 .. n - 1 \/ p = n
  OBVIOUS
<1>5. \A p \in 0 .. n - 1 : p \in 0 .. (n + 1) - 1 /\ p < n
  OBVIOUS
<1>6. CASE says[n] = Nothing
  <2>1. longer = list
    BY <1>6
  <2>2. says[n] # AHCI_DEVICE_HDD
    BY <1>6 DEF Nothing, AHCI_DEVICE_HDD
  <2> QED
    BY <1>1, <1>2, <1>4, <1>5, <2>1, <2>2 DEF Listed, R
<1>7. CASE says[n] # Nothing
  <2>1. longer = Append(list, rec)
    BY <1>7 DEF rec
  <2>2. /\ longer \in Seq(R) /\ DOMAIN longer = 1 .. L + 1
        /\ \A k \in 1 .. L : longer[k] = list[k]
        /\ longer[L + 1] = rec
    BY <1>1, <1>3, <2>1
  <2>3. \A k \in 1 .. L + 1 : k \in 1 .. L \/ k = L + 1
    BY <1>3
  <2>4. \A k \in 1 .. L : k \in 1 .. L + 1 /\ ~(L + 1 < k)
    BY <1>3
  <2>5. n \in 0 .. (n + 1) - 1 /\ L + 1 \in 1 .. L + 1 /\ ~(L + 1 < L + 1)
    BY <1>3
  <2>6. \A k \in 1 .. L + 1 : /\ longer[k].port \in 0 .. (n + 1) - 1
                             /\ longer[k].type = says[longer[k].port]
    BY <1>1, <1>2, <1>3, <1>5, <2>2, <2>3, <2>5
  <2>7. \A k, m \in 1 .. L + 1 : k < m => longer[k].port < longer[m].port
    <3>1. SUFFICES ASSUME NEW k \in 1 .. L + 1, NEW m \in 1 .. L + 1, k < m
                   PROVE  longer[k].port < longer[m].port
      OBVIOUS
    <3>2. k \in 1 .. L
      BY <2>3, <2>4, <2>5, <3>1
    <3>3. longer[k] = list[k] /\ list[k].port < n
      BY <1>2, <1>3, <1>5, <2>2, <3>2
    <3>4. CASE m = L + 1
      BY <1>1, <2>2, <3>3, <3>4
    <3>5. CASE m \in 1 .. L
      BY <1>2, <1>3, <2>2, <3>1, <3>2, <3>5
    <3> QED
      BY <2>3, <3>4, <3>5
  <2>8. \A p \in 0 .. (n + 1) - 1 : says[p] = AHCI_DEVICE_HDD =>
           \E k \in 1 .. L + 1 : longer[k].port = p
    <3>1. SUFFICES ASSUME NEW p \in 0 .. (n + 1) - 1, says[p] = AHCI_DEVICE_HDD
                   PROVE  \E k \in 1 .. L + 1 : longer[k].port = p
      OBVIOUS
    <3>2. CASE p = n
      BY <1>1, <2>2, <2>5, <3>2
    <3>3. CASE p \in 0 .. n - 1
      <4>1. PICK k \in DOMAIN list : list[k].port = p
        BY <1>2, <3>1, <3>3
      <4> QED
        BY <1>3, <2>2, <2>4, <4>1
    <3> QED
      BY <1>4, <3>2, <3>3
  <2> QED
    BY <2>2, <2>6, <2>7, <2>8 DEF Listed, R
<1> QED
  BY <1>6, <1>7

\* The invariant holds at first.
LEMMA RInvInit == Init => RInv
<1> SUFFICES ASSUME Init PROVE RInv
  OBVIOUS
<1>1. Stage = "pci" /\ deviceList = <<>>
  BY Rings DEF Init, Stage
<1> QED
  BY <1>1 DEF RInv, ListOK, DiskOK, InterruptsOK, Late

\* The steps before the list is complete.
LEMMA ListRInv ==
  Gapless /\ RInv /\ (FindController \/ GetBaseAddress \/ ListPort \/ EnableAHCI) => RInv'
<1> SUFFICES ASSUME Gapless, RInv,
                    FindController \/ GetBaseAddress \/ ListPort \/ EnableAHCI
             PROVE  RInv'
  OBVIOUS
<1>1. CASE FindController
  <2>1. Stage = "pci" /\ Stage' = "pci" /\ UNCHANGED deviceList
    BY <1>1 DEF FindController, Stage
  <2> QED
    BY <2>1 DEF RInv, ListOK, DiskOK, InterruptsOK, Late
<1>2. CASE GetBaseAddress
  <2>1. /\ Stage = "pci" /\ drv' = At("list") /\ UNCHANGED deviceList
        /\ pi' \in PortMaps /\ sig' \in [Ports -> Kinds] /\ firmware'.mem = ctrl'.mem
    BY <1>2 DEF GetBaseAddress, Firmware, Stage
  <2>2. Stage' = "list" /\ Round' = 0
    BY <2>1, Rings DEF Stage, Round
  <2>3. deviceList' = <<>>
    BY <2>1 DEF RInv, ListOK
  <2>4. Listed(0, deviceList', sig')
    <3>1. \A p \in 0 .. 0 - 1 : FALSE
      OBVIOUS
    <3> QED
      BY <2>3, <3>1 DEF Listed
  <2>5. 0 \in 0 .. Cardinality(pi')
    BY <2>1, GaplessPorts
  <2>6. Listed(Round, deviceList, sig)'
    BY <2>2, <2>4
  <2> QED
    BY <2>1, <2>2, <2>5, <2>6 DEF RInv, ListOK, DiskOK, InterruptsOK, Late
<1>3. CASE ListPort
  <2>1. /\ Stage = "list" /\ drv' = Ring("list", Round + 1) /\ Round < NumPorts
        /\ UNCHANGED <<pi, sig, firmware, ctrl>>
        /\ deviceList' = IF HasDevice(Round)
                           THEN Append(deviceList, [port |-> Round, type |-> sig[Round]])
                           ELSE deviceList
    BY <1>3 DEF ListPort, hardware, MorePorts, Stage, Round
  <2>2. Stage' = "list" /\ Round' = Round + 1
    BY <2>1, Rings DEF Stage, Round
  <2>3. pi \in PortMaps /\ sig \in [Ports -> Kinds] /\ ctrl.mem = firmware.mem
    BY <2>1 DEF RInv, ListOK
  <2>4. ASSUME firmware.mem
        PROVE  Round + 1 \in 0 .. Cardinality(pi) /\ Listed(Round + 1, deviceList', sig')
    <3> DEFINE n == Round
    <3>1. n \in 0 .. Cardinality(pi) /\ Listed(n, deviceList, sig)
      BY <2>1, <2>4 DEF RInv, ListOK
    <3>2. n < Cardinality(pi)
      BY <2>1, <2>3, <2>4 DEF NumPorts, Implemented
    <3>3. deviceList' = IF sig[n] # Nothing
                          THEN Append(deviceList, [port |-> n, type |-> sig[n]])
                          ELSE deviceList
      BY <2>1, <2>3, <2>4 DEF HasDevice
    <3> DEFINE c == Cardinality(pi)
    <3>4. c \in Nat /\ pi = 0 .. c - 1 /\ pi \subseteq Ports
      BY <2>3, GaplessPorts
    <3> HIDE DEF n, c
    <3>5. n \in Nat /\ n \in Ports /\ n + 1 \in 0 .. c
      BY <3>1, <3>2, <3>4 DEF c
    <3>6. Listed(n + 1, deviceList', sig)
      BY <2>1, <2>3, <3>1, <3>3, <3>5, ListedNext
    <3> QED
      BY <2>1, <3>5, <3>6 DEF n, c
  <2>5. firmware.mem => Listed(Round, deviceList, sig)'
    BY <2>1, <2>2, <2>4
  <2> QED
    BY <2>1, <2>2, <2>3, <2>4, <2>5 DEF RInv, ListOK, DiskOK, InterruptsOK, Late
<1>4. CASE EnableAHCI
  <2>1. /\ Stage = "list" /\ drv' = At("ports") /\ ~(Round < NumPorts)
        /\ UNCHANGED <<pi, sig, firmware, deviceList>>
    BY <1>4 DEF EnableAHCI, hardware, MorePorts, Stage, Round
  <2>2. Stage' = "ports"
    BY <2>1, Rings DEF Stage
  <2>3. pi \in PortMaps /\ sig \in [Ports -> Kinds] /\ ctrl.mem = firmware.mem
    BY <2>1 DEF RInv, ListOK
  <2>4. ASSUME firmware.mem
        PROVE  Listed(Cardinality(pi), deviceList, sig)
    <3>1. Round \in 0 .. Cardinality(pi) /\ Listed(Round, deviceList, sig)
      BY <2>1, <2>4 DEF RInv, ListOK
    <3>2. ~(Round < Cardinality(pi))
      BY <2>1, <2>3, <2>4 DEF NumPorts, Implemented
    <3>3. Cardinality(pi) \in Nat
      BY <2>3, GaplessPorts
    <3>4. Round = Cardinality(pi)
      BY <3>1, <3>2, <3>3
    <3> QED
      BY <3>1, <3>4
  <2> QED
    BY <2>1, <2>2, <2>3, <2>4 DEF RInv, ListOK, DiskOK, InterruptsOK, Late
<1> QED
  BY <1>1, <1>2, <1>3, <1>4

\* After that the list stays.
LEMMA ListOKStays ==
  ASSUME ListOK, Stage \notin {"pci", "list"}, Stage' \notin {"pci", "list"},
         UNCHANGED <<pi, sig, firmware, deviceList>>
  PROVE  ListOK'
BY DEF ListOK

\* The first disk of the list is the one on the port with the lowest number.
LEMMA FirstDisk ==
  ASSUME Gapless, ListOK, Stage \notin {"pci", "list"}, firmware.mem
  PROVE  /\ HDDs # {} => /\ HDDPort \in pi /\ HDDPort \in Ports
                         /\ sig[HDDPort] = AHCI_DEVICE_HDD
                         /\ \A q \in pi : q < HDDPort => sig[q] # AHCI_DEVICE_HDD
         /\ (\E p \in pi : sig[p] = AHCI_DEVICE_HDD) => HDDs # {}
<1> DEFINE c == Cardinality(pi)
<1>1. /\ c \in Nat /\ pi = 0 .. c - 1 /\ pi \subseteq Ports /\ Ports \subseteq Nat
  BY GaplessPorts DEF ListOK
<1>2. Listed(c, deviceList, sig)
  BY DEF ListOK
<1> DEFINE R == [port : Nat, type : Kinds]
<1>3. deviceList \in Seq(R)
  BY <1>2 DEF Listed
<1> HIDE DEF c, R
<1>4. DOMAIN deviceList \subseteq Nat
  BY <1>3
<1>5. /\ \A k \in DOMAIN deviceList : /\ deviceList[k].port \in pi
                                     /\ deviceList[k].type = sig[deviceList[k].port]
      /\ \A k, m \in DOMAIN deviceList : k < m => deviceList[k].port < deviceList[m].port
      /\ \A p \in pi : sig[p] = AHCI_DEVICE_HDD =>
           \E k \in DOMAIN deviceList : deviceList[k].port = p
  BY <1>1, <1>2 DEF Listed
<1>6. ASSUME NEW p \in pi, sig[p] = AHCI_DEVICE_HDD
      PROVE  \E k \in HDDs : deviceList[k].port = p
  BY <1>5, <1>6 DEF HDDs, IsHDD
<1>7. ASSUME HDDs # {}
      PROVE  /\ HDDPort \in pi /\ HDDPort \in Ports
             /\ sig[HDDPort] = AHCI_DEVICE_HDD
             /\ \A q \in pi : q < HDDPort => sig[q] # AHCI_DEVICE_HDD
  <2> DEFINE f == CHOOSE k \in HDDs : \A m \in HDDs : k <= m
  <2>1. HDDs \in SUBSET Nat
    BY <1>4 DEF HDDs
  <2>2. f \in HDDs /\ \A m \in HDDs : f <= m
    BY <1>7, <2>1, LeastOne
  <2>3. HDDPort = deviceList[f].port
    BY DEF HDDPort
  <2> HIDE DEF f
  <2>4. f \in DOMAIN deviceList /\ deviceList[f].type = AHCI_DEVICE_HDD
    BY <2>2 DEF HDDs, IsHDD
  <2>5. ASSUME NEW q \in pi, q < HDDPort, sig[q] = AHCI_DEVICE_HDD
        PROVE  FALSE
    <3>1. PICK m \in HDDs : deviceList[m].port = q
      BY <1>6, <2>5
    <3>2. m \in DOMAIN deviceList /\ m \in Nat /\ f \in Nat /\ f <= m
      BY <2>1, <2>2, <3>1 DEF HDDs
    <3>3. f = m \/ f < m
      BY <3>2
    <3>4. HDDPort <= q
      BY <1>1, <1>5, <2>3, <2>4, <3>1, <3>2, <3>3
    <3> QED
      BY <1>1, <1>5, <2>3, <2>4, <2>5, <3>4
  <2> QED
    BY <1>1, <1>5, <2>3, <2>4, <2>5
<1> QED
  BY <1>6, <1>7

\* On the way to the reset and through it nothing is started.
LEMMA ResetRInv ==
  MInv /\ RInv /\ (SkipPort \/ StopPort \/ StopFIS \/ PortStopped \/ ResetHBA \/ ReenableAHCI)
    => RInv'
<1> SUFFICES ASSUME MInv, RInv,
                    SkipPort \/ StopPort \/ StopFIS \/ PortStopped \/ ResetHBA \/ ReenableAHCI
             PROVE  RInv'
  OBVIOUS
<1>1. /\ Stage \in {"ports", "wait CR clear", "wait FR clear", "wait HR"}
      /\ UNCHANGED <<pi, sig, firmware, deviceList>>
  BY DEF SkipPort, StopPort, StopFIS, PortStopped, ResetHBA, ReenableAHCI, hardware, Stage
<1>2. \/ Stage' \in {"ports", "wait CR clear", "wait FR clear", "wait HR"}
      \/ Stage' = "find disk" /\ ghc'.ie
  <2>1. SkipPort \/ PortStopped => Stage' = "ports"
    BY NextPortRound DEF SkipPort, PortStopped
  <2>2. StopPort => Stage' = "wait CR clear"
    <3>1. StopPort => drv' = Ring("wait CR clear", Round)
      BY DEF StopPort, Round
    <3> QED
      BY <3>1, Rings DEF Stage
  <2>3. StopFIS => Stage' = "wait FR clear" \/ Stage' = "ports"
    <3>1. StopFIS => drv' = Ring("wait FR clear", Round) \/ drv' = NextPort
      BY DEF StopFIS, Round
    <3>2. drv' = Ring("wait FR clear", Round) => Stage' = "wait FR clear"
      BY Rings DEF Stage
    <3> QED
      BY <3>1, <3>2, NextPortRound
  <2>4. ResetHBA => Stage' = "wait HR"
    BY Rings DEF ResetHBA, Stage
  <2>5. ReenableAHCI => Stage' = "find disk" /\ ghc'.ie
    <3>1. ghc \in [ae : BOOLEAN, ie : BOOLEAN, hr : BOOLEAN]
      BY DEF MInv, TypesOK
    <3>2. AfterReset(ghc).ie
      BY <3>1 DEF AfterReset
    <3>3. ReenableAHCI => drv' = At("find disk") /\ ghc' = AfterReset(ghc)
      BY DEF ReenableAHCI
    <3> QED
      BY <3>2, <3>3, Rings DEF Stage
  <2> QED
    BY <2>1, <2>2, <2>3, <2>4, <2>5
<1>3. ListOK'
  BY <1>1, <1>2, ListOKStays DEF RInv
<1>4. DiskOK' /\ InterruptsOK'
  BY <1>2 DEF DiskOK, InterruptsOK, Late, Starting
<1> QED
  BY <1>3, <1>4 DEF RInv

\* The port of the first disk, the next step of its start and the step's change.
LEMMA DiskStep ==
  ASSUME RInv, Stage \in Late, Stage' \in Late, UNCHANGED <<hardware, ghc, deviceList>>,
         firmware.mem /\ HDDs # {} =>
           LET r == port'[HDDPort]
           IN  /\ Stage' \in Starting => Round' = HDDPort
               /\ Stage' \in {"wait FR", "wait CR", "wait SERR", "done"} => r.fre
               /\ Stage' \in {"wait CR", "wait SERR", "done"} => r.fr /\ r.st
               /\ Stage' \in {"wait SERR", "done"} => r.cr
               /\ Stage' = "done" => r.serr = "none" /\ scratch'
  PROVE  RInv'
<1>1. UNCHANGED <<pi, sig, firmware>>
  BY DEF hardware
<1>2. ListOK'
  BY <1>1, ListOKStays DEF RInv, Late
<1>3. HDDs' = HDDs /\ HDDPort' = HDDPort
  BY DEF HDDs, HDDPort, IsHDD
<1>4. DiskOK'
  BY <1>1, <1>3 DEF DiskOK
<1>5. InterruptsOK'
  BY DEF RInv, InterruptsOK
<1> QED
  BY <1>2, <1>4, <1>5 DEF RInv

\* The driver starts the port of the first disk.
LEMMA DiskRInv ==
  Gapless /\ MInv /\ RInv /\ (NoDisk \/ SetBases \/ StartFIS \/ StartCommands \/ ClearErrors
                               \/ PortReady) => RInv'
<1> SUFFICES ASSUME Gapless, MInv, RInv,
                    NoDisk \/ SetBases \/ StartFIS \/ StartCommands \/ ClearErrors \/ PortReady
             PROVE  RInv'
  OBVIOUS
<1> DEFINE d == HDDPort
<1>1. /\ port \in [Ports -> Regs] /\ UNCHANGED <<hardware, ghc, deviceList>>
      /\ Stage \in Late
  BY DEF MInv, TypesOK, NoDisk, SetBases, StartFIS, StartCommands, ClearErrors, PortReady,
         Stage, Late
<1>2. firmware.mem /\ HDDs # {} =>
        /\ d \in Ports
        /\ Stage \in Starting => Round = d
        /\ Stage \in {"wait FR", "wait CR", "wait SERR", "done"} => port[d].fre
        /\ Stage \in {"wait CR", "wait SERR", "done"} => port[d].fr /\ port[d].st
        /\ Stage \in {"wait SERR", "done"} => port[d].cr
  BY <1>1, FirstDisk DEF RInv, DiskOK, Late
<1> HIDE DEF d
<1>3. CASE NoDisk
  <2>1. Stage' = "done" /\ HDDs = {}
    BY <1>3, Rings DEF NoDisk, Stage
  <2> QED
    BY <1>1, <2>1, DiskStep DEF Late
<1>4. CASE SetBases
  <2>1. drv' = Ring("start FIS", d)
    BY <1>4 DEF SetBases, d
  <2>2. Stage' = "start FIS" /\ Round' = d
    BY <2>1, Rings DEF Stage, Round
  <2> QED
    BY <1>1, <2>2, DiskStep DEF Late, d
<1>5. CASE StartFIS
  <2> DEFINE n == [port[Round] EXCEPT !.fre = TRUE]
  <2>1. /\ Stage = "start FIS" /\ drv' = Ring("wait FR", Round)
        /\ port' = [port EXCEPT ![Round] = n]
    BY <1>5 DEF StartFIS, Stage, Round
  <2>2. Stage' = "wait FR" /\ Round' = Round
    BY <2>1, Rings DEF Stage, Round
  <2>3. firmware.mem /\ HDDs # {} => Round = d /\ port'[d].fre
    <3>1. SUFFICES ASSUME firmware.mem, HDDs # {} PROVE Round = d /\ port'[d].fre
      OBVIOUS
    <3>2. Round = d /\ d \in Ports
      BY <1>2, <2>1, <3>1 DEF Starting
    <3>3. n \in Regs /\ n.fre
      BY <1>1, <3>2, ChangeFRE
    <3> HIDE DEF n
    <3> QED
      BY <1>1, <2>1, <3>2, <3>3, PortChanges
  <2> QED
    BY <1>1, <2>2, <2>3, DiskStep DEF Late, Starting, d
<1>6. CASE StartCommands
  <2> DEFINE n == [port[Round] EXCEPT !.st = TRUE]
  <2>1. /\ Stage = "wait FR" /\ drv' = Ring("wait CR", Round) /\ port[Round].fr
        /\ port' = [port EXCEPT ![Round] = n]
    BY <1>6 DEF StartCommands, FISRunning, Stage, Round
  <2>2. Stage' = "wait CR" /\ Round' = Round
    BY <2>1, Rings DEF Stage, Round
  <2>3. firmware.mem /\ HDDs # {} =>
          Round = d /\ port'[d].fre /\ port'[d].fr /\ port'[d].st
    <3>1. SUFFICES ASSUME firmware.mem, HDDs # {}
                   PROVE  Round = d /\ port'[d].fre /\ port'[d].fr /\ port'[d].st
      OBVIOUS
    <3>2. Round = d /\ d \in Ports /\ port[d].fre
      BY <1>2, <2>1, <3>1 DEF Starting
    <3>3. n \in Regs /\ n.st /\ n.fre = port[Round].fre /\ n.fr = port[Round].fr
      BY <1>1, <3>2, ChangeST
    <3> HIDE DEF n
    <3>4. port'[d] = n
      BY <1>1, <2>1, <3>2, <3>3, PortChanges
    <3> QED
      BY <2>1, <3>2, <3>3, <3>4
  <2> QED
    BY <1>1, <2>2, <2>3, DiskStep DEF Late, Starting, d
<1>7. CASE ClearErrors
  <2> DEFINE n == [port[Round] EXCEPT !.serr = Written(port[Round].serr)]
  <2>1. /\ Stage = "wait CR" /\ drv' = Ring("wait SERR", Round) /\ port[Round].cr
        /\ port' = [port EXCEPT ![Round] = n]
    BY <1>7 DEF ClearErrors, CommandsRunning, Stage, Round
  <2>2. Stage' = "wait SERR" /\ Round' = Round
    BY <2>1, Rings DEF Stage, Round
  <2>3. firmware.mem /\ HDDs # {} =>
          Round = d /\ port'[d].fre /\ port'[d].fr /\ port'[d].st /\ port'[d].cr
    <3>1. SUFFICES ASSUME firmware.mem, HDDs # {}
                   PROVE  /\ Round = d /\ port'[d].fre /\ port'[d].fr /\ port'[d].st
                          /\ port'[d].cr
      OBVIOUS
    <3>2. Round = d /\ d \in Ports /\ port[d].fre /\ port[d].fr /\ port[d].st
      BY <1>2, <2>1, <3>1 DEF Starting
    <3>3. /\ n \in Regs /\ n.st = port[Round].st /\ n.fre = port[Round].fre
          /\ n.fr = port[Round].fr /\ n.cr = port[Round].cr
      BY <1>1, <3>2, ErrorsWrittenTo
    <3> HIDE DEF n
    <3>4. port'[d] = n
      BY <1>1, <2>1, <3>2, <3>3, PortChanges
    <3> QED
      BY <2>1, <3>2, <3>3, <3>4
  <2> QED
    BY <1>1, <2>2, <2>3, DiskStep DEF Late, Starting, d
<1>8. CASE PortReady
  <2>1. /\ Stage = "wait SERR" /\ drv' = At("done") /\ scratch' /\ UNCHANGED port
        /\ port[Round].serr = "none"
    BY <1>8 DEF PortReady, ErrorsGone, Stage, Round
  <2>2. Stage' = "done"
    BY <2>1, Rings DEF Stage
  <2>3. firmware.mem /\ HDDs # {} =>
          /\ port'[d].fre /\ port'[d].fr /\ port'[d].st /\ port'[d].cr
          /\ port'[d].serr = "none"
    BY <1>2, <2>1 DEF Starting
  <2> QED
    BY <1>1, <2>1, <2>2, <2>3, DiskStep DEF Late, Starting, d
<1> QED
  BY <1>3, <1>4, <1>5, <1>6, <1>7, <1>8

\* An engine follows its bit: that changes nothing on a port that is started.
LEMMA EngineRInv ==
  ASSUME Gapless, MInv, RInv, NEW p \in Ports, NEW n \in Regs,
         port' = [port EXCEPT ![p] = n],
         n.st = port[p].st, n.fre = port[p].fre,
         port[p].serr = "none" => n.serr = "none",
         port[p].fr /\ port[p].fre => n.fr, port[p].cr /\ port[p].st => n.cr,
         UNCHANGED <<hardware, ghc, deviceList, ctrl, scratch, drv>>
  PROVE  RInv'
<1>1. /\ port \in [Ports -> Regs] /\ Stage' = Stage /\ Round' = Round
      /\ UNCHANGED <<pi, sig, firmware>>
  BY DEF MInv, TypesOK, Stage, Round, hardware
<1>2. \A q \in Ports : port'[q] = IF q = p THEN n ELSE port[q]
  BY <1>1, PortChanges
<1>3. CASE Stage \notin Late
  <2>1. ListOK'
    BY <1>1 DEF RInv, ListOK
  <2>2. DiskOK' /\ InterruptsOK'
    BY <1>1, <1>3 DEF DiskOK, InterruptsOK
  <2> QED
    BY <2>1, <2>2 DEF RInv
<1>4. CASE Stage \in Late
  <2> DEFINE d == HDDPort
  <2>1. firmware.mem /\ HDDs # {} =>
          /\ d \in Ports
          /\ Stage \in Starting => Round = d
          /\ Stage \in {"wait FR", "wait CR", "wait SERR", "done"} => port[d].fre
          /\ Stage \in {"wait CR", "wait SERR", "done"} => port[d].fr /\ port[d].st
          /\ Stage \in {"wait SERR", "done"} => port[d].cr
          /\ Stage = "done" => port[d].serr = "none" /\ scratch
    BY <1>4, FirstDisk DEF RInv, DiskOK, Late
  <2> HIDE DEF d
  <2>2. firmware.mem /\ HDDs # {} =>
          /\ Stage \in Starting => Round = d
          /\ Stage \in {"wait FR", "wait CR", "wait SERR", "done"} => port'[d].fre
          /\ Stage \in {"wait CR", "wait SERR", "done"} => port'[d].fr /\ port'[d].st
          /\ Stage \in {"wait SERR", "done"} => port'[d].cr
          /\ Stage = "done" => port'[d].serr = "none" /\ scratch
    BY <1>2, <2>1
  <2> QED
    BY <1>1, <1>4, <2>2, DiskStep DEF d
<1> QED
  BY <1>3, <1>4

\* The HBA follows the bits or is reset.
LEMMA HBARInv == Gapless /\ MInv /\ RInv /\ HBA => RInv'
<1> SUFFICES ASSUME Gapless, MInv, RInv, HBA PROVE RInv'
  OBVIOUS
<1>1. CASE Reset
  <2>1. /\ Stage = "wait HR" /\ Stage' = Stage /\ Round' = Round
        /\ UNCHANGED <<pi, sig, firmware, deviceList>>
    BY <1>1 DEF Reset, hardware, MInv, ControlOK, Stage, Round
  <2>2. ListOK'
    BY <2>1, ListOKStays DEF RInv
  <2>3. DiskOK' /\ InterruptsOK'
    BY <2>1 DEF DiskOK, InterruptsOK, Late
  <2> QED
    BY <2>2, <2>3 DEF RInv
<1>2. ASSUME NEW p \in Ports, CommandEngine(p)
      PROVE  RInv'
  <2> DEFINE r == port[p]
  <2> DEFINE n == [r EXCEPT !.cr = r.st]
  <2>1. /\ port' = [port EXCEPT ![p] = n]
        /\ UNCHANGED <<hardware, ghc, deviceList, ctrl, scratch, drv>>
    BY <1>2 DEF CommandEngine
  <2>2. r \in Regs
    BY DEF MInv, TypesOK
  <2>3. r.st \in BOOLEAN
    BY <2>2 DEF Regs
  <2>4. n \in Regs /\ n.fre = r.fre /\ n.fr = r.fr /\ n.st = r.st /\ n.cr = r.st
    BY <2>2, <2>3, ChangeCR
  <2>5. n.serr = r.serr
    BY <2>2 DEF Regs
  <2> HIDE DEF n
  <2> QED
    BY <2>1, <2>4, <2>5, EngineRInv
<1>3. ASSUME NEW p \in Ports, FISEngine(p)
      PROVE  RInv'
  <2> DEFINE r == port[p]
  <2> DEFINE n == [r EXCEPT !.fr = r.fre]
  <2>1. /\ port' = [port EXCEPT ![p] = n]
        /\ UNCHANGED <<hardware, ghc, deviceList, ctrl, scratch, drv>>
    BY <1>3 DEF FISEngine
  <2>2. r \in Regs
    BY DEF MInv, TypesOK
  <2>3. r.fre \in BOOLEAN
    BY <2>2 DEF Regs
  <2>4. n \in Regs /\ n.fre = r.fre /\ n.fr = r.fre /\ n.st = r.st /\ n.cr = r.cr
    BY <2>2, <2>3, ChangeFR
  <2>5. n.serr = r.serr
    BY <2>2 DEF Regs
  <2> HIDE DEF n
  <2> QED
    BY <2>1, <2>4, <2>5, EngineRInv
<1>4. ASSUME NEW p \in Ports, ErrorsCleared(p)
      PROVE  RInv'
  <2> DEFINE r == port[p]
  <2> DEFINE n == [r EXCEPT !.serr = "none"]
  <2>1. /\ port' = [port EXCEPT ![p] = n]
        /\ UNCHANGED <<hardware, ghc, deviceList, ctrl, scratch, drv>>
    BY <1>4 DEF ErrorsCleared
  <2>2. r \in Regs
    BY DEF MInv, TypesOK
  <2>3. /\ n \in Regs /\ n.fre = r.fre /\ n.fr = r.fr /\ n.st = r.st /\ n.cr = r.cr
        /\ n.serr = "none"
    BY <2>2, ChangeSERR
  <2> HIDE DEF n
  <2> QED
    BY <2>1, <2>3, EngineRInv
<1> QED
  BY <1>1, <1>2, <1>3, <1>4 DEF HBA

\* Every step preserves the invariant.
LEMMA NextRInv == Gapless /\ MInv /\ RInv /\ [Next]_vars => RInv'
<1> SUFFICES ASSUME Gapless, MInv, RInv, [Next]_vars PROVE RInv'
  OBVIOUS
<1>1. CASE UNCHANGED vars
  <2>1. HDDs' = HDDs /\ HDDPort' = HDDPort
    BY <1>1 DEF vars, HDDs, HDDPort, IsHDD
  <2>2. ListOK' /\ InterruptsOK'
    BY <1>1 DEF vars, RInv, ListOK, InterruptsOK, Stage, Round
  <2>3. DiskOK'
    BY <1>1, <2>1 DEF vars, RInv, DiskOK, Stage, Round
  <2> QED
    BY <2>2, <2>3 DEF RInv
<1> QED
  BY <1>1, HBARInv, ListRInv, ResetRInv, DiskRInv DEF Next, Driver

\* The invariant implies the property.
LEMMA RInvReady == Gapless /\ MInv /\ RInv => ReadyForCommands
<1> SUFFICES ASSUME Gapless, MInv, RInv, drv.at = "done", firmware.mem,
                    \E p \in pi : sig[p] = AHCI_DEVICE_HDD
             PROVE  /\ ghc.ae /\ ghc.ie /\ ctrl.mem /\ ctrl.master /\ scratch
                    /\ \E p \in pi : /\ sig[p] = AHCI_DEVICE_HDD
                                     /\ port[p].cr /\ port[p].fr /\ port[p].serr = "none"
                                     /\ \A q \in pi : q < p => sig[q] # AHCI_DEVICE_HDD
  BY DEF ReadyForCommands
<1>1. Stage = "done" /\ Stage \in Late
  BY DEF Stage, Late
<1>2. ghc.ae /\ ghc.ie /\ ctrl.mem /\ ctrl.master
  BY <1>1 DEF MInv, ControlOK, RInv, InterruptsOK
<1> DEFINE d == HDDPort
<1>3. /\ HDDs # {} /\ d \in pi /\ sig[d] = AHCI_DEVICE_HDD
      /\ \A q \in pi : q < d => sig[q] # AHCI_DEVICE_HDD
  BY <1>1, FirstDisk DEF RInv
<1>4. port[d].cr /\ port[d].fr /\ port[d].serr = "none" /\ scratch
  BY <1>1, <1>3 DEF RInv, DiskOK
<1> HIDE DEF d
<1> QED
  BY <1>2, <1>3, <1>4

\* What the disk commands rely on when _AHCI_configure returns: the port of the
\* first hard disk runs in AHCI mode, without a pending error - on an HBA that
\* numbers its ports without a gap.
THEOREM PortIsReady == ASSUME Gapless PROVE Spec => []ReadyForCommands
<1>1. RInv /\ MInv /\ [Next]_vars => RInv'
  BY NextRInv
<1>2. MInv /\ RInv => ReadyForCommands
  BY RInvReady
<1>3. Spec => Init /\ [][Next]_vars
  BY DEF Spec
<1> QED
  BY <1>1, <1>2, <1>3, RInvInit, MemoryInvariance, PTL

===============================================================================
