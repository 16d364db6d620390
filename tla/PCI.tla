---------------------------------- MODULE PCI ----------------------------------
(***************************************************************************)
(* The PCI bus (include/schismPCI.c) and the search for the AHCI           *)
(* controller on it (_AHCI_getBDF in include/schismAHCI.c).                *)
(*                                                                         *)
(* _PCI_enumerate asks every function of every device of every bus for its *)
(* vendor and appends a record for each that answers; _AHCI_getBDF then    *)
(* walks the records for class 1, subclass 6.  kernel_main runs the one    *)
(* right after the other's loop, with nothing beside it.                   *)
(*                                                                         *)
(* What is plugged in is external: config says what answers where.  The    *)
(* machine has buses, devices and functions 0 .. 255, 0 .. 31 and 0 .. 7.  *)
(***************************************************************************)
EXTENDS Integers, Sequences, FiniteSets

CONSTANTS
  LastBus, LastDevice, LastFunction,
  Machines          \* what may be plugged in: the values config may have

Places == [bus : 0 .. LastBus, device : 0 .. LastDevice,
           function : 0 .. LastFunction]
Classes == (0 .. 255) \X (0 .. 255)   \* class and subclass
PCI_NO_DEVICE == <<255, 255>>         \* what reading an empty place gives

ASSUME PCIAssumption ==
  /\ LastBus \in Nat /\ LastDevice \in Nat /\ LastFunction \in Nat
  /\ Machines \subseteq [Places -> Classes]

AHCI == <<1, 6>>              \* AHCI_PCI_CLASS, AHCI_PCI_SUBCLASS
NotFound == [bus |-> -1, device |-> -1, function |-> -1]

VARIABLES
  config,      \* what answers at each place: a class, or nothing
  at,          \* the place the three loops of the scan have come to
  pciBus,      \* the list of records; empty while it is UNINITIALIZED_RECORD
  walk,        \* the record _AHCI_getBDF looks at, 0 before it is called
  hostBus      \* what _AHCI_getBDF wrote into PCIBus, PCIDevice, PCIFunction

pciVars == <<config, at, pciBus, walk, hostBus>>

-------------------------------------------------------------------------------
\* The same operators with a plausible slip: a scan of all buses by a counter of
\* 8 bits, a search that ends in front of the last record.
SlipMore(p) == p.bus <= LastBus
SlipMatches(k) == k < Len(pciBus) /\ pciBus[k].class = AHCI

-------------------------------------------------------------------------------
\* The number written to PCI_ADDR, from its ninth bit up: the shifts for device
\* and bus pass over the 3 and 8 bits below them.
MakeBusDevFunc(p) ==
  p.bus * ((LastFunction + 1) * (LastDevice + 1))
    + p.device * (LastFunction + 1) + p.function

\* The place the chipset decodes from such a number.
Decode(n) ==
  LET functions == LastFunction + 1
      devices == LastDevice + 1
  IN [bus |-> n \div (functions * devices),
      device |-> (n \div functions) % devices,
      function |-> n % functions]

\* _PCI_writeAddr, then _PCI_readData.
ReadConfig(p) == config[Decode(MakeBusDevFunc(p))]

\* The loops over bus, dev and function: counters of 8 bits, the last bus left out.
More(p) == p.bus < LastBus

Advance(p) ==
  IF p.function < LastFunction THEN [p EXCEPT !.function = @ + 1]
  ELSE IF p.device < LastDevice THEN [p EXCEPT !.device = @ + 1, !.function = 0]
  ELSE [bus |-> (p.bus + 1) % (LastBus + 1), device |-> 0, function |-> 0]

First == [bus |-> 0, device |-> 0, function |-> 0]

Plugged == {p \in Places : config[p] # PCI_NO_DEVICE}

PCIInit ==
  /\ config \in Machines
  /\ at = First
  /\ pciBus = <<>>
  /\ walk = 0
  /\ hostBus = NotFound

\* The first record goes into the one kernel_main allocated, any other is linked
\* behind the record _PCI_findLastEntry finds.
Link(record) == Append(pciBus, record)

Absent ==
  /\ walk = 0
  /\ More(at)
  /\ ReadConfig(at) = PCI_NO_DEVICE
  /\ at' = Advance(at)
  /\ UNCHANGED <<config, pciBus, walk, hostBus>>

Present ==
  /\ walk = 0
  /\ More(at)
  /\ ReadConfig(at) # PCI_NO_DEVICE
  /\ pciBus' = Link([place |-> at, class |-> ReadConfig(at)])
  /\ at' = Advance(at)
  /\ UNCHANGED <<config, walk, hostBus>>

\* _AHCI_getBDF: a list that was never initialised is not walked.
StartSearch ==
  /\ walk = 0
  /\ ~More(at)
  /\ pciBus # <<>>
  /\ walk' = 1
  /\ UNCHANGED <<config, at, pciBus, hostBus>>

Searching == walk \in DOMAIN pciBus /\ hostBus = NotFound
Matches(k) == pciBus[k].class = AHCI

TakeRecord ==
  /\ Searching
  /\ Matches(walk)
  /\ hostBus' = pciBus[walk].place
  /\ UNCHANGED <<config, at, pciBus, walk>>

\* The last record is looked at behind the loop, which ends in front of it.
NextRecord ==
  /\ Searching
  /\ ~Matches(walk)
  /\ walk' = walk + 1
  /\ UNCHANGED <<config, at, pciBus, hostBus>>

PCINext == Absent \/ Present \/ StartSearch \/ TakeRecord \/ NextRecord

PCISpec == PCIInit /\ [][PCINext]_pciVars /\ WF_pciVars(PCINext)

-------------------------------------------------------------------------------
\* The order the scan takes the places in.
Before(p, q) ==
  \/ p.bus < q.bus
  \/ p.bus = q.bus /\ p.device < q.device
  \/ p.bus = q.bus /\ p.device = q.device /\ p.function < q.function

\* The types of the variables.
PCITypeOK ==
  /\ config \in [Places -> Classes]
  /\ at \in Places
  /\ pciBus \in Seq([place : Places, class : Classes])
  /\ walk \in Nat
  /\ hostBus \in Places \cup {NotFound}

\* The list is the scan: each record is a function that is there, with its own
\* class, in the order of the scan, and no function the scan has passed is missing.
ListIsScan ==
  /\ \A k \in DOMAIN pciBus :
       /\ config[pciBus[k].place] = pciBus[k].class
       /\ pciBus[k].place \in Plugged
       /\ Before(pciBus[k].place, at)
  /\ \A k, m \in DOMAIN pciBus : k < m => Before(pciBus[k].place, pciBus[m].place)
  /\ \A p \in Plugged : Before(p, at) => \E k \in DOMAIN pciBus : pciBus[k].place = p

\* The search is over: a controller was found or there is no further record.
SearchOver ==
  /\ ~More(at)
  /\ hostBus # NotFound \/ pciBus = <<>> \/ walk > Len(pciBus)

\* What the bring-up relies on: the search ends with the first AHCI controller
\* on the buses below the last one, and without one only if there is none.
FirstController ==
  SearchOver =>
    LET controllers == {p \in Plugged : config[p] = AHCI /\ p.bus < LastBus}
    IN IF hostBus = NotFound
         THEN controllers = {}
         ELSE /\ hostBus \in controllers
              /\ \A p \in controllers : p = hostBus \/ Before(hostBus, p)
===============================================================================
