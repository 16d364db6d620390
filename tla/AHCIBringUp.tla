------------------------------ MODULE AHCIBringUp ------------------------------
(***************************************************************************)
(* Bringing up the AHCI host bus adapter (include/schismAHCI.c), from the  *)
(* scan of the PCI bus on: _PCI_enumerate and _AHCI_getBDF (module PCI),   *)
(* _AHCI_getBaseAddress, _AHCI_initDeviceList, then _AHCI_configure, as    *)
(* kernel_main calls them.                                                 *)
(*                                                                         *)
(* The driver writes a register and spins until the HBA has followed.  The *)
(* HBA is external: a port's command engine (CR) follows the start bit ST, *)
(* its FIS engine (FR) follows FRE, error bits that are written go away,   *)
(* and a reset of the HBA stops everything, leaves AHCI mode and clears    *)
(* the reset bit, each in its own time.  A link reports an error when it   *)
(* comes up after the reset, and no other while the driver clears them.    *)
(*                                                                         *)
(* The firmware hands the ports over stopped, receiving FISes, running, or *)
(* with one engine or both about to stop, with base addresses of its own,  *)
(* and may have left the HBA's registers out of the memory space.  What it *)
(* left is chosen when the driver first knows where the registers are.     *)
(*                                                                         *)
(* kernel_main goes on without a controller and takes its address from the *)
(* stack: that is not followed.                                            *)
(* One action is the code between two points at which the HBA can be       *)
(* noticed.  Memory is there for everything that is allocated.             *)
(***************************************************************************)
EXTENDS PCI

CONSTANTS
  LastPort,       \* the register space has ports 0 .. LastPort
  PortMaps        \* the values the register PI may have: sets of ports

Ports == 0 .. LastPort

ASSUME AHCIAssumption ==
  /\ LastPort \in Nat
  /\ PortMaps \subseteq SUBSET Ports

AHCI_DEVICE_HDD == "HDD"
AHCI_DEVICE_ODD == "ODD"
AHCI_DEVICE_UNKNOWN == "UNKNOWN"
Nothing == "nothing"                  \* the signature 0xFFFFFFFF
Kinds == {AHCI_DEVICE_HDD, AHCI_DEVICE_ODD, AHCI_DEVICE_UNKNOWN, Nothing}

VARIABLES
  pi,          \* the ports that are implemented
  sig,         \* what the signature register of a port says
  port,        \* the registers of a port
  ghc,         \* the bits AE, IE and HR of the global control register
  ctrl,        \* the bits of the function's PCI control register
  firmware,    \* history: whether it left the registers in the memory space, and
               \* the ports with FR set but FRE clear
  deviceList,  \* the list initDeviceList builds: records of port and type
  scratch,     \* whether the scratch buffers of the disk are allocated
  drv          \* where the driver is, and the i of its loop over ports

vars == <<pciVars, pi, sig, port, ghc, ctrl, firmware, deviceList, scratch, drv>>
hardware == <<pciVars, pi, sig, firmware>>

-------------------------------------------------------------------------------
\* The same operators with a plausible slip: a port thought idle because it is not
\* started, an end of the wait that does not look at CR, AHCI mode not entered
\* again, one base address only.
SlipBusy(r) == r.st
SlipStopped(r) == ~r.st
SlipAfterReset(g) == [g EXCEPT !.ie = TRUE]
SlipBases(r) == [r EXCEPT !.fb = "kernel"]

-------------------------------------------------------------------------------
At(step) == [at |-> step, i |-> 0]
Ring(step, i) == [at |-> step, i |-> i]

Stopped == [st |-> FALSE, fre |-> FALSE, fr |-> FALSE, cr |-> FALSE,
            fb |-> "firmware", cl |-> "firmware", serr |-> "none"]
Receiving == [Stopped EXCEPT !.fre = TRUE, !.fr = TRUE]
Running == [Receiving EXCEPT !.st = TRUE, !.cr = TRUE]
Stopping == [Running EXCEPT !.st = FALSE]
Draining == [Stopped EXCEPT !.fr = TRUE]
Receives(r) == r.fr /\ ~r.fre        \* the FIS engine runs and is not told to

Init == /\ PCIInit
        /\ pi = {}
        /\ sig = [p \in Ports |-> Nothing]
        /\ port = [p \in Ports |-> Stopped]
        /\ ghc = [ae |-> FALSE, ie |-> FALSE, hr |-> FALSE]
        /\ ctrl = [mem |-> FALSE, io |-> FALSE, master |-> FALSE]
        /\ firmware = [mem |-> FALSE, draining |-> {}]
        /\ deviceList = <<>>
        /\ scratch = FALSE
        /\ drv = At("pci")

\* The scan and the search come before anything touches the HBA.
FindController ==
  /\ drv.at = "pci"
  /\ PCINext
  /\ UNCHANGED <<pi, sig, port, ghc, ctrl, firmware, deviceList, scratch, drv>>

\* An unimplemented port reads as zero: a signature nobody knows.
Firmware ==
  /\ pi' \in PortMaps
  /\ sig' \in {s \in [Ports -> Kinds] :
                 \A p \in Ports \ pi' : s[p] = AHCI_DEVICE_UNKNOWN}
  /\ port' \in {f \in [Ports -> {Stopped, Receiving, Running, Stopping, Draining}] :
                  \A p \in Ports \ pi' : f[p] = Stopped}
  /\ \E ae, mem, master \in BOOLEAN :
       /\ master => mem
       /\ ghc' = [ae |-> ae, ie |-> FALSE, hr |-> FALSE]
       /\ ctrl' = [mem |-> mem, io |-> mem, master |-> master]
  /\ firmware' = [mem |-> ctrl'.mem,
                  draining |-> {p \in Ports : Receives(port'[p])}]

\* _AHCI_getBaseAddress, for the controller _AHCI_getBDF found.
GetBaseAddress ==
  /\ drv.at = "pci"
  /\ hostBus # NotFound
  /\ Firmware
  /\ drv' = At("list")
  /\ UNCHANGED <<pciVars, deviceList, scratch>>

\* A register outside the memory space reads as ones: every port implemented,
\* none with a device.
\* _AHCI_detectPorts counts the bits of PI; loops take the ports below it.
Implemented == Cardinality(pi)
NumPorts == IF ctrl.mem THEN Implemented ELSE LastPort + 1
MorePorts(i) == i < NumPorts

HasDevice(p) == ctrl.mem /\ sig[p] # Nothing

\* One round of _AHCI_initDeviceList.
ListPort ==
  /\ drv.at = "list"
  /\ MorePorts(drv.i)
  /\ deviceList' = IF HasDevice(drv.i)
                     THEN Append(deviceList, [port |-> drv.i, type |-> sig[drv.i]])
                     ELSE deviceList
  /\ drv' = Ring("list", drv.i + 1)
  /\ UNCHANGED <<hardware, port, ghc, ctrl, scratch>>

\* _AHCI_configure lets the HBA into memory and onto the bus, enters AHCI mode
\* and starts on the ports.
Enabled(c) == [c EXCEPT !.mem = TRUE, !.io = TRUE, !.master = TRUE]

EnableAHCI ==
  /\ drv.at = "list"
  /\ ~MorePorts(drv.i)
  /\ ctrl' = Enabled(ctrl)
  /\ ghc' = [ghc EXCEPT !.ae = TRUE]
  /\ drv' = At("ports")
  /\ UNCHANGED <<hardware, port, deviceList, scratch>>

\* _AHCI_resetPorts: a port is left alone or its ST bit is cleared.
Busy(r) == r.st \/ r.fre \/ r.fr \/ r.cr
NextPort == Ring("ports", drv.i + 1)

SkipPort ==
  /\ drv.at = "ports"
  /\ MorePorts(drv.i)
  /\ ~Busy(port[drv.i])
  /\ drv' = NextPort
  /\ UNCHANGED <<hardware, port, ghc, ctrl, deviceList, scratch>>

StopPort ==
  /\ drv.at = "ports"
  /\ MorePorts(drv.i)
  /\ Busy(port[drv.i])
  /\ port' = [port EXCEPT ![drv.i].st = FALSE]
  /\ drv' = Ring("wait CR clear", drv.i)
  /\ UNCHANGED <<hardware, ghc, ctrl, deviceList, scratch>>

\* The command engine has stopped: FRE is next, if it is set.
CommandsStopped(r) == ~r.cr

StopFIS ==
  /\ drv.at = "wait CR clear"
  /\ CommandsStopped(port[drv.i])
  /\ port' = [port EXCEPT ![drv.i].fre = FALSE]
  /\ drv' = IF port[drv.i].fre THEN Ring("wait FR clear", drv.i) ELSE NextPort
  /\ UNCHANGED <<hardware, ghc, ctrl, deviceList, scratch>>

FISStopped(r) == ~r.fr

PortStopped ==
  /\ drv.at = "wait FR clear"
  /\ FISStopped(port[drv.i])
  /\ drv' = NextPort
  /\ UNCHANGED <<hardware, port, ghc, ctrl, deviceList, scratch>>

ResetHBA ==
  /\ drv.at = "ports"
  /\ ~MorePorts(drv.i)
  /\ ghc' = [ghc EXCEPT !.hr = TRUE]
  /\ drv' = At("wait HR")
  /\ UNCHANGED <<hardware, port, ctrl, deviceList, scratch>>

\* The reset took the HBA out of AHCI mode: back into it, and interrupts on.
ResetDone == ~ghc.hr
AfterReset(g) == [g EXCEPT !.ae = TRUE, !.ie = TRUE]

ReenableAHCI ==
  /\ drv.at = "wait HR"
  /\ ResetDone
  /\ ghc' = AfterReset(ghc)
  /\ drv' = At("find disk")
  /\ UNCHANGED <<hardware, port, ctrl, deviceList, scratch>>

\* The first hard disk of the list.
IsHDD(k) == deviceList[k].type = AHCI_DEVICE_HDD
HDDs == {k \in DOMAIN deviceList : IsHDD(k)}
HDDPort == deviceList[CHOOSE k \in HDDs : \A m \in HDDs : k <= m].port

NoDisk ==
  /\ drv.at = "find disk"
  /\ HDDs = {}
  /\ drv' = At("done")
  /\ UNCHANGED <<hardware, port, ghc, ctrl, deviceList, scratch>>

\* PxFB and PxCL get freshly allocated memory.
Bases(r) == [r EXCEPT !.fb = "kernel", !.cl = "kernel"]

SetBases ==
  /\ drv.at = "find disk"
  /\ HDDs # {}
  /\ port' = [port EXCEPT ![HDDPort] = Bases(@)]
  /\ drv' = Ring("start FIS", HDDPort)
  /\ UNCHANGED <<hardware, ghc, ctrl, deviceList, scratch>>

StartFIS ==
  /\ drv.at = "start FIS"
  /\ port' = [port EXCEPT ![drv.i].fre = TRUE]
  /\ drv' = Ring("wait FR", drv.i)
  /\ UNCHANGED <<hardware, ghc, ctrl, deviceList, scratch>>

FISRunning(r) == r.fr

StartCommands ==
  /\ drv.at = "wait FR"
  /\ FISRunning(port[drv.i])
  /\ port' = [port EXCEPT ![drv.i].st = TRUE]
  /\ drv' = Ring("wait CR", drv.i)
  /\ UNCHANGED <<hardware, ghc, ctrl, deviceList, scratch>>

CommandsRunning(r) == r.cr

\* Ones are written to the error register, which clears the bits that are set.
Written(serr) == IF serr = "none" THEN "none" ELSE "clearing"

ClearErrors ==
  /\ drv.at = "wait CR"
  /\ CommandsRunning(port[drv.i])
  /\ port' = [port EXCEPT ![drv.i].serr = Written(@)]
  /\ drv' = Ring("wait SERR", drv.i)
  /\ UNCHANGED <<hardware, ghc, ctrl, deviceList, scratch>>

\* The scratch buffers come last.
ErrorsGone(r) == r.serr = "none"

PortReady ==
  /\ drv.at = "wait SERR"
  /\ ErrorsGone(port[drv.i])
  /\ scratch' = TRUE
  /\ drv' = At("done")
  /\ UNCHANGED <<hardware, port, ghc, ctrl, deviceList>>

Driver == \/ FindController \/ GetBaseAddress
          \/ ListPort \/ EnableAHCI
          \/ SkipPort \/ StopPort \/ StopFIS \/ PortStopped
          \/ ResetHBA \/ ReenableAHCI
          \/ NoDisk \/ SetBases \/ StartFIS \/ StartCommands
          \/ ClearErrors \/ PortReady

-------------------------------------------------------------------------------
\* The HBA.
CommandEngine(p) ==
  /\ ~ghc.hr
  /\ port[p].cr # port[p].st
  /\ port' = [port EXCEPT ![p].cr = port[p].st]
  /\ UNCHANGED <<hardware, ghc, ctrl, deviceList, scratch, drv>>

FISEngine(p) ==
  /\ ~ghc.hr
  /\ port[p].fr # port[p].fre
  /\ port' = [port EXCEPT ![p].fr = port[p].fre]
  /\ UNCHANGED <<hardware, ghc, ctrl, deviceList, scratch, drv>>

ErrorsCleared(p) ==
  /\ ~ghc.hr
  /\ port[p].serr = "clearing"
  /\ port' = [port EXCEPT ![p].serr = "none"]
  /\ UNCHANGED <<hardware, ghc, ctrl, deviceList, scratch, drv>>

\* A reset keeps the base addresses; the links that come up again leave a mark
\* in the error register.
LinkError(p) == IF p \in pi /\ sig[p] # Nothing THEN "pending" ELSE "none"

Reset ==
  /\ ghc.hr
  /\ port' = [p \in Ports |->
                [Stopped EXCEPT !.fb = port[p].fb, !.cl = port[p].cl,
                                !.serr = LinkError(p)]]
  /\ ghc' = [ae |-> FALSE, ie |-> FALSE, hr |-> FALSE]
  /\ UNCHANGED <<hardware, ctrl, deviceList, scratch, drv>>

HBA == Reset \/ \E p \in Ports : CommandEngine(p) \/ FISEngine(p) \/ ErrorsCleared(p)

Next == Driver \/ HBA

Fairness == /\ WF_vars(Driver)
            /\ WF_vars(Reset)
            /\ \A p \in Ports : /\ WF_vars(CommandEngine(p))
                               /\ WF_vars(FISEngine(p))
                               /\ WF_vars(ErrorsCleared(p))

Spec == Init /\ [][Next]_vars /\ Fairness

-------------------------------------------------------------------------------
\* The HBA is reset only when every implemented port is idle (schismAHCI.c:61,
\* "puts all implemented ports into an idle state before continuing") - but for a
\* port that receives FISes although FRE is clear when the firmware hands it over:
\* _AHCI_resetPorts waits for FR only behind an FRE it has cleared (schismAHCI.c:87),
\* so that such a port may still have FR set at the reset.
Idle(p) ==
  /\ ~(port[p].st \/ port[p].fre \/ port[p].cr)
  /\ port[p].fr => p \in firmware.draining

IdleBeforeReset == [][~ghc.hr /\ ghc'.hr => \A p \in pi : Idle(p)]_vars

\* The order the engines of a port are started and stopped in: FRE is cleared
\* only while no command engine runs, ST is set only while the FIS engine runs
\* and the command engine does not.
EngineOrder ==
  [][drv.at # "pci" => \A p \in Ports :
       /\ Driver /\ port[p].fre /\ ~port'[p].fre => ~port[p].cr
       /\ Driver /\ ~port[p].st /\ port'[p].st => port[p].fr /\ ~port[p].cr]_vars

\* After the reset no engine runs on memory of the firmware, and none runs
\* outside AHCI mode or before the HBA may reach memory.
NoStaleMemory ==
  drv.at \in {"find disk", "start FIS", "wait FR", "wait CR", "wait SERR", "done"} =>
    \A p \in Ports : /\ port[p].fr => port[p].fb = "kernel" /\ ghc.ae /\ ctrl.master
                     /\ port[p].cr => port[p].cl = "kernel" /\ ghc.ae /\ ctrl.master

\* What the disk commands rely on: once configured, the port of the first hard
\* disk of the first controller runs in AHCI mode, without a pending error, and
\* the scratch buffers exist - if the firmware left the registers in the memory
\* space, since the ports are listed before the driver puts them there.
ReadyForCommands ==
  drv.at = "done" /\ firmware.mem /\ (\E p \in pi : sig[p] = AHCI_DEVICE_HDD) =>
    /\ ghc.ae /\ ghc.ie /\ ctrl.mem /\ ctrl.master /\ scratch
    /\ \E p \in pi : /\ sig[p] = AHCI_DEVICE_HDD
                     /\ port[p].cr /\ port[p].fr /\ port[p].serr = "none"
                     /\ \A q \in pi : q < p => sig[q] # AHCI_DEVICE_HDD

\* The bring-up comes to its end: the scan's counters of 8 bits get past the last
\* place, and every loop on a register is left.
BringUpEnds == <>(drv.at = "done" \/ (SearchOver /\ hostBus = NotFound))
===============================================================================
