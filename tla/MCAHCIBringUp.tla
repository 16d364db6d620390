------------------------------ MODULE MCAHCIBringUp ------------------------------
\* AHCIBringUp on a bus with up to two functions: AHCI controllers and
\* other disks.
EXTENDS AHCIBringUp, FiniteSetsExt

MCClasses == {AHCI, <<1, 1>>}
MCPlaces == [bus : 0 .. 1, device : 0 .. 1, function : 0 .. 1]
MCConfig(plugged) ==
  [p \in MCPlaces |-> IF p \in DOMAIN plugged THEN plugged[p] ELSE PCI_NO_DEVICE]
MCMachines ==
  UNION {{MCConfig(f) : f \in [S -> MCClasses]} : S \in UNION {kSubset(n, MCPlaces) : n \in 0 .. 2}}
===============================================================================
