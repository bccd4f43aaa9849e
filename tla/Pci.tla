---------------------------------- MODULE Pci ----------------------------------
(***************************************************************************)
(* The enumeration of PCI devices at boot (src/kernel/arch/x86/pci.c).     *)
(*                                                                         *)
(* A machine's devices are a function from <<bus, device, function>> to    *)
(* what its configuration space shows; where there is none the vendor      *)
(* reads as unused.                                                        *)
(***************************************************************************)
EXTENDS Integers, Sequences, FiniteSets, SequencesExt

CONSTANTS
    PCI_BUSES,       \* the buses a machine may have
    PCI_DEVICE_N, PCI_FUNCTION_N

ASSUME PciAssumption ==
    /\ {PCI_BUSES, PCI_DEVICE_N, PCI_FUNCTION_N} \subseteq Nat \ {0}
    /\ PCI_FUNCTION_N <= PCI_BUSES

\* Places and buses are numbers of as many bits as the addresses have for them,
\* and firmware numbers a bus above the one its bridge is on: where a bridge led
\* back, pci_check_bus would call itself without end.
PciOk(pci) ==
    /\ DOMAIN pci \subseteq (0 .. PCI_BUSES - 1) \X (0 .. PCI_DEVICE_N - 1) \X (0 .. PCI_FUNCTION_N - 1)
    /\ \A p \in DOMAIN pci : pci[p].secondary \in 0 .. PCI_BUSES - 1
    /\ \A p \in DOMAIN pci : pci[p].class = "bridge" /\ pci[p].secondary # 0 => pci[p].secondary > p[1]

\* pci_check_device: the functions behind the first are looked for only in a
\* device that says it has some.
pci_check_device(pci, bus, device) ==
    LET first == <<bus, device, 0>>
    IN  CASE first \notin DOMAIN pci -> <<>>
          [] first \in DOMAIN pci /\ ~pci[first].multi -> <<first>>
          [] OTHER -> FlattenSeq([f \in 1 .. PCI_FUNCTION_N |->
                                     IF <<bus, device, f - 1>> \in DOMAIN pci
                                     THEN <<<<bus, device, f - 1>>>> ELSE <<>>])

\* pci_check_bus and pci_check_function: the places the scan comes to, those
\* behind a bridge right after it.  Bridges lead to ever higher buses, so the depth
\* that is counted here is never used up.
pci_check_bus(pci, start) ==
    LET found(bus) == FlattenSeq([d \in 1 .. PCI_DEVICE_N |-> pci_check_device(pci, bus, d - 1)])
        scan[depth \in 0 .. PCI_BUSES] ==
            LET behind(p) == IF pci[p].class = "bridge" /\ pci[p].secondary # 0 /\ depth > 0
                             THEN scan[depth - 1][pci[p].secondary] ELSE <<>>
            IN  [bus \in 0 .. PCI_BUSES - 1 |->
                    FlattenSeq([i \in DOMAIN found(bus) |-> <<found(bus)[i]>> \o behind(found(bus)[i])])]
    IN  scan[PCI_BUSES][start]

\* pci_check_all_buses: where the host bridge has several functions, each up
\* to the first that is missing is the host of a bus of its own.
pci_check_all_buses(pci) ==
    LET host == <<0, 0, 0>>
        hosts == {f \in 0 .. PCI_FUNCTION_N - 1 : \A g \in 0 .. f : <<0, 0, g>> \in DOMAIN pci}
    IN  CASE host \notin DOMAIN pci -> <<>>
          [] host \in DOMAIN pci /\ ~pci[host].multi -> pci_check_bus(pci, 0)
          [] OTHER -> FlattenSeq([b \in 1 .. Cardinality(hosts) |-> pci_check_bus(pci, b - 1)])

\* The controller that ata_init takes: the first of its class, for it refuses
\* to start again.
ata_controller(pci) ==
    LET order == pci_check_all_buses(pci)
        ide == {i \in DOMAIN order : pci[order[i]].class = "ide"}
    IN  IF ide = {} THEN <<>> ELSE order[CHOOSE i \in ide : \A j \in ide : i <= j]
=============================================================================
