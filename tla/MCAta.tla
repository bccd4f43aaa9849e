-------------------------------- MODULE MCAta --------------------------------
(***************************************************************************)
(* Machines for Ata: a disk that can DMA with no slave beside it, an old   *)
(* disk with a CD drive, and an empty bus.                                 *)
(***************************************************************************)
EXTENDS Ata

LBA28 == [CHS EXCEPT !.lba = TRUE]
LBA48 == [LBA28 EXCEPT !.ext = TRUE]
Dma28 == [LBA28 EXCEPT !.dma = TRUE]
Dma48 == [LBA48 EXCEPT !.dma = TRUE]

Unit(kind, can) == [kind |-> kind, can |-> can]

Machine(master, slave) == [c \in Channels |-> IF c = 0 THEN master ELSE slave]

MCMachines ==
    {Machine(Unit("disk", Dma28), Unit(NONE, CHS)),
     Machine(Unit("disk", Dma48), Unit(NONE, CHS)),
     Machine(Unit("disk", CHS), Unit("cd", LBA28)),
     Machine(Unit(NONE, CHS), Unit(NONE, CHS))}

MCOtherBytes == {<<0, 0, 0>>, <<1, 0, 0>>}
=============================================================================
