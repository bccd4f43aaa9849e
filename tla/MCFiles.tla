-------------------------------- MODULE MCFiles --------------------------------
(***************************************************************************)
(* Machines for Files: their firmware, buses, disks and initrd.            *)
(***************************************************************************)
EXTENDS Files, TLC

\* Names: one of two letters, one that begins another, one of one letter.
MCParts == [c \in {"dev", "initrd", "hda", "hdb", "hdc", "hdd", "init", "font", "BIN"} |-> <<c, NONE>>]
           @@ "FA.TX" :> <<"FA", "TX">> @@ "FAB.TX" :> <<"FAB", "TX">>
           @@ "X.TX" :> <<"X", "TX">> @@ "LS.TX" :> <<"LS", "TX">>
MCNames == {"BIN", "FA", "FAB", "X", "LS", "TX"}
MCBegins == {<<"", n>> : n \in MCNames} \union {<<"FA", "FAB">>}
MCOneLetter == {"X"}

Abs(path) == [absolute |-> TRUE, path |-> path]
Rel(path) == [absolute |-> FALSE, path |-> path]
InitrdFont == Abs(<<"dev", "initrd", "font">>)
InitrdInit == Abs(<<"dev", "initrd", "init">>)
Beyond == Abs(<<"dev", "initrd", "init", "BIN">>)
Raw == Abs(<<"dev", "hda">>)
MCInitPath == <<"dev", "initrd", "init">>

\* Disks: a boot sector, an info sector, the table, then clusters from 2.
Boot(type, parts, reserved, sectors) ==
    [kind |-> "boot", partitions |-> parts, type |-> type, reserved |-> reserved,
     fats |-> 1, perFat |-> 4, sectors |-> sectors, root |-> 2, info |-> 1]
Next(c) == [kind |-> "fat", next |-> c]
DirEnt(dir, attribute, name, cluster, size) ==
    [kind |-> "entry", dir |-> dir, attribute |-> attribute,
     file_name |-> name[1], extension |-> name[2], cluster |-> cluster, size |-> size,
     dated |-> TRUE]
Dir(dir, name, cluster) == DirEnt(dir, "directory", <<name, NONE>>, cluster, 0)
File(dir, name, cluster, size) == DirEnt(dir, "file", MCParts[name], cluster, size)
Data(c, n) == [i \in 1 .. n |-> [kind |-> "data", of |-> c, at |-> i]]
Blank(n) == [i \in 1 .. n |-> Zero]
NoFat == [kind |-> "fat", next |-> 0]

\* SECTOR = 2: the volume's parts after its first sector.  The table has 8
\* entries: of the clusters 0 and 1, of the root, and of 3 to 7.
Volume(boot, fat, clusters) ==
    <<boot, Zero>> \o <<[kind |-> "info"], Zero>> \o fat \o clusters

\* Cluster of one sector.  The root takes 2 and 3, BIN 4, FA.TX 5 and 7.
TidyDisk(boot) ==
    Volume(boot,
        <<NoFat, NoFat, Next(3), Next(EOC), Next(EOC), Next(7), Next(BAD), Next(EOC)>>,
        <<Dir(2, "BIN", 4), [File(2, "LS.TX", 6, 1) EXCEPT !.attribute = "deleted"]>>
        \o <<File(2, "FA.TX", 5, 3), Zero>>
        \o <<File(4, "LS.TX", 6, 2), Zero>>
        \o SubSeq(Data(5, 4), 1, 2) \o Data(6, 2) \o SubSeq(Data(5, 4), 3, 4))

\* A file that begins another, one of one letter, a directory behind them,
\* and no end mark in it.
UntidyDisk ==
    Volume(Boot("FAT32", <<>>, 2, 1),
        <<NoFat, NoFat, Next(3), Next(EOC), Next(EOC), Next(EOC), Next(EOC), NoFat>>,
        <<File(2, "FAB.TX", 5, 2), File(2, "FA.TX", 6, 2)>>
        \o <<File(2, "X.TX", 4, 2), Zero>>
        \o Data(4, 2) \o Data(5, 2) \o Data(6, 2) \o Blank(2))
FullDisk ==
    Volume(Boot("FAT32", <<>>, 2, 1),
        <<NoFat, NoFat, Next(EOC), Next(3), NoFat, NoFat, NoFat, NoFat>>,
        <<Dir(2, "BIN", 3), File(2, "LS.TX", 4, 2)>> \o Blank(2) \o Data(4, 2))
LoopDisk ==
    Volume(Boot("FAT32", <<>>, 2, 1),
        <<NoFat, NoFat, Next(2), NoFat, NoFat, NoFat, NoFat, NoFat>>, Blank(4))

\* The chains of a directory and of a file lead back to their beginnings.
RingDisk ==
    Volume(Boot("FAT32", <<>>, 2, 1),
        <<NoFat, NoFat, Next(EOC), Next(3), Next(5), Next(4), NoFat, NoFat>>,
        <<Dir(2, "BIN", 3), File(2, "FA.TX", 4, 2)>> \o Blank(2) \o Data(4, 2) \o Blank(2))

Active(lba) == [active |-> TRUE, lba |-> lba]
Idle(lba) == [active |-> FALSE, lba |-> lba]
Whole == TidyDisk(Boot("FAT32", <<>>, 2, 1))
Partitioned == <<Boot("none", <<Idle(0), Active(1)>>, 0, 1), Zero>>
               \o TidyDisk(Boot("FAT32", <<>>, 2, 1))
\* Past WORD the 32-bit product of the partition's place has wrapped.
Far == <<Boot("none", <<Active(32)>>, 0, 1), Zero>> \o Blank(62)
       \o TidyDisk(Boot("FAT32", <<>>, 2, 1))

\* Firmware: pages of 4 headers, 2 pages of low memory.
Table(signature, length, others, dsdt) ==
    [signature |-> signature, length |-> length, sums |-> TRUE, others |-> others,
     dsdt |-> dsdt, x_dsdt |-> dsdt, s5 |-> TRUE, reset |-> "none"]
IVT == [Table("", 40, <<>>, 0) EXCEPT !.sums = FALSE, !.s5 = FALSE]
Tables(dsdt, length) ==
    0 :> IVT @@ 12 :> Table("RSDT", 3, <<16, 20>>, 0) @@ 16 :> Table("SSDT", 1, <<>>, 0)
    @@ 20 :> Table("FACP", 2, <<>>, dsdt) @@ dsdt :> Table("DSDT", length, <<>>, 0)
Rsdp(revision) == [sums |-> TRUE, extendedSums |-> TRUE, revision |-> revision, table |-> 12]
Firm(tables, rsdps) == [detected |-> TRUE, rsdps |-> rsdps, tables |-> tables]

GoodFirmware == Firm(Tables(24, 6), <<[Rsdp(0) EXCEPT !.table = 20], Rsdp(2)>>)
Firmwares ==
    <<GoodFirmware,
     Firm(Tables(26, 6), <<Rsdp(0)>>), Firm(Tables(26, 2), <<Rsdp(0)>>),
     Firm(Tables(24, 8), <<Rsdp(0)>>),
     Firm([Tables(24, 6) EXCEPT ![20].signature = "APIC"], <<Rsdp(0)>>),
     Firm([Tables(24, 6) EXCEPT ![20].signature = "APIC", ![0].length = 2], <<Rsdp(0)>>),
     Firm([Tables(24, 6) EXCEPT ![20].sums = FALSE, ![0].length = 2], <<Rsdp(0)>>),
     Firm([Tables(24, 6) EXCEPT ![12].length = 5], <<Rsdp(0)>>),
     Firm([Tables(24, 6) EXCEPT ![12].sums = FALSE], <<Rsdp(0)>>),
     Firm([Tables(24, 6) EXCEPT ![24].s5 = FALSE, ![20].reset = "elsewhere"], <<Rsdp(0)>>),
     Firm(Tables(24, 6), <<[Rsdp(2) EXCEPT !.extendedSums = FALSE]>>),
     Firm(Tables(24, 6), <<>>),
     [Firm(Tables(24, 6), <<Rsdp(0)>>) EXCEPT !.detected = FALSE]>>

\* Buses: the host bridge, and a controller beside it or behind a bridge.
Fn(class, multi, secondary) == [class |-> class, multi |-> multi, secondary |-> secondary]
Host == <<0, 0, 0>> :> Fn("host", FALSE, 0)
Direct == Host @@ <<0, 1, 0>> :> Fn("isa", TRUE, 0) @@ <<0, 1, 1>> :> Fn("ide", FALSE, 0)
Behind == Host @@ <<0, 1, 0>> :> Fn("bridge", FALSE, 1) @@ <<1, 1, 0>> :> Fn("ide", FALSE, 0)
TwoHosts == <<0, 0, 0>> :> Fn("host", TRUE, 0) @@ <<0, 0, 1>> :> Fn("host", TRUE, 0)
            @@ <<1, 0, 0>> :> Fn("ide", FALSE, 0) @@ <<0, 1, 0>> :> Fn("ide", FALSE, 0)
NoIde == Host @@ <<0, 1, 0>> :> Fn("isa", FALSE, 0) @@ <<0, 1, 1>> :> Fn("ide", FALSE, 0)

One(disk) == <<disk, <<>>, <<>>, <<>>>>
Machine(firmware, pci, disks, word, asks, sizes) ==
    [firmware |-> firmware, pci |-> pci, heapWord |-> word, asks |-> asks, sizes |-> sizes,
     ide |-> [p \in {q \in DOMAIN pci : pci[q].class = "ide"} |-> disks],
     initrd |-> <<[name |-> "init", length |-> 3], [name |-> "font", length |-> 1]>>]
Plainly(disks, asks, sizes) == Machine(GoodFirmware, Direct, disks, -1, asks, sizes)

\* Each machine has what it takes to see one thing.
MCMachines ==
    [i \in DOMAIN Firmwares |->
        Machine(Firmwares[i], Direct, One(Partitioned), -1, {Abs(<<>>), Rel(<<"X.TX">>)}, {1})]
    \o <<Machine(GoodFirmware, Direct, One(Whole), -2, {InitrdFont, Beyond}, {1}),
         Machine(GoodFirmware, Direct, One(Whole), 0, {InitrdInit, InitrdFont}, {}),
         Machine(GoodFirmware, TwoHosts, One(Whole), -1, {}, {}),
         Machine(GoodFirmware, NoIde, One(Whole), -1, {}, {}),
         Machine(GoodFirmware, Behind, One(Whole), -1, {Raw}, {0, 1, 3}),
         Plainly(<<Whole, <<>>, Partitioned, <<>>>>, {Abs(<<"dev">>), Rel(<<"FA.TX">>)}, {1, 3}),
         Plainly(One(Whole), {Abs(<<"BIN", "LS.TX">>), Rel(<<"BIN", UP, UP, DOT, "BIN">>)}, {2}),
         Plainly(One(UntidyDisk), {Rel(<<"FAB.TX">>), Rel(<<"FA.TX">>),
                                   Rel(<<"X.TX">>)}, {2}),
         Plainly(One(FullDisk), {Abs(<<"BIN", "LS.TX">>), Rel(<<"BIN">>)}, {1}),
         Plainly(One(LoopDisk), {}, {}),
         Plainly(One(RingDisk), {Abs(<<"BIN", "LS.TX">>), Rel(<<"FA.TX">>)}, {1}),
         Plainly(One(Far), {InitrdInit}, {1, 3}),
         Plainly(<<<<>>, Whole, <<>>, <<>>>>, {}, {})>>
=============================================================================
