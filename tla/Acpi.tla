---------------------------------- MODULE Acpi ----------------------------------
(***************************************************************************)
(* The search of the firmware's tables at boot (src/kernel/acpi/acpi.c)    *)
(* and the two calls that use them later (pwr/power.c).                    *)
(*                                                                         *)
(* Addresses count headers (SDTHeader); a table is what an address holds:  *)
(* its signature, length, whether its bytes sum to 0, and what the driver  *)
(* reads in it.  Everything is read in an address space that maps the      *)
(* kernel, the first megabyte and the pages mapped by this code: a read    *)
(* elsewhere is a page fault.                                              *)
(***************************************************************************)
EXTENDS Integers, Sequences, FiniteSets

CONSTANTS
    ACPI_PAGE,   \* a page
    LOW_MEMORY   \* the end of the first megabyte

ASSUME AcpiAssumption == ACPI_PAGE \in Nat \ {0} /\ LOW_MEMORY \in Nat

PageOf(a) == a \div ACPI_PAGE
PagesAt(a, length) == {PageOf(u) : u \in a .. a + length - 1}

\* Tables, and what they name, stand at addresses.
FirmwareOk(fw) ==
    LET at == DOMAIN fw.tables
        rsdps == {fw.rsdps[i] : i \in DOMAIN fw.rsdps}
    IN  /\ at \subseteq Nat
        /\ \A a \in at : /\ fw.tables[a].length \in Nat
                         /\ fw.tables[a].others \in Seq(at)
                         /\ {fw.tables[a].dsdt, fw.tables[a].x_dsdt} \subseteq at
        /\ fw.rsdps \in Seq(rsdps) /\ \A r \in rsdps : r.table \in at

\* find_rsdp maps the first megabyte and takes the last match, first the EBDA,
\* then the BIOS area; only that one is checked.
LowPages == PagesAt(0, LOW_MEMORY)
FoundRsdp(fw) == fw.rsdps[Len(fw.rsdps)]
find_rsdp(fw) == fw.rsdps # <<>> /\ FoundRsdp(fw).sums

\* A state of the search: what it has mapped, its fadt (0 is NULL), the sleep
\* values, the page directory in use and the one saved in cr3, and how it
\* stands: "go", "return" once it is over, "fault".
NoTables == [mapped |-> {}, fadt |-> 0, slp |-> FALSE, directory |-> "kernel",
             cr3 |-> "null", is |-> "return"]

acpi_enter_subsystem(acpi) ==
    [acpi EXCEPT !.cr3 = acpi.directory, !.directory = "subsystem"]
acpi_leave_subsystem(acpi) == [acpi EXCEPT !.directory = acpi.cr3]

Map(acpi, a) == [acpi EXCEPT !.mapped = @ \union {PageOf(a)}]
Fault(acpi) == [acpi EXCEPT !.is = "fault"]
Return(acpi) == [acpi_leave_subsystem(acpi) EXCEPT !.is = "return"]

\* doChecksum reads every byte of the table; init_acpi goes on if they sum to 0.
doChecksum(fw, acpi, a) ==
    LET t == fw.tables[a]
    IN  CASE ~(PagesAt(a, t.length) \subseteq acpi.mapped) -> Fault(acpi)
          [] PagesAt(a, t.length) \subseteq acpi.mapped /\ ~t.sums -> Return(acpi)
          [] OTHER -> acpi

\* find_table_int: it maps the first page of each table until the signature
\* fits; the table is then checked, and NULL where it does not sum to 0.
find_table_int(fw, acpi, signature, root) ==
    LET list == fw.tables[root].others
        fits == {i \in DOMAIN list : fw.tables[list[i]].signature = signature}
        i == CHOOSE k \in fits : \A j \in fits : k <= j
        looked == {list[k] : k \in IF fits = {} THEN DOMAIN list ELSE 1 .. i}
        after == [acpi EXCEPT !.mapped = @ \union {PageOf(a) : a \in looked}]
        checked == doChecksum(fw, after, list[i])
    IN  IF fits = {} THEN [acpi |-> after, table |-> 0]
        ELSE CASE checked.is = "fault" -> [acpi |-> checked, table |-> 0]
               [] checked.is = "return" -> [acpi |-> after, table |-> 0]
               [] OTHER -> [acpi |-> after, table |-> list[i]]

\* The DSDT: as many pages behind its first as its length has, whatever its
\* place in the first.  The sleep values are taken where the S5 object is in
\* it and reads as expected.
DsdtPagesFewer(a, length) == PageOf(a) .. PageOf(a) + length \div ACPI_PAGE - 1
DsdtPages(a, length) == PageOf(a) .. PageOf(a) + length \div ACPI_PAGE
ReadDsdt(fw, acpi, dsdt) ==
    LET pages == DsdtPages(dsdt, fw.tables[dsdt].length)
        mapped == [acpi EXCEPT !.mapped = @ \union pages]
        checked == doChecksum(fw, mapped, dsdt)
    IN  IF checked.is # "go" THEN checked
        ELSE [Return(checked) EXCEPT !.slp = fw.tables[dsdt].s5]

\* The FADT is checked once more, at NULL too where there is none: then what
\* lies at address 0 is taken for it.
ReadFadt(fw, acpi, root) ==
    LET found == find_table_int(fw, acpi, "FACP", root)
        checked == doChecksum(fw, [found.acpi EXCEPT !.fadt = found.table], found.table)
        dsdt == IF FoundRsdp(fw).revision > 0 THEN fw.tables[found.table].x_dsdt
                ELSE fw.tables[found.table].dsdt
    IN  CASE found.acpi.is # "go" -> found.acpi
          [] found.acpi.is = "go" /\ checked.is # "go" -> checked
          [] OTHER -> ReadDsdt(fw, checked, dsdt)

\* init_acpi.
init_acpi(fw) ==
    LET rsdp == FoundRsdp(fw)
        low == [acpi_enter_subsystem(NoTables) EXCEPT !.mapped = LowPages, !.is = "go"]
        root == doChecksum(fw, Map(low, rsdp.table), rsdp.table)
    IN  CASE ~fw.detected -> NoTables
          [] fw.detected /\ ~find_rsdp(fw) -> Return(low)
          [] fw.detected /\ find_rsdp(fw) /\ rsdp.revision > 0 /\ ~rsdp.extendedSums -> Return(low)
          [] OTHER -> IF root.is # "go" THEN root ELSE ReadFadt(fw, root, rsdp.table)

\* acpi_shutdown: the registers are those the FADT names; without a FADT,
\* or without the sleep values, the writes to them turn nothing off, and panic
\* follows.  Without ACPI shutdown returns.
shutdown(fw, acpi) ==
    CASE ~fw.detected -> "no"
      [] fw.detected /\ acpi.fadt # 0 /\ acpi.slp -> "off"
      [] OTHER -> "panic"

\* reboot: acpi_reboot writes the reset register where the FADT says it has
\* one, panics when it goes on after that, and otherwise, as without ACPI, the
\* keyboard controller resets the machine.
reboot(fw, acpi) ==
    IF fw.detected /\ fw.tables[acpi.fadt].reset = "elsewhere" THEN "panic" ELSE "reset"
=============================================================================
