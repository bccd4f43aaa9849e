----------------------------- MODULE StopsProofs -----------------------------
(***************************************************************************)
(* Proofs about Files for every disk, firmware, bus and program: where the *)
(* root and the first disk are mounted, and that the machine comes to its  *)
(* end only for the causes StopsForCause lists.  The parts they rest on:   *)
(* what init_acpi reads, what a raw disk answers, when a chain of clusters *)
(* has no end, what a search can reach, and what the scan of the buses     *)
(* finds.                                                                  *)
(***************************************************************************)
EXTENDS FilesProofs

-----------------------------------------------------------------------------
(* What the search of the firmware's tables reads.                         *)

LEMMA OnePage ==
    ASSUME NEW a \in Nat, NEW n \in Nat, Cardinality(PagesAt(a, n)) = 1
    PROVE  PagesAt(a, n) = {PageOf(a)}
<1> DEFINE S == a .. a + n - 1
           f == [u \in S |-> PageOf(u)]
           T == PagesAt(a, n)
<1>1. IsFiniteSet(S)
  BY FS_Interval
<1>2. f \in Surjection(S, T)
  BY DEF Surjection, PagesAt
<1>3. IsFiniteSet(T)
  <2> HIDE DEF S, f, T
  <2>. QED  BY <1>1, <1>2, FS_Surjection
<1>4. \E x : T = {x}
  <2> HIDE DEF S, f
  <2>. QED  BY <1>3, FS_Singleton
<1>5. n # 0
  <2> SUFFICES ASSUME n = 0 PROVE FALSE
    OBVIOUS
  <2>1. T = {}
    BY DEF PagesAt
  <2>. QED  BY <1>4, <2>1
<1>6. a \in S
  BY <1>5
<1>7. PageOf(a) \in T
  BY <1>6 DEF PagesAt
<1>. QED  BY <1>4, <1>7

\* A DSDT that begins with a page is in the pages that are mapped for it.
LEMMA DsdtInside ==
    ASSUME NEW a \in Nat, NEW n \in Nat, a % ACPI_PAGE = 0
    PROVE  PagesAt(a, n) \subseteq DsdtPages(a, n)
<1>1. SUFFICES ASSUME NEW u \in a .. a + n - 1 PROVE PageOf(u) \in DsdtPages(a, n)
  BY DEF PagesAt
<1> DEFINE P == ACPI_PAGE
           q == a \div P
           k == u \div P
           r == u % P
           l == n \div P
           t == n % P
           qP == q * P
           kP == k * P
           lP == l * P
<1>2. P \in Nat \ {0} /\ u \in Nat
  BY AcpiAssumption
<1>3. q \in Nat /\ qP = a
  BY <1>2, Euclid
<1>4. k \in Nat /\ r \in 0 .. P - 1 /\ kP + r = u
  BY <1>2, Euclid
<1>5. l \in Nat /\ t \in 0 .. P - 1 /\ lP + t = n
  BY <1>2, Euclid
<1>6. /\ k < q => kP + P <= qP
      /\ q + l < k => (q + l) * P + P <= kP
      /\ (q + l) * P = qP + lP
  <2>1. k \in Int /\ q \in Int /\ q + l \in Int /\ l \in Int /\ P \in Nat
    BY <1>2, <1>3, <1>4, <1>5
  <2>2. k < q => k * P + P <= q * P
    BY <2>1, Times
  <2>3. q + l < k => (q + l) * P + P <= k * P
    BY <2>1, Times
  <2>4. ((q + l) - q) * P = (q + l) * P - q * P
    BY <2>1, Times
  <2>5. (q + l) - q = l /\ (q + l) * P \in Int /\ q * P \in Int
    BY <2>1, Times
  <2>. QED  BY <2>2, <2>3, <2>4, <2>5
<1>7. PageOf(u) = k /\ PageOf(a) = q
  BY DEF PageOf
<1>8. DsdtPages(a, n) = q .. q + l
  BY <1>7 DEF DsdtPages
<1> DEFINE qlP == (q + l) * P
<1>9. k \in q .. q + l
  <2> HIDE DEF q, k, r, l, t
  <2>1. qP \in Int /\ kP \in Int /\ lP \in Int /\ qlP \in Int
    BY <1>2, <1>3, <1>4, <1>5, Times
  <2>2. /\ k < q => kP + P <= qP
        /\ q + l < k => qlP + P <= kP
        /\ qlP = qP + lP
    BY <1>6
  <2> HIDE DEF P, qP, kP, lP, qlP
  <2>3. ~ (k < q)
    BY <1>2, <1>3, <1>4, <2>1, <2>2
  <2>4. ~ (q + l < k)
    BY <1>1, <1>2, <1>3, <1>4, <1>5, <2>1, <2>2
  <2>. QED  BY <1>3, <1>4, <1>5, <2>3, <2>4
<1>. QED  BY <1>7, <1>8, <1>9

\* The checksum of a table that is mapped is only followed by the driver's own
\* ways on.
LEMMA ChecksumReads ==
    ASSUME NEW fw, NEW a, AcpiOk(a), a.is = "go", NEW at,
           PagesAt(at, fw.tables[at].length) \subseteq a.mapped
    PROVE  doChecksum(fw, a, at) = IF fw.tables[at].sums THEN a ELSE Return(a)
BY DEF doChecksum

\* It maps what it then reads, and takes the first table listed with the signature.
LEMMA FindReads ==
    ASSUME NEW fw, FirmwareOk(fw), fw.rsdps # <<>>, Readable(fw),
           NEW a, AcpiOk(a), a.is = "go", NEW table,
           table = find_table_int(fw, a, "FACP", FoundRsdp(fw).table)
    PROVE  /\ AcpiOk(table.acpi) /\ table.acpi.is = "go"
           /\ table.table \in Fadts(fw)
           /\ PagesAt(table.table, fw.tables[table.table].length) \subseteq table.acpi.mapped
<1> DEFINE at == DOMAIN fw.tables
           root == FoundRsdp(fw).table
           list == fw.tables[root].others
           fits == {i \in DOMAIN list : fw.tables[list[i]].signature = "FACP"}
           i == CHOOSE k \in fits : \A j \in fits : k <= j
           looked == {list[k] : k \in IF fits = {} THEN DOMAIN list ELSE 1 .. i}
           after == [a EXCEPT !.mapped = @ \union {PageOf(x) : x \in looked}]
           checked == doChecksum(fw, after, list[i])
<1>1. root \in at /\ list \in Seq(at) /\ at \subseteq Nat
  <2>1. fw.rsdps \in Seq({fw.rsdps[k] : k \in DOMAIN fw.rsdps})
    BY DEF FirmwareOk
  <2>2. Len(fw.rsdps) \in DOMAIN fw.rsdps
    BY <2>1
  <2>3. \A k \in DOMAIN fw.rsdps : fw.rsdps[k].table \in at
    BY DEF FirmwareOk
  <2>4. root \in at
    BY <2>2, <2>3 DEF FoundRsdp
  <2>. QED  BY <2>4 DEF FirmwareOk
<1>2. table = IF fits = {} THEN [acpi |-> after, table |-> 0]
        ELSE CASE checked.is = "fault" -> [acpi |-> checked, table |-> 0]
               [] checked.is = "return" -> [acpi |-> after, table |-> 0]
               [] OTHER -> [acpi |-> after, table |-> list[i]]
  BY DEF find_table_int
<1>3. Fadts(fw) = {list[k] : k \in fits}
  BY DEF Fadts
<1>4. /\ fits # {} /\ fits \subseteq Nat
      /\ fits \subseteq DOMAIN list /\ DOMAIN list \subseteq Nat \ {0}
  <2>1. fits \subseteq DOMAIN list
    OBVIOUS
  <2>2. Fadts(fw) # {}
    BY DEF Readable
  <2> HIDE DEF fits, list
  <2>3. fits # {}
    BY <1>3, <2>2
  <2>4. DOMAIN list \subseteq Nat \ {0}
    BY <1>1
  <2>. QED  BY <2>1, <2>3, <2>4
<1>5. i \in fits
  <2> HIDE DEF fits
  <2>. QED  BY <1>4, LeastNatural
<1>6. i \in 1 .. i /\ list[i] \in Fadts(fw) /\ list[i] \in at
  <2> HIDE DEF i
  <2>1. i \in DOMAIN list /\ i \in Nat \ {0}
    <3> HIDE DEF fits, list
    <3>. QED  BY <1>4, <1>5
  <2>2. list[i] \in at
    BY <1>1, <2>1
  <2> HIDE DEF fits, list
  <2>. QED  BY <1>3, <1>5, <2>1, <2>2
<1>7. WithinPage(fw, list[i]) /\ fw.tables[list[i]].sums
  <2> HIDE DEF i, list
  <2>. QED  BY <1>6 DEF Readable
<1>8. AcpiOk(after) /\ after.is = "go" /\ after.mapped = a.mapped \union {PageOf(x) : x \in looked}
  <2>1. AcpiOk(after)
    <3> HIDE DEF looked
    <3>. QED  BY ChangedIsOk
  <2>. QED  BY <2>1 DEF AcpiOk
<1>9. PageOf(list[i]) \in after.mapped
  <2>1. list[i] \in looked
    BY <1>4, <1>6
  <2> HIDE DEF i, list, looked, after
  <2>. QED  BY <1>8, <2>1
<1> HIDE DEF after, looked, i, fits, list
<1>10. PagesAt(list[i], fw.tables[list[i]].length) \subseteq after.mapped
  <2>1. list[i] \in Nat /\ fw.tables[list[i]].length \in Nat
    BY <1>1, <1>6 DEF FirmwareOk
  <2>. QED  BY <1>7, <1>9, <2>1, OnePage DEF WithinPage
<1>11. checked = after
  BY <1>7, <1>8, <1>10, ChecksumReads
<1>12. table = [acpi |-> after, table |-> list[i]]
  BY <1>2, <1>4, <1>8, <1>11
<1>. QED  BY <1>6, <1>8, <1>10, <1>12

LEMMA DsdtReads ==
    ASSUME NEW fw, NEW a, AcpiOk(a), a.is = "go", NEW d \in Nat, d % ACPI_PAGE = 0,
           fw.tables[d].length \in Nat
    PROVE  /\ ReadDsdt(fw, a, d).is # "fault"
           /\ fw.tables[d].sums /\ fw.tables[d].s5 =>
                ReadDsdt(fw, a, d).slp /\ ReadDsdt(fw, a, d).fadt = a.fadt
<1> DEFINE pages == DsdtPages(d, fw.tables[d].length)
           mapped == [a EXCEPT !.mapped = @ \union pages]
           checked == doChecksum(fw, mapped, d)
<1>1. AcpiOk(mapped)
  BY ChangedIsOk
<1>2. ReadDsdt(fw, a, d) = IF checked.is # "go" THEN checked
                           ELSE [Return(checked) EXCEPT !.slp = fw.tables[d].s5]
  BY DEF ReadDsdt
<1>3. mapped.is = "go" /\ mapped.fadt = a.fadt /\ mapped.mapped = a.mapped \union pages
  BY DEF AcpiOk
<1>4. PagesAt(d, fw.tables[d].length) \subseteq mapped.mapped
  BY <1>3, DsdtInside
<1> HIDE DEF mapped, pages
<1>5. checked = IF fw.tables[d].sums THEN mapped ELSE Return(mapped)
  BY <1>1, <1>3, <1>4, ChecksumReads
<1> HIDE DEF checked
<1>6. /\ Return(mapped).is = "return" /\ Return(mapped).fadt = mapped.fadt
      /\ [Return(mapped) EXCEPT !.slp = fw.tables[d].s5].is = "return"
      /\ [Return(mapped) EXCEPT !.slp = fw.tables[d].s5].fadt = mapped.fadt
      /\ [Return(mapped) EXCEPT !.slp = fw.tables[d].s5].slp = fw.tables[d].s5
  <2>1. mapped = [mapped |-> mapped.mapped, fadt |-> mapped.fadt, slp |-> mapped.slp,
                  directory |-> mapped.directory, cr3 |-> mapped.cr3, is |-> mapped.is]
    BY <1>1 DEF AcpiOk
  <2>2. Return(mapped) = [mapped |-> mapped.mapped, fadt |-> mapped.fadt, slp |-> mapped.slp,
                  directory |-> mapped.cr3, cr3 |-> mapped.cr3, is |-> "return"]
    <3>1. acpi_leave_subsystem(mapped) = [mapped |-> mapped.mapped, fadt |-> mapped.fadt, slp |-> mapped.slp,
                  directory |-> mapped.cr3, cr3 |-> mapped.cr3, is |-> mapped.is]
      BY <2>1 DEF acpi_leave_subsystem
    <3>. QED  BY <3>1 DEF Return
  <2> DEFINE back == Return(mapped)
  <2>3. back = [mapped |-> mapped.mapped, fadt |-> mapped.fadt, slp |-> mapped.slp,
                directory |-> mapped.cr3, cr3 |-> mapped.cr3, is |-> "return"]
    BY <2>2
  <2> HIDE DEF back
  <2>4. /\ back.is = "return" /\ back.fadt = mapped.fadt
        /\ [back EXCEPT !.slp = fw.tables[d].s5].is = "return"
        /\ [back EXCEPT !.slp = fw.tables[d].s5].fadt = mapped.fadt
        /\ [back EXCEPT !.slp = fw.tables[d].s5].slp = fw.tables[d].s5
    BY <2>3
  <2>. QED  BY <2>4 DEF back
<1>. QED  BY <1>2, <1>3, <1>5, <1>6

\* With readable tables init_acpi ends without a page fault, and with complete
\* ones it finds how to turn the machine off.
LEMMA InitAcpiReads ==
    ASSUME NEW fw, FirmwareOk(fw), fw.rsdps # <<>>, Readable(fw)
    PROVE  /\ init_acpi(fw).is # "fault"
           /\ Complete(fw) => init_acpi(fw).fadt # 0 /\ init_acpi(fw).slp
<1> DEFINE rsdp == FoundRsdp(fw)
           low == [acpi_enter_subsystem(NoTables) EXCEPT !.mapped = LowPages, !.is = "go"]
           near == Map(low, rsdp.table)
           root == doChecksum(fw, near, rsdp.table)
           tables == find_table_int(fw, root, "FACP", rsdp.table)
           next == [tables.acpi EXCEPT !.fadt = tables.table]
           checked == doChecksum(fw, next, tables.table)
           dsdt == IF rsdp.revision > 0 THEN fw.tables[tables.table].x_dsdt
                   ELSE fw.tables[tables.table].dsdt
<1>1. AcpiOk(low) /\ low.is = "go"
  <2> DEFINE entered == acpi_enter_subsystem(NoTables)
  <2> DEFINE none == NoTables
             saved == [none EXCEPT !.cr3 = none.directory]
  <2>1. entered = [mapped |-> none.mapped, fadt |-> none.fadt, slp |-> none.slp,
                   directory |-> "subsystem", cr3 |-> "kernel", is |-> none.is]
    <3>1. none = [mapped |-> none.mapped, fadt |-> none.fadt, slp |-> none.slp,
                  directory |-> none.directory, cr3 |-> none.cr3, is |-> none.is]
      BY DEF NoTables
    <3>2. none.directory = "kernel"
      BY DEF NoTables
    <3>3. entered = [saved EXCEPT !.directory = "subsystem"]
      BY DEF acpi_enter_subsystem
    <3> HIDE DEF none, low, entered
    <3>4. saved = [mapped |-> none.mapped, fadt |-> none.fadt, slp |-> none.slp,
                   directory |-> none.directory, cr3 |-> "kernel", is |-> none.is]
      BY <3>1, <3>2
    <3> HIDE DEF saved
    <3>. QED  BY <3>3, <3>4
  <2>2. low = [entered EXCEPT !.mapped = LowPages, !.is = "go"]
    OBVIOUS
  <2> HIDE DEF entered, low, none
  <2>3. low = [mapped |-> LowPages, fadt |-> none.fadt, slp |-> none.slp, directory |-> "subsystem",
               cr3 |-> "kernel", is |-> "go"]
    BY <2>1, <2>2
  <2>. QED  BY <2>3 DEF AcpiOk
<1>2. \/ init_acpi(fw) = NoTables /\ ~Complete(fw)
      \/ init_acpi(fw) = Return(low) /\ ~Complete(fw)
      \/ init_acpi(fw) = IF root.is # "go" THEN root ELSE ReadFadt(fw, root, rsdp.table)
  BY DEF init_acpi, Complete
<1>3. ReadFadt(fw, root, rsdp.table) =
        CASE tables.acpi.is # "go" -> tables.acpi
          [] tables.acpi.is = "go" /\ checked.is # "go" -> checked
          [] OTHER -> ReadDsdt(fw, checked, dsdt)
  BY DEF ReadFadt
<1>4. /\ rsdp.table \in Nat /\ fw.tables[rsdp.table].length \in Nat /\ WithinPage(fw, rsdp.table)
      /\ Complete(fw) => fw.tables[rsdp.table].sums
  <2>1. fw.rsdps \in Seq({fw.rsdps[k] : k \in DOMAIN fw.rsdps})
    BY DEF FirmwareOk
  <2>2. Len(fw.rsdps) \in DOMAIN fw.rsdps
    BY <2>1
  <2>3. rsdp.table \in DOMAIN fw.tables
    BY <2>2 DEF FirmwareOk, FoundRsdp
  <2>. QED  BY <2>3 DEF FirmwareOk, Readable, Complete
<1> HIDE DEF low
<1>5. AcpiOk(near) /\ near.is = "go" /\ PageOf(rsdp.table) \in near.mapped
  <2>1. AcpiOk(near)
    BY <1>1, ChangedIsOk DEF Map
  <2>2. near.is = "go" /\ near.mapped = low.mapped \union {PageOf(rsdp.table)}
    <3> HIDE DEF rsdp
    <3>. QED  BY <1>1 DEF Map, AcpiOk
  <2>. QED  BY <2>1, <2>2
<1> HIDE DEF near
<1>6. root = IF fw.tables[rsdp.table].sums THEN near ELSE Return(near)
  <2>1. PagesAt(rsdp.table, fw.tables[rsdp.table].length) \subseteq near.mapped
    BY <1>4, <1>5, OnePage DEF WithinPage
  <2>. QED  BY <1>5, <2>1, ChecksumReads
<1>7. \A a : AcpiOk(a) => Return(a).is = "return"
  BY DEF Return, acpi_leave_subsystem, AcpiOk
<1>8. CASE fw.tables[rsdp.table].sums
  <2>1. root = near /\ root.is = "go" /\ AcpiOk(root)
    BY <1>5, <1>6, <1>8
  <2> HIDE DEF root
  <2>2. /\ AcpiOk(tables.acpi) /\ tables.acpi.is = "go" /\ tables.table \in Fadts(fw)
        /\ PagesAt(tables.table, fw.tables[tables.table].length) \subseteq tables.acpi.mapped
    BY <2>1, FindReads
  <2>3. dsdt \in Dsdts(fw) /\ dsdt \in Nat /\ dsdt % ACPI_PAGE = 0 /\ fw.tables[dsdt].length \in Nat
    <3>1. tables.table \in DOMAIN fw.tables
      <4>1. rsdp.table \in DOMAIN fw.tables
        <5>1. fw.rsdps \in Seq({fw.rsdps[k] : k \in DOMAIN fw.rsdps})
          BY DEF FirmwareOk
        <5>2. Len(fw.rsdps) \in DOMAIN fw.rsdps
          BY <5>1
        <5>. QED  BY <5>2 DEF FirmwareOk, FoundRsdp
      <4>2. fw.tables[rsdp.table].others \in Seq(DOMAIN fw.tables)
        BY <4>1 DEF FirmwareOk
      <4>3. Fadts(fw) \subseteq DOMAIN fw.tables
        <5> DEFINE list == fw.tables[rsdp.table].others
        <5>1. \A k \in DOMAIN list : list[k] \in DOMAIN fw.tables
          BY <4>2
        <5>2. \A x \in Fadts(fw) : \E k \in DOMAIN list : x = list[k]
          BY DEF Fadts
        <5> HIDE DEF list, rsdp
        <5>. QED  BY <5>1, <5>2
      <4> HIDE DEF tables
      <4>. QED  BY <2>2, <4>3
    <3>2. dsdt \in Dsdts(fw)
      <4> HIDE DEF tables
      <4>. QED  BY <2>2 DEF Dsdts
    <3>3. dsdt \in DOMAIN fw.tables
      <4> HIDE DEF tables, rsdp
      <4>. QED  BY <3>1 DEF FirmwareOk
    <3> HIDE DEF dsdt, tables
    <3>. QED  BY <3>2, <3>3 DEF FirmwareOk, Readable
  <2>4. fw.tables[tables.table].sums
    <3> HIDE DEF tables
    <3>. QED  BY <2>2 DEF Readable
  <2> HIDE DEF tables
  <2>5. AcpiOk(next) /\ next.is = "go" /\ next.fadt = tables.table /\ next.mapped = tables.acpi.mapped
    <3>1. AcpiOk(next)
      BY <2>2, ChangedIsOk
    <3>. QED  BY <2>2, <3>1 DEF AcpiOk
  <2> HIDE DEF next
  <2>6. checked = next
    BY <2>2, <2>4, <2>5, ChecksumReads
  <2> HIDE DEF checked, dsdt
  <2>7. /\ ReadDsdt(fw, next, dsdt).is # "fault"
        /\ fw.tables[dsdt].sums /\ fw.tables[dsdt].s5 =>
             ReadDsdt(fw, next, dsdt).slp /\ ReadDsdt(fw, next, dsdt).fadt = next.fadt
    BY <2>3, <2>5, DsdtReads
  <2>8. ReadFadt(fw, root, rsdp.table) = ReadDsdt(fw, next, dsdt)
    BY <1>3, <2>2, <2>5, <2>6
  <2>9. Complete(fw) => next.fadt # 0 /\ fw.tables[dsdt].sums /\ fw.tables[dsdt].s5
    BY <2>2, <2>3, <2>5 DEF Complete
  <2>10. NoTables.is = "return" /\ Return(low).is = "return"
    BY <1>1, <1>7 DEF NoTables
  <2>. QED  BY <1>2, <2>1, <2>7, <2>8, <2>9, <2>10
<1>9. CASE ~fw.tables[rsdp.table].sums
  <2>1. root = Return(near) /\ root.is = "return"
    BY <1>5, <1>6, <1>7, <1>9
  <2>2. NoTables.is = "return" /\ Return(low).is = "return" /\ ~Complete(fw)
    BY <1>1, <1>4, <1>7, <1>9 DEF NoTables
  <2>. QED  BY <1>2, <2>1, <2>2
<1>. QED  BY <1>8, <1>9

-----------------------------------------------------------------------------
(* What is read of a disk stands on it.                                    *)

\* On the disk, in or behind the sector of an offset.
Behind(disk, off, x) == \E p \in DOMAIN disk : (off \div SECTOR) * SECTOR < p /\ x = disk[p]

LEMMA ReadBehind ==
    ASSUME NEW disk, IsSeq(disk), NEW off \in Nat, NEW b \in Nat, off \div SECTOR <= b,
           NEW j \in 0 .. SECTOR - 1
    PROVE  ata_read(disk, b)[j] = STRAY \/ Behind(disk, off, ata_read(disk, b)[j])
<1> DEFINE F == (off \div SECTOR) * SECTOR
           B == b * SECTOR
           x == ata_read(disk, b)[j]
<1>1. SECTOR \in Nat \ {0} /\ Len(disk) \in Nat /\ DOMAIN disk = 1 .. Len(disk)
  BY Fat32Assumption, SeqBasics
<1>2. off \div SECTOR \in Nat
  BY <1>1, Euclid
<1>3. B \in Int /\ F \in Int /\ F <= B
  BY <1>1, <1>2, Times
<1>4. x = IF B + j < Len(disk) THEN disk[B + j + 1] ELSE STRAY
  BY DEF ata_read
<1>5. F >= 0 /\ F <= B
  <2> DEFINE q == off \div SECTOR
  <2>1. q \in Nat /\ SECTOR \in Nat
    BY <1>1, <1>2
  <2> HIDE DEF q
  <2>2. q * SECTOR >= 0
    BY <2>1
  <2>. QED  BY <1>3, <2>2 DEF q
<1> HIDE DEF B, x
<1>6. CASE B + j < Len(disk)
  <2>1. B + j + 1 \in DOMAIN disk /\ F < B + j + 1
    <3> HIDE DEF F
    <3>. QED  BY <1>1, <1>3, <1>5, <1>6
  <2>. QED  BY <1>4, <1>6, <2>1 DEF Behind, x
<1>. QED  BY <1>4, <1>6 DEF x

LEMMA WrittenBehind ==
    ASSUME NEW disk, IsSeq(disk), NEW off \in Nat, NEW n \in Nat \ {0}, NEW u \in Written(disk, off, n)
    PROVE  u[2] = STRAY \/ Behind(disk, off, u[2])
<1> DEFINE max == ata_max_offset(disk)
           m == IF off + n > max THEN max - n ELSE n
           first == off \div SECTOR
           last == (off + n - 1) \div SECTOR
           skip == off % SECTOR
           partial == skip # 0 \/ m < SECTOR
           head == IF partial THEN IF SECTOR - skip > m THEN m ELSE SECTOR - skip ELSE 0
           from == IF partial THEN first + 1 ELSE first
           tail == IF (off + m) % SECTOR # 0 /\ from <= last THEN (off + m) % SECTOR ELSE 0
           whole == from .. (IF tail > 0 THEN last - 1 ELSE last)
           prefix == {<<i, ata_read(disk, first)[skip + i]>> : i \in 0 .. head - 1}
           postfix == {<<m - tail + i, ata_read(disk, last)[i]>> : i \in 0 .. tail - 1}
           row(b) == {<<head + (b - from) * SECTOR + i, ata_read(disk, b)[i]>> : i \in 0 .. SECTOR - 1}
           blocks == {c \in whole : c * SECTOR < max}
           middle == UNION {row(b) : b \in blocks}
           w == Written(disk, off, n)
<1>1. SECTOR \in Nat \ {0} /\ max \in Nat /\ m \in Int
  BY Fat32Assumption, SeqBasics DEF ata_max_offset
<1>2. w = IF m < 0 \/ off + n = 0 THEN {<<OUTSIDE, STRAY>>} ELSE prefix \union postfix \union middle
  BY DEF Written
<1>3. CASE m < 0
  <2>1. u = <<OUTSIDE, STRAY>>
    BY <1>2, <1>3
  <2>. QED  BY <2>1
<1>4. CASE m >= 0
  <2>1. PICK t : RangeAt(off, n, first, skip, last, t)
    BY RangeParts
  <2>2. first \in Nat /\ skip \in 0 .. SECTOR - 1 /\ last \in Nat /\ first <= last
    BY <2>1 DEF RangeAt
  <2>3. u \in prefix \union postfix \union middle
    <3> HIDE DEF w, prefix, postfix, middle, m
    <3>1. ~(m < 0) /\ off + n # 0
      BY <1>1, <1>4
    <3>. QED  BY <1>2, <3>1 DEF w
  <2>4. (off + m) % SECTOR \in 0 .. SECTOR - 1
    <3>1. off + m \in Nat
      BY <1>1, <1>4
    <3>. QED  BY <1>1, <3>1, Euclid
  <2> HIDE DEF max, m, w, partial
  <2>5. CASE u \in prefix
    <3>1. PICK i \in 0 .. head - 1 : u = <<i, ata_read(disk, first)[skip + i]>>
      BY <2>5
    <3>2. skip + i \in 0 .. SECTOR - 1
      <4> HIDE DEF skip
      <4>. QED  BY <1>1, <1>4, <2>2
    <3> HIDE DEF head, skip
    <3>. QED  BY <2>2, <3>1, <3>2, ReadBehind
  <2>6. CASE u \in postfix
    <3>1. PICK i \in 0 .. tail - 1 : u = <<m - tail + i, ata_read(disk, last)[i]>>
      BY <2>6
    <3>2. tail \in 0 .. SECTOR - 1
      BY <1>1, <2>4
    <3> HIDE DEF tail, last
    <3>3. i \in 0 .. SECTOR - 1
      BY <1>1, <3>2
    <3> HIDE DEF prefix, postfix, middle
    <3>. QED  BY <2>2, <3>1, <3>3, ReadBehind
  <2>7. CASE u \in middle
    <3>1. PICK b \in whole, i \in 0 .. SECTOR - 1 : u = <<head + (b - from) * SECTOR + i, ata_read(disk, b)[i]>>
      BY <2>7
    <3>2. b \in Nat /\ first <= b
      <4>1. from \in Nat /\ first <= from
        BY <2>2
      <4>2. b \in Int /\ from <= b
        <5> HIDE DEF from, tail, last
        <5>. QED  BY <2>2, <4>1
      <4> HIDE DEF from, first, whole
      <4>. QED  BY <2>2, <4>1, <4>2
    <3> HIDE DEF head, from, first, whole, prefix, postfix, middle
    <3>. QED  BY <3>1, <3>2, ReadBehind DEF first
  <2> HIDE DEF prefix, postfix, middle
  <2>. QED  BY <2>3, <2>5, <2>6, <2>7
<1>. QED  BY <1>1, <1>3, <1>4

LEMMA BytesBehind ==
    ASSUME NEW disk, IsSeq(disk), NEW off \in Nat, NEW n \in Nat \ {0}, NEW i \in 1 .. n,
           i \in DOMAIN read_ata_bytes(disk, off, n).bytes
    PROVE  \/ read_ata_bytes(disk, off, n).bytes[i] = STRAY
           \/ Behind(disk, off, read_ata_bytes(disk, off, n).bytes[i])
<1> DEFINE max == ata_max_offset(disk)
           w == Written(disk, off, n)
           m == IF off + n > max THEN max - n ELSE n
           at(k) == IF \E u \in w : u[1] = k THEN (CHOOSE u \in w : u[1] = k)[2] ELSE STRAY
           all == [k \in 1 .. n |-> at(k - 1)]
           taken == SubSeq(all, 1, m)
           answer == read_ata_bytes(disk, off, n)
<1>1. max \in Nat
  BY SeqBasics DEF ata_max_offset
<1>2. answer = IF off > max THEN NoBytes ELSE Filled(w, n, m)
  BY DEF read_ata_bytes
<1>3. Filled(w, n, m) = IF \E u \in w : u[1] \notin 0 .. n - 1 THEN Fails("smash") ELSE Answer(taken)
  BY DEF Filled
<1>4. \A k : at(k) = STRAY \/ Behind(disk, off, at(k))
  <2>1. \A u \in w : u[2] = STRAY \/ Behind(disk, off, u[2])
    BY WrittenBehind
  <2> HIDE DEF w
  <2>. QED  BY <2>1
<1>5. m \in Int
  BY <1>1
<1> HIDE DEF max, w, m, at, answer
<1>6. i \in DOMAIN taken => taken[i] = all[i]
  <2> HIDE DEF all
  <2>. QED  BY <1>5
<1>7. all[i] = at(i - 1)
  OBVIOUS
<1> HIDE DEF all, taken
<1>8. answer.bytes = <<>> \/ answer.bytes = taken
  BY <1>2, <1>3 DEF NoBytes, Answer, Fails
<1>9. i \in DOMAIN answer.bytes
  BY DEF answer
<1>10. answer.bytes = taken
  BY <1>8, <1>9, EmptyIs
<1>11. answer.bytes[i] = at(i - 1)
  BY <1>6, <1>7, <1>9, <1>10
<1>. QED  BY <1>4, <1>11 DEF answer

\* A unit that the file system asks for stands on the disk, at or behind where
\* it asks, or is none at all.
LEMMA UnitBehind ==
    ASSUME NEW disk, IsSeq(disk), NEW off \in Nat
    PROVE  Unit(disk, off) \in {Zero, STRAY} \/ Behind(disk, off, Unit(disk, off))
<1> DEFINE answer == read_ata_bytes(disk, off, 1)
<1>1. answer.bytes = <<>> \/ 1 \in DOMAIN answer.bytes
  <2>1. \A s : \A m \in Int : SubSeq(s, 1, m) = <<>> \/ 1 \in DOMAIN SubSeq(s, 1, m)
    OBVIOUS
  <2>2. \A w : \A m \in Int : \/ Filled(w, 1, m).bytes = <<>> \/ 1 \in DOMAIN Filled(w, 1, m).bytes
    BY <2>1 DEF Filled, Answer, Fails
  <2>3. ata_max_offset(disk) \in Nat
    BY SeqBasics DEF ata_max_offset
  <2> DEFINE m == IF off + 1 > ata_max_offset(disk) THEN ata_max_offset(disk) - 1 ELSE 1
  <2>4. m \in Int
    BY <2>3
  <2>5. answer = IF off > ata_max_offset(disk) THEN NoBytes ELSE Filled(Written(disk, off, 1), 1, m)
    BY DEF read_ata_bytes
  <2> HIDE DEF answer, m
  <2>. QED  BY <2>2, <2>4, <2>5 DEF NoBytes, Answer
<1>2. CASE answer.bytes = <<>>
  BY <1>2 DEF Unit, FirstOf
<1>3. CASE answer.bytes # <<>> /\ 1 \in DOMAIN answer.bytes
  <2>1. answer.bytes[1] = STRAY \/ Behind(disk, off, answer.bytes[1])
    BY <1>3, BytesBehind
  <2>2. Unit(disk, off) = answer.bytes[1]
    BY <1>3 DEF Unit, FirstOf, Head
  <2>. QED  BY <2>1, <2>2
<1>. QED  BY <1>1, <1>2, <1>3

\* A raw read that lies on the disk comes to its answer.
LEMMA RawAnswers ==
    ASSUME NEW disk, Len(disk) \in Nat, NEW off \in Nat, NEW n \in Nat \ {0}, off + n <= Len(disk)
    PROVE  read_ata_bytes(disk, off, n).is = "bytes"
<1> DEFINE answer == read_ata_bytes(disk, off, n)
<1>1. Len(answer.bytes) = n
  BY RangeIs
<1>2. answer.is = "bytes" \/ answer = Fails("smash")
  BY DEF read_ata_bytes, Filled, NoBytes, Answer
<1>3. Len(Fails("smash").bytes) = 0
  BY EmptyIs DEF Fails
<1> HIDE DEF answer
<1>4. answer.is = "bytes"
  BY <1>1, <1>2, <1>3
<1>. QED  BY <1>4 DEF answer

-----------------------------------------------------------------------------
(* Chains without an end.                                                  *)

WholeDisk(disk) ==
    /\ disk \in Seq(Units(disk)) /\ Len(disk) % SECTOR = 0
    /\ \A u \in Units(disk) : UnitOk(u)

\* The first clusters: of the root and of what an entry stands for.
StartsAt(disk, c) ==
    \/ c = 0
    \/ \E u \in Units(disk) : \/ u.kind = "boot" /\ u.root = c
                              \/ u.kind = "entry" /\ u.cluster = c

WalkedTo(disk, v, start, w, k) ==
    /\ IsSeq(w) /\ Len(w) \in 1 .. k + 1 /\ w[1] = start
    /\ \A i \in 1 .. Len(w) - 1 : ~Stops(w[i]) /\ w[i + 1] = NextCluster(disk, v, w[i])
    /\ Stops(w[Len(w)]) \/ Len(w) = k + 1

LEMMA WalkedOn ==
    ASSUME NEW disk, NEW v, NEW start, NEW k \in Nat, NEW w, WalkedTo(disk, v, start, w, k)
    PROVE  WalkedTo(disk, v, start, WalkOn(disk, v, w), k + 1)
<1> DEFINE n == Len(w)
           next == NextCluster(disk, v, w[n])
           t == Append(w, next)
<1>1. /\ IsSeq(w) /\ n \in 1 .. k + 1 /\ w[1] = start
      /\ \A i \in 1 .. n - 1 : ~Stops(w[i]) /\ w[i + 1] = NextCluster(disk, v, w[i])
      /\ Stops(w[n]) \/ n = k + 1
  BY DEF WalkedTo
<1>2. CASE Stops(w[n])
  <2>1. WalkOn(disk, v, w) = w
    BY <1>2 DEF WalkOn
  <2>. QED  BY <1>1, <1>2, <2>1 DEF WalkedTo
<1>3. CASE ~Stops(w[n])
  <2>1. WalkOn(disk, v, w) = t
    BY <1>3 DEF WalkOn
  <2>2. /\ IsSeq(t) /\ Len(t) = n + 1 /\ t[n + 1] = next /\ \A i \in 1 .. n : t[i] = w[i]
    <3> HIDE DEF next
    <3>. QED  BY <1>1, AppendAny
  <2> HIDE DEF t
  <2>3. ASSUME NEW i \in 1 .. n PROVE ~Stops(t[i]) /\ t[i + 1] = NextCluster(disk, v, t[i])
    <3>1. CASE i = n
      <4>1. t[i] = w[n] /\ t[i + 1] = next
        BY <2>2, <3>1
      <4>. QED  BY <1>3, <4>1
    <3>2. CASE i # n
      <4>1. i \in 1 .. n - 1 /\ i + 1 \in 1 .. n
        BY <1>1, <3>2
      <4>. QED  BY <1>1, <2>2, <4>1
    <3>. QED  BY <3>1, <3>2
  <2>4. n = k + 1 /\ Len(t) = k + 2 /\ t[1] = start
    BY <1>1, <1>3, <2>2
  <2>5. Len(t) \in 1 .. (k + 1) + 1 /\ Len(t) - 1 = n /\ Len(t) = (k + 1) + 1
    BY <1>1, <2>2, <2>4
  <2>. QED  BY <2>1, <2>2, <2>3, <2>4, <2>5 DEF WalkedTo
<1>. QED  BY <1>2, <1>3

\* How a chain comes from the walk to its end.
LEMMA ChainWalked ==
    ASSUME NEW disk, Len(disk) \in Nat, NEW v, NEW start
    PROVE  \E w : /\ WalkedTo(disk, v, start, w, Len(disk))
                  /\ fat32_create_fat_cluster_chain(disk, v, start) = Ended(w)
<1>1. PICK walk : /\ fat32_create_fat_cluster_chain(disk, v, start) = Ended(walk[Len(disk)])
                  /\ IsWalk(disk, v, start, walk)
  BY ChainSteps
<1> DEFINE N == Len(disk)
           S == {k \in Nat : k <= N => WalkedTo(disk, v, start, walk[k], k)}
<1>2. 0 \in S
  <2>1. walk[0] = <<start>> /\ Len(<<start>>) = 1 /\ <<start>>[1] = start
    BY <1>1 DEF IsWalk
  <2>2. IsSeq(<<start>>)
    <3>1. <<start>> \in Seq({start})
      OBVIOUS
    <3>. QED  BY <3>1 DEF IsSeq
  <2>3. 1 \in 1 .. 0 + 1 /\ 1 .. 1 - 1 = {} /\ 1 = 0 + 1
    OBVIOUS
  <2>4. WalkedTo(disk, v, start, walk[0], 0)
    BY <2>1, <2>2, <2>3 DEF WalkedTo
  <2>. QED  BY <2>4
<1>3. ASSUME NEW k \in S PROVE k + 1 \in S
  <2> SUFFICES ASSUME k + 1 <= N PROVE WalkedTo(disk, v, start, walk[k + 1], k + 1)
    OBVIOUS
  <2>1. walk[k + 1] = WalkOn(disk, v, walk[k])
    <3>1. k + 1 \in 1 .. N /\ (k + 1) - 1 = k
      OBVIOUS
    <3> HIDE DEF S
    <3>. QED  BY <1>1, <3>1 DEF IsWalk
  <2>2. WalkedTo(disk, v, start, walk[k], k) /\ k \in Nat
    OBVIOUS
  <2> HIDE DEF S
  <2>. QED  BY <2>1, <2>2, WalkedOn
<1>4. N \in S
  <2>1. S \in SUBSET Nat /\ N \in Nat
    OBVIOUS
  <2> HIDE DEF S, N
  <2>. QED  BY <1>2, <1>3, <2>1, AllNaturals
<1>5. WalkedTo(disk, v, start, walk[N], N)
  BY <1>4
<1>. QED  BY <1>1, <1>5

LEMMA SameMod ==
    ASSUME NEW W \in Nat \ {0}, NEW F \in Nat, NEW a \in 0 .. W - 1, NEW b \in 0 .. W - 1,
           (F + a) % W = (F + b) % W
    PROVE  a = b
<1> DEFINE p == (F + a) \div W
           q == (F + b) \div W
           r == (F + a) % W
           pW == p * W
           qW == q * W
           t == (F + b) % W
           x == F + a
           y == F + b
<1>0. x \in Nat /\ y \in Nat
  OBVIOUS
<1>a. p \in Nat /\ r \in 0 .. W - 1 /\ pW + r = F + a
  <2> HIDE DEF x
  <2>. QED  BY <1>0, Euclid DEF x
<1>b. q \in Nat /\ qW + t = F + b
  <2> HIDE DEF y
  <2>. QED  BY <1>0, Euclid DEF y
<1>1. p \in Nat /\ q \in Nat /\ pW + r = F + a /\ qW + r = F + b /\ r \in 0 .. W - 1
  BY <1>a, <1>b
<1> HIDE DEF r, p, q
<1>2. /\ pW \in Int /\ qW \in Int
      /\ p < q => pW + W <= qW
      /\ q < p => qW + W <= pW
      /\ p = q => pW = qW
  BY <1>1, Times
<1> HIDE DEF pW, qW
<1>3. ~(p < q) /\ ~(q < p)
  BY <1>1, <1>2
<1>. QED  BY <1>1, <1>2, <1>3

LEMMA DiskIs ==
    ASSUME NEW disk, WholeDisk(disk)
    PROVE  /\ IsSeq(disk) /\ Len(disk) \in Nat /\ DOMAIN disk = 1 .. Len(disk)
           /\ \A p \in DOMAIN disk : disk[p] \in Units(disk) /\ UnitOk(disk[p])
<1>1. IsSeq(disk)
  BY DEF WholeDisk, IsSeq
<1>. QED  BY <1>1, SeqBasics DEF WholeDisk, Units

LEMMA WholeSectors ==
    ASSUME NEW S \in Nat \ {0}, NEW N \in Nat, NEW off \in Nat, N % S = 0, N <= off
    PROVE  (off \div S) * S \in Int /\ N <= (off \div S) * S
<1> DEFINE l == N \div S
           q == off \div S
           r == off % S
           lS == l * S
           qS == q * S
<1>1. l \in Nat /\ lS + (N % S) = N
  BY Euclid
<1>2. q \in Nat /\ r \in 0 .. S - 1 /\ qS + r = off
  BY Euclid
<1> HIDE DEF l, q, r
<1>3. lS \in Int /\ qS \in Int /\ (q < l => qS + S <= lS) /\ (l <= q => lS <= qS)
  BY <1>1, <1>2, Times
<1> HIDE DEF lS, qS
<1>4. lS = N
  BY <1>1, <1>3
<1>5. N <= qS
  BY <1>1, <1>2, <1>3, <1>4
<1>. QED  BY <1>3, <1>5 DEF qS, q

\* A disk is of whole sectors: nothing of it stands behind its end.
LEMMA NothingBehind ==
    ASSUME NEW disk, WholeDisk(disk), NEW off \in Nat, Len(disk) <= off, NEW x
    PROVE  ~Behind(disk, off, x)
<1> DEFINE N == Len(disk)
           qS == (off \div SECTOR) * SECTOR
<1>1. SECTOR \in Nat \ {0} /\ N \in Nat /\ DOMAIN disk = 1 .. N /\ N % SECTOR = 0 /\ N <= off
  BY Fat32Assumption, DiskIs DEF WholeDisk
<1> HIDE DEF N
<1>2. qS \in Int /\ N <= qS
  BY <1>1, WholeSectors
<1> HIDE DEF qS
<1>3. \A p \in DOMAIN disk : ~(qS < p)
  BY <1>1, <1>2
<1>. QED  BY <1>3 DEF Behind, qS

WordAt(v, c) == ((v.fat * SECTOR + c) % WORD) + 1
LEMMA LinkAt ==
    ASSUME NEW disk, WholeDisk(disk), NEW v, v.fat \in Nat, NEW c \in Nat,
           ~Stops(NextCluster(disk, v, c))
    PROVE  /\ WordAt(v, c) \in DOMAIN disk
           /\ disk[WordAt(v, c)].kind = "fat" /\ disk[WordAt(v, c)].next = NextCluster(disk, v, c)
           /\ NextCluster(disk, v, c) \in 2 .. WORD - 1
<1> DEFINE off == (v.fat * SECTOR + c) % WORD
           u == Unit(disk, off)
<1>1. off \in Nat /\ WORD \in Nat \ {0} /\ IsSeq(disk) /\ Len(disk) \in Nat /\ DOMAIN disk = 1 .. Len(disk)
  <2>1. v.fat * SECTOR \in Nat /\ WORD \in Nat \ {0}
    BY Fat32Assumption
  <2>2. v.fat * SECTOR + c \in Nat
    BY <2>1
  <2>. QED  BY <2>1, <2>2, Euclid, DiskIs
<1>2. NextCluster(disk, v, c) = LinkIn(u)
  BY DEF NextCluster
<1> HIDE DEF off
<1>3. u.kind = "fat" /\ u.next = LinkIn(u) /\ LinkIn(u) \notin {0, 1, BAD, EOC}
  BY <1>2 DEF LinkIn, Stops
<1>4. Behind(disk, off, u)
  <2>1. u \notin {Zero, STRAY}
    BY <1>3 DEF Zero, STRAY
  <2>. QED  BY <1>1, <2>1, UnitBehind
<1>5. off + 1 <= Len(disk)
  <2>1. ~(Len(disk) <= off)
    BY <1>1, <1>4, NothingBehind
  <2>. QED  BY <1>1, <2>1
<1>6. u = disk[off + 1] /\ off + 1 \in DOMAIN disk
  BY <1>1, <1>5, UnitIs
<1>7. UnitOk(u)
  BY <1>6, DiskIs
<1>8. u.next \in {EOC, BAD} \union 0 .. WORD - 1
  BY <1>3, <1>7 DEF UnitOk
<1>9. u.next \in 2 .. WORD - 1
  BY <1>1, <1>3, <1>8
<1>. QED  BY <1>2, <1>3, <1>6, <1>9 DEF WordAt, off

LEMMA WalkedNats ==
    ASSUME NEW disk, WholeDisk(disk), NEW v, v.fat \in Nat, NEW start \in Nat, NEW k \in Nat,
           NEW w, WalkedTo(disk, v, start, w, k), NEW i \in 1 .. Len(w), ~Stops(w[i])
    PROVE  w[i] \in Nat /\ (i # 1 => w[i] \in 2 .. WORD - 1)
<1> DEFINE n == Len(w)
           S == {j \in Nat : j + 1 <= n /\ ~Stops(w[j + 1]) =>
                     w[j + 1] \in Nat /\ (j # 0 => w[j + 1] \in 2 .. WORD - 1)}
<1>1. /\ n \in Nat /\ w[1] = start
      /\ \A j \in 1 .. n - 1 : ~Stops(w[j]) /\ w[j + 1] = NextCluster(disk, v, w[j])
  BY DEF WalkedTo
<1>2. 0 \in S
  BY <1>1
<1>3. ASSUME NEW j \in S PROVE j + 1 \in S
  <2> SUFFICES ASSUME j + 2 <= n, ~Stops(w[j + 2]) PROVE w[j + 2] \in Nat /\ w[j + 2] \in 2 .. WORD - 1
    <3>1. (j + 1) + 1 = j + 2 /\ j + 1 \in Nat
      OBVIOUS
    <3>. QED  BY <3>1
  <2>1. j \in Nat /\ j + 1 \in 1 .. n - 1 /\ (j + 1) + 1 = j + 2 /\ j + 1 <= n
    BY <1>1
  <2>2. ~Stops(w[j + 1]) /\ w[j + 2] = NextCluster(disk, v, w[j + 1])
    BY <1>1, <2>1
  <2>3. w[j + 1] \in Nat
    BY <2>1, <2>2
  <2> HIDE DEF S
  <2>4. w[j + 2] \in 2 .. WORD - 1
    BY <2>2, <2>3, LinkAt
  <2>. QED  BY <2>4, Fat32Assumption
<1>4. S = Nat
  <2>1. S \in SUBSET Nat
    OBVIOUS
  <2> HIDE DEF S
  <2>. QED  BY <1>2, <1>3, <2>1, AllNaturals
<1>5. i - 1 \in S /\ (i - 1) + 1 = i /\ i <= n /\ (i # 1 => i - 1 # 0)
  <2>1. i - 1 \in Nat
    BY <1>1
  <2> HIDE DEF S
  <2>. QED  BY <1>1, <1>4, <2>1
<1> HIDE DEF n
<1>. QED  BY <1>5

LEMMA StartIs ==
    ASSUME NEW disk, WholeDisk(disk), NEW start, StartsAt(disk, start)
    PROVE  start \in 0 .. WORD - 1
<1>1. WORD \in Nat \ {0}
  BY Fat32Assumption
<1>. QED  BY <1>1 DEF StartsAt, WholeDisk, UnitOk

\* A chain that is one holds numbers of clusters.
LEMMA ChainNats ==
    ASSUME NEW disk, WholeDisk(disk), NEW v, v.fat \in Nat, NEW start, StartsAt(disk, start),
           fat32_create_fat_cluster_chain(disk, v, start) # HANG
    PROVE  /\ IsSeq(fat32_create_fat_cluster_chain(disk, v, start))
           /\ \A i \in DOMAIN fat32_create_fat_cluster_chain(disk, v, start) :
                fat32_create_fat_cluster_chain(disk, v, start)[i] \in Nat \ {0, 1}
<1>1. Len(disk) \in Nat /\ start \in Nat
  BY DiskIs, StartIs, Fat32Assumption
<1>2. PICK w : /\ WalkedTo(disk, v, start, w, Len(disk))
               /\ fat32_create_fat_cluster_chain(disk, v, start) = Ended(w)
  BY <1>1, ChainWalked
<1> DEFINE n == Len(w)
<1>3. IsSeq(w) /\ n \in Nat \ {0} /\ \A i \in 1 .. n - 1 : ~Stops(w[i])
  BY <1>1, <1>2 DEF WalkedTo
<1>4. Ended(w) = Prefix(w, n - 1)
  BY <1>2 DEF Ended, Prefix
<1>5. IsSeq(Ended(w)) /\ Len(Ended(w)) = n - 1 /\ \A i \in 1 .. n - 1 : Ended(w)[i] = w[i]
  <2>1. n - 1 \in 0 .. n
    BY <1>3
  <2>. QED  BY <1>3, <1>4, <2>1, PrefixIs
<1>6. DOMAIN Ended(w) = 1 .. n - 1
  BY <1>5, SeqBasics
<1>7. ASSUME NEW i \in 1 .. n - 1 PROVE w[i] \in Nat \ {0, 1}
  <2>1. i \in 1 .. Len(w) /\ ~Stops(w[i])
    BY <1>3
  <2>2. w[i] \in Nat
    BY <1>1, <1>2, <2>1, WalkedNats
  <2>. QED  BY <2>1, <2>2 DEF Stops
<1>. QED  BY <1>2, <1>5, <1>6, <1>7

\* A walk without an end follows a link twice, or comes back to its beginning:
\* more of them are followed than there are on the disk besides the unit that
\* names its beginning.
LEMMA HangIsUnsound ==
    ASSUME NEW disk, WholeDisk(disk), NEW v, v.fat \in Nat, NEW start, StartsAt(disk, start),
           fat32_create_fat_cluster_chain(disk, v, start) = HANG
    PROVE  ~Sound(disk)
<1> DEFINE N == Len(disk)
<1>1. N \in Nat /\ start \in 0 .. WORD - 1 /\ start \in Nat /\ DOMAIN disk = 1 .. N
  BY DiskIs, StartIs, Fat32Assumption
<1>2. PICK w : /\ WalkedTo(disk, v, start, w, N)
               /\ fat32_create_fat_cluster_chain(disk, v, start) = Ended(w)
  BY <1>1, ChainWalked
<1>3. /\ IsSeq(w) /\ Len(w) \in 1 .. N + 1 /\ w[1] = start
      /\ \A i \in 1 .. Len(w) - 1 : ~Stops(w[i]) /\ w[i + 1] = NextCluster(disk, v, w[i])
      /\ Stops(w[Len(w)]) \/ Len(w) = N + 1
  BY <1>2 DEF WalkedTo
<1>4. ~Stops(w[Len(w)])
  <2> SUFFICES ASSUME Stops(w[Len(w)]) PROVE FALSE
    OBVIOUS
  <2>1. Prefix(w, Len(w) - 1) = <<0>>
    BY <1>2 DEF Ended, HANG, Prefix
  <2>2. /\ Len(Prefix(w, Len(w) - 1)) = Len(w) - 1
        /\ \A i \in 1 .. Len(w) - 1 : Prefix(w, Len(w) - 1)[i] = w[i]
    <3>1. Len(w) - 1 \in 0 .. Len(w)
      BY <1>3
    <3>. QED  BY <1>3, <3>1, PrefixIs
  <2>3. Len(<<0>>) = 1 /\ <<0>>[1] = 0
    OBVIOUS
  <2>4. Len(w) - 1 = 1 /\ 1 \in 1 .. Len(w) - 1
    <3>1. Len(w) - 1 = 1
      BY <2>1, <2>2, <2>3
    <3>. QED  BY <3>1
  <2>5. w[1] = 0
    BY <2>1, <2>2, <2>3, <2>4
  <2>. QED  BY <1>3, <2>4, <2>5 DEF Stops
<1>5. /\ Len(w) = N + 1 /\ \A i \in 1 .. N + 1 : ~Stops(w[i])
      /\ \A i \in 1 .. N : w[i + 1] = NextCluster(disk, v, w[i])
  <2>1. Len(w) = N + 1 /\ Len(w) - 1 = N
    BY <1>1, <1>3, <1>4
  <2>2. \A i \in 1 .. N + 1 : i = N + 1 \/ i \in 1 .. N
    BY <1>1
  <2>. QED  BY <1>3, <1>4, <2>1, <2>2
<1>6. \A i \in 1 .. N + 1 : w[i] \in 0 .. WORD - 1 /\ w[i] \in Nat
  <2>1. \A i \in 1 .. N + 1 : w[i] \in Nat /\ (i # 1 => w[i] \in 2 .. WORD - 1)
    BY <1>1, <1>2, <1>5, WalkedNats
  <2>. QED  BY <1>1, <1>3, <2>1, Fat32Assumption
<1> DEFINE at(i) == WordAt(v, w[i])
           nexts == {i \in DOMAIN disk : disk[i].kind = "fat" /\ disk[i].next > 1}
<1>7. ASSUME NEW i \in 1 .. N PROVE at(i) \in nexts /\ disk[at(i)].next = w[i + 1]
  <2>1. w[i] \in Nat /\ w[i + 1] = NextCluster(disk, v, w[i]) /\ ~Stops(w[i + 1])
    <3>1. i \in 1 .. N + 1 /\ i + 1 \in 1 .. N + 1
      BY <1>1
    <3>. QED  BY <1>5, <1>6, <3>1
  <2>2. /\ at(i) \in DOMAIN disk /\ disk[at(i)].kind = "fat" /\ disk[at(i)].next = w[i + 1]
        /\ w[i + 1] \in 2 .. WORD - 1
    BY <2>1, LinkAt
  <2> HIDE DEF at
  <2>. QED  BY <2>2, Fat32Assumption
<1>8. \A i, j \in 1 .. N + 1 : at(i) = at(j) => w[i] = w[j]
  <2> SUFFICES ASSUME NEW i \in 1 .. N + 1, NEW j \in 1 .. N + 1, at(i) = at(j) PROVE w[i] = w[j]
    OBVIOUS
  <2> DEFINE F == v.fat * SECTOR
  <2>1. F \in Nat /\ WORD \in Nat \ {0}
    BY Fat32Assumption
  <2>2. (F + w[i]) % WORD \in Nat /\ (F + w[j]) % WORD \in Nat
    <3> DEFINE x == F + w[i]
               y == F + w[j]
    <3>1. x \in Nat /\ y \in Nat
      BY <1>6, <2>1
    <3> HIDE DEF x, y
    <3>2. x % WORD \in 0 .. WORD - 1 /\ y % WORD \in 0 .. WORD - 1
      BY <2>1, <3>1, Euclid
    <3>. QED  BY <2>1, <3>2 DEF x, y
  <2>3. ((F + w[i]) % WORD) + 1 = ((F + w[j]) % WORD) + 1
    BY DEF WordAt
  <2> HIDE DEF F
  <2>4. (F + w[i]) % WORD = (F + w[j]) % WORD
    BY <2>2, <2>3
  <2>. QED  BY <1>6, <2>1, <2>4, SameMod
<1> HIDE DEF at
<1>9. SUFFICES ASSUME Sound(disk) PROVE FALSE
  OBVIOUS
<1>10. /\ \A i, j \in nexts : disk[i].next = disk[j].next => i = j
       /\ \A i \in nexts, u \in Units(disk) : /\ u.kind = "entry" => u.cluster # disk[i].next
                                              /\ u.kind = "boot" => u.root # disk[i].next
  BY <1>9 DEF Sound
<1> HIDE DEF nexts
<1>11. start # 0 /\ start = w[1]
  BY <1>1, <1>3, <1>5 DEF Stops
<1>12. PICK i0 \in DOMAIN disk : \/ disk[i0].kind = "boot" /\ disk[i0].root = start
                                 \/ disk[i0].kind = "entry" /\ disk[i0].cluster = start
  BY <1>11 DEF StartsAt, Units
<1>13. \A i \in 2 .. N + 1 : w[i] # w[1]
  <2> SUFFICES ASSUME NEW i \in 2 .. N + 1, w[i] = w[1] PROVE FALSE
    OBVIOUS
  <2>1. i - 1 \in 1 .. N /\ (i - 1) + 1 = i
    BY <1>1
  <2>2. at(i - 1) \in nexts /\ disk[at(i - 1)].next = start
    BY <1>7, <1>11, <2>1
  <2>3. disk[i0] \in Units(disk)
    BY <1>12 DEF Units
  <2>. QED  BY <1>10, <1>12, <2>2, <2>3
<1>14. \A i \in 1 .. N + 1 : \A j \in i + 1 .. N + 1 : w[i] # w[j]
  <2> DEFINE S == {i \in Nat : i + 1 <= N + 1 => \A j \in i + 2 .. N + 1 : w[i + 1] # w[j]}
  <2>1. 0 \in S
    BY <1>13
  <2>2. ASSUME NEW i \in S PROVE i + 1 \in S
    <3> SUFFICES ASSUME i + 2 <= N + 1, NEW j \in i + 3 .. N + 1, w[i + 2] = w[j] PROVE FALSE
      <4>1. i + 1 \in Nat /\ (i + 1) + 1 = i + 2 /\ (i + 1) + 2 = i + 3
        OBVIOUS
      <4>. QED  BY <4>1
    <3>1. i \in Nat /\ i + 1 \in 1 .. N /\ j - 1 \in 1 .. N /\ (i + 1) + 1 = i + 2 /\ (j - 1) + 1 = j
          /\ j - 1 \in i + 2 .. N + 1 /\ i + 1 <= N + 1
      BY <1>1
    <3>2. w[i + 1] # w[j - 1]
      BY <3>1
    <3> HIDE DEF S
    <3>3. /\ at(i + 1) \in nexts /\ disk[at(i + 1)].next = w[i + 2]
          /\ at(j - 1) \in nexts /\ disk[at(j - 1)].next = w[j]
      BY <1>7, <3>1
    <3>4. at(i + 1) = at(j - 1)
      BY <1>10, <3>3
    <3>5. i + 1 \in 1 .. N + 1 /\ j - 1 \in 1 .. N + 1
      BY <1>1, <3>1
    <3>. QED  BY <1>8, <3>2, <3>4, <3>5
  <2>3. S = Nat
    <3>1. S \in SUBSET Nat
      OBVIOUS
    <3> HIDE DEF S
    <3>. QED  BY <2>1, <2>2, <3>1, AllNaturals
  <2> SUFFICES ASSUME NEW i \in 1 .. N + 1, NEW j \in i + 1 .. N + 1 PROVE w[i] # w[j]
    OBVIOUS
  <2>4. i - 1 \in Nat /\ (i - 1) + 1 = i /\ i <= N + 1 /\ (i - 1) + 2 = i + 1
    BY <1>1
  <2>5. i - 1 \in S
    <3> HIDE DEF S
    <3>. QED  BY <2>3, <2>4
  <2> HIDE DEF N
  <2>. QED  BY <2>4, <2>5
<1> DEFINE T == DOMAIN disk \ {i0}
           f == [i \in 1 .. N |-> at(i)]
<1>15. f \in [1 .. N -> T]
  <2> SUFFICES ASSUME NEW i \in 1 .. N PROVE at(i) \in T
    OBVIOUS
  <2>1. at(i) \in nexts
    BY <1>7
  <2>2. at(i) \in DOMAIN disk /\ disk[at(i)].kind = "fat"
    BY <2>1 DEF nexts
  <2>. QED  BY <1>12, <2>2
<1>16. IsFiniteSet(1 .. N) /\ IsFiniteSet(T) /\ Cardinality(T) < Cardinality(1 .. N)
  <2>1. IsFiniteSet(1 .. N) /\ Cardinality(1 .. N) = IF 1 > N THEN 0 ELSE N - 1 + 1
    BY <1>1, FS_Interval
  <2>2. N >= 1
    BY <1>1, <1>12
  <2>3. Cardinality(1 .. N) = N
    BY <1>1, <2>1, <2>2
  <2>4. IsFiniteSet(T) /\ Cardinality(T) = N - 1
    <3>1. i0 \in 1 .. N
      BY <1>1, <1>12
    <3>. QED  BY <1>1, <2>1, <2>3, <3>1, FS_RemoveElement
  <2>. QED  BY <1>1, <2>1, <2>3, <2>4
<1>17. PICK i, j \in 1 .. N : i # j /\ f[i] = f[j]
  <2> HIDE DEF T, f
  <2>. QED  BY <1>15, <1>16, FS_PigeonHole
<1>18. i \in 1 .. N + 1 /\ j \in 1 .. N + 1 /\ at(i) = at(j)
  BY <1>1, <1>17
<1>19. w[i] = w[j]
  BY <1>8, <1>18
<1>20. j \in i + 1 .. N + 1 \/ i \in j + 1 .. N + 1
  BY <1>1, <1>17
<1>. QED  BY <1>14, <1>18, <1>19, <1>20

-----------------------------------------------------------------------------
(* What a search runs into.                                                *)

\* Where the volume begins, as far as reads on it need that.
VolumeOk(v) == v.fat \in Nat /\ v.first_usable_sector \in Nat /\ v.sectors \in Nat

\* What a cluster holds stands on the disk, or is left of the memory.
OnDisk(disk) == Units(disk) \union {STRAY}
LEMMA ClusterOn ==
    ASSUME NEW disk, WholeDisk(disk), NEW v, VolumeOk(v), NEW c \in Nat \ {0, 1}
    PROVE  fat32_read_cluster_raw(disk, v, c) \in Seq(OnDisk(disk))
<1> DEFINE off == fat32_cluster_to_lba(v, c) * SECTOR
           n == cluster_size(v)
           bytes == read_ata_bytes(disk, off, n).bytes
           up == [i \in 1 .. n |-> IF i \in DOMAIN bytes THEN bytes[i] ELSE STRAY]
<1>1. n \in Nat
  BY Fat32Assumption DEF cluster_size, VolumeOk
<1>2. off \in Nat
  <2> DEFINE a == (c - 2) * v.sectors
  <2>1. c - 2 \in Nat /\ v.sectors \in Nat /\ v.first_usable_sector \in Nat
    BY DEF VolumeOk
  <2>2. a \in Nat
    BY <2>1
  <2>3. fat32_cluster_to_lba(v, c) = a + v.first_usable_sector
    BY DEF fat32_cluster_to_lba
  <2> HIDE DEF a
  <2>4. fat32_cluster_to_lba(v, c) \in Nat
    BY <2>1, <2>2, <2>3
  <2> HIDE DEF off
  <2>5. fat32_cluster_to_lba(v, c) * SECTOR \in Nat
    BY <2>4, Fat32Assumption
  <2>. QED  BY <2>5 DEF off
<1>3. fat32_read_cluster_raw(disk, v, c) = up
  BY DEF fat32_read_cluster_raw, UpTo
<1> HIDE DEF off, n
<1>4. ASSUME NEW i \in 1 .. n PROVE up[i] \in OnDisk(disk)
  <2>1. CASE i \in DOMAIN bytes
    <3>1. n \in Nat \ {0}
      BY <1>1
    <3>2. bytes[i] = STRAY \/ Behind(disk, off, bytes[i])
      BY <1>2, <2>1, <3>1, BytesBehind, DiskIs
    <3> HIDE DEF bytes
    <3>3. bytes[i] \in OnDisk(disk)
      BY <3>2 DEF Behind, OnDisk, Units
    <3>. QED  BY <2>1, <3>3
  <2>2. CASE i \notin DOMAIN bytes
    BY <2>2 DEF OnDisk
  <2>. QED  BY <2>1, <2>2
<1>5. IsSeq(up) /\ Len(up) = n
  <2>1. up = [i \in 1 .. n |-> up[i]]
    OBVIOUS
  <2> HIDE DEF up
  <2>. QED  BY <1>1, <2>1, MapAny
<1> HIDE DEF up
<1>. QED  BY <1>3, <1>4, <1>5, SeqIn

LEMMA ListingOn ==
    ASSUME NEW disk, WholeDisk(disk), NEW v, VolumeOk(v), NEW chain, IsSeq(chain),
           \A i \in DOMAIN chain : chain[i] \in Nat \ {0, 1}
    PROVE  Listing(disk, v, chain) \in Seq(OnDisk(disk))
<1> DEFINE s == [i \in DOMAIN chain |-> fat32_read_cluster_raw(disk, v, chain[i])]
           n == Len(chain)
<1>1. n \in Nat /\ DOMAIN chain = 1 .. n
  BY SeqBasics
<1>2. IsSeq(s) /\ Len(s) = n
  <2>1. s = [i \in 1 .. n |-> s[i]]
    BY <1>1
  <2> HIDE DEF s, n
  <2>. QED  BY <1>1, <2>1, MapAny
<1>3. \A i \in 1 .. n : s[i] \in Seq(OnDisk(disk))
  <2> SUFFICES ASSUME NEW i \in 1 .. n PROVE s[i] \in Seq(OnDisk(disk))
    OBVIOUS
  <2>1. s[i] = fat32_read_cluster_raw(disk, v, chain[i]) /\ chain[i] \in Nat \ {0, 1}
    BY <1>1
  <2>. QED  BY <2>1, ClusterOn
<1>4. Listing(disk, v, chain) = FlattenSeq(s)
  BY DEF Listing
<1> HIDE DEF s, n
<1>5. CASE n = 0
  <2>1. s = <<>>
    <3>1. Len(<<>>) = 0
      BY EmptyIs
    <3>2. \A i \in 1 .. Len(s) : s[i] = <<>>[i]
      BY <1>2, <1>5
    <3>. QED  BY <1>2, <1>5, <3>1, <3>2, EmptyIs, SameSeq
  <2>2. FlattenSeq(s) = <<>>
    BY <2>1, EmptyIs DEF FlattenSeq
  <2>. QED  BY <1>4, <2>2
<1>6. CASE n # 0
  <2> DEFINE m == n - 1
  <2>1. m \in Nat /\ Len(s) = m + 1 /\ \A i \in 1 .. m + 1 : s[i] \in Seq(OnDisk(disk))
    BY <1>1, <1>2, <1>3, <1>6
  <2> HIDE DEF m
  <2>2. FlattenSeq(s) \in Seq(OnDisk(disk))
    BY <1>2, <2>1, FlattenLast
  <2>. QED  BY <1>4, <2>2
<1>. QED  BY <1>5, <1>6

\* A search on the disk finds an entry that stands there, and where it never
\* ends the disk is unsound.
LEMMA RawOn ==
    ASSUME NEW disk, WholeDisk(disk), NEW v, VolumeOk(v), NEW cluster, StartsAt(disk, cluster), NEW name
    PROVE  /\ fat32_finddir_raw(disk, v, cluster, name).is = "hang" => ~Sound(disk)
           /\ fat32_finddir_raw(disk, v, cluster, name).is = "entry" =>
                StartsAt(disk, fat32_finddir_raw(disk, v, cluster, name).entry.cluster)
<1> DEFINE chain == fat32_create_fat_cluster_chain(disk, v, cluster)
           raw == fat32_finddir_raw(disk, v, cluster, name)
           list == Listing(disk, v, chain)
<1>1. raw = IF chain = HANG THEN [is |-> "hang"] ELSE Search(list, name)
  BY DEF fat32_finddir_raw, SearchOf
<1>2. chain = HANG => ~Sound(disk)
  BY HangIsUnsound DEF VolumeOk
<1>3. chain # HANG => list \in Seq(OnDisk(disk))
  <2> SUFFICES ASSUME chain # HANG PROVE list \in Seq(OnDisk(disk))
    OBVIOUS
  <2>1. IsSeq(chain) /\ \A i \in DOMAIN chain : chain[i] \in Nat \ {0, 1}
    BY ChainNats DEF VolumeOk
  <2> HIDE DEF chain
  <2>. QED  BY <2>1, ListingOn
<1> HIDE DEF chain, list
<1> DEFINE hits == {k \in DOMAIN list : StopsAt(list[k], name)}
           k0 == CHOOSE k \in hits : \A j \in hits : k <= j
           hit == list[k0]
<1>4. Search(list, name) =
        CASE hits = {} -> [is |-> "wild"]
          [] hits # {} /\ (hit.kind = "zero" \/ (hit.attribute = "file" /\ name[2] = NONE)) -> [is |-> NONE]
          [] OTHER -> [is |-> "entry", entry |-> hit]
  BY DEF Search
<1>5. CASE chain = HANG
  <2>1. raw.is = "hang"
    BY <1>1, <1>5
  <2>. QED  BY <1>2, <1>5, <2>1
<1>6. CASE chain # HANG /\ hits # {} /\ ~(hit.kind = "zero" \/ (hit.attribute = "file" /\ name[2] = NONE))
  <2>1. raw = [is |-> "entry", entry |-> hit]
    <3> HIDE DEF hits, hit, raw
    <3>. QED  BY <1>1, <1>4, <1>6
  <2>2. k0 \in hits
    <3>1. hits \subseteq Nat
      BY <1>3, <1>6
    <3> HIDE DEF hits
    <3>. QED  BY <1>6, <3>1, LeastNatural
  <2>3. k0 \in DOMAIN list /\ StopsAt(hit, name)
    BY <2>2
  <2> HIDE DEF k0, hits, raw
  <2>4. hit \in OnDisk(disk)
    BY <1>3, <1>6, <2>3
  <2> HIDE DEF hit
  <2>5. hit.kind = "entry"
    BY <1>6, <2>3 DEF StopsAt
  <2>6. hit \in Units(disk)
    BY <2>4, <2>5 DEF OnDisk, STRAY
  <2>7. StartsAt(disk, hit.cluster)
    BY <2>5, <2>6 DEF StartsAt
  <2>. QED  BY <2>1, <2>7 DEF raw
<1>7. CASE chain # HANG /\ ~(hits # {} /\ ~(hit.kind = "zero" \/ (hit.attribute = "file" /\ name[2] = NONE)))
  <2>1. raw \in {[is |-> "wild"], [is |-> NONE]}
    <3> HIDE DEF hits, hit, raw
    <3>. QED  BY <1>1, <1>4, <1>7
  <2>. QED  BY <2>1 DEF NONE
<1>. QED  BY <1>5, <1>6, <1>7

\* In a tidy directory every search stops.
LEMMA TidyStops ==
    ASSUME NEW disk, NEW v, NEW dir, Tidy(disk, v, dir), NEW name
    PROVE  fat32_finddir_raw(disk, v, dir, name).is \in {NONE, "entry"}
<1> DEFINE to == Linked(disk, v, dir)
<1>1. PICK n \in 1 .. Len(disk) : /\ Spans(disk, v, to, n)
                                  /\ Holds(disk, dir, UnitsOf(disk, v, to, n))
  BY DEF Tidy
<1> DEFINE N == n * cluster_size(v)
           unit == UnitsOf(disk, v, to, n)
<1>2. PICK list : /\ \A any : fat32_finddir_raw(disk, v, dir, any) = Search(list, any)
                  /\ IsSeq(list) /\ Len(list) = N
                  /\ \A k \in 0 .. N - 1 : list[k + 1] = unit[k]
  BY <1>1, ListingIs
<1>3. PICK k \in DOMAIN unit : unit[k].kind = "zero"
  BY <1>1 DEF Holds
<1>4. DOMAIN unit = 0 .. N - 1
  BY DEF UnitsOf
<1> HIDE DEF unit
<1>5. N \in Nat /\ DOMAIN list = 1 .. N
  BY <1>2, SeqBasics
<1> HIDE DEF N
<1>6. k + 1 \in DOMAIN list /\ list[k + 1] = unit[k]
  BY <1>2, <1>3, <1>4, <1>5
<1> DEFINE hits == {j \in DOMAIN list : StopsAt(list[j], name)}
<1>7. hits # {}
  BY <1>3, <1>6 DEF StopsAt
<1>8. Search(list, name).is \in {NONE, "entry"}
  BY <1>7 DEF Search
<1>. QED  BY <1>2, <1>8

-----------------------------------------------------------------------------
(* The disks and the volume.                                               *)

LEMMA WholeDisks ==
    ASSUME FilesInv, MountsInv, NEW u \in 1 .. 4
    PROVE  WholeDisk(Here.disks[u])
<1>1. Here.disks[u] = DisksAt(Hardware, controller)[u]
  BY DEF Here, Seen
<1>2. CASE controller = <<>>
  <2>1. Here.disks[u] = <<>>
    BY <1>1, <1>2 DEF DisksAt
  <2>2. DOMAIN <<>> = {} /\ Len(<<>>) = 0
    BY EmptyIs
  <2>3. Units(<<>>) = {}
    BY <2>2 DEF Units
  <2>4. 0 % SECTOR = 0
    BY Fat32Assumption
  <2>5. <<>> \in Seq(Units(<<>>))
    OBVIOUS
  <2>. QED  BY <2>1, <2>2, <2>3, <2>4, <2>5 DEF WholeDisk
<1>3. CASE controller # <<>>
  <2>1. controller = ata_controller(Machines[machine].pci) /\ machine \in DOMAIN Machines
    BY <1>3 DEF MountsInv, FilesInv, BootInv, Hardware
  <2>. QED  BY <1>1, <2>1, DisksAssumption DEF Hardware, WholeDisk
<1>. QED  BY <1>2, <1>3

\* The last of a table's entries that fit.
LEMMA GreatestIndex ==
    ASSUME NEW n \in Nat, NEW S \in SUBSET (1 .. n), S # {}
    PROVE  \E i \in S : \A j \in S : j <= i
<1> DEFINE T == {n - i : i \in S}
<1>1. T \in SUBSET Nat /\ T # {}
  <2>1. \A i \in S : n - i \in Nat
    OBVIOUS
  <2>2. PICK i : i \in S
    OBVIOUS
  <2>3. n - i \in T
    BY <2>2
  <2>. QED  BY <2>1, <2>3
<1>2. PICK t \in T : \A u \in T : t <= u
  <2> HIDE DEF T
  <2>. QED  BY <1>1, LeastNatural
<1>3. PICK i \in S : t = n - i
  BY <1>2
<1>4. ASSUME NEW j \in S PROVE j <= i
  <2>1. n - j \in T
    OBVIOUS
  <2>2. n - i <= n - j
    <3> HIDE DEF T
    <3>. QED  BY <1>2, <1>3, <2>1
  <2>3. i \in Int /\ j \in Int
    OBVIOUS
  <2>. QED  BY <2>2, <2>3
<1>. QED  BY <1>4

\* The first sector of a disk tells where a partition begins.
LEMMA ActiveIs ==
    ASSUME NEW disk, WholeDisk(disk), disk # <<>>
    PROVE  ActivePartition(read_ata_bytes(disk, 0, SECTOR).bytes) \in Nat
<1> DEFINE bytes == read_ata_bytes(disk, 0, SECTOR).bytes
<1>1. IsSeq(disk) /\ Len(disk) \in Nat /\ \A p \in DOMAIN disk : UnitOk(disk[p])
  BY DiskIs
<1>2. Len(disk) # 0
  <2>1. Len(disk) = 0 => disk = <<>>
    BY <1>1, EmptyIs, SameSeq
  <2>. QED  BY <2>1
<1>3. SECTOR \in Nat \ {0} /\ SECTOR <= Len(disk)
  <2> DEFINE l == Len(disk)
  <2>1. SECTOR \in Nat \ {0} /\ l \in Nat \ {0} /\ l % SECTOR = 0
    BY <1>1, <1>2, Fat32Assumption DEF WholeDisk
  <2> HIDE DEF l
  <2>2. l < SECTOR => l % SECTOR = l
    <3>1. 0 * SECTOR + l = l
      BY <2>1
    <3>2. l < SECTOR => l \in 0 .. SECTOR - 1
      BY <2>1
    <3>. QED  BY <2>1, <3>1, <3>2, Divides
  <2>. QED  BY <2>1, <2>2 DEF l
<1>4. bytes[1] = disk[1] /\ 1 \in DOMAIN disk
  <2>1. 0 \in Nat /\ 0 + SECTOR <= Len(disk) /\ 1 \in 1 .. SECTOR
    BY <1>1, <1>3
  <2>2. \A i \in 1 .. SECTOR : bytes[i] = disk[0 + i]
    BY <1>1, <1>3, <2>1, RangeIs
  <2>3. 1 \in DOMAIN disk
    BY <1>1, <1>3, SeqBasics
  <2> HIDE DEF bytes
  <2>. QED  BY <2>1, <2>2, <2>3
<1> HIDE DEF bytes
<1> DEFINE parts == bytes[1].partitions
           active == {i \in DOMAIN parts : parts[i].active}
<1>5. ASSUME bytes[1].kind # "boot" \/ active = {} PROVE ActivePartition(bytes) \in Nat
  <2>1. ActivePartition(bytes) = 0
    BY <1>5 DEF ActivePartition
  <2>. QED  BY <2>1
<1>6. ASSUME bytes[1].kind = "boot", active # {} PROVE ActivePartition(bytes) \in Nat
  <2>1. parts \in Seq([active : BOOLEAN, lba : Nat])
    BY <1>1, <1>4, <1>6 DEF UnitOk
  <2>2. DOMAIN parts = 1 .. Len(parts) /\ Len(parts) \in Nat
    BY <2>1, SeqBasics DEF IsSeq
  <2> DEFINE i == CHOOSE k \in active : \A j \in active : j <= k
  <2>3. i \in active
    <3>1. active \in SUBSET (1 .. Len(parts))
      BY <2>2
    <3> HIDE DEF active, parts
    <3>. QED  BY <1>6, <2>2, <3>1, GreatestIndex
  <2>4. parts[i].lba \in Nat
    <3>1. i \in DOMAIN parts
      BY <2>3
    <3> DEFINE Places == [active : BOOLEAN, lba : Nat]
    <3>2. parts \in Seq(Places)
      BY <2>1
    <3> HIDE DEF i, parts, Places
    <3>3. parts[i] \in Places
      BY <3>1, <3>2
    <3>. QED  BY <3>3 DEF Places
  <2>5. ActivePartition(bytes) = parts[i].lba
    BY <1>6 DEF ActivePartition
  <2> HIDE DEF i, parts
  <2>. QED  BY <2>4, <2>5
<1>. QED  BY <1>5, <1>6 DEF bytes

\* What stands behind a place of a disk stands on the disk.
LEMMA BehindOn ==
    ASSUME NEW disk, WholeDisk(disk), NEW off \in Nat, Unit(disk, off).kind = "boot"
    PROVE  Unit(disk, off) \in Units(disk)
<1> DEFINE u == Unit(disk, off)
<1>1. u \in {Zero, STRAY} \/ Behind(disk, off, u)
  BY UnitBehind, DiskIs
<1> HIDE DEF u
<1>2. Behind(disk, off, u) => u \in Units(disk)
  BY DEF Behind, Units
<1>3. u.kind = "boot"
  BY DEF u
<1>4. u \notin {Zero, STRAY}
  BY <1>3 DEF Zero, STRAY
<1>. QED  BY <1>1, <1>2, <1>4 DEF u

\* A volume is mounted where its records are on the disk; its root's chain has
\* an end if the disk is sound.
LEMMA InitFat ==
    ASSUME NEW disk, WholeDisk(disk), NEW lba \in Nat
    PROVE  /\ init_fat32(disk, lba).is \in {NONE, "hang", "volume"}
           /\ init_fat32(disk, lba).is = "hang" => ~Sound(disk)
           /\ init_fat32(disk, lba).is = "volume" =>
                /\ VolumeOk(init_fat32(disk, lba).volume)
                /\ StartsAt(disk, init_fat32(disk, lba).volume.root)
<1> DEFINE off == (lba * SECTOR) % WORD
           bpb == Unit(disk, off)
           v == VolumeOf(lba, bpb)
           info == Unit(disk, (lba + bpb.info) * SECTOR)
           found == init_fat32(disk, lba)
<1>1. found = IF bpb.kind # "boot" THEN [is |-> NONE] ELSE Checked(disk, v, bpb, info)
  BY DEF init_fat32, Booted
<1>2. off \in Nat
  <2> DEFINE a == lba * SECTOR
  <2>1. a \in Nat /\ WORD \in Nat \ {0}
    BY Fat32Assumption
  <2> HIDE DEF a
  <2>2. a % WORD \in 0 .. WORD - 1
    BY <2>1, Divides
  <2>. QED  BY <2>1, <2>2 DEF a
<1> HIDE DEF off
<1>3. CASE bpb.kind # "boot"
  BY <1>1, <1>3 DEF NONE
<1>4. CASE bpb.kind = "boot"
  <2>1. bpb \in Units(disk)
    BY <1>2, <1>4, BehindOn
  <2> HIDE DEF bpb, info
  <2>2. UnitOk(bpb)
    BY <2>1 DEF WholeDisk
  <2>3. {bpb.reserved, bpb.fats, bpb.perFat, bpb.sectors} \subseteq Nat
    BY <1>4, <2>2 DEF UnitOk
  <2>4. VolumeOk(v) /\ v.root = bpb.root
    <3> DEFINE more == bpb.fats * bpb.perFat
    <3>1. more \in Nat
      <4> DEFINE x == bpb.fats
                 y == bpb.perFat
      <4>1. x \in Nat /\ y \in Nat
        BY <2>3
      <4> HIDE DEF x, y
      <4>2. x * y \in Nat
        BY <4>1
      <4>. QED  BY <4>2 DEF x, y
    <3> HIDE DEF more
    <3>2. lba + bpb.reserved \in Nat /\ lba + bpb.reserved + more \in Nat
      BY <2>3, <3>1
    <3>3. /\ v.root = bpb.root /\ v.fat = lba + bpb.reserved /\ v.sectors = bpb.sectors
          /\ v.first_usable_sector = lba + bpb.reserved + more
      BY DEF VolumeOf, more
    <3> HIDE DEF v
    <3>. QED  BY <2>3, <3>2, <3>3 DEF VolumeOk
  <2> HIDE DEF v
  <2>5. StartsAt(disk, v.root)
    BY <1>4, <2>1, <2>4 DEF StartsAt
  <2>6. fat32_create_fat_cluster_chain(disk, v, v.root) = HANG => ~Sound(disk)
    BY <2>4, <2>5, HangIsUnsound DEF VolumeOk
  <2>7. found = Checked(disk, v, bpb, info)
    BY <1>1, <1>4
  <2> HIDE DEF found
  <2>. QED  BY <2>4, <2>5, <2>6, <2>7 DEF Checked, NONE, found
<1>. QED  BY <1>3, <1>4

-----------------------------------------------------------------------------
(* What is mounted where.                                                  *)

\* A mount below the root leaves it, and one of the root is what it becomes.
LEMMA RootAfter ==
    ASSUME NEW t, IsTree(t), NEW path, IsSeq(path), NEW file,
           \A k \in 0 .. Len(path) - 1 : Known(t, Prefix(path, k))
    PROVE  \/ fs_root(vfs_mount(t, path, file)) = fs_root(t)
           \/ path = <<>> /\ fs_root(vfs_mount(t, path, file)) = file
<1> DEFINE new == vfs_mount(t, path, file)
<1>1. /\ \A i \in DOMAIN new : (\E j \in DOMAIN t : new[i] = t[j]) \/ new[i] = Entry(path, file)
      /\ \A p : Known(t, p) => Known(new, p)
  BY MountShape
<1> HIDE DEF new
<1>2. PICK i \in DOMAIN new : new[i].path = <<>> /\ fs_root(new) = new[i].file
  <2>1. Known(new, <<>>)
    BY <1>1 DEF IsTree
  <2>. QED  BY <2>1, FileAtKnown DEF fs_root
<1>3. CASE \E j \in DOMAIN t : new[i] = t[j]
  <2>1. PICK j \in DOMAIN t : new[i] = t[j]
    BY <1>3
  <2>2. PICK k \in DOMAIN t : t[k].path = <<>> /\ fs_root(t) = t[k].file
    BY FileAtKnown DEF fs_root, IsTree
  <2>3. j = k
    BY <1>2, <2>1, <2>2 DEF IsTree
  <2>. QED  BY <1>2, <2>1, <2>2, <2>3 DEF new
<1>4. CASE new[i] = Entry(path, file)
  <2>1. Entry(path, file).path = path /\ Entry(path, file).file = file
    BY DEF Entry
  <2>. QED  BY <1>2, <1>4, <2>1 DEF new
<1>. QED  BY <1>1, <1>3, <1>4

LEMMA DiskPathDev ==
    ASSUME NEW u
    PROVE  /\ IsSeq(DiskPath(u)) /\ Len(DiskPath(u)) = 2 /\ DiskPath(u) # <<>>
           /\ \A k \in 0 .. Len(DiskPath(u)) - 1 : Prefix(DiskPath(u), k) \in {<<>>, <<"dev">>}
<1> DEFINE e == <<"hda", "hdb", "hdc", "hdd">>[u]
           path == DiskPath(u)
<1>1. path = <<"dev", e>>
  BY DEF DiskPath
<1> HIDE DEF e, path
<1>2. /\ IsSeq(path) /\ Len(path) = 2
      /\ \A k \in 0 .. 1 : Prefix(path, k) \in {<<>>, <<"dev">>}
  BY <1>1, DevIs
<1>3. path # <<>>
  BY <1>2, EmptyIs
<1>. QED  BY <1>2, <1>3 DEF path

LEMMA WithDiskRoot ==
    ASSUME NEW t, IsTree(t), Known(t, <<"dev">>), NEW disks, NEW u
    PROVE  /\ fs_root(WithDisk(t, disks, u)) = fs_root(t)
           /\ \A p : Known(t, p) => Known(WithDisk(t, disks, u), p)
           /\ disks[u] # <<>> => Known(WithDisk(t, disks, u), DiskPath(u))
<1>1. CASE disks[u] = <<>>
  BY <1>1 DEF WithDisk
<1>2. CASE disks[u] # <<>>
  <2> DEFINE path == DiskPath(u)
             file == ata_device_create(u, disks[u])
  <2>1. WithDisk(t, disks, u) = vfs_mount(t, path, file)
    BY <1>2 DEF WithDisk
  <2>2. /\ IsSeq(path) /\ path # <<>>
        /\ \A k \in 0 .. Len(path) - 1 : Prefix(path, k) \in {<<>>, <<"dev">>}
    BY DiskPathDev
  <2> HIDE DEF path, file
  <2>3. \A k \in 0 .. Len(path) - 1 : Known(t, Prefix(path, k))
    BY <2>2 DEF IsTree
  <2>4. fs_root(vfs_mount(t, path, file)) = fs_root(t)
    BY <2>2, <2>3, RootAfter
  <2>5. /\ \A p : Known(t, p) => Known(vfs_mount(t, path, file), p)
        /\ Known(vfs_mount(t, path, file), path)
    BY <2>2, <2>3, MountShape
  <2>. QED  BY <2>1, <2>4, <2>5 DEF path
<1>. QED  BY <1>1, <1>2

\* The mounted root is the volume's, which stands on the first disk; that disk,
\* if there is one, is mounted.
RootOk(disk, root) ==
    root = NULL \/ \E v : StartsAt(disk, v.root) /\ root = fat32_create_fs_node(v)
PlacesInv ==
    /\ VolumeOk(volume)
    /\ pc # "vfs" => RootOk(Here.disks[1], fs_root(tree))
    /\ pc \in {"acpi", "pci", "disk"} => fs_root(tree) = NULL
    /\ pc \notin {"vfs", "acpi", "pci"} /\ Here.disks[1] # <<>> => Known(tree, DiskPath(1))

\* What the search of the first disk's place finds is a disk.
LEMMA DiskOpen ==
    ASSUME FilesInv, MountsInv, pc # "vfs", Open(DiskPath(1)).is = "node"
    PROVE  \E u \in 1 .. 4 : /\ Here.disks[u] # <<>>
                             /\ Open(DiskPath(1)).node = ata_device_create(u, Here.disks[u])
<1> DEFINE path == DiskPath(1)
           mount == get_mount_point(tree, path)
           d == mount.depth
<1>1. IsTree(tree) /\ Known(tree, <<"dev">>) /\ \A i \in DOMAIN tree : MountOk(Here.disks, tree[i])
  BY DEF FilesInv, BootInv, MountsInv, MountsOk
<1>2. path = <<"dev", "hda">>
  BY DEF DiskPath
<1>3. /\ IsSeq(path) /\ Len(path) = 2
      /\ Prefix(path, 0) = <<>> /\ Prefix(path, 1) = <<"dev">> /\ Prefix(path, 2) = path
  <2>1. /\ IsSeq(path) /\ Len(path) = 2
        /\ \A k \in 0 .. Len(path) - 1 : Prefix(path, k) \in {<<>>, <<"dev">>}
    BY DiskPathDev
  <2> HIDE DEF path
  <2>2. Prefix(path, 0) = <<>> /\ Prefix(path, 2) = path
    BY <2>1, WholePrefix
  <2>3. Prefix(path, 1) # <<>>
    <3>1. 1 \in 0 .. Len(path)
      BY <2>1
    <3>. QED  BY <2>1, <3>1, PrefixIs, EmptyIs
  <2>. QED  BY <2>1, <2>2, <2>3
<1>4. <<"dev">> # <<>> /\ path # <<"dev">> /\ path # <<>>
  <2>1. Len(<<"dev">>) = 1
    BY DevIs
  <2> HIDE DEF path
  <2>. QED  BY <1>3, <2>1, EmptyIs
<1>5. path # <<"dev", "initrd">>
  BY <1>2
<1> HIDE DEF path
<1>6. Climbing(tree, path, 2, mount)
  BY <1>1, <1>3, MountPoint
<1>7. /\ d \in 0 .. 2 /\ mount.last = FileAt(tree, Prefix(path, d)) /\ Known(tree, Prefix(path, d))
      /\ \A k \in d + 1 .. 2 : ~MountedAt(tree, Prefix(path, k))
  BY <1>6 DEF Climbing
<1>8. MountedAt(tree, <<"dev">>)
  <2>1. PICK i \in DOMAIN tree : tree[i].path = <<"dev">> /\ FileAt(tree, <<"dev">>) = tree[i].file
    BY <1>1, FileAtKnown
  <2>2. tree[i].file # NULL
    <3>1. \A disks, e : MountOk(disks, e) /\ e.path # <<>> => e.file # NULL
      BY NullIsNot DEF MountOk, vfs_mapper, initrd_root, ata_device_create, NONE
    <3>. QED  BY <1>1, <1>4, <2>1, <3>1
  <2>. QED  BY <1>1, <2>1, <2>2 DEF MountedAt
<1>9. d \in {1, 2}
  <2>1. d = 0 => 1 \in d + 1 .. 2
    OBVIOUS
  <2>2. d # 0
    <3> HIDE DEF d
    <3>. QED  BY <1>3, <1>7, <1>8, <2>1
  <2> HIDE DEF d
  <2>. QED  BY <1>7, <2>2
<1>10. Open(path) = WalkFrom(Here, volume, mount, path)
  <2>1. Open(path) = kopen(Here, volume, tree, path) /\ Open(path).is = "node"
    BY DEF Open, path
  <2> HIDE DEF mount
  <2>. QED  BY <1>4, <2>1 DEF kopen, NONE, mount
<1>11. PICK walk :
        /\ WalkFrom(Here, volume, mount, path) = walk[2]
        /\ walk[d] = [is |-> "node", node |-> mount.last, freed |-> {}]
        /\ \A i \in d + 1 .. 2 : walk[i] = Walked(Here, volume, walk[i - 1], path[i])
  <2>1. mount.depth \in 0 .. Len(path)
    BY <1>3, <1>7
  <2>2. PICK walk : Walks(Here, volume, mount, path, walk)
    BY <1>3, <2>1, WalkSteps
  <2>. QED  BY <1>3, <2>2 DEF Walks
<1>12. PICK i \in DOMAIN tree : tree[i].path = Prefix(path, d) /\ mount.last = tree[i].file
  BY <1>7, FileAtKnown
<1> HIDE DEF mount, d
<1>13. CASE d = 1
  <2>1. tree[i].path = <<"dev">>
    BY <1>3, <1>12, <1>13
  <2>2. MountOk(Here.disks, tree[i])
    BY <1>1
  <2>3. <<"dev">> # <<"dev", "initrd">>
    <3> DEFINE dev == <<"dev">>
               initrd == <<"dev", "initrd">>
    <3>1. Len(dev) = 1 /\ Len(initrd) = 2
      BY DevIs
    <3> HIDE DEF dev, initrd
    <3>2. dev # initrd
      BY <3>1
    <3>. QED  BY <3>2 DEF dev, initrd
  <2>4. mount.last.fs \notin {"initrd", "fat32"}
    BY <1>4, <1>12, <2>1, <2>2, <2>3, NullIsNot DEF MountOk, vfs_mapper, initrd_root, ata_device_create
  <2>5. walk[1].is = "node" /\ walk[1].node = mount.last
    BY <1>11, <1>13
  <2>6. walk[2] = Further(walk[1], finddir_fs(Here, volume, mount.last, path[2]))
    <3>1. 2 \in d + 1 .. 2 /\ 2 - 1 = 1
      BY <1>13
    <3>2. walk[2] = Walked(Here, volume, walk[1], path[2])
      BY <1>11, <3>1
    <3>. QED  BY <2>5, <3>2 DEF Walked
  <2>7. finddir_fs(Here, volume, mount.last, path[2]).is = NONE
    BY <2>4 DEF finddir_fs, Not
  <2>8. Open(path).is = NONE
    BY <1>10, <1>11, <2>6, <2>7 DEF Further
  <2>. QED  BY <2>8 DEF NONE, path
<1>14. CASE d = 2
  <2>1. tree[i].path = path
    BY <1>3, <1>12, <1>14
  <2>2. MountOk(Here.disks, tree[i])
    BY <1>1
  <2>3. \E u \in 1 .. 4 : Here.disks[u] # <<>> /\ tree[i].file = ata_device_create(u, Here.disks[u])
    BY <1>4, <1>5, <2>1, <2>2 DEF MountOk
  <2>4. Open(path).node = tree[i].file
    BY <1>10, <1>11, <1>12, <1>14
  <2>. QED  BY <2>3, <2>4 DEF path
<1>. QED  BY <1>9, <1>13, <1>14

LEMMA MountInitrdPlaces ==
    ASSUME MountInitrd
    PROVE  fs_root(tree') = NULL
<1> DEFINE dev == <<"dev">>
           initrd == <<"dev", "initrd">>
           first == vfs_mount(init_vfs, dev, vfs_mapper(dev))
<1>1. /\ IsSeq(dev) /\ IsSeq(initrd) /\ Len(dev) = 1 /\ Len(initrd) = 2
      /\ \A k \in 0 .. 0 : Prefix(dev, k) = <<>>
      /\ \A k \in 0 .. 1 : Prefix(initrd, k) \in {<<>>, <<"dev">>}
  BY DevIs
<1>2. tree' = vfs_mount(first, initrd, initrd_root)
  BY DEF MountInitrd
<1>3. ~IsShared(vfs_mapper(dev))
  BY NullIsNot DEF IsShared, vfs_mapper
<1>4. fs_root(init_vfs) = NULL
  <2> DEFINE e == Entry(<<>>, NULL)
  <2>1. init_vfs = <<e>> /\ e.path = <<>> /\ e.file = NULL
    BY DEF init_vfs, binary_tree_set_root, binary_tree_create, Entry
  <2> HIDE DEF e
  <2>2. \A i \in DOMAIN init_vfs : init_vfs[i] = e
    BY <2>1
  <2>3. Known(init_vfs, <<>>)
    BY FirstTree DEF IsTree
  <2>. QED  BY <2>1, <2>2, <2>3, FileAtKnown DEF fs_root
<1> DEFINE none == init_vfs
           mapper == vfs_mapper(dev)
<1>5. \A k \in 0 .. Len(dev) - 1 : Known(none, Prefix(dev, k))
  BY <1>1, FirstTree DEF IsTree
<1>6. IsTree(none) /\ fs_root(none) = NULL /\ ~IsShared(mapper)
  BY <1>3, <1>4, FirstTree
<1>7. first = vfs_mount(none, dev, mapper)
  OBVIOUS
<1>8. dev = <<"dev">>
  OBVIOUS
<1> HIDE DEF dev, initrd, none, mapper, first
<1>9. dev # <<>> /\ initrd # <<>>
  BY <1>1, EmptyIs
<1>10. /\ IsTree(first) /\ fs_root(first) = NULL /\ Known(first, dev)
  BY <1>1, <1>5, <1>6, <1>7, <1>9, MountIsTree, RootAfter, MountShape
<1>11. \A k \in 0 .. Len(initrd) - 1 : Known(first, Prefix(initrd, k))
  BY <1>1, <1>8, <1>10 DEF IsTree
<1>12. fs_root(vfs_mount(first, initrd, initrd_root)) = NULL
  BY <1>1, <1>9, <1>10, <1>11, RootAfter
<1>. QED  BY <1>2, <1>12

LEMMA ScanPciPlaces ==
    ASSUME FilesInv, MountsInv, PlacesInv, ScanPci
    PROVE  /\ fs_root(tree') = NULL
           /\ Here'.disks[1] # <<>> => Known(tree', DiskPath(1))
<1> DEFINE disks == DisksAt(Hardware, ata_controller(Hardware.pci))
           t1 == WithDisk(tree, disks, 1)
           t2 == WithDisk(t1, disks, 2)
           t3 == WithDisk(t2, disks, 3)
           t4 == WithDisk(t3, disks, 4)
           Stands(t) == IsTree(t) /\ Known(t, <<"dev">>) /\ fs_root(t) = NULL
           Has(t) == disks[1] # <<>> => Known(t, DiskPath(1))
<1>1. Here'.disks = disks
  <2>1. Hardware' = Hardware /\ controller' = ata_controller(Hardware.pci)
    BY DEF ScanPci, Hardware
  <2>. QED  BY <2>1 DEF Here, Seen
<1>2. tree' = t4
  BY DEF ScanPci, WithDisks
<1>3. Stands(tree)
  BY DEF FilesInv, BootInv, MountsInv, MountsOk, PlacesInv, ScanPci, At
<1> HIDE DEF disks
<1>4. Stands(t1) /\ Has(t1)
  BY <1>3, WithDiskIsTree, WithDiskRoot
<1> HIDE DEF t1
<1>5. Stands(t2) /\ Has(t2)
  BY <1>4, WithDiskIsTree, WithDiskRoot
<1> HIDE DEF t2
<1>6. Stands(t3) /\ Has(t3)
  BY <1>5, WithDiskIsTree, WithDiskRoot
<1> HIDE DEF t3
<1>7. Stands(t4) /\ Has(t4)
  BY <1>6, WithDiskIsTree, WithDiskRoot
<1>. QED  BY <1>1, <1>2, <1>7

\* A disk that the search finds says where its partition is.
LEMMA BootRecord ==
    ASSUME FilesInv, MountsInv, pc # "vfs", Open(DiskPath(1)).is = "node"
    PROVE  ActivePartition(FirstSector(Open(DiskPath(1)).node)) \in Nat
<1> DEFINE node == Open(DiskPath(1)).node
<1>1. PICK u \in 1 .. 4 : Here.disks[u] # <<>> /\ node = ata_device_create(u, Here.disks[u])
  BY DiskOpen
<1> HIDE DEF node
<1> DEFINE disk == Here.disks[u]
<1>2. node.fs = "ata" /\ node.inode = u
  BY <1>1, NullIsNot DEF ata_device_create
<1>3. FirstSector(node) = read_ata_bytes(disk, 0, SECTOR).bytes
  BY <1>2 DEF FirstSector, read_fs
<1>4. WholeDisk(disk) /\ disk # <<>>
  BY <1>1, WholeDisks
<1> HIDE DEF disk
<1>5. ActivePartition(FirstSector(node)) \in Nat
  BY <1>3, <1>4, ActiveIs
<1>. QED  BY <1>5 DEF node

LEMMA MountDiskPlaces ==
    ASSUME FilesInv, MountsInv, PlacesInv, MountDisk
    PROVE  /\ VolumeOk(volume') /\ RootOk(Here.disks[1], fs_root(tree'))
           /\ Here.disks[1] # <<>> => Known(tree', DiskPath(1))
<1> DEFINE hda == Open(DiskPath(1))
           disk == Here.disks[1]
           lba == ActivePartition(FirstSector(hda.node))
           found == init_fat32(disk, lba)
<1>1. /\ VolumeOk(volume) /\ RootOk(disk, fs_root(tree))
      /\ disk # <<>> => Known(tree, DiskPath(1))
      /\ IsTree(tree)
  BY DEF PlacesInv, FilesInv, BootInv, MountDisk, At
<1>2. MountOn(hda)
  BY DEF MountDisk, Open
<1>3. CASE hda.is # "node"
  <2>1. tree' = tree /\ volume' = volume
    BY <1>2, <1>3 DEF MountOn
  <2>. QED  BY <1>1, <2>1
<1>4. CASE hda.is = "node"
  <2>1. MountFound(found)
    BY <1>2, <1>4 DEF MountOn
  <2>2. lba \in Nat
    BY <1>4, BootRecord DEF MountDisk, At
  <2>3. WholeDisk(disk)
    BY WholeDisks
  <2> HIDE DEF lba, disk, hda
  <2>4. /\ found.is \in {NONE, "hang", "volume"}
        /\ found.is = "volume" => VolumeOk(found.volume) /\ StartsAt(disk, found.volume.root)
    BY <2>2, <2>3, InitFat
  <2> HIDE DEF found
  <2>5. CASE found.is # "volume"
    <3>1. tree' = tree /\ volume' = volume
      BY <2>1, <2>4, <2>5 DEF MountFound
    <3>. QED  BY <1>1, <3>1 DEF disk
  <2>6. CASE found.is = "volume"
    <3> DEFINE root == <<>>
               file == fat32_create_fs_node(found.volume)
    <3>1. volume' = found.volume /\ tree' = vfs_mount(tree, root, file)
      BY <2>1, <2>6 DEF MountFound, NONE
    <3>2. IsSeq(root) /\ \A k \in 0 .. Len(root) - 1 : Known(tree, Prefix(root, k))
      BY EmptyIs
    <3>3. RootOk(disk, file)
      BY <2>4, <2>6 DEF RootOk
    <3> HIDE DEF root, file
    <3>4. fs_root(tree') \in {fs_root(tree), file} /\ \A p : Known(tree, p) => Known(tree', p)
      BY <1>1, <3>1, <3>2, RootAfter, MountShape
    <3>. QED  BY <1>1, <2>4, <2>6, <3>1, <3>3, <3>4 DEF disk
  <2>. QED  BY <2>5, <2>6
<1>. QED  BY <1>3, <1>4

LEMMA PlacesStep ==
    ASSUME FilesInv, MountsInv, PlacesInv, [FilesNext]_filesVars
    PROVE  PlacesInv'
<1>1. CASE UNCHANGED <<machine, controller, tree, volume, pc>>
  <2>1. Here' = Here
    BY <1>1, StaysHere
  <2>. QED  BY <1>1, <2>1 DEF PlacesInv
<1>2. CASE InitAcpi
  <2>1. UNCHANGED <<machine, controller, tree, volume>> /\ pc = "acpi" /\ pc' = "pci"
    BY <1>2 DEF InitAcpi, At
  <2>2. Here' = Here
    BY <2>1, StaysHere
  <2>. QED  BY <2>1, <2>2 DEF PlacesInv
<1>3. CASE RunInit
  <2>1. UNCHANGED <<machine, controller, tree, volume>> /\ pc = "run" /\ pc' = "user"
    BY <1>3 DEF RunInit, At
  <2>2. Here' = Here
    BY <2>1, StaysHere
  <2>. QED  BY <2>1, <2>2 DEF PlacesInv
<1>4. CASE MountInitrd
  <2>1. volume' = volume /\ pc' = "acpi"
    BY <1>4 DEF MountInitrd, At
  <2>2. fs_root(tree') = NULL
    BY <1>4, MountInitrdPlaces
  <2>. QED  BY <2>1, <2>2 DEF PlacesInv, RootOk
<1>5. CASE ScanPci
  <2>1. volume' = volume /\ pc' = "disk"
    BY <1>5 DEF ScanPci, At
  <2>2. /\ fs_root(tree') = NULL
        /\ Here'.disks[1] # <<>> => Known(tree', DiskPath(1))
    BY <1>5, ScanPciPlaces
  <2>. QED  BY <2>1, <2>2 DEF PlacesInv, RootOk
<1>6. CASE MountDisk
  <2>1. UNCHANGED <<machine, controller>> /\ pc' = "run"
    BY <1>6 DEF MountDisk, At
  <2>2. Here' = Here
    BY <2>1 DEF Here, Hardware
  <2>3. /\ VolumeOk(volume') /\ RootOk(Here.disks[1], fs_root(tree'))
        /\ Here.disks[1] # <<>> => Known(tree', DiskPath(1))
    BY <1>6, MountDiskPlaces
  <2>. QED  BY <2>1, <2>2, <2>3 DEF PlacesInv
<1>7. CASE UNCHANGED filesVars
  <2>1. UNCHANGED <<machine, controller, tree, volume, pc>>
    BY <1>7 DEF filesVars, bootVars
  <2>. QED  BY <1>1, <2>1
<1>8. ASSUME NEW s \in Slots,
             \/ \E input \in Hardware.asks : \/ \E append \in BOOLEAN : sys_open(s, input, append)
                                             \/ \E pid \in Slots : sys_chdir(s, input, pid)
                                             \/ create_process(s, input)
             \/ \E fd \in Fds : \/ sys_close(s, fd) \/ sys_stat(s, fd) \/ sys_write_fs(s, fd)
                                \/ \E size \in Hardware.sizes : sys_read_fs(s, fd, size)
                                \/ \E index \in 1 .. MaxFds : sys_readdir(s, fd, index)
             \/ \E pid \in Slots : kill(s, pid)
             \/ sys_shutdown(s) \/ sys_reboot(s)
      PROVE  PlacesInv'
  <2>1. UNCHANGED <<machine, controller, tree, volume, pc>>
    BY <1>8 DEF sys_open, sys_chdir, create_process, sys_close, sys_stat, sys_write_fs, Looks,
                sys_read_fs, sys_readdir, kill, sys_shutdown, sys_reboot, bootVars
  <2>. QED  BY <1>1, <2>1
<1>. QED  BY <1>2, <1>3, <1>4, <1>5, <1>6, <1>7, <1>8 DEF FilesNext

\* Where there is a first disk it is mounted before kernel_main opens it, and the
\* only root there is is the FAT32 volume found on it, whose directory is kept at
\* a cluster that the disk names (ata_init, init_fat32, kernel_main).
THEOREM PlacesInvariant == FilesSpec => []PlacesInv
<1>1. FilesInit => PlacesInv
  <2> SUFFICES ASSUME FilesInit PROVE PlacesInv
    OBVIOUS
  <2>1. VolumeOk(volume) /\ pc = "vfs"
    BY DEF FilesInit, NoVolume, VolumeOk
  <2>. QED  BY <2>1 DEF PlacesInv
<1>2. FilesInv /\ MountsInv /\ PlacesInv /\ [FilesNext]_filesVars => PlacesInv'
  BY PlacesStep
<1>. QED  BY <1>1, <1>2, FilesInvariant, MountsInvariant, PTL DEF FilesSpec

-----------------------------------------------------------------------------
(* What searches come to.                                                  *)

\* A node of FAT32 is kept, and was found, at clusters that the disk names; a
\* search without an end is one of a chain that runs into itself.
FatOk(disk, node) ==
    node.fs = "fat32" => StartsAt(disk, node.inode) /\ StartsAt(disk, node.parent)
Reaches(disk, found) ==
    /\ found.is = "hang" => ~Sound(disk)
    /\ found.is = "node" => FatOk(disk, found.node)

LEMMA StepReaches ==
    ASSUME NEW m, WholeDisk(m.disks[1]), NEW v, VolumeOk(v), NEW node, FatOk(m.disks[1], node), NEW name
    PROVE  Reaches(m.disks[1], finddir_fs(m, v, node, name))
<1> DEFINE disk == m.disks[1]
           raw == fat32_finddir_raw(disk, v, node.inode, Parts[name])
           found == finddir_fs(m, v, node, name)
<1>1. CASE node.flags = "directory" /\ node.fs = "initrd"
  <2>1. found = initrd_finddir(m, name)
    BY <1>1 DEF finddir_fs
  <2>2. \/ found = Not(NONE)
        \/ \E i, length : found = Found(Node("initrd", "file", i, 0, NoName, length))
    BY <2>1 DEF initrd_finddir
  <2> HIDE DEF found
  <2>. QED  BY <2>2, NullIsNot DEF Not, Found, NONE, Reaches, FatOk, found
<1>2. CASE node.flags = "directory" /\ node.fs = "fat32" /\ node.inode # 0
  <2>1. found = NodeOf(raw, node)
    BY <1>2 DEF finddir_fs, fat32_finddir
  <2>2. StartsAt(disk, node.inode)
    BY <1>2 DEF FatOk
  <2>3. /\ raw.is = "hang" => ~Sound(disk)
        /\ raw.is = "entry" => StartsAt(disk, raw.entry.cluster)
        /\ raw.is \in {NONE, "wild", "hang", "entry"}
    BY <2>2, RawOn, RawSane
  <2> HIDE DEF raw, disk, found
  <2>4. raw.is # "entry" => Reaches(disk, found)
    BY <2>1, <2>3 DEF NodeOf, Not, Reaches, NONE
  <2>5. raw.is = "entry" /\ ~raw.entry.dated => Reaches(disk, found)
    BY <2>1 DEF NodeOf, Not, Reaches, NONE
  <2>6. ASSUME raw.is = "entry", raw.entry.dated PROVE Reaches(disk, found)
    <3> DEFINE new == Node("fat32", raw.entry.attribute, raw.entry.cluster, node.inode,
                           fat32_get_entry_name(raw.entry), raw.entry.size)
    <3>1. found = Found(new)
      BY <2>1, <2>6 DEF NodeOf
    <3>2. new.inode = raw.entry.cluster /\ new.parent = node.inode
      BY DEF Node
    <3> HIDE DEF new
    <3>. QED  BY <2>2, <2>3, <2>6, <3>1, <3>2 DEF Found, Reaches, FatOk
  <2>7. Reaches(disk, found)
    BY <2>4, <2>5, <2>6
  <2>. QED  BY <2>7 DEF disk, found
<1>3. CASE ~(node.flags = "directory" /\ node.fs \in {"initrd", "fat32"})
          \/ (node.flags = "directory" /\ node.fs = "fat32" /\ node.inode = 0)
  <2>1. found = Not(NONE)
    BY <1>3 DEF finddir_fs, fat32_finddir
  <2>. QED  BY <2>1 DEF Not, Reaches, NONE
<1>. QED  BY <1>1, <1>2, <1>3

LEMMA MountReaches ==
    ASSUME FilesInv, MountsInv, PlacesInv, pc # "vfs", NEW path, Known(tree, path)
    PROVE  FatOk(Here.disks[1], FileAt(tree, path))
<1> DEFINE disk == Here.disks[1]
           disks == Here.disks
<1>1. PICK i \in DOMAIN tree : tree[i].path = path /\ FileAt(tree, path) = tree[i].file
  BY FileAtKnown
<1>2. MountOk(disks, tree[i])
  BY DEF MountsInv, MountsOk
<1>3. RootOk(disk, fs_root(tree))
  BY DEF PlacesInv
<1>4. CASE path = <<>>
  <2>1. tree[i].file = fs_root(tree)
    BY <1>1, <1>4 DEF fs_root
  <2>2. CASE fs_root(tree) = NULL
    BY <1>1, <2>1, <2>2, NullIsNot DEF FatOk, NONE
  <2>3. ASSUME NEW v, StartsAt(disk, v.root), fs_root(tree) = fat32_create_fs_node(v)
        PROVE  FatOk(disk, tree[i].file)
    <3>1. tree[i].file.inode = v.root /\ tree[i].file.parent = 0
      BY <2>1, <2>3 DEF fat32_create_fs_node, Node
    <3>2. StartsAt(disk, 0)
      BY DEF StartsAt
    <3> HIDE DEF disk
    <3>. QED  BY <2>3, <3>1, <3>2 DEF FatOk
  <2>. QED  BY <1>1, <1>3, <2>2, <2>3 DEF RootOk
<1>5. CASE path # <<>>
  <2>1. tree[i].file.fs # "fat32"
    <3> HIDE DEF disks
    <3>. QED  BY <1>1, <1>2, <1>5, NullIsNot DEF MountOk, vfs_mapper, initrd_root, ata_device_create
  <2>. QED  BY <1>1, <2>1 DEF FatOk
<1>. QED  BY <1>4, <1>5

LEMMA OpenReaches ==
    ASSUME FilesInv, MountsInv, PlacesInv, pc # "vfs", NEW path, IsSeq(path)
    PROVE  Reaches(Here.disks[1], Open(path))
<1> DEFINE mount == get_mount_point(tree, path)
           disk == Here.disks[1]
           found == Open(path)
<1>1. IsTree(tree) /\ WholeDisk(disk) /\ VolumeOk(volume)
  BY WholeDisks DEF FilesInv, BootInv, PlacesInv
<1>2. Climbing(tree, path, Len(path), mount)
  BY <1>1, MountPoint
<1>3. found.is \in {"wild", NONE} \/ found = WalkFrom(Here, volume, mount, path)
  BY DEF Open, kopen
<1>4. /\ mount.depth \in 0 .. Len(path) /\ Len(path) \in Nat
      /\ mount.last = FileAt(tree, Prefix(path, mount.depth)) /\ Known(tree, Prefix(path, mount.depth))
  BY <1>2, SeqBasics DEF Climbing
<1>5. FatOk(disk, mount.last)
  BY <1>4, MountReaches
<1>6. PICK walk : Walks(Here, volume, mount, path, walk)
  BY <1>4, WalkSteps
<1> DEFINE d == mount.depth
           N == Len(path)
           S == {n \in Nat : d + n <= N => Reaches(disk, walk[d + n])}
<1>7. /\ WalkFrom(Here, volume, mount, path) = walk[N]
      /\ walk[d] = [is |-> "node", node |-> mount.last, freed |-> {}]
      /\ \A i \in d + 1 .. N : walk[i] = Walked(Here, volume, walk[i - 1], path[i])
  BY <1>6 DEF Walks
<1>8. N \in Nat /\ d \in 0 .. N
  BY <1>4
<1> HIDE DEF d, N, found
<1>9. 0 \in S
  <2>1. walk[d].is = "node" /\ walk[d].node = mount.last
    BY <1>7
  <2>2. Reaches(disk, walk[d])
    BY <1>5, <2>1 DEF Reaches
  <2> HIDE DEF disk
  <2>. QED  BY <1>8, <2>2
<1>10. ASSUME NEW n \in S PROVE n + 1 \in S
  <2> SUFFICES ASSUME d + (n + 1) <= N PROVE Reaches(disk, walk[d + (n + 1)])
    OBVIOUS
  <2> DEFINE k == d + (n + 1)
             left == walk[k - 1]
             next == finddir_fs(Here, volume, left.node, path[k])
  <2>1. k \in d + 1 .. N /\ k - 1 = d + n /\ d + n <= N
    BY <1>8
  <2>2. Reaches(disk, left)
    BY <2>1
  <2>3. walk[k] = Walked(Here, volume, left, path[k])
    BY <1>7, <2>1
  <2>4. CASE left.is # "node"
    BY <2>2, <2>3, <2>4 DEF Walked
  <2>5. CASE left.is = "node"
    <3>1. FatOk(disk, left.node)
      BY <2>2, <2>5 DEF Reaches
    <3>2. Reaches(disk, next)
      BY <1>1, <3>1, StepReaches
    <3>3. walk[k] = Further(left, next)
      BY <2>3, <2>5 DEF Walked
    <3> HIDE DEF next, left, disk
    <3>. QED  BY <3>2, <3>3 DEF Further, Reaches
  <2>. QED  BY <2>4, <2>5
<1>11. N - d \in S
  <2>1. S \in SUBSET Nat
    OBVIOUS
  <2> HIDE DEF S
  <2>2. S = Nat
    BY <1>9, <1>10, <2>1, AllNaturals
  <2>. QED  BY <1>8, <2>2
<1>12. Reaches(disk, walk[N])
  BY <1>8, <1>11
<1>13. CASE found = WalkFrom(Here, volume, mount, path)
  BY <1>7, <1>12, <1>13 DEF found
<1>14. CASE found.is \in {"wild", NONE}
  BY <1>14 DEF Reaches, NONE, found
<1>. QED  BY <1>3, <1>13, <1>14

\* The search of the root's own name finds what is mounted there.
LEMMA RootOpen ==
    ASSUME FilesInv, MountsInv, PlacesInv, pc # "vfs", NEW path, path = <<>>
    PROVE  \/ Open(path).is = "node" /\ Open(path).node = fs_root(tree)
           \/ Named(path) = NULL
<1> DEFINE found == Open(path)
           mount == get_mount_point(tree, path)
           N == Len(path)
<1>1. IsTree(tree) /\ IsSeq(path) /\ N = 0 /\ Prefix(path, 0) = <<>>
  BY EmptyIs, WholePrefix DEF FilesInv, BootInv
<1>2. Deepest(path) = 0 /\ mount.depth = 0
  <2>1. Deepest(path) = mount.depth /\ Deepest(path) \in 0 .. N
    BY <1>1, DeepestIs
  <2> HIDE DEF mount, N
  <2>. QED  BY <1>1, <2>1
<1>3. CASE fs_root(tree) # NULL
  <2>1. mount.last = fs_root(tree)
    BY <1>1, <1>2, DeepestIs DEF fs_root
  <2>2. found = WalkFrom(Here, volume, mount, path)
    BY <1>3, <2>1 DEF Open, kopen
  <2>3. mount.depth \in 0 .. Len(path)
    BY <1>1, <1>2
  <2>4. PICK walk : Walks(Here, volume, mount, path, walk)
    BY <1>1, <2>3, WalkSteps
  <2>5. found = walk[N] /\ walk[mount.depth] = [is |-> "node", node |-> mount.last, freed |-> {}]
    BY <2>2, <2>4 DEF Walks
  <2> HIDE DEF mount, N, found
  <2>6. found.is = "node" /\ found.node = fs_root(tree)
    BY <1>1, <1>2, <2>1, <2>5
  <2>. QED  BY <2>6 DEF found
<1>4. CASE fs_root(tree) = NULL
  <2>1. 0 \in 0 .. Len(path)
    BY <1>1
  <2>2. NamedTo(path, 0)[0] = FileAt(tree, Prefix(path, 0))
    BY <1>1, <2>1, NamedSteps
  <2>3. Named(path) = NULL
    BY <1>1, <1>2, <1>4, <2>2 DEF Named, fs_root
  <2>. QED  BY <2>3
<1>. QED  BY <1>3, <1>4

LEMMA OpenStops ==
    ASSUME FilesInv, MountsInv, PlacesInv, pc # "vfs", NEW path, IsSeq(path)
    PROVE  /\ Open(path).is = "hang" => ~Sound(Here.disks[1])
           /\ Open(path).is = "wild" => ~Plain(path) \/ (path = <<>> /\ Named(path) = NULL)
<1> DEFINE found == Open(path)
<1>1. found.is = "hang" => ~Sound(Here.disks[1])
  BY OpenReaches DEF Reaches
<1>2. CASE path # <<>>
  <2>1. Plain(path) => found.is \in {"node", NONE}
    BY <1>2, OpenExact DEF Tried
  <2> HIDE DEF found
  <2>2. found.is = "wild" => ~Plain(path)
    BY <2>1 DEF NONE
  <2>. QED  BY <1>1, <2>2 DEF found
<1>3. CASE path = <<>>
  <2>1. Open(path).is = "node" \/ Named(path) = NULL
    BY <1>3, RootOpen
  <2>. QED  BY <1>1, <1>3, <2>1
<1>. QED  BY <1>2, <1>3

LEMMA FatStops ==
    ASSUME NEW disk, WholeDisk(disk), NEW v, VolumeOk(v), NEW node, node.fs = "fat32",
           FatOk(disk, node), NEW from, NEW size
    PROVE  /\ fat32_read(disk, v, node, from, size).is \in {"bytes", "hang", "wild"}
           /\ fat32_read(disk, v, node, from, size).is = "hang" => ~Sound(disk)
           /\ fat32_read(disk, v, node, from, size).is = "wild" => ~Tidy(disk, v, node.parent)
<1> DEFINE answer == fat32_read(disk, v, node, from, size)
           raw == fat32_finddir_raw(disk, v, node.parent, node.name)
           file == fat32_read_file(disk, v, raw.entry.cluster, from, size)
           chain == fat32_create_fat_cluster_chain(disk, v, raw.entry.cluster)
<1>1. /\ raw.is = "hang" => ~Sound(disk)
      /\ raw.is = "entry" => StartsAt(disk, raw.entry.cluster)
      /\ raw.is = "wild" => ~Tidy(disk, v, node.parent)
  <2>1. StartsAt(disk, node.parent)
    BY DEF FatOk
  <2>2. Tidy(disk, v, node.parent) => raw.is \in {NONE, "entry"}
    BY TidyStops
  <2> HIDE DEF raw
  <2>3. raw.is = "wild" => ~Tidy(disk, v, node.parent)
    BY <2>2 DEF NONE
  <2>. QED  BY <2>1, <2>3, RawOn DEF raw
<1>2. \/ answer = NoBytes
      \/ raw.is \in {"wild", "hang"} /\ answer = Fails(raw.is)
      \/ raw.is = "entry" /\ answer = file
  BY DEF fat32_read, ReadFound
<1>3. file.is = "bytes" \/ (chain = HANG /\ file = Fails("hang"))
  <2>1. file = Copied(disk, v, chain, from, size)
    BY DEF fat32_read_file
  <2> HIDE DEF chain, file
  <2>2. \/ Copied(disk, v, chain, from, size).is = "bytes"
        \/ chain = HANG /\ Copied(disk, v, chain, from, size) = Fails("hang")
    BY DEF Copied, NoBytes, Answer
  <2>. QED  BY <2>1, <2>2
<1>4. raw.is = "entry" /\ chain = HANG => ~Sound(disk)
  <2> HIDE DEF raw
  <2>. QED  BY <1>1, HangIsUnsound DEF VolumeOk
<1> HIDE DEF answer, raw, file, chain
<1>5. answer.is \in {"bytes", "hang", "wild"}
  BY <1>2, <1>3 DEF NoBytes, Answer, Fails
<1>6. answer.is = "hang" => ~Sound(disk)
  BY <1>1, <1>2, <1>3, <1>4 DEF NoBytes, Answer, Fails
<1>7. answer.is = "wild" => ~Tidy(disk, v, node.parent)
  BY <1>1, <1>2, <1>3 DEF NoBytes, Answer, Fails
<1>. QED  BY <1>5, <1>6, <1>7 DEF answer

\* A raw disk that a search finds is mounted at the path, which names it.
LEMMA RawIs ==
    ASSUME FilesInv, MountsInv, PlacesInv, pc # "vfs", NEW path, IsSeq(path),
           Open(path).is = "node", Open(path).node.fs = "ata"
    PROVE  /\ Named(path) = Open(path).node
           /\ \E u \in 1 .. 4 : /\ Here.disks[u] # <<>>
                                /\ Open(path).node = ata_device_create(u, Here.disks[u])
<1> DEFINE node == Open(path).node
           N == Len(path)
<1>1. PICK i \in DOMAIN tree : tree[i].path = path /\ node = tree[i].file
  <2>1. \A left, name : finddir_fs(Here, volume, left, name).is = "node" =>
            node # finddir_fs(Here, volume, left, name).node
    <3> TAKE left, name
    <3> HAVE finddir_fs(Here, volume, left, name).is = "node"
    <3> DEFINE found == finddir_fs(Here, volume, left, name)
    <3>1. \/ \E k \in DOMAIN Here.initrd : found.node =
                  Node("initrd", "file", k, 0, NoName, Here.initrd[k].length)
          \/ found.node.fs = "fat32"
      BY FoundFile
    <3> HIDE DEF found
    <3>2. found.node.fs # "ata"
      BY <3>1, NullIsNot
    <3>3. node # found.node
      BY <3>2
    <3>. QED  BY <3>3 DEF found
  <2>. QED  BY <2>1, OpenShape
<1> HIDE DEF node
<1>2. IsTree(tree) /\ MountOk(Here.disks, tree[i]) /\ node # NULL /\ node.fs = "ata"
  <2>1. node.fs = "ata"
    BY DEF node
  <2>2. node # NULL
    BY <2>1, NullIsNot DEF NONE
  <2>. QED  BY <2>1, <2>2 DEF MountsInv, MountsOk, FilesInv, BootInv
<1>3. path # <<>>
  <2>1. Known(tree, path)
    BY <1>1 DEF Known
  <2>2. PICK j \in DOMAIN tree : tree[j].path = path /\ FileAt(tree, path) = tree[j].file
    BY <2>1, FileAtKnown
  <2>3. i = j
    BY <1>1, <1>2, <2>2 DEF IsTree
  <2>4. path = <<>> => fs_root(tree) = node
    BY <1>1, <2>2, <2>3 DEF fs_root
  <2>5. RootOk(Here.disks[1], fs_root(tree))
    BY DEF PlacesInv
  <2>6. \A v : fat32_create_fs_node(v).fs = "fat32"
    BY DEF fat32_create_fs_node, Node
  <2>. QED  BY <1>2, <2>4, <2>5, <2>6 DEF RootOk
<1>4. \E u \in 1 .. 4 : Here.disks[u] # <<>> /\ node = ata_device_create(u, Here.disks[u])
  BY <1>1, <1>2, <1>3, NullIsNot DEF MountOk, vfs_mapper, initrd_root
<1>5. N \in Nat /\ N # 0 /\ Prefix(path, N) = path
  BY <1>3, SeqBasics, EmptyIs, SameSeq, WholePrefix
<1>6. Deepest(path) \in 0 .. N /\ N <= Deepest(path)
  <2>1. N \in 1 .. Len(path)
    BY <1>5
  <2>. QED  BY <1>1, <1>2, <1>5, <2>1, DeepestIs, MountAbove
<1>7. Deepest(path) = N
  BY <1>5, <1>6
<1>8. NamedTo(path, N)[N] = FileAt(tree, path)
  <2>1. N \in 0 .. Len(path)
    BY <1>5
  <2>2. NamedTo(path, N)[N] = FileAt(tree, Prefix(path, N))
    BY <2>1, NamedSteps
  <2>. QED  BY <1>5, <2>2
<1>9. FileAt(tree, path) = node
  <2>1. Known(tree, path)
    BY <1>1 DEF Known
  <2>2. PICK j \in DOMAIN tree : tree[j].path = path /\ FileAt(tree, path) = tree[j].file
    BY <2>1, FileAtKnown
  <2>. QED  BY <1>1, <1>2, <2>2 DEF IsTree
<1>10. Named(path) = node
  BY <1>7, <1>8, <1>9 DEF Named
<1>. QED  BY <1>4, <1>10 DEF node

\* The ways a read of what a search found comes to its end.
LEMMA ReadComes ==
    ASSUME FilesInv, MountsInv, PlacesInv, pc # "vfs", NEW path, IsSeq(path),
           Open(path).is = "node", NEW from, NEW size,
           Open(path).node.length \in Nat => from \in Nat /\ size \in Nat
    PROVE  /\ read_fs(Here, volume, Open(path).node, from, size).is \in {"bytes", "hang", "wild", "smash"}
           /\ read_fs(Here, volume, Open(path).node, from, size).is = "hang" => ~Sound(Here.disks[1])
           /\ read_fs(Here, volume, Open(path).node, from, size).is = "wild" =>
                ~Plain(path) \/ path = <<>>
           /\ read_fs(Here, volume, Open(path).node, from, size).is = "smash" =>
                Named(path) = Open(path).node /\ OutsideRaw(Open(path).node, from, size)
<1> DEFINE node == Open(path).node
           answer == read_fs(Here, volume, node, from, size)
           disk == Here.disks[1]
           Comes == /\ answer.is \in {"bytes", "hang", "wild", "smash"}
                    /\ answer.is = "hang" => ~Sound(disk)
                    /\ answer.is = "wild" => ~Plain(path) \/ path = <<>>
                    /\ answer.is = "smash" => Named(path) = node /\ OutsideRaw(node, from, size)
<1>1. ASSUME node.fs = "ata" PROVE Comes
  <2>1. PICK u \in 1 .. 4 : Here.disks[u] # <<>> /\ node = ata_device_create(u, Here.disks[u])
    BY <1>1, RawIs
  <2>2. Named(path) = node
    BY <1>1, RawIs
  <2> DEFINE raw == Here.disks[u]
  <2>3. answer = read_ata_bytes(raw, from, size)
    <3>1. node.inode = u
      BY <2>1 DEF ata_device_create, Node
    <3>. QED  BY <1>1, <3>1 DEF read_fs
  <2>4. Len(raw) \in Nat /\ node.length = Len(raw)
    <3>1. node.length = Len(raw)
      BY <2>1 DEF ata_device_create, Node, ata_max_offset
    <3>2. WholeDisk(raw)
      BY WholeDisks
    <3> HIDE DEF raw
    <3>. QED  BY <3>1, <3>2, DiskIs
  <2>5. from \in Nat /\ size \in Nat
    BY <2>4
  <2>6. answer.is \in {"bytes", "smash"}
    BY <2>3 DEF read_ata_bytes, Filled, NoBytes, Answer, Fails
  <2> HIDE DEF node, answer, raw, disk
  <2>7. answer.is = "smash" => OutsideRaw(node, from, size)
    <3>1. CASE size = 0 \/ from + size > Len(raw)
      BY <1>1, <2>4, <3>1 DEF OutsideRaw
    <3>2. CASE size # 0 /\ from + size <= Len(raw)
      <4>1. size \in Nat \ {0}
        BY <2>5, <3>2
      <4>2. answer.is = "bytes"
        BY <2>3, <2>4, <2>5, <3>2, <4>1, RawAnswers
      <4>. QED  BY <4>2
    <3>. QED  BY <2>4, <2>5, <3>1, <3>2
  <2>. QED  BY <2>2, <2>6, <2>7
<1>2. ASSUME node.fs = "fat32" PROVE Comes
  <2>1. WholeDisk(disk) /\ VolumeOk(volume)
    BY WholeDisks DEF PlacesInv
  <2>2. FatOk(disk, node)
    BY OpenReaches DEF Reaches
  <2>3. answer = fat32_read(disk, volume, node, from, size)
    BY <1>2 DEF read_fs
  <2>4. Plain(path) /\ path # <<>> => Tidy(disk, volume, node.parent)
    BY <1>2, OpenExact DEF Tried
  <2> HIDE DEF node, answer, disk
  <2>5. /\ answer.is \in {"bytes", "hang", "wild"}
        /\ answer.is = "hang" => ~Sound(disk)
        /\ answer.is = "wild" => ~Tidy(disk, volume, node.parent)
    BY <1>2, <2>1, <2>2, <2>3, FatStops
  <2>6. answer.is # "smash"
    BY <2>5
  <2>. QED  BY <2>4, <2>5, <2>6
<1>3. ASSUME node.fs \notin {"ata", "fat32"} PROVE Comes
  <2>1. \/ answer = initrd_read(Here, node, from, size)
        \/ answer = NoBytes
    BY <1>3 DEF read_fs
  <2> HIDE DEF answer, node
  <2>2. answer.is = "bytes"
    BY <2>1 DEF initrd_read, NoBytes, Answer
  <2>. QED  BY <2>2
<1>4. Comes
  BY <1>1, <1>2, <1>3
<1>. QED  BY <1>4

\* The loading of a file reads all of it, so never outside.
LEMMA LoadComes ==
    ASSUME FilesInv, MountsInv, PlacesInv, pc # "vfs", NEW path, IsSeq(path),
           Open(path).is = "node", Open(path).node.flags # "directory"
    PROVE  /\ read_fs(Here, volume, Open(path).node, 0, Open(path).node.length).is \in
                {"bytes", "hang", "wild"}
           /\ read_fs(Here, volume, Open(path).node, 0, Open(path).node.length).is = "hang" =>
                ~Sound(Here.disks[1])
           /\ read_fs(Here, volume, Open(path).node, 0, Open(path).node.length).is = "wild" =>
                ~Plain(path)
<1> DEFINE node == Open(path).node
           answer == read_fs(Here, volume, node, 0, node.length)
           disk == Here.disks[1]
<1>1. path # <<>>
  <2> SUFFICES ASSUME path = <<>> PROVE FALSE
    OBVIOUS
  <2>1. node = fs_root(tree) \/ Named(path) = NULL
    BY RootOpen
  <2>2. node # NULL
    BY OpenSane DEF Sane
  <2>3. node.flags # "directory"
    OBVIOUS
  <2>4. RootOk(disk, fs_root(tree))
    BY DEF PlacesInv
  <2>5. \A v : fat32_create_fs_node(v).flags = "directory"
    BY DEF fat32_create_fs_node, Node
  <2>6. Named(path) # NULL
    <3>1. Plain(path)
      <4>1. Len(path) = 0 /\ IsTree(tree)
        BY EmptyIs DEF FilesInv, BootInv
      <4>2. Deepest(path) \in 0 .. Len(path)
        BY <4>1, DeepestIs
      <4>3. Deepest(path) .. Len(path) - 1 = {}
        BY <4>1, <4>2
      <4>. QED  BY <4>3 DEF Plain
    <3>. QED  BY <3>1, OpenExact DEF Agrees
  <2> HIDE DEF node, disk
  <2>. QED  BY <2>1, <2>2, <2>3, <2>4, <2>5, <2>6 DEF RootOk
<1>2. node.length \in Nat => 0 \in Nat /\ node.length \in Nat
  OBVIOUS
<1>3. /\ answer.is \in {"bytes", "hang", "wild", "smash"}
      /\ answer.is = "hang" => ~Sound(disk)
      /\ answer.is = "wild" => ~Plain(path) \/ path = <<>>
      /\ answer.is = "smash" => OutsideRaw(node, 0, node.length)
  BY <1>2, ReadComes
<1>4. ~OutsideRaw(node, 0, node.length)
  <2> SUFFICES ASSUME node.fs = "ata" PROVE ~(node.length = 0 \/ 0 + node.length > node.length)
    BY DEF OutsideRaw
  <2>1. PICK u \in 1 .. 4 : Here.disks[u] # <<>> /\ node = ata_device_create(u, Here.disks[u])
    BY RawIs
  <2> DEFINE raw == Here.disks[u]
  <2>2. node.length = Len(raw) /\ raw # <<>>
    BY <2>1 DEF ata_device_create, Node, ata_max_offset
  <2>3. WholeDisk(raw)
    BY WholeDisks
  <2> HIDE DEF node, raw
  <2>4. Len(raw) \in Nat /\ IsSeq(raw)
    BY <2>3, DiskIs DEF WholeDisk, IsSeq
  <2>5. Len(raw) # 0
    <3>1. raw \in Seq(Units(raw))
      BY <2>3 DEF WholeDisk
    <3>. QED  BY <2>2, <3>1
  <2>. QED  BY <2>2, <2>4, <2>5
<1> HIDE DEF node, answer, disk
<1>5. /\ answer.is \in {"bytes", "hang", "wild"}
      /\ answer.is = "hang" => ~Sound(disk)
      /\ answer.is = "wild" => ~Plain(path)
  BY <1>1, <1>3, <1>4
<1>. QED  BY <1>5 DEF answer, node, disk

-----------------------------------------------------------------------------
(* The scan of the buses.                                                  *)

Elements(s) == {s[i] : i \in DOMAIN s}

LEMMA ConcatElements ==
    ASSUME NEW T, NEW s \in Seq(T), NEW t \in Seq(T)
    PROVE  s \o t \in Seq(T) /\ Elements(s) \subseteq Elements(s \o t) /\ Elements(t) \subseteq Elements(s \o t)
<1>1. /\ s \o t \in Seq(T) /\ Len(s \o t) = Len(s) + Len(t)
      /\ \A i \in 1 .. Len(s) + Len(t) :
            (s \o t)[i] = IF i <= Len(s) THEN s[i] ELSE t[i - Len(s)]
  OBVIOUS
<1>2. /\ DOMAIN s = 1 .. Len(s) /\ DOMAIN t = 1 .. Len(t) /\ Len(s) \in Nat /\ Len(t) \in Nat
      /\ DOMAIN (s \o t) = 1 .. Len(s) + Len(t)
  BY <1>1
<1> DEFINE whole == s \o t
<1> HIDE DEF whole
<1>3. ASSUME NEW i \in DOMAIN s PROVE s[i] \in Elements(whole)
  <2>1. i \in DOMAIN whole /\ whole[i] = s[i]
    BY <1>1, <1>2 DEF whole
  <2>. QED  BY <2>1 DEF Elements
<1>4. ASSUME NEW i \in DOMAIN t PROVE t[i] \in Elements(whole)
  <2>1. /\ Len(s) + i \in DOMAIN whole /\ ~(Len(s) + i <= Len(s)) /\ (Len(s) + i) - Len(s) = i
        /\ Len(s) + i \in 1 .. Len(s) + Len(t)
    BY <1>2 DEF whole
  <2>2. whole[Len(s) + i] = t[i]
    BY <1>1, <2>1 DEF whole
  <2>. QED  BY <2>1, <2>2 DEF Elements
<1>. QED  BY <1>1, <1>3, <1>4 DEF Elements, whole

\* A flattened sequence has the elements of all its parts.
LEMMA FlattenHas ==
    ASSUME NEW T, NEW s, IsSeq(s), \A i \in DOMAIN s : s[i] \in Seq(T)
    PROVE  /\ FlattenSeq(s) \in Seq(T)
           /\ \A i \in DOMAIN s : Elements(s[i]) \subseteq Elements(FlattenSeq(s))
<1>1. Len(s) \in Nat /\ DOMAIN s = 1 .. Len(s)
  BY SeqBasics
<1>2. CASE Len(s) = 0
  <2>1. DOMAIN s = {}
    BY <1>1, <1>2
  <2>2. s = <<>>
    BY <1>2, EmptyIs, SameSeq
  <2>3. FlattenSeq(<<>>) = <<>>
    BY EmptySeq DEF FlattenSeq
  <2>4. <<>> \in Seq(T)
    OBVIOUS
  <2>. QED  BY <2>1, <2>2, <2>3, <2>4
<1>3. CASE Len(s) # 0
  <2>1. PICK f : /\ FlattenSeq(s) = f[Len(s)] /\ f[1] = s[1]
                 /\ \A i \in 2 .. Len(s) : f[i] = f[i - 1] \o s[i]
    BY <1>3, FlattenSteps
  <2> DEFINE N == Len(s)
             Has(k) == f[k] \in Seq(T) /\ \A i \in 1 .. k : Elements(s[i]) \subseteq Elements(f[k])
             S == {k \in Nat : k + 1 <= N => Has(k + 1)}
  <2>2. N \in Nat /\ N # 0 /\ DOMAIN s = 1 .. N
    BY <1>1, <1>3
  <2> HIDE DEF N
  <2>3. 0 \in S
    <3>1. f[1] \in Seq(T) /\ \A i \in 1 .. 1 : Elements(s[i]) \subseteq Elements(f[1])
      BY <2>1, <2>2
    <3>2. 0 + 1 = 1
      OBVIOUS
    <3>. QED  BY <3>1, <3>2
  <2>4. ASSUME NEW k \in S PROVE k + 1 \in S
    <3> SUFFICES ASSUME k + 2 <= N PROVE Has(k + 2)
      <4>1. k + 1 \in Nat /\ (k + 1) + 1 = k + 2
        OBVIOUS
      <4> HIDE DEF Has
      <4>. QED  BY <4>1
    <3>1. /\ k + 2 \in 2 .. N /\ (k + 2) - 1 = k + 1 /\ k + 2 \in DOMAIN s
          /\ \A i \in 1 .. k + 2 : i = k + 2 \/ i \in 1 .. k + 1
      BY <2>2
    <3>2. Has(k + 1)
      BY <2>2
    <3>3. f[k + 2] = f[k + 1] \o s[k + 2]
      BY <2>1, <3>1 DEF N
    <3>4. s[k + 2] \in Seq(T)
      BY <3>1
    <3>5. /\ f[k + 2] \in Seq(T) /\ Elements(f[k + 1]) \subseteq Elements(f[k + 2])
          /\ Elements(s[k + 2]) \subseteq Elements(f[k + 2])
      BY <3>2, <3>3, <3>4, ConcatElements
    <3>. QED  BY <3>1, <3>2, <3>5
  <2>5. N - 1 \in S
    <3>1. S \in SUBSET Nat
      OBVIOUS
    <3> HIDE DEF S
    <3>2. S = Nat
      BY <2>3, <2>4, <3>1, AllNaturals
    <3>. QED  BY <2>2, <3>2
  <2>6. Has(N)
    <3>1. (N - 1) + 1 = N
      BY <2>2
    <3>2. (N - 1) + 1 <= N => Has((N - 1) + 1)
      BY <2>5
    <3> HIDE DEF Has
    <3>. QED  BY <2>2, <3>1, <3>2
  <2>. QED  BY <2>1, <2>2, <2>6 DEF N
<1>. QED  BY <1>2, <1>3

\* What a bus shows, and what is behind its bridges.
FoundOn(pci, bus) == FlattenSeq([d \in 1 .. PCI_DEVICE_N |-> pci_check_device(pci, bus, d - 1)])
Leads(pci, p) == pci[p].class = "bridge" /\ pci[p].secondary # 0
BehindOf(pci, below, deep, p) == IF Leads(pci, p) /\ deep THEN below[pci[p].secondary] ELSE <<>>
Level(pci, below, deep) ==
    [bus \in 0 .. PCI_BUSES - 1 |->
        FlattenSeq([i \in DOMAIN FoundOn(pci, bus) |->
                       <<FoundOn(pci, bus)[i]>> \o BehindOf(pci, below, deep, FoundOn(pci, bus)[i])])]

LEMMA ScanSteps ==
    ASSUME NEW pci
    PROVE  \E scan : /\ \A start : pci_check_bus(pci, start) = scan[PCI_BUSES][start]
                     /\ \A k \in 0 .. PCI_BUSES : scan[k] = Level(pci, scan[k - 1], k > 0)
<1> DEFINE N == PCI_BUSES
           Is(f, n) == f = [k \in 0 .. n |-> Level(pci, f[k - 1], k > 0)]
           Scan == CHOOSE f : Is(f, N)
<1>1. N \in Nat
  BY PciAssumption
<1>2. \A start : pci_check_bus(pci, start) = Scan[N][start]
  BY DEF pci_check_bus, Level, BehindOf, Leads, FoundOn
<1> HIDE DEF N, Scan
<1>3. Is(Scan, N)
  <2> DEFINE S == {n \in Nat : \E f : Is(f, n)}
  <2>1. 0 \in S
    <3> DEFINE g == [k \in 0 .. 0 |-> Level(pci, 0, FALSE)]
    <3>1. \A k \in 0 .. 0 : g[k] = Level(pci, g[k - 1], k > 0)
      <4>1. \A x, y : Level(pci, x, FALSE) = Level(pci, y, FALSE)
        BY DEF Level, BehindOf
      <4>2. \A k \in 0 .. 0 : k = 0 /\ (k > 0 <=> FALSE)
        OBVIOUS
      <4>3. g[0] = Level(pci, 0, FALSE)
        OBVIOUS
      <4> HIDE DEF g
      <4>4. Level(pci, g[0 - 1], 0 > 0) = Level(pci, g[0 - 1], FALSE)
        <5>1. (0 > 0) = FALSE
          OBVIOUS
        <5>. QED  BY <5>1
      <4>. QED  BY <4>1, <4>2, <4>3, <4>4
    <3>2. Is(g, 0)
      BY <3>1
    <3> HIDE DEF Is, g
    <3>. QED  BY <3>2
  <2>2. ASSUME NEW n \in S PROVE n + 1 \in S
    <3>1. PICK f : Is(f, n)
      OBVIOUS
    <3> DEFINE g == [k \in 0 .. n + 1 |-> IF k <= n THEN f[k] ELSE Level(pci, f[n], TRUE)]
    <3>2. \A k \in 0 .. n + 1 : g[k] = IF k <= n THEN f[k] ELSE Level(pci, f[n], TRUE)
      OBVIOUS
    <3>3. \A x, y : Level(pci, x, FALSE) = Level(pci, y, FALSE)
      BY DEF Level, BehindOf
    <3> HIDE DEF g
    <3>4. ASSUME NEW k \in 0 .. n + 1 PROVE g[k] = Level(pci, g[k - 1], k > 0)
      <4>1. CASE k = n + 1
        <5>1. k > 0 /\ ~(k <= n) /\ k - 1 = n /\ n \in 0 .. n + 1 /\ n <= n
          BY <4>1
        <5>2. g[k] = Level(pci, f[n], TRUE) /\ g[k - 1] = f[n]
          BY <3>2, <5>1
        <5>3. (k > 0) = TRUE
          BY <5>1
        <5>. QED  BY <5>2, <5>3
      <4>2. CASE k # n + 1
        <5>1. k \in 0 .. n /\ k <= n
          BY <4>2
        <5>2. g[k] = f[k]
          BY <3>2, <5>1
        <5>3. f[k] = Level(pci, f[k - 1], k > 0)
          <6> DEFINE h == [j \in 0 .. n |-> Level(pci, f[j - 1], j > 0)]
          <6>1. h[k] = Level(pci, f[k - 1], k > 0)
            BY <5>1
          <6>2. f = h
            BY <3>1
          <6> HIDE DEF h
          <6>. QED  BY <6>1, <6>2
        <5>4. CASE k = 0
          <6>1. (k > 0) = FALSE
            BY <5>4
          <6>. QED  BY <3>3, <5>2, <5>3, <6>1
        <5>5. CASE k # 0
          <6>1. k - 1 \in 0 .. n + 1 /\ k - 1 <= n
            BY <5>1, <5>5
          <6>2. g[k - 1] = f[k - 1]
            BY <3>2, <6>1
          <6>. QED  BY <5>2, <5>3, <6>2
        <5>. QED  BY <5>4, <5>5
      <4>. QED  BY <4>1, <4>2
    <3>5. Is(g, n + 1)
      <4>1. g = [k \in 0 .. n + 1 |-> Level(pci, g[k - 1], k > 0)]
        BY <3>4 DEF g
      <4>. QED  BY <4>1
    <3> HIDE DEF Is
    <3>. QED  BY <3>5
  <2>3. N \in S
    <3> HIDE DEF S
    <3>1. S \in SUBSET Nat
      BY DEF S
    <3>. QED  BY <1>1, <2>1, <2>2, <3>1, AllNaturals
  <2> HIDE DEF Is
  <2>. QED  BY <2>3 DEF Scan
<1>4. \A k \in 0 .. N : Scan[k] = Level(pci, Scan[k - 1], k > 0)
  <2> DEFINE g == [k \in 0 .. N |-> Level(pci, Scan[k - 1], k > 0)]
  <2>1. \A k \in 0 .. N : g[k] = Level(pci, Scan[k - 1], k > 0)
    OBVIOUS
  <2>2. Scan = g
    BY <1>3
  <2> HIDE DEF g
  <2>. QED  BY <2>1, <2>2
<1>. QED  BY <1>2, <1>4 DEF N

LEMMA DeviceShows ==
    ASSUME NEW pci, PciOk(pci), NEW b, NEW d
    PROVE  /\ pci_check_device(pci, b, d) \in Seq(DOMAIN pci)
           /\ \A p \in Shown(pci) : p[1] = b /\ p[2] = d => p \in Elements(pci_check_device(pci, b, d))
<1> DEFINE first == <<b, d, 0>>
           T == DOMAIN pci
           out == pci_check_device(pci, b, d)
           s == [f \in 1 .. PCI_FUNCTION_N |->
                    IF <<b, d, f - 1>> \in T THEN <<<<b, d, f - 1>>>> ELSE <<>>]
<1>1. \A p \in Shown(pci) : p[1] = b /\ p[2] = d =>
          /\ p = <<b, d, p[3]>> /\ p \in T /\ p[3] \in 0 .. PCI_FUNCTION_N - 1
          /\ first \in T /\ (p[3] = 0 \/ pci[first].multi)
  BY DEF Shown, PciOk
<1>2. CASE first \notin T
  <2>1. out = <<>>
    BY <1>2 DEF pci_check_device
  <2>2. <<>> \in Seq(T)
    OBVIOUS
  <2>. QED  BY <1>1, <1>2, <2>1, <2>2
<1>3. CASE first \in T /\ ~pci[first].multi
  <2>1. out = <<first>>
    BY <1>3 DEF pci_check_device
  <2>2. \A q : Elements(<<q>>) = {q}
    BY DEF Elements
  <2>3. \A p \in Shown(pci) : p[1] = b /\ p[2] = d => p = first
    BY <1>1, <1>3
  <2>4. <<first>> \in Seq(T)
    BY <1>3
  <2> HIDE DEF first, out
  <2>. QED  BY <2>1, <2>2, <2>3, <2>4 DEF out
<1>4. CASE first \in T /\ pci[first].multi
  <2>1. out = FlattenSeq(s)
    BY <1>4 DEF pci_check_device
  <2>2. IsSeq(s) /\ DOMAIN s = 1 .. PCI_FUNCTION_N
    <3>1. PCI_FUNCTION_N \in Nat
      BY PciAssumption
    <3>2. s = [f \in 1 .. PCI_FUNCTION_N |-> s[f]]
      OBVIOUS
    <3> HIDE DEF s
    <3>3. s \in Seq({s[f] : f \in 1 .. PCI_FUNCTION_N})
      BY <3>1, <3>2
    <3>. QED  BY <3>1, <3>2, <3>3 DEF IsSeq
  <2>3. \A f \in DOMAIN s : s[f] \in Seq(T)
    <3> TAKE f \in DOMAIN s
    <3>1. \A q : q \in T => <<q>> \in Seq(T)
      OBVIOUS
    <3>2. <<>> \in Seq(T)
      OBVIOUS
    <3>3. CASE <<b, d, f - 1>> \in T
      <4>1. s[f] = <<<<b, d, f - 1>>>>
        BY <2>2, <3>3
      <4> HIDE DEF s, T
      <4>. QED  BY <3>1, <3>3, <4>1
    <3>4. CASE <<b, d, f - 1>> \notin T
      <4>1. s[f] = <<>>
        BY <2>2, <3>4
      <4> HIDE DEF s, T
      <4>. QED  BY <3>2, <4>1
    <3>. QED  BY <3>3, <3>4
  <2>4. /\ FlattenSeq(s) \in Seq(T)
        /\ \A f \in DOMAIN s : Elements(s[f]) \subseteq Elements(FlattenSeq(s))
    <3> HIDE DEF s, T
    <3>. QED  BY <2>2, <2>3, FlattenHas
  <2>5. ASSUME NEW p \in Shown(pci), p[1] = b, p[2] = d PROVE p \in Elements(out)
    <3> DEFINE f == p[3] + 1
    <3>1. f \in DOMAIN s /\ f - 1 = p[3]
      <4>1. p[3] \in 0 .. PCI_FUNCTION_N - 1 /\ PCI_FUNCTION_N \in Nat
        BY <1>1, <2>5, PciAssumption
      <4> HIDE DEF s
      <4>. QED  BY <2>2, <4>1
    <3>2. s[f] = <<p>>
      <4>1. p = <<b, d, f - 1>> /\ p \in T
        BY <1>1, <2>5, <3>1
      <4>2. f \in 1 .. PCI_FUNCTION_N
        BY <2>2, <3>1
      <4>3. s[f] = IF <<b, d, f - 1>> \in T THEN <<<<b, d, f - 1>>>> ELSE <<>>
        BY <4>2
      <4> HIDE DEF f, s, T
      <4>. QED  BY <4>1, <4>3
    <3>3. p \in Elements(<<p>>)
      BY DEF Elements
    <3> HIDE DEF f, s, out
    <3>. QED  BY <2>1, <2>4, <3>1, <3>2, <3>3
  <2>. QED  BY <2>1, <2>4, <2>5
<1>. QED  BY <1>2, <1>3, <1>4

LEMMA FoundShows ==
    ASSUME NEW pci, PciOk(pci), NEW b
    PROVE  /\ FoundOn(pci, b) \in Seq(DOMAIN pci)
           /\ \A p \in Shown(pci) : p[1] = b => p \in Elements(FoundOn(pci, b))
<1> DEFINE T == DOMAIN pci
           s == [d \in 1 .. PCI_DEVICE_N |-> pci_check_device(pci, b, d - 1)]
<1>1. IsSeq(s) /\ DOMAIN s = 1 .. PCI_DEVICE_N
  <2>1. PCI_DEVICE_N \in Nat
    BY PciAssumption
  <2>2. s \in Seq({s[d] : d \in 1 .. PCI_DEVICE_N})
    BY <2>1
  <2>. QED  BY <2>1, <2>2 DEF IsSeq
<1>2. \A d \in DOMAIN s : s[d] = pci_check_device(pci, b, d - 1)
  BY <1>1
<1>3. FoundOn(pci, b) = FlattenSeq(s)
  BY DEF FoundOn
<1> HIDE DEF s
<1>4. \A d \in DOMAIN s : s[d] \in Seq(T)
  BY <1>2, DeviceShows
<1>5. /\ FlattenSeq(s) \in Seq(T)
      /\ \A d \in DOMAIN s : Elements(s[d]) \subseteq Elements(FlattenSeq(s))
  <2> HIDE DEF T
  <2>. QED  BY <1>1, <1>4, FlattenHas
<1>6. ASSUME NEW p \in Shown(pci), p[1] = b PROVE p \in Elements(FlattenSeq(s))
  <2>1. p[2] \in 0 .. PCI_DEVICE_N - 1 /\ PCI_DEVICE_N \in Nat
    BY <1>6, PciAssumption DEF Shown, PciOk
  <2>2. p[2] + 1 \in DOMAIN s /\ (p[2] + 1) - 1 = p[2]
    BY <1>1, <2>1
  <2>3. p \in Elements(pci_check_device(pci, b, p[2]))
    BY <1>6, DeviceShows
  <2>. QED  BY <1>2, <1>5, <2>2, <2>3
<1>. QED  BY <1>3, <1>5, <1>6

LEMMA LevelShows ==
    ASSUME NEW pci, PciOk(pci), NEW below, NEW deep \in BOOLEAN,
           deep => \A c \in 0 .. PCI_BUSES - 1 : below[c] \in Seq(DOMAIN pci),
           NEW b \in 0 .. PCI_BUSES - 1
    PROVE  /\ Level(pci, below, deep)[b] \in Seq(DOMAIN pci)
           /\ Elements(FoundOn(pci, b)) \subseteq Elements(Level(pci, below, deep)[b])
           /\ \A p \in Elements(FoundOn(pci, b)) : Leads(pci, p) /\ deep =>
                Elements(below[pci[p].secondary]) \subseteq Elements(Level(pci, below, deep)[b])
<1> DEFINE T == DOMAIN pci
           found == FoundOn(pci, b)
           behind(p) == BehindOf(pci, below, deep, p)
           s == [i \in DOMAIN found |-> <<found[i]>> \o behind(found[i])]
           out == Level(pci, below, deep)[b]
<1>1. out = FlattenSeq(s)
  BY DEF Level
<1>2. found \in Seq(T)
  BY FoundShows
<1>3. \A p \in T : pci[p].secondary \in 0 .. PCI_BUSES - 1
  BY DEF PciOk
<1>4. \A p \in T : behind(p) \in Seq(T)
  <2> TAKE p \in T
  <2>1. <<>> \in Seq(T)
    OBVIOUS
  <2>. QED  BY <1>3, <2>1 DEF BehindOf
<1> HIDE DEF found, behind, T, out
<1>5. Len(found) \in Nat /\ DOMAIN found = 1 .. Len(found) /\ \A i \in DOMAIN found : found[i] \in T
  BY <1>2
<1>6. IsSeq(s) /\ DOMAIN s = DOMAIN found
  <2>1. s \in Seq({s[i] : i \in DOMAIN found})
    BY <1>5
  <2>. QED  BY <2>1 DEF IsSeq
<1>7. \A i \in DOMAIN found : s[i] = <<found[i]>> \o behind(found[i])
  OBVIOUS
<1> HIDE DEF s
<1>8. ASSUME NEW i \in DOMAIN found
      PROVE  /\ s[i] \in Seq(T) /\ found[i] \in Elements(s[i])
             /\ Elements(behind(found[i])) \subseteq Elements(s[i])
  <2> DEFINE p == found[i]
             one == <<p>>
  <2>1. p \in T /\ behind(p) \in Seq(T) /\ s[i] = one \o behind(p)
    BY <1>4, <1>5, <1>7
  <2>2. one \in Seq(T) /\ p \in Elements(one)
    BY <2>1 DEF Elements
  <2> HIDE DEF one, p
  <2>3. /\ s[i] \in Seq(T) /\ p \in Elements(s[i])
        /\ Elements(behind(p)) \subseteq Elements(s[i])
    BY <2>1, <2>2, ConcatElements
  <2>. QED  BY <2>3 DEF p
<1>9. out \in Seq(T) /\ \A i \in DOMAIN s : Elements(s[i]) \subseteq Elements(out)
  <2>1. \A i \in DOMAIN s : s[i] \in Seq(T)
    BY <1>6, <1>8
  <2>. QED  BY <1>1, <1>6, <2>1, FlattenHas
<1>10. ASSUME NEW p \in Elements(found)
       PROVE  /\ p \in Elements(out)
              /\ Leads(pci, p) /\ deep => Elements(below[pci[p].secondary]) \subseteq Elements(out)
  <2>1. PICK i \in DOMAIN found : p = found[i]
    BY DEF Elements
  <2>2. p \in Elements(out) /\ Elements(behind(p)) \subseteq Elements(out)
    BY <1>6, <1>8, <1>9, <2>1
  <2>3. Leads(pci, p) /\ deep => behind(p) = below[pci[p].secondary]
    BY DEF behind, BehindOf
  <2>. QED  BY <2>2, <2>3
<1>. QED  BY <1>9, <1>10 DEF out, found, T

\* The scan to each depth: of a bus it has all that the bus shows, and what is
\* behind its bridges to one less.
ScanOk(pci, scan) ==
    \A k \in 0 .. PCI_BUSES : \A b \in 0 .. PCI_BUSES - 1 :
        /\ scan[k][b] \in Seq(DOMAIN pci)
        /\ \A p \in Shown(pci) : p[1] = b =>
              /\ p \in Elements(scan[k][b])
              /\ Leads(pci, p) /\ k > 0 =>
                    Elements(scan[k - 1][pci[p].secondary]) \subseteq Elements(scan[k][b])

LEMMA ScanShows ==
    ASSUME NEW pci, PciOk(pci)
    PROVE  \E scan : /\ \A start : pci_check_bus(pci, start) = scan[PCI_BUSES][start]
                     /\ ScanOk(pci, scan)
<1> DEFINE N == PCI_BUSES
           Buses == 0 .. N - 1
           T == DOMAIN pci
<1>1. PICK scan : /\ \A start : pci_check_bus(pci, start) = scan[N][start]
                  /\ \A k \in 0 .. N : scan[k] = Level(pci, scan[k - 1], k > 0)
  BY ScanSteps
<1>2. N \in Nat /\ N # 0
  BY PciAssumption
<1> DEFINE S == {k \in Nat : k <= N => \A b \in Buses : scan[k][b] \in Seq(T)}
<1> HIDE DEF N, T
<1>3. 0 \in S
  <2>1. 0 \in 0 .. N /\ (0 > 0) = FALSE
    BY <1>2
  <2>2. scan[0] = Level(pci, scan[0 - 1], FALSE)
    BY <1>1, <2>1
  <2>3. ASSUME NEW b \in Buses PROVE scan[0][b] \in Seq(T)
    <3>1. b \in 0 .. PCI_BUSES - 1
      BY DEF N
    <3>. QED  BY <2>2, <3>1, LevelShows DEF T
  <2>. QED  BY <2>3
<1>4. ASSUME NEW k \in S PROVE k + 1 \in S
  <2> SUFFICES ASSUME k + 1 <= N, NEW b \in Buses PROVE scan[k + 1][b] \in Seq(T)
    OBVIOUS
  <2>1. k + 1 \in 0 .. N /\ (k + 1) - 1 = k /\ (k + 1 > 0) = TRUE /\ k <= N
    BY <1>2
  <2>2. scan[k + 1] = Level(pci, scan[k], TRUE)
    BY <1>1, <2>1
  <2>3. \A c \in 0 .. PCI_BUSES - 1 : scan[k][c] \in Seq(DOMAIN pci)
    BY <2>1 DEF N, T
  <2>4. b \in 0 .. PCI_BUSES - 1
    BY DEF N
  <2>. QED  BY <2>2, <2>3, <2>4, LevelShows DEF T
<1>5. \A k \in 0 .. N : \A b \in Buses : scan[k][b] \in Seq(T)
  <2>1. S \in SUBSET Nat
    OBVIOUS
  <2>2. S = Nat
    <3> HIDE DEF S
    <3>. QED  BY <1>3, <1>4, <2>1, AllNaturals
  <2>. QED  BY <1>2, <2>2
<1> HIDE DEF S
<1>6. ASSUME NEW k \in 0 .. N, NEW b \in Buses, NEW p \in Shown(pci), p[1] = b
      PROVE  /\ p \in Elements(scan[k][b])
             /\ Leads(pci, p) /\ k > 0 =>
                  Elements(scan[k - 1][pci[p].secondary]) \subseteq Elements(scan[k][b])
  <2> DEFINE below == scan[k - 1]
             deep == k > 0
  <2>1. deep \in BOOLEAN /\ (deep => k - 1 \in 0 .. N) /\ b \in 0 .. PCI_BUSES - 1
    BY <1>2 DEF N
  <2>2. deep => \A c \in 0 .. PCI_BUSES - 1 : below[c] \in Seq(DOMAIN pci)
    <3> SUFFICES ASSUME deep, NEW c \in 0 .. PCI_BUSES - 1 PROVE below[c] \in Seq(DOMAIN pci)
      OBVIOUS
    <3>1. k - 1 \in 0 .. N /\ c \in Buses
      BY <2>1 DEF N
    <3>. QED  BY <1>5, <3>1 DEF T
  <2>3. scan[k] = Level(pci, below, deep)
    BY <1>1
  <2>4. p \in Elements(FoundOn(pci, b))
    BY <1>6, FoundShows
  <2> HIDE DEF below, deep
  <2>5. /\ Elements(FoundOn(pci, b)) \subseteq Elements(Level(pci, below, deep)[b])
        /\ \A q \in Elements(FoundOn(pci, b)) : Leads(pci, q) /\ deep =>
                Elements(below[pci[q].secondary]) \subseteq Elements(Level(pci, below, deep)[b])
    BY <2>1, <2>2, LevelShows
  <2>6. /\ p \in Elements(scan[k][b])
        /\ Leads(pci, p) /\ deep => Elements(below[pci[p].secondary]) \subseteq Elements(scan[k][b])
    BY <2>3, <2>4, <2>5
  <2>. QED  BY <2>6 DEF below, deep
<1>7. ScanOk(pci, scan)
  BY <1>5, <1>6 DEF ScanOk, N, T
<1>. QED  BY <1>1, <1>7 DEF N

\* Sets of buses that grow no more after as many steps as there are buses.
LEMMA BusesStay ==
    ASSUME NEW n \in Nat, NEW f, f[0] # {}, \A k \in 0 .. n : f[k] \subseteq 0 .. n - 1,
           \A k \in 0 .. n - 1 : f[k] \subseteq f[k + 1]
    PROVE  \E k \in 0 .. n - 1 : f[k + 1] = f[k]
<1> SUFFICES ASSUME \A k \in 0 .. n - 1 : f[k + 1] # f[k] PROVE FALSE
  OBVIOUS
<1>1. IsFiniteSet(0 .. n - 1) /\ Cardinality(0 .. n - 1) = n
  <2>1. 0 \in Int /\ n - 1 \in Int
    OBVIOUS
  <2>2. IsFiniteSet(0 .. n - 1) /\ Cardinality(0 .. n - 1) = IF 0 > n - 1 THEN 0 ELSE (n - 1) - 0 + 1
    BY <2>1, FS_Interval
  <2>. QED  BY <2>2
<1>2. \A k \in 0 .. n : /\ IsFiniteSet(f[k]) /\ Cardinality(f[k]) \in Nat /\ Cardinality(f[k]) <= n
  BY <1>1, FS_Subset, FS_CardinalityType
<1> DEFINE S == {k \in Nat : k <= n => Cardinality(f[k]) >= k + 1}
<1>3. 0 \in S
  <2>1. 0 \in 0 .. n
    OBVIOUS
  <2>2. Cardinality(f[0]) # 0
    BY <1>2, <2>1, FS_EmptySet
  <2>. QED  BY <1>2, <2>1, <2>2
<1>4. ASSUME NEW k \in S PROVE k + 1 \in S
  <2> SUFFICES ASSUME k + 1 <= n PROVE Cardinality(f[k + 1]) >= (k + 1) + 1
    OBVIOUS
  <2>1. k \in 0 .. n - 1 /\ k \in 0 .. n /\ k + 1 \in 0 .. n
    OBVIOUS
  <2> DEFINE a == f[k]
             b == f[k + 1]
  <2>2. a \subseteq b /\ a # b /\ IsFiniteSet(b) /\ Cardinality(a) >= k + 1
    BY <1>2, <2>1
  <2>3. Cardinality(a) \in Nat /\ Cardinality(b) \in Nat
    BY <1>2, <2>1
  <2> HIDE DEF a, b
  <2>4. Cardinality(a) <= Cardinality(b) /\ Cardinality(a) # Cardinality(b)
    BY <2>2, FS_Subset
  <2>5. Cardinality(b) >= (k + 1) + 1
    BY <2>2, <2>3, <2>4
  <2>. QED  BY <2>5 DEF b
<1>5. n \in S
  <2>1. S \in SUBSET Nat
    OBVIOUS
  <2> HIDE DEF S
  <2>. QED  BY <1>3, <1>4, <2>1, AllNaturals
<1>6. n \in 0 .. n
  OBVIOUS
<1>7. Cardinality(f[n]) >= n + 1 /\ Cardinality(f[n]) \in Nat /\ Cardinality(f[n]) <= n
  BY <1>2, <1>5, <1>6
<1>. QED  BY <1>7

\* A scan that begins on every bus of a host bridge comes to all that is visible.
LEMMA VisibleFound ==
    ASSUME NEW pci, PciOk(pci), NEW scan, ScanOk(pci, scan), NEW out,
           \A h \in Hosts(pci) : Elements(scan[PCI_BUSES][h]) \subseteq out,
           Elements(scan[PCI_BUSES][0]) \subseteq out
    PROVE  \A p \in Visible(pci) : p \in out
<1> DEFINE N == PCI_BUSES
           Buses == 0 .. N - 1
           Reach(d, b) == Elements(scan[d][b]) \subseteq out
           In(k, b) == \E d \in N - k .. N : Reach(d, b)
           f == [k \in 0 .. N |-> {b \in Buses : In(k, b)}]
<1>1. N \in Nat /\ N # 0 /\ PCI_FUNCTION_N \in Nat /\ PCI_FUNCTION_N <= N /\ 0 \in Buses
  BY PciAssumption
<1>2. Hosts(pci) \subseteq Buses
  <2>1. Hosts(pci) \subseteq 0 .. PCI_FUNCTION_N - 1
    BY DEF Hosts
  <2> HIDE DEF N
  <2>. QED  BY <1>1, <2>1
<1>3. Reach(N, 0) /\ \A h \in Hosts(pci) : Reach(N, h)
  OBVIOUS
<1>4. \A k \in 0 .. N : \A b \in Buses : \A p \in Shown(pci) : p[1] = b =>
          /\ p \in Elements(scan[k][b])
          /\ Leads(pci, p) /\ k > 0 =>
                Elements(scan[k - 1][pci[p].secondary]) \subseteq Elements(scan[k][b])
  BY DEF ScanOk
<1>5. \A p \in Shown(pci) : p[1] \in Buses /\ pci[p].secondary \in Buses
  BY DEF Shown, PciOk
<1> HIDE DEF N
<1>6. \A k \in 0 .. N : f[k] = {b \in Buses : In(k, b)}
  OBVIOUS
<1> HIDE DEF f, Reach
<1>7. \A k \in 0 .. N : \A b \in Buses : Reach(N, b) => b \in f[k]
  <2> TAKE k \in 0 .. N
  <2> TAKE b \in Buses
  <2>1. N \in N - k .. N
    BY <1>1
  <2>. QED  BY <1>6, <2>1
<1>8. PICK k \in 0 .. N - 1 : f[k + 1] = f[k]
  <2>1. f[0] # {}
    <3>1. 0 \in 0 .. N
      BY <1>1
    <3>. QED  BY <1>1, <1>3, <1>7, <3>1
  <2>2. \A k \in 0 .. N : f[k] \subseteq 0 .. N - 1
    BY <1>6
  <2>3. ASSUME NEW k \in 0 .. N - 1 PROVE f[k] \subseteq f[k + 1]
    <3>1. k \in 0 .. N /\ k + 1 \in 0 .. N /\ N - k .. N \subseteq N - (k + 1) .. N
      BY <1>1
    <3>. QED  BY <1>6, <3>1
  <2>. QED  BY <1>1, <2>1, <2>2, <2>3, BusesStay
<1>9. k \in 0 .. N /\ k + 1 \in 0 .. N
  BY <1>1
<1> DEFINE buses == f[k]
<1>10. Joined(pci, buses)
  <2>1. Hosts(pci) \subseteq buses
    BY <1>2, <1>3, <1>7, <1>9
  <2>2. ASSUME NEW p \in Shown(pci), p[1] \in buses, pci[p].class = "bridge"
        PROVE  pci[p].secondary \in buses
    <3>1. CASE pci[p].secondary = 0
      BY <1>1, <1>3, <1>7, <1>9, <3>1
    <3>2. CASE pci[p].secondary # 0
      <4>1. PICK d \in N - k .. N : Reach(d, p[1])
        BY <1>6, <1>9, <2>2
      <4>2. d \in 0 .. N /\ d > 0 /\ d - 1 \in N - (k + 1) .. N
        BY <1>1
      <4>3. Elements(scan[d - 1][pci[p].secondary]) \subseteq Elements(scan[d][p[1]])
        BY <1>4, <1>5, <2>2, <3>2, <4>2 DEF Leads
      <4>4. Reach(d - 1, pci[p].secondary)
        BY <4>1, <4>3 DEF Reach
      <4>5. pci[p].secondary \in f[k + 1]
        BY <1>5, <1>6, <1>9, <4>2, <4>4
      <4>. QED  BY <1>8, <4>5
    <3>. QED  BY <3>1, <3>2
  <2> HIDE DEF buses
  <2>. QED  BY <2>1, <2>2 DEF Joined
<1>11. ASSUME NEW p \in Visible(pci) PROVE p \in out
  <2>1. p \in Shown(pci)
    BY DEF Visible
  <2>2. buses \in SUBSET (0 .. PCI_BUSES - 1)
    BY <1>6, <1>9 DEF N
  <2>3. p[1] \in buses
    BY <1>10, <2>2 DEF Visible
  <2>4. PICK d \in N - k .. N : Reach(d, p[1])
    BY <1>6, <1>9, <2>3
  <2>5. d \in 0 .. N
    BY <1>1
  <2>6. p \in Elements(scan[d][p[1]])
    BY <1>4, <1>5, <2>1, <2>5
  <2>. QED  BY <2>4, <2>6 DEF Reach
<1>. QED  BY <1>11

\* The scan of all buses comes to every function that is visible.
LEMMA AllBusesFound ==
    ASSUME NEW pci, PciOk(pci)
    PROVE  /\ pci_check_all_buses(pci) \in Seq(DOMAIN pci)
           /\ \A p \in Visible(pci) : p \in Elements(pci_check_all_buses(pci))
<1> DEFINE host == <<0, 0, 0>>
           T == DOMAIN pci
           order == pci_check_all_buses(pci)
           hosts == {f \in 0 .. PCI_FUNCTION_N - 1 : \A g \in 0 .. f : <<0, 0, g>> \in T}
           s == [b \in 1 .. Cardinality(hosts) |-> pci_check_bus(pci, b - 1)]
<1>1. PICK scan : /\ \A start : pci_check_bus(pci, start) = scan[PCI_BUSES][start]
                  /\ ScanOk(pci, scan)
  BY ScanShows
<1>2. /\ PCI_BUSES \in Nat \ {0} /\ PCI_FUNCTION_N \in Nat \ {0} /\ PCI_FUNCTION_N <= PCI_BUSES
  BY PciAssumption
<1>3. \A b \in 0 .. PCI_BUSES - 1 : pci_check_bus(pci, b) \in Seq(T)
  <2>1. PCI_BUSES \in 0 .. PCI_BUSES
    BY <1>2
  <2>. QED  BY <1>1, <2>1 DEF ScanOk
<1>4. \A f \in Hosts(pci) : f = 0 \/ pci[host].multi
  <2> TAKE f \in Hosts(pci)
  <2>1. f \in 0 .. f
    BY <1>2 DEF Hosts
  <2>2. <<0, 0, f>> \in Shown(pci)
    BY <2>1 DEF Hosts
  <2> DEFINE q == <<0, 0, f>>
  <2>3. q[1] = 0 /\ q[2] = 0 /\ q[3] = f
    OBVIOUS
  <2> HIDE DEF q
  <2>4. q[3] = 0 \/ pci[<<q[1], q[2], 0>>].multi
    BY <2>2 DEF Shown, q
  <2>. QED  BY <2>3, <2>4
<1>5. CASE host \notin T
  <2>1. order = <<>>
    BY <1>5 DEF pci_check_all_buses
  <2>2. Hosts(pci) = {}
    BY <1>5 DEF Hosts, Shown
  <2>3. Joined(pci, {})
    BY <2>2 DEF Joined
  <2>4. Visible(pci) = {}
    BY <2>3 DEF Visible
  <2>5. <<>> \in Seq(T)
    OBVIOUS
  <2>. QED  BY <2>1, <2>4, <2>5
<1>6. CASE host \in T /\ ~pci[host].multi
  <2>1. order = pci_check_bus(pci, 0)
    BY <1>6 DEF pci_check_all_buses
  <2>2. \A h \in Hosts(pci) : h = 0
    BY <1>4, <1>6
  <2>3. order \in Seq(T)
    BY <1>2, <1>3, <2>1
  <2>4. order = scan[PCI_BUSES][0]
    BY <1>1, <2>1
  <2> HIDE DEF order, T, host, hosts
  <2>5. \A p \in Visible(pci) : p \in Elements(order)
    <3> DEFINE out == Elements(order)
    <3>1. /\ \A h \in Hosts(pci) : Elements(scan[PCI_BUSES][h]) \subseteq out
          /\ Elements(scan[PCI_BUSES][0]) \subseteq out
      BY <2>2, <2>4
    <3> HIDE DEF out
    <3>2. \A p \in Visible(pci) : p \in out
      BY <1>1, <3>1, VisibleFound
    <3>. QED  BY <3>2 DEF out
  <2>. QED  BY <2>3, <2>5 DEF order, T
<1>7. CASE host \in T /\ pci[host].multi
  <2>1. order = FlattenSeq(s)
    BY <1>7 DEF pci_check_all_buses
  <2>2. /\ IsFiniteSet(hosts) /\ Cardinality(hosts) \in Nat /\ Cardinality(hosts) <= PCI_FUNCTION_N
    <3>1. 0 \in Int /\ PCI_FUNCTION_N - 1 \in Int
      BY <1>2
    <3>2. IsFiniteSet(0 .. PCI_FUNCTION_N - 1) /\ Cardinality(0 .. PCI_FUNCTION_N - 1) = PCI_FUNCTION_N
      BY <1>2, <3>1, FS_Interval
    <3>3. hosts \in SUBSET (0 .. PCI_FUNCTION_N - 1)
      OBVIOUS
    <3> HIDE DEF hosts
    <3>. QED  BY <3>2, <3>3, FS_Subset, FS_CardinalityType
  <2>3. \A f \in Hosts(pci) \union {0} : f \in 0 .. PCI_FUNCTION_N - 1 /\ 0 .. f \subseteq hosts
    <3>1. 0 \in hosts /\ 0 .. 0 \subseteq hosts /\ 0 \in 0 .. PCI_FUNCTION_N - 1
      BY <1>2, <1>7
    <3>2. ASSUME NEW f \in Hosts(pci) PROVE f \in 0 .. PCI_FUNCTION_N - 1 /\ 0 .. f \subseteq hosts
      <4>1. f \in 0 .. PCI_FUNCTION_N - 1 /\ \A g \in 0 .. f : <<0, 0, g>> \in T
        BY DEF Hosts, Shown
      <4>2. ASSUME NEW g \in 0 .. f PROVE g \in hosts
        <5>1. g \in 0 .. PCI_FUNCTION_N - 1 /\ 0 .. g \subseteq 0 .. f
          BY <1>2, <4>1
        <5>2. \A e \in 0 .. g : <<0, 0, e>> \in T
          BY <4>1, <5>1
        <5>. QED  BY <5>1, <5>2
      <4>. QED  BY <4>1, <4>2
    <3>. QED  BY <3>1, <3>2
  <2>4. \A f \in Hosts(pci) \union {0} : f + 1 \in 1 .. Cardinality(hosts) /\ (f + 1) - 1 = f
    <3> TAKE f \in Hosts(pci) \union {0}
    <3>1. f \in Nat /\ 0 .. f \in SUBSET hosts
      BY <2>3
    <3> HIDE DEF hosts
    <3>2. Cardinality(0 .. f) = f + 1
      <4>1. 0 \in Int /\ f \in Int
        BY <3>1
      <4>. QED  BY <3>1, <4>1, FS_Interval
    <3>3. Cardinality(0 .. f) <= Cardinality(hosts)
      BY <2>2, <3>1, FS_Subset
    <3>. QED  BY <2>2, <3>1, <3>2, <3>3
  <2>5. /\ IsSeq(s) /\ DOMAIN s = 1 .. Cardinality(hosts)
        /\ \A i \in 1 .. Cardinality(hosts) : s[i] = pci_check_bus(pci, i - 1)
    <3>1. /\ s = [i \in 1 .. Cardinality(hosts) |-> s[i]]
          /\ \A i \in 1 .. Cardinality(hosts) : s[i] = pci_check_bus(pci, i - 1)
      OBVIOUS
    <3> HIDE DEF s, hosts
    <3>2. s \in Seq({s[i] : i \in 1 .. Cardinality(hosts)})
      BY <2>2, <3>1
    <3>. QED  BY <2>2, <3>1, <3>2 DEF IsSeq
  <2> HIDE DEF s, T, hosts, host, order
  <2>6. \A i \in DOMAIN s : s[i] \in Seq(T)
    <3> TAKE i \in DOMAIN s
    <3>1. i - 1 \in 0 .. PCI_BUSES - 1
      BY <1>2, <2>2, <2>5
    <3>. QED  BY <1>3, <2>5, <3>1
  <2>7. /\ FlattenSeq(s) \in Seq(T)
        /\ \A i \in DOMAIN s : Elements(s[i]) \subseteq Elements(FlattenSeq(s))
    BY <2>5, <2>6, FlattenHas
  <2> DEFINE out == Elements(order)
  <2>8. \A f \in Hosts(pci) \union {0} : Elements(scan[PCI_BUSES][f]) \subseteq out
    <3> TAKE f \in Hosts(pci) \union {0}
    <3>1. f + 1 \in DOMAIN s /\ s[f + 1] = pci_check_bus(pci, f)
      BY <2>4, <2>5
    <3>2. s[f + 1] = scan[PCI_BUSES][f]
      BY <1>1, <3>1
    <3>. QED  BY <2>1, <2>7, <3>1, <3>2
  <2> HIDE DEF out
  <2>9. /\ \A h \in Hosts(pci) : Elements(scan[PCI_BUSES][h]) \subseteq out
        /\ Elements(scan[PCI_BUSES][0]) \subseteq out
    BY <2>8
  <2>10. \A p \in Visible(pci) : p \in out
    BY <1>1, <2>9, VisibleFound
  <2>. QED  BY <2>1, <2>7, <2>10 DEF out, order, T
<1>. QED  BY <1>5, <1>6, <1>7

\* Where ata_init finds no controller none is visible.
LEMMA ControllerFound ==
    ASSUME NEW pci, PciOk(pci), ata_controller(pci) = <<>>
    PROVE  Visible(pci) = {}
<1> DEFINE order == pci_check_all_buses(pci)
           ide == {i \in DOMAIN order : pci[order[i]].class = "ide"}
           least == CHOOSE i \in ide : \A j \in ide : i <= j
<1>1. order \in Seq(DOMAIN pci) /\ \A p \in Visible(pci) : p \in Elements(order)
  BY AllBusesFound
<1>2. ata_controller(pci) = IF ide = {} THEN <<>> ELSE order[least]
  BY DEF ata_controller
<1> HIDE DEF order
<1>3. \A i \in DOMAIN order : order[i] \in DOMAIN pci /\ i \in Nat
  BY <1>1
<1>4. ide = {}
  <2> SUFFICES ASSUME ide # {} PROVE FALSE
    OBVIOUS
  <2>1. ide \in SUBSET Nat
    BY <1>3
  <2>2. \E i \in ide : \A j \in ide : i <= j
    <3> HIDE DEF ide
    <3>. QED  BY <2>1, LeastNatural
  <2>3. least \in ide
    <3> HIDE DEF ide
    <3>. QED  BY <2>2
  <2>4. order[least] \in DOMAIN pci /\ order[least] = <<>>
    BY <1>2, <1>3, <2>3
  <2>5. \A p \in DOMAIN pci : p = <<p[1], p[2], p[3]>>
    BY DEF PciOk
  <2>6. \A x, y, z : <<x, y, z>> # <<>>
    <3> TAKE x, y, z
    <3>1. Len(<<x, y, z>>) = 3 /\ Len(<<>>) = 0
      OBVIOUS
    <3> DEFINE t == <<x, y, z>>
    <3> HIDE DEF t
    <3>2. t # <<>>
      <4>1. Len(t) = 3
        BY DEF t
      <4>. QED  BY <3>1, <4>1
    <3>. QED  BY <3>2 DEF t
  <2>. QED  BY <2>4, <2>5, <2>6
<1>5. \A p \in Visible(pci) : FALSE
  <2> TAKE p \in Visible(pci)
  <2>1. pci[p].class = "ide"
    BY DEF Visible
  <2>2. PICK i \in DOMAIN order : p = order[i]
    BY <1>1 DEF Elements
  <2>. QED  BY <1>4, <2>1, <2>2
<1>. QED  BY <1>5

-----------------------------------------------------------------------------
(* The causes of the ends.                                                 *)

\* The search of the first disk's place finds it, once it is mounted there.
LEMMA DiskThere ==
    ASSUME FilesInv, MountsInv, pc # "vfs", Known(tree, DiskPath(1))
    PROVE  Open(DiskPath(1)).is = "node"
<1> DEFINE path == DiskPath(1)
           mount == get_mount_point(tree, path)
<1>1. IsTree(tree) /\ \A i \in DOMAIN tree : MountOk(Here.disks, tree[i])
  BY DEF FilesInv, BootInv, MountsInv, MountsOk
<1>2. PICK i \in DOMAIN tree : tree[i].path = path
  BY DEF Known
<1>3. IsSeq(path) /\ Len(path) = 2 /\ path # <<>>
  BY DiskPathDev
<1> HIDE DEF path
<1>4. tree[i].file # NULL
  <2>1. \A disks, e : MountOk(disks, e) /\ e.path # <<>> => e.file # NULL
    BY NullIsNot DEF MountOk, vfs_mapper, initrd_root, ata_device_create, NONE
  <2>. QED  BY <1>1, <1>2, <1>3, <2>1
<1>5. Deepest(path) = 2
  <2>1. Prefix(path, Len(path)) = path
    BY <1>3, WholePrefix
  <2>2. tree[i].path = Prefix(path, 2) /\ 2 \in 1 .. Len(path)
    BY <1>2, <1>3, <2>1
  <2>3. 2 <= Deepest(path)
    BY <1>1, <1>3, <1>4, <2>2, MountAbove
  <2>4. Deepest(path) \in 0 .. Len(path)
    BY <1>1, <1>3, DeepestIs
  <2>. QED  BY <1>3, <2>3, <2>4
<1>6. mount.depth = 2 /\ mount.last # NULL
  BY <1>1, <1>3, <1>5, DeepestIs
<1>7. Open(path) = WalkFrom(Here, volume, mount, path)
  BY <1>3, <1>6 DEF Open, kopen
<1>8. mount.depth \in 0 .. Len(path)
  BY <1>3, <1>6
<1>9. PICK walk : Walks(Here, volume, mount, path, walk)
  BY <1>3, <1>8, WalkSteps
<1>10. Open(path) = walk[2] /\ walk[2].is = "node"
  BY <1>3, <1>6, <1>7, <1>9 DEF Walks
<1>. QED  BY <1>10 DEF path

\* What the causes speak of stays while nothing is mounted.
LEMMA CauseSame ==
    ASSUME UNCHANGED <<machine, controller, tree, volume>>
    PROVE  /\ Hardware' = Hardware /\ Here' = Here
           /\ \A path : Named(path)' = Named(path)
           /\ \A path : Plain(path)' <=> Plain(path)
<1>1. Hardware' = Hardware /\ Here' = Here
  BY DEF Here, Hardware
<1>2. \A path : Deepest(path)' = Deepest(path)
  BY DEF Deepest
<1>3. \A path, mount : NamedTo(path, mount)' = NamedTo(path, mount)
  BY <1>1 DEF NamedTo
<1>4. \A path : Named(path)' = Named(path)
  BY <1>2, <1>3 DEF Named
<1>5. \A m, node, name : PlainIn(m, node, name)' <=> PlainIn(m, node, name)
  BY DEF PlainIn
<1>6. \A path : Plain(path)' <=> Plain(path)
  BY <1>1, <1>2, <1>3, <1>5 DEF Plain
<1>. QED  BY <1>1, <1>4, <1>6

\* The machine stops only for the causes listed, and the tables of ACPI are
\* what boot found.
StopsInv ==
    /\ StopsForCause
    /\ pc \notin {"vfs", "acpi"} => acpi = init_acpi(Hardware.firmware)

\* What has come to its end stays there.
LEMMA EndStays ==
    ASSUME stopped # "no", [FilesNext]_filesVars
    PROVE  UNCHANGED filesVars
<1>1. ~(MountInitrd \/ InitAcpi \/ ScanPci \/ MountDisk \/ RunInit)
  BY DEF MountInitrd, InitAcpi, ScanPci, MountDisk, RunInit, At
<1>2. \A s : ~Runs(s)
  BY DEF Runs
<1>3. \A s, input, append, pid :
          ~(sys_open(s, input, append) \/ sys_chdir(s, input, pid) \/ create_process(s, input))
  BY <1>2 DEF sys_open, sys_chdir, create_process
<1>4. \A s, fd, size, index :
          ~(sys_close(s, fd) \/ Looks(s, fd) \/ sys_read_fs(s, fd, size) \/ sys_readdir(s, fd, index))
  BY <1>2 DEF sys_close, Looks, sys_read_fs, sys_readdir
<1>5. \A s, pid : ~(kill(s, pid) \/ sys_shutdown(s) \/ sys_reboot(s))
  BY <1>2 DEF kill, sys_shutdown, sys_reboot
<1>. QED  BY <1>1, <1>3, <1>4, <1>5 DEF FilesNext, sys_stat, sys_write_fs

LEMMA StillStops ==
    ASSUME StopsInv, UNCHANGED filesVars
    PROVE  StopsInv'
<1>1. /\ UNCHANGED <<machine, controller, tree, volume, pc, acpi, stopped, reply, holds>>
      /\ Hardware' = Hardware /\ Here' = Here
      /\ \A path : Named(path)' = Named(path)
      /\ \A path : Plain(path)' <=> Plain(path)
  BY CauseSame DEF filesVars, bootVars, history
<1>2. \A path : SearchStops(path)' <=> SearchStops(path)
  BY <1>1 DEF SearchStops
<1>3. \A path, from : ReadStops(path, from)' <=> ReadStops(path, from)
  BY <1>1, <1>2 DEF ReadStops, OutsideRaw
<1>4. \A s : Held(s)' = Held(s)
  BY <1>1 DEF Held
<1>5. CallStops' <=> CallStops
  BY <1>1, <1>2, <1>3, <1>4 DEF CallStops
<1>6. BootStops' <=> BootStops
  BY <1>1 DEF BootStops
<1>. QED  BY <1>1, <1>5, <1>6 DEF StopsInv, StopsForCause

\* A step after which the machine runs needs no cause.
LEMMA RunsOn ==
    ASSUME StopsInv, pc \notin {"vfs", "acpi"}, UNCHANGED <<machine, acpi>>, stopped' = "no"
    PROVE  StopsInv'
BY DEF StopsInv, StopsForCause, Hardware

\* init_acpi faults only on tables that leave the pages it maps.
LEMMA InitAcpiStops ==
    ASSUME FilesInv, StopsInv, InitAcpi
    PROVE  StopsInv'
<1> DEFINE fw == Hardware.firmware
<1>1. /\ pc' = "pci" /\ acpi' = init_acpi(fw) /\ Hardware' = Hardware
      /\ stopped' = IF init_acpi(fw).is = "fault" THEN "fault" ELSE "no"
  BY DEF InitAcpi, At, Hardware
<1>2. FirmwareOk(fw)
  BY MachinesAssumption DEF FilesInv, BootInv, Hardware
<1>3. fw.rsdps = <<>> => init_acpi(fw).is # "fault"
  BY DEF init_acpi, find_rsdp, Return, NoTables, acpi_leave_subsystem, acpi_enter_subsystem
<1>4. init_acpi(fw).is = "fault" => ~Readable(fw)
  BY <1>2, <1>3, InitAcpiReads
<1> HIDE DEF fw
<1>5. stopped' = "fault" => ~Readable(Hardware'.firmware)
  BY <1>1, <1>4 DEF fw
<1>6. StopsForCause'
  BY <1>1, <1>5 DEF StopsForCause, BootStops
<1>7. acpi' = init_acpi(Hardware'.firmware)
  BY <1>1 DEF fw
<1>. QED  BY <1>1, <1>6, <1>7 DEF StopsInv

LEMMA EarlyStops ==
    ASSUME FilesInv, StopsInv, MountInitrd \/ ScanPci
    PROVE  StopsInv'
<1>1. CASE MountInitrd
  <2>1. stopped' = "no" /\ pc' = "acpi"
    BY <1>1 DEF MountInitrd, At
  <2>. QED  BY <2>1 DEF StopsInv, StopsForCause
<1>2. CASE ScanPci
  <2>1. stopped' = "no" /\ pc = "pci" /\ UNCHANGED <<machine, acpi>>
    BY <1>2 DEF ScanPci, At
  <2>. QED  BY <2>1, RunsOn
<1>. QED  BY <1>1, <1>2

\* kernel_main comes to its end on a chain without one, and where no disk is.
LEMMA MountDiskStops ==
    ASSUME FilesInv, MountsInv, PlacesInv, StopsInv, MountDisk
    PROVE  StopsInv'
<1> DEFINE hda == Open(DiskPath(1))
           lba == ActivePartition(FirstSector(hda.node))
           disk == Here.disks[1]
           found == init_fat32(disk, lba)
<1>1. /\ pc = "disk" /\ pc' = "run" /\ stopped = "no" /\ UNCHANGED <<machine, acpi, controller>>
      /\ Hardware' = Hardware /\ Here' = Here
  BY DEF MountDisk, At, Hardware, Here
<1>2. MountOn(hda)
  BY DEF MountDisk, Open
<1>3. acpi' = init_acpi(Hardware'.firmware)
  BY <1>1 DEF StopsInv
<1>4. CASE hda.is = "node"
  <2>1. MountFound(found)
    BY <1>2, <1>4 DEF MountOn
  <2>2. lba \in Nat /\ WholeDisk(disk)
    BY <1>1, <1>4, BootRecord, WholeDisks
  <2> HIDE DEF lba, disk, hda
  <2>3. found.is \in {NONE, "hang", "volume"} /\ (found.is = "hang" => ~Sound(disk))
    BY <2>2, InitFat
  <2> HIDE DEF found
  <2>4. stopped' = "no" \/ (stopped' = "hang" /\ ~Sound(disk))
    BY <1>1, <2>1, <2>3 DEF MountFound, NONE
  <2>5. StopsForCause'
    BY <1>1, <2>4 DEF StopsForCause, BootStops, disk
  <2>. QED  BY <1>1, <1>3, <2>5 DEF StopsInv
<1>5. CASE hda.is # "node"
  <2>1. stopped' = "fault"
    BY <1>2, <1>5 DEF MountOn
  <2>2. disk = <<>>
    BY <1>1, <1>5, DiskThere DEF PlacesInv
  <2>3. PciOk(Hardware.pci) /\ controller = ata_controller(Hardware.pci)
    BY <1>1, MachinesAssumption DEF FilesInv, BootInv, Hardware, MountsInv
  <2>4. controller # <<>> \/ Visible(Hardware.pci) = {}
    BY <2>3, ControllerFound
  <2>5. StopsForCause'
    BY <1>1, <2>1, <2>2, <2>4 DEF StopsForCause, BootStops
  <2>. QED  BY <1>1, <1>3, <2>5 DEF StopsInv
<1>. QED  BY <1>4, <1>5

\* A call whose search does not come to an end, or runs wild.
LEMMA SearchEnds ==
    ASSUME FilesInv, MountsInv, PlacesInv, StopsInv, pc \notin {"vfs", "acpi"}, pc' = "user",
           UNCHANGED <<machine, acpi, controller, tree, volume>>, NEW path, IsSeq(path),
           Open(path).is \notin {"node", NONE}, stopped' = Open(path).is,
           reply'.op = "open", reply'.path = path
    PROVE  StopsInv'
<1> DEFINE found == Open(path)
<1>1. found.is \in {"hang", "wild"}
  BY OpenIs DEF Whys, NONE
<1>2. /\ found.is = "hang" => ~Sound(Here.disks[1])
      /\ found.is = "wild" => ~Plain(path) \/ (path = <<>> /\ Named(path) = NULL)
  BY OpenStops
<1>3. stopped' = found.is /\ reply'.path = path
  OBVIOUS
<1> HIDE DEF found
<1>4. \/ stopped' = "hang" /\ ~Sound(Here.disks[1])
      \/ stopped' = "wild" /\ ~Plain(path)
      \/ stopped' = "wild" /\ path = <<>> /\ Named(<<>>) = NULL
  BY <1>1, <1>2, <1>3
<1>5. /\ Hardware' = Hardware /\ Here' = Here
      /\ Named(<<>>)' = Named(<<>>)
      /\ Plain(reply.path)' <=> Plain(path)
  BY <1>3, CauseSame
<1>6. \/ SearchStops(reply.path)'
      \/ stopped' = "wild" /\ reply'.path = <<>> /\ Named(<<>>)' = NULL
  BY <1>3, <1>4, <1>5 DEF SearchStops
<1>7. StopsForCause'
  BY <1>6 DEF StopsForCause, CallStops
<1>. QED  BY <1>5, <1>7 DEF StopsInv

\* load_program comes to an end only where the search or the reading does.
LEMMA LoadStops ==
    ASSUME FilesInv, MountsInv, PlacesInv, StopsInv, stopped = "no",
           pc \notin {"vfs", "acpi"}, pc' = "user",
           UNCHANGED <<machine, acpi, controller, tree, volume>>,
           NEW path, IsSeq(path), Load(path, path)
    PROVE  StopsInv'
<1> DEFINE found == Open(path)
           node == found.node
           answer == read_fs(Here, volume, node, 0, node.length)
<1>1. LoadFound(path, found)
  BY DEF Load
<1>2. found.is = "node" /\ node.flags # "directory" =>
        /\ answer.is \in {"bytes", "hang", "wild"}
        /\ answer.is = "hang" => ~Sound(Here.disks[1])
        /\ answer.is = "wild" => ~Plain(path)
  BY LoadComes
<1>3. CASE found.is = NONE \/ node.flags = "directory"
  <2>1. stopped' = "no"
    BY <1>1, <1>3 DEF LoadFound, Goes, NONE
  <2>. QED  BY <2>1, RunsOn
<1>4. CASE found.is = "node" /\ node.flags # "directory"
  <2> HIDE DEF found
  <2>1. LoadAnswer(path, node, answer)
    BY <1>1, <1>4 DEF LoadFound, NONE
  <2> HIDE DEF answer, node
  <2>2. CASE answer.is = "bytes"
    <3>1. stopped' = "no"
      BY <2>1, <2>2 DEF LoadAnswer, Goes
    <3>. QED  BY <3>1, RunsOn
  <2>3. CASE answer.is # "bytes"
    <3>1. stopped' = answer.is /\ reply'.op = "load" /\ reply'.path = path
      BY <2>1, <2>3 DEF LoadAnswer, Ends
    <3>2. /\ Hardware' = Hardware /\ Here' = Here
          /\ Plain(reply.path)' <=> Plain(path)
      BY <3>1, CauseSame
    <3>3. SearchStops(reply.path)'
      BY <1>2, <1>4, <2>3, <3>1, <3>2 DEF SearchStops
    <3>4. StopsForCause'
      BY <3>1, <3>3 DEF StopsForCause, CallStops
    <3>. QED  BY <3>2, <3>4 DEF StopsInv
  <2>. QED  BY <2>2, <2>3
<1>5. CASE ~(found.is = NONE \/ node.flags = "directory") /\ found.is # "node"
  <2>1. /\ stopped' = found.is /\ reply'.op = "open" /\ reply'.path = path
        /\ found.is \notin {"node", NONE}
    BY <1>1, <1>5 DEF LoadFound, Ends
  <2>. QED  BY <2>1, SearchEnds
<1>. QED  BY <1>3, <1>4, <1>5

LEMMA RunStops ==
    ASSUME FilesInv, MountsInv, FoundInv, PlacesInv, StopsInv, stopped = "no",
           RunInit \/ \E s \in Slots : \E input \in Hardware.asks : create_process(s, input)
    PROVE  StopsInv'
<1>1. CASE RunInit
  <2>1. /\ pc = "run" /\ pc' = "user" /\ UNCHANGED <<machine, acpi, controller, tree, volume>>
        /\ Load(INIT_PATH, INIT_PATH)
    BY <1>1 DEF RunInit, At
  <2>2. IsSeq(INIT_PATH)
    BY MachinesAssumption DEF IsSeq
  <2>. QED  BY <2>1, <2>2, LoadStops
<1>2. ASSUME NEW s \in Slots, NEW input \in Hardware.asks, create_process(s, input)
      PROVE  StopsInv'
  <2> DEFINE path == canonicalize_path(cwd[s], input)
  <2>1. /\ pc = "user" /\ pc' = "user" /\ UNCHANGED <<machine, acpi, controller, tree, volume>>
        /\ Load(path, Meaning(cwd[s], input))
    BY <1>2 DEF create_process, Runs, bootVars
  <2>2. path = Meaning(cwd[s], input) /\ IsSeq(path)
    BY AskMeans, AskIs
  <2> HIDE DEF path
  <2>. QED  BY <2>1, <2>2, LoadStops
<1>. QED  BY <1>1, <1>2

LEMMA SearchStep ==
    ASSUME FilesInv, MountsInv, FoundInv, PlacesInv, StopsInv, stopped = "no",
           NEW s \in Slots, NEW input \in Hardware.asks,
           \/ \E append \in BOOLEAN : sys_open(s, input, append)
           \/ \E pid \in Slots : sys_chdir(s, input, pid)
    PROVE  StopsInv'
<1>1. ASSUME NEW append \in BOOLEAN, sys_open(s, input, append)
      PROVE  StopsInv'
  <2> DEFINE means == Meaning(cwd[s], input)
             found == Open(means)
  <2>1. pc = "user" /\ pc' = "user" /\ UNCHANGED <<machine, acpi, controller, tree, volume>>
    BY <1>1 DEF sys_open, Runs, bootVars
  <2>2. OpenFound(s, means, append, found) /\ IsSeq(means)
    <3>1. canonicalize_path(cwd[s], input) = means /\ IsSeq(means)
      BY AskIs, AskMeans
    <3>. QED  BY <1>1, <3>1 DEF sys_open
  <2>3. CASE found.is \in {"node", NONE}
    <3>1. stopped' = "no"
      BY <2>2, <2>3 DEF OpenFound, Goes
    <3>. QED  BY <2>1, <3>1, RunsOn
  <2>4. CASE found.is \notin {"node", NONE}
    <3>1. stopped' = found.is /\ reply'.op = "open" /\ reply'.path = means
      BY <2>2, <2>4 DEF OpenFound, Ends
    <3> HIDE DEF means
    <3>. QED  BY <2>1, <2>2, <2>4, <3>1, SearchEnds
  <2>. QED  BY <2>3, <2>4
<1>2. ASSUME NEW pid \in Slots, sys_chdir(s, input, pid)
      PROVE  StopsInv'
  <2> DEFINE path == canonicalize_path(cwd[pid], input)
             found == Open(path)
  <2>1. pc = "user" /\ pc' = "user" /\ UNCHANGED <<machine, acpi, controller, tree, volume>>
    BY <1>2 DEF sys_chdir, Runs, bootVars
  <2>2. path = Meaning(cwd[pid], input) /\ IsSeq(path)
    BY AskIs, AskMeans
  <2>3. ChdirFound(pid, path, found, path)
    BY <1>2, <2>2 DEF sys_chdir
  <2>4. CASE found.is \in {"node", NONE}
    <3>1. stopped' = "no"
      BY <2>3, <2>4 DEF ChdirFound, Goes
    <3>. QED  BY <2>1, <3>1, RunsOn
  <2>5. CASE found.is \notin {"node", NONE}
    <3>1. stopped' = found.is /\ reply'.op = "open" /\ reply'.path = path
      BY <2>3, <2>5 DEF ChdirFound, Ends
    <3> HIDE DEF path
    <3>. QED  BY <2>1, <2>2, <2>5, <3>1, SearchEnds
  <2>. QED  BY <2>4, <2>5
<1>. QED  BY <1>1, <1>2

\* A descriptor that is not open was not given, and reading one that was ends as
\* a read of its path does.
LEMMA HeldIsFd ==
    ASSUME FilesInv, NEW s \in Slots, NEW fd \in Fds, ~IsFd(s, fd)
    PROVE  fd \notin Held(s)
BY DEF FilesInv, OwnInv, OpenIn, IsFd

LEMMA BadFdStops ==
    ASSUME FilesInv, StopsInv, pc = "user", pc' = "user", UNCHANGED <<machine, acpi, holds>>,
           NEW s \in Slots, NEW fd \in Fds, ~IsFd(s, fd), stopped' = "panic",
           reply'.op \in {"close", "use"}, reply'.slot = s, reply'.fd = fd
    PROVE  StopsInv'
<1>1. fd \notin Held(s)'
  BY HeldIsFd DEF Held
<1>2. reply'.fd \notin Held(reply.slot)'
  BY <1>1 DEF Held
<1>3. StopsForCause'
  BY <1>2 DEF StopsForCause, CallStops
<1>. QED  BY <1>3 DEF StopsInv, Hardware

LEMMA DescriptorStops ==
    ASSUME FilesInv, StopsInv, stopped = "no", NEW s \in Slots, NEW fd \in Fds, NEW index,
           sys_close(s, fd) \/ Looks(s, fd) \/ sys_readdir(s, fd, index)
    PROVE  StopsInv'
<1>1. pc = "user" /\ pc' = "user" /\ UNCHANGED <<machine, acpi>>
  BY DEF sys_close, Looks, sys_readdir, Runs, bootVars
<1>2. CASE IsFd(s, fd)
  <2>1. stopped' = "no"
    BY <1>2 DEF sys_close, Looks, sys_readdir, Goes
  <2>. QED  BY <1>1, <2>1, RunsOn
<1>3. CASE ~IsFd(s, fd)
  <2>1. /\ stopped' = "panic" /\ holds' = holds
        /\ reply'.op \in {"close", "use"} /\ reply'.slot = s /\ reply'.fd = fd
    BY <1>3 DEF sys_close, Looks, sys_readdir, Ends, history
  <2>. QED  BY <1>1, <1>3, <2>1, BadFdStops
<1>. QED  BY <1>2, <1>3

LEMMA ReadEnds ==
    ASSUME FilesInv, MountsInv, FoundInv, PlacesInv, StopsInv, stopped = "no",
           NEW s \in Slots, NEW fd \in Fds, NEW size \in Hardware.sizes, sys_read_fs(s, fd, size)
    PROVE  StopsInv'
<1> DEFINE here == entries[s][fd]
           answer == read_fs(Here, volume, here.node, here.offset, size)
           path == holds[s][fd].path
           at == holds[s][fd].at
<1>1. /\ pc = "user" /\ pc' = "user" /\ UNCHANGED <<machine, acpi, controller, tree, volume>>
  BY DEF sys_read_fs, Runs, bootVars
<1>2. CASE ~IsFd(s, fd)
  <2>1. /\ stopped' = "panic" /\ holds' = holds
        /\ reply'.op = "use" /\ reply'.slot = s /\ reply'.fd = fd
    BY <1>2 DEF sys_read_fs, Ends
  <2>. QED  BY <1>1, <1>2, <2>1, BadFdStops
<1>3. CASE IsFd(s, fd) /\ answer.is = "bytes"
  <2>1. stopped' = "no"
    BY <1>3 DEF sys_read_fs, ReadGives, Goes
  <2>. QED  BY <1>1, <2>1, RunsOn
<1>4. CASE IsFd(s, fd) /\ answer.is # "bytes"
  <2>1. /\ stopped' = answer.is /\ holds' = holds
        /\ reply' = [op |-> "read", slot |-> s, fd |-> fd, size |-> size]
    BY <1>4 DEF sys_read_fs, ReadGives, Ends
  <2> HIDE DEF answer
  <2>2. /\ reply'.op = "read" /\ reply'.slot = s /\ reply'.fd = fd /\ reply'.size = size
        /\ \A x : Held(x)' = Held(x)
    BY <2>1 DEF Held
  <2>3. ASSUME fd \in Held(s) PROVE ReadStops(path, at)'
    <3>1. /\ IsSeq(path) /\ Open(path).is = "node" /\ here.node = Open(path).node
          /\ here.offset = at /\ (Open(path).node.length \in Nat => at \in Nat)
      BY <2>3 DEF FoundInv, HoldsInv, OpenAt
    <3>2. size \in Nat /\ pc # "vfs"
      BY <1>1, SizeIs
    <3> DEFINE p == path
               from == at
    <3>3. /\ p' = p /\ from' = from
      BY <2>1
    <3>4. answer = read_fs(Here, volume, Open(p).node, from, size)
      BY <3>1 DEF answer
    <3>5. IsSeq(p) /\ Open(p).is = "node" /\ (Open(p).node.length \in Nat => from \in Nat)
      BY <3>1
    <3> HIDE DEF p, from, here
    <3>6. /\ answer.is \in {"bytes", "hang", "wild", "smash"}
          /\ answer.is = "hang" => ~Sound(Here.disks[1])
          /\ answer.is = "wild" => ~Plain(p) \/ p = <<>>
          /\ answer.is = "smash" => OutsideRaw(Named(p), from, size)
      <4>1. /\ read_fs(Here, volume, Open(p).node, from, size).is \in {"bytes", "hang", "wild", "smash"}
            /\ read_fs(Here, volume, Open(p).node, from, size).is = "hang" => ~Sound(Here.disks[1])
            /\ read_fs(Here, volume, Open(p).node, from, size).is = "wild" => ~Plain(p) \/ p = <<>>
            /\ read_fs(Here, volume, Open(p).node, from, size).is = "smash" =>
                 Named(p) = Open(p).node /\ OutsideRaw(Open(p).node, from, size)
        BY <3>2, <3>5, ReadComes
      <4>. QED  BY <3>4, <4>1
    <3>7. /\ Here' = Here /\ Named(p)' = Named(p) /\ (Plain(p)' <=> Plain(p))
      <4>1. /\ Here' = Here
            /\ \A x : Named(x)' = Named(x)
            /\ \A x : Plain(x)' <=> Plain(x)
        BY <1>1, CauseSame
      <4>. QED  BY <3>3, <4>1
    <3>8. ReadStops(p, from)'
      BY <1>4, <2>1, <2>2, <3>3, <3>6, <3>7 DEF ReadStops, SearchStops, OutsideRaw
    <3>. QED  BY <3>8 DEF p, from
  <2>4. reply'.fd \in Held(reply.slot)' =>
           ReadStops(holds[reply.slot][reply.fd].path, holds[reply.slot][reply.fd].at)'
    BY <2>2, <2>3
  <2>5. StopsForCause'
    BY <1>1, <2>2, <2>4 DEF StopsForCause, CallStops
  <2>. QED  BY <1>1, <2>5 DEF StopsInv, Hardware
<1>. QED  BY <1>2, <1>3, <1>4

\* Without tables a shutdown does not turn the machine off.
LEMMA PowerStops ==
    ASSUME FilesInv, StopsInv, stopped = "no", NEW s \in Slots, sys_shutdown(s) \/ sys_reboot(s)
    PROVE  StopsInv'
<1> DEFINE fw == Hardware.firmware
<1>1. pc = "user" /\ pc' = "user" /\ UNCHANGED <<machine, acpi>> /\ Hardware' = Hardware
  BY DEF sys_shutdown, sys_reboot, Runs, bootVars, Hardware
<1>2. acpi = init_acpi(fw)
  BY <1>1 DEF StopsInv
<1>3. CASE sys_shutdown(s)
  <2>1. stopped' = shutdown(fw, acpi) /\ reply'.op = "shutdown"
    BY <1>3 DEF sys_shutdown, Ends
  <2>2. FirmwareOk(fw)
    BY MachinesAssumption DEF FilesInv, BootInv, Hardware
  <2> HIDE DEF fw
  <2>3. Complete(fw) => shutdown(fw, acpi) = "off"
    <3>1. Complete(fw) => fw.detected /\ fw.rsdps # <<>> /\ Readable(fw)
      BY DEF Complete, find_rsdp
    <3>. QED  BY <1>2, <2>2, <3>1, InitAcpiReads DEF shutdown
  <2>4. stopped' \in {"no", "off"} \/ (stopped' = "panic" /\ ~Complete(fw))
    BY <2>1, <2>3 DEF shutdown
  <2>5. StopsForCause'
    BY <1>1, <2>1, <2>4 DEF StopsForCause, CallStops, fw
  <2>. QED  BY <1>1, <1>2, <2>5 DEF StopsInv, fw
<1>4. CASE sys_reboot(s)
  <2>1. stopped' = reboot(fw, acpi) /\ reply'.op = "reboot"
    BY <1>4 DEF sys_reboot, Ends
  <2> HIDE DEF fw
  <2>2. stopped' = "reset" \/ (stopped' = "panic" /\ fw.tables[acpi.fadt].reset = "elsewhere")
    BY <2>1 DEF reboot
  <2>3. StopsForCause'
    BY <1>1, <2>1, <2>2 DEF StopsForCause, CallStops, fw
  <2>. QED  BY <1>1, <1>2, <2>3 DEF StopsInv, fw
<1>. QED  BY <1>3, <1>4

LEMMA StopsStep ==
    ASSUME FilesInv, MountsInv, FoundInv, PlacesInv, StopsInv, [FilesNext]_filesVars
    PROVE  StopsInv'
<1>1. CASE UNCHANGED filesVars
  BY <1>1, StillStops
<1>2. CASE stopped # "no"
  BY <1>2, EndStays, StillStops
<1>3. CASE stopped = "no" /\ FilesNext
  <2>1. ASSUME NEW s \in Slots, NEW pid, kill(s, pid) PROVE StopsInv'
    <3>1. pc = "user" /\ stopped' = "no" /\ UNCHANGED <<machine, acpi>>
      BY <2>1 DEF kill, Runs, Goes, bootVars
    <3>. QED  BY <3>1, RunsOn
  <2>. QED  BY <1>3, <2>1, EarlyStops, InitAcpiStops, MountDiskStops, RunStops, SearchStep,
               DescriptorStops, ReadEnds, PowerStops DEF FilesNext, sys_stat, sys_write_fs
<1>. QED  BY <1>1, <1>2, <1>3

\* The machine comes to its end for the listed causes only: every loop without an
\* end is a chain of the disk that meets itself, every search or read that runs
\* wild meets an untidy directory or the root's own name, and every panic and
\* fault has its cause in what the program asked or the machine has (kernel_main,
\* init_acpi, kopen, load_program, sys_read_fs, acpi_shutdown).
THEOREM StopsForCauseInvariant == FilesSpec => []StopsForCause
<1>1. FilesInit => StopsInv
  BY DEF FilesInit, StopsInv, StopsForCause
<1>2. FilesInv /\ MountsInv /\ FoundInv /\ PlacesInv /\ StopsInv /\ [FilesNext]_filesVars => StopsInv'
  BY StopsStep
<1>3. StopsInv => StopsForCause
  BY DEF StopsInv
<1>. QED  BY <1>1, <1>2, <1>3, FilesInvariant, MountsInvariant, FoundInvariant, PlacesInvariant,
             PTL DEF FilesSpec
=============================================================================
