--------------------------------- MODULE Fat32 ---------------------------------
(***************************************************************************)
(* What is read from a disk: byte ranges of the device (read_ata_bytes in  *)
(* drivers/ata.c) and, through them, the FAT32 file system (fs/fat32.c).   *)
(*                                                                         *)
(* A disk is a sequence of units: a boot record, an info record, an entry  *)
(* of the allocation table, a directory entry, or a datum of a file.  A    *)
(* unit stands where its first byte does, so offsets and sizes count       *)
(* units.  The sectors themselves are read without error (Ata).  What code *)
(* takes from memory nobody filled is STRAY.                               *)
(***************************************************************************)
EXTENDS Integers, Sequences, FiniteSets, SequencesExt

CONSTANTS
    SECTOR,   \* units of a sector
    WORD,     \* 2^32, in units
    Parts,    \* of a path component: its base name, and its extension or NONE
    Begins,   \* <<n, e>>: e begins with n, and goes on
    OneLetter \* names of one letter

NONE == "none"
EOC == -1           \* 0x0FFFFFF8 and above
BAD == -2           \* 0x0FFFFFF7

STRAY == [kind |-> "stray"]
Zero == [kind |-> "zero"]
OUTSIDE == -1
HANG == <<0>>       \* a walk without an end: no chain holds 0

ASSUME Fat32Assumption ==
    /\ SECTOR \in Nat \ {0} /\ WORD \in Nat \ {0}
    /\ \A c \in DOMAIN Parts : Parts[c] \in Seq(STRING) /\ Len(Parts[c]) = 2

\* What may stand on a disk: the numbers of clusters have 28 bits (others end a
\* chain as EOC does, links are cut to as many).
UnitOk(u) ==
    /\ u.kind = "fat" => u.next \in {EOC, BAD} \union 0 .. WORD - 1
    /\ u.kind = "entry" => u.cluster \in 0 .. WORD - 1
    /\ u.kind = "boot" => /\ u.root \in 0 .. WORD - 1
                          /\ {u.reserved, u.fats, u.perFat, u.sectors} \subseteq Nat
                          /\ u.partitions \in Seq([active : BOOLEAN, lba : Nat])

-----------------------------------------------------------------------------
(* The device.                                                             *)

ata_max_offset(disk) == Len(disk)

\* ata_read of one sector into a new buffer; past the end it fails.
ata_read(disk, block) ==
    [i \in 0 .. SECTOR - 1 |->
        IF block * SECTOR + i < Len(disk) THEN disk[block * SECTOR + i + 1] ELSE STRAY]

\* read_ata_bytes: the positions of the caller's buffer that it fills, and with
\* what; OUTSIDE is a position that is not in it.  A request past the end is
\* cut to max - size, not to max - offset, of 32 bits; one of no bytes at
\* offset 0 takes 2^32 - 1 for its last block.
Written(disk, offset, size) ==
    LET max == ata_max_offset(disk)
        n == IF offset + size > max THEN max - size ELSE size
        first == offset \div SECTOR
        last == (offset + size - 1) \div SECTOR
        skip == offset % SECTOR
        partial == skip # 0 \/ n < SECTOR
        head == IF partial THEN IF SECTOR - skip > n THEN n ELSE SECTOR - skip ELSE 0
        from == IF partial THEN first + 1 ELSE first
        tail == IF (offset + n) % SECTOR # 0 /\ from <= last THEN (offset + n) % SECTOR ELSE 0
        whole == from .. (IF tail > 0 THEN last - 1 ELSE last)
        prefix == {<<i, ata_read(disk, first)[skip + i]>> : i \in 0 .. head - 1}
        postfix == {<<n - tail + i, ata_read(disk, last)[i]>> : i \in 0 .. tail - 1}
        middle == UNION {{<<head + (b - from) * SECTOR + i, ata_read(disk, b)[i]>> :
                             i \in 0 .. SECTOR - 1} : b \in {c \in whole : c * SECTOR < max}}
    IN  IF n < 0 \/ offset + size = 0 THEN {<<OUTSIDE, STRAY>>}
        ELSE prefix \union postfix \union middle

\* The answer of a read: what the caller's buffer holds of what it asked for,
\* or why the read never comes to an answer.
Answer(bytes) == [is |-> "bytes", bytes |-> bytes]
Fails(why) == [is |-> why, bytes |-> <<>>]
NoBytes == Answer(<<>>)

\* The buffer, of which n are the answer.
Filled(w, size, n) ==
    LET at(i) == IF \E u \in w : u[1] = i THEN (CHOOSE u \in w : u[1] = i)[2] ELSE STRAY
    IN  IF \E u \in w : u[1] \notin 0 .. size - 1 THEN Fails("smash")
        ELSE Answer(SubSeq([i \in 1 .. size |-> at(i - 1)], 1, n))

read_ata_bytes(disk, offset, size) ==
    LET max == ata_max_offset(disk)
    IN  IF offset > max THEN NoBytes
        ELSE Filled(Written(disk, offset, size), size,
                    IF offset + size > max THEN max - size ELSE size)

\* One unit, as the file system asks for it.
FirstOf(bytes) == IF bytes = <<>> THEN Zero ELSE Head(bytes)
Unit(disk, offset) == FirstOf(read_ata_bytes(disk, offset, 1).bytes)

-----------------------------------------------------------------------------
(* The file system.                                                        *)

NoVolume == [root |-> 0, fat |-> 0, first_usable_sector |-> 0, sectors |-> 0]

cluster_size(v) == v.sectors * SECTOR

fat32_cluster_to_lba(v, c) == (c - 2) * v.sectors + v.first_usable_sector

UpTo(bytes, n) == [i \in 1 .. n |-> IF i \in DOMAIN bytes THEN bytes[i] ELSE STRAY]
fat32_read_cluster_raw(disk, v, c) ==
    UpTo(read_ata_bytes(disk, fat32_cluster_to_lba(v, c) * SECTOR, cluster_size(v)).bytes,
         cluster_size(v))

\* The numbers at which the walk of a chain stops.
Stops(c) == c \in {0, 1, BAD, EOC}

LinkIn(u) == IF u.kind = "fat" THEN u.next ELSE 0
NextCluster(disk, v, c) == LinkIn(Unit(disk, (v.fat * SECTOR + c) % WORD))

\* The walk has no bound: where more links are followed than there are units
\* on the disk, one was followed twice, and it goes on for ever.
Ended(walked) ==
    IF Stops(walked[Len(walked)]) THEN SubSeq(walked, 1, Len(walked) - 1) ELSE HANG
fat32_create_fat_cluster_chain(disk, v, start) ==
    LET walk[n \in 0 .. Len(disk)] ==
            IF n = 0 THEN <<start>>
            ELSE LET seen == walk[n - 1]
                     c == seen[Len(seen)]
                 IN  IF Stops(c) THEN seen ELSE Append(seen, NextCluster(disk, v, c))
    IN  Ended(walk[Len(disk)])

\* memcmp over the length of the name.
Matches(name, entry) == name = entry \/ <<name, entry>> \in Begins

\* The entries of a directory in the order of the search.
Listing(disk, v, chain) ==
    FlattenSeq([i \in DOMAIN chain |-> fat32_read_cluster_raw(disk, v, chain[i])])

\* What the search stops at: the end mark; a directory that begins with the
\* name; a file that begins with both parts, or any file where the name has no
\* extension.  Deleted entries and long names are passed over.
StopsAt(e, name) ==
    \/ e.kind = "zero"
    \/ /\ e.kind = "entry" /\ e.attribute = "directory"
       /\ name[2] = NONE /\ Matches(name[1], e.file_name)
    \/ /\ e.kind = "entry" /\ e.attribute = "file"
       /\ name[2] # NONE => Matches(name[1], e.file_name) /\ Matches(name[2], e.extension)

\* fat32_finddir_raw: an entry; NONE; "wild" where the search runs out of
\* clusters before an end mark, with ret_val never set; or "hang".
Search(list, name) ==
    LET hits == {k \in DOMAIN list : StopsAt(list[k], name)}
        hit == list[CHOOSE k \in hits : \A j \in hits : k <= j]
    IN  CASE hits = {} -> [is |-> "wild"]
          [] hits # {} /\ (hit.kind = "zero" \/ (hit.attribute = "file" /\ name[2] = NONE)) ->
                 [is |-> NONE]
          [] OTHER -> [is |-> "entry", entry |-> hit]
SearchOf(disk, v, chain, name) ==
    IF chain = HANG THEN [is |-> "hang"] ELSE Search(Listing(disk, v, chain), name)
fat32_finddir_raw(disk, v, cluster, name) ==
    SearchOf(disk, v, fat32_create_fat_cluster_chain(disk, v, cluster), name)

\* fat32_get_entry_name: the scan for the last letter stops short of the
\* first, so a part of one letter comes out empty; the dot is always there.
Trimmed(part) == IF part \in OneLetter \union {NONE} THEN "" ELSE part
fat32_get_entry_name(e) == <<Trimmed(e.file_name), Trimmed(e.extension)>>

\* fat32_read_file: each round copies up to a cluster's worth from where it
\* starts in the buffer (Place), what lies behind it included.  The test for
\* the end of the chain lets one cluster too many pass.
PlaceUnskipped(i, offset, size) == i % size
Place(i, offset, size) == (i % size) + (IF i < size THEN offset % size ELSE 0)
Copied(disk, v, chain, offset, len) ==
    LET size == cluster_size(v)
        rounds == (len + size - 1) \div size
        take(i) ==
            LET c == offset \div size + i \div size + 1
            IN  IF c \in DOMAIN chain /\ Place(i, offset, size) < size
                THEN fat32_read_cluster_raw(disk, v, chain[c])[Place(i, offset, size) + 1]
                ELSE STRAY
    IN  CASE chain = HANG -> Fails("hang")
          [] chain # HANG /\ rounds > 1 /\ offset \div size + rounds - 1 > Len(chain) -> NoBytes
          [] OTHER -> Answer(SubSeq([i \in 1 .. rounds * size |-> take(i - 1)], 1, len))
fat32_read_file(disk, v, cluster, offset, len) ==
    Copied(disk, v, fat32_create_fat_cluster_chain(disk, v, cluster), offset, len)

\* fat32_read: the file is searched again, by its node's name, and only a
\* range within the file is served.
Served(e, offset, size) ==
    e.dated /\ e.attribute = "file" /\ size <= e.size /\ offset + size <= e.size
ReadFound(disk, v, found, offset, size) ==
    CASE found.is \in {"wild", "hang"} -> Fails(found.is)
      [] found.is = "entry" /\ Served(found.entry, offset, size) ->
             fat32_read_file(disk, v, found.entry.cluster, offset, size)
      [] OTHER -> NoBytes
fat32_read(disk, v, node, offset, size) ==
    IF node.inode = 0 THEN NoBytes
    ELSE ReadFound(disk, v, fat32_finddir_raw(disk, v, node.parent, node.name), offset, size)

\* init_fat32: the volume at lba, NONE where its records are not FAT32's, or
\* the walk of the root's chain without an end.  start_lba * 512 is a product
\* of 32 bits.
VolumeOf(lba, bpb) ==
    [root |-> bpb.root, fat |-> lba + bpb.reserved, sectors |-> bpb.sectors,
     first_usable_sector |-> lba + bpb.reserved + bpb.fats * bpb.perFat]
Checked(disk, v, bpb, info) ==
    CASE bpb.type # "FAT32" \/ info.kind # "info" \/ bpb.fats < 1 -> [is |-> NONE]
      [] fat32_create_fat_cluster_chain(disk, v, v.root) = HANG -> [is |-> "hang"]
      [] OTHER -> [is |-> "volume", volume |-> v]
Booted(disk, lba, bpb) ==
    IF bpb.kind # "boot" THEN [is |-> NONE]
    ELSE Checked(disk, VolumeOf(lba, bpb), bpb, Unit(disk, (lba + bpb.info) * SECTOR))
init_fat32(disk, lba) == Booted(disk, lba, Unit(disk, (lba * SECTOR) % WORD))
=============================================================================
