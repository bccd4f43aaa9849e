--------------------------------- MODULE Ata ---------------------------------
(***************************************************************************)
(* The disk driver (src/kernel/arch/x86/drivers/ata.c): the probing of     *)
(* the channels at boot, and the transfers, which wait for one interrupt   *)
(* flag per bus.                                                           *)
(*                                                                         *)
(* This is one of the two buses, a master and a slave: code and variables  *)
(* of the other are its twins, and they share nothing but cur_selected,    *)
(* which OtherBus writes.  One caller is in the driver at a time: were     *)
(* another task to run in a wait, its entry would overwrite the frames of  *)
(* this one (KernelStack).  Drives and interrupts are external and come    *)
(* between any two of its steps.  Of the data only which sector it is      *)
(* matters; registers are reduced to what selects a drive and a sector.    *)
(***************************************************************************)
EXTENDS Integers, Sequences, Pic

CONSTANTS
    Machines,   \* what may be connected, per channel: its kind and capabilities
    MaxSectors, \* lba_max_sectors of a device
    SHORT_MAX,  \* 256, the most sectors of a command with a short count
    EXT_MAX,    \* UINT16_MAX + 1, the most of an extended command
    HeadSpan,   \* 2^24, the sectors that the low address registers reach
    OtherBytes, \* what transfers on the other bus leave in cur_selected
    HPC, SPT,   \* heads per cylinder and sectors per track of a CHS drive
    WAIT        \* the milliseconds that a wait takes at most

ASSUME AtaAssumption ==
    /\ {MaxSectors, SHORT_MAX, EXT_MAX, HeadSpan, HPC, SPT, WAIT} \subseteq Nat \ {0}
    /\ SHORT_MAX < EXT_MAX /\ EXT_MAX > 2

VARIABLES
    attached,    \* external: the member of Machines that this is
    channel,     \* ata_channels: what the driver found
    bus_master_dma,
    booting,     \* the channel ata_init is at; past the last once it is done
    cur_selected,
    fired,       \* ata_primary_interrupt_fired, or its twin
    pc, tries,   \* where the driver is, and the milliseconds it still waits
    op,          \* the request it works on
    blocks,      \* the sectors that op has moved
    answer,      \* what op has returned
    bus,         \* external: the drives, the bus master, the interrupt controllers
    trouble,     \* history: during op a drive erred, a wait for it ran out, or an
                 \* interrupt came that was not its
    excused,     \* history: op began in, or ran into, one of the Excuses
    foreign      \* history: cur_selected was last written for the other bus

bootVars == <<attached, channel, bus_master_dma, booting>>
opVars == <<op, blocks, answer, trouble, excused>>
driverVars == <<bootVars, cur_selected, fired, pc, tries, op, blocks, answer>>
ataVars == <<driverVars, bus, trouble, excused, foreign>>

Channels == 0 .. 1      \* the value of slave

NONE == "none"
PENDING == "pending"
NoSelect == <<>>         \* cur_selected at first, 0xFF
Garbage == <<"garbage">> \* what a register holds that no drive has filled
ID == -1                 \* in place of a sector: the info block

Capabilities == [dma : BOOLEAN, lba : BOOLEAN, ext : BOOLEAN]
CHS == [dma |-> FALSE, lba |-> FALSE, ext |-> FALSE]

ASSUME MachinesAssumption ==
    /\ Machines \subseteq
         [Channels -> [kind : {"disk", "cd", NONE}, can : Capabilities]]
    /\ OtherBytes \subseteq (0 .. 1) \X Channels \X Nat

Absent == [exists |-> FALSE, atapi |-> FALSE, identity |-> Garbage,
           transfers_32bit |-> FALSE]

NoCommand == [kind |-> NONE, lba |-> 0, left |-> 0, dma |-> FALSE]

Identify == {"identify16", "identify32"}

NoOp == [kind |-> "read", unit |-> 0, lba |-> 0, n |-> 0, left |-> 0, dma |-> FALSE]

\* A bus at rest: head is the drive/head register (LBA mode, slave, head),
\* intrq the interrupt line, took the sector that the bus master has moved.
RestingBus ==
    [head |-> <<0, 0, 0>>, phase |-> "idle", cmd |-> NoCommand, intrq |-> FALSE,
     master |-> "off", took |-> Garbage, pic |-> pic_remap]

AtaInit ==
    /\ attached \in Machines
    /\ channel = [c \in Channels |-> Absent]
    /\ bus_master_dma = FALSE
    /\ booting = 0
    /\ cur_selected = NoSelect
    /\ fired = FALSE
    /\ pc = "off" /\ tries = 0
    /\ op = NoOp /\ blocks = <<>> /\ answer = NONE
    /\ bus = RestingBus
    /\ trouble = FALSE /\ excused = FALSE /\ foreign = FALSE

Goto(label) == pc' = label /\ UNCHANGED tries
GotoWait(label) == pc' = label /\ tries' = WAIT

-----------------------------------------------------------------------------
(* The drives and the interrupts, external.                                *)

Selected == bus.head[2]

Working(byDma) == bus.phase = "busy" /\ bus.cmd.dma = byDma

\* A sector is ready for the host, or the drive is ready for one.
DriveReady ==
    /\ Working(FALSE) /\ bus.cmd.left > 0
    /\ bus' = [bus EXCEPT !.phase = "data", !.intrq = TRUE]
    /\ UNCHANGED <<trouble, excused>>

\* The last sector of a write is on the disk.
DriveWritten ==
    /\ Working(FALSE) /\ bus.cmd.left = 0
    /\ bus' = [bus EXCEPT !.phase = "idle", !.intrq = TRUE, !.cmd = NoCommand]
    /\ UNCHANGED <<trouble, excused>>

\* The bus master moves the sector, while it is started.
DriveDma ==
    /\ Working(TRUE) /\ bus.master = "active"
    /\ bus' = [bus EXCEPT !.phase = "idle", !.intrq = TRUE, !.cmd = NoCommand,
                          !.master = "done", !.took = <<Selected, bus.cmd.lba>>]
    /\ UNCHANGED <<trouble, excused>>

\* The command fails.  The bus master is taken to tell it as the driver tests
\* it: it stays active, or shows an error.  PIO looks at no status.
DriveFails ==
    /\ bus.phase = "busy"
    /\ \E m \in IF bus.master = "active" THEN {"active", "error"} ELSE {bus.master} :
         bus' = [bus EXCEPT !.phase = "idle", !.intrq = TRUE, !.cmd = NoCommand, !.master = m]
    /\ trouble' = (trouble \/ answer = PENDING)
    /\ excused' = (excused \/ (answer = PENDING /\ ~op.dma))

\* The drives come back from a reset, the master selected.
DriveReset ==
    /\ bus.phase = "reset"
    /\ bus' = [bus EXCEPT !.phase = "idle", !.head[2] = 0]
    /\ UNCHANGED <<trouble, excused>>

\* What ata_init adds to the handlers.
interrupt_handlers ==
    IF pc = "off" THEN irq_install
    ELSE register_interrupt_handler(
             register_interrupt_handler(irq_install, 14, "ata_primary_interrupt_handler"),
             15, "ata_secondary_interrupt_handler")

\* ata_primary_interrupt_handler, or its twin: reading the status takes the
\* line back.  The twins' lines, 14 and 15, are alike to the controllers.
Interrupt ==
    /\ bus.intrq /\ Delivers(bus.pic, 14)
    /\ bus' = [bus EXCEPT !.intrq = FALSE, !.pic = irq_handler(@, 14)]
    /\ fired' = (fired \/ interrupt_handlers[14] # NoHandler)
    /\ UNCHANGED <<bootVars, cur_selected, pc, tries, opVars, foreign>>

\* A line of a controller has fallen before its interrupt was taken.  For the
\* slave's, ata_secondary_interrupt_handler runs as for a true one, and this
\* bus may be the second.
SpuriousInterrupt ==
    \E line \in Spurious :
        /\ Delivers(bus.pic, line)
        /\ \E second \in BOOLEAN :
             LET told == second /\ interrupt_handlers[line] # NoHandler
             IN  /\ bus' = [bus EXCEPT !.intrq = @ /\ ~told,
                                       !.pic = irq_handler_spurious(@, line)]
                 /\ fired' = (fired \/ told)
                 /\ trouble' = (trouble \/ (told /\ answer = PENDING))
                 /\ excused' = (excused \/ (told /\ answer = PENDING /\ ~op.dma))
    /\ UNCHANGED <<bootVars, cur_selected, pc, tries, op, blocks, answer, foreign>>

External ==
    \/ /\ DriveReady \/ DriveWritten \/ DriveDma \/ DriveFails \/ DriveReset
       /\ UNCHANGED <<driverVars, foreign>>
    \/ Interrupt \/ SpuriousInterrupt

-----------------------------------------------------------------------------
(* Selecting a drive and waiting for it.                                   *)

\* What the info block says of lba, dma and ext_func, and of lba_max_sectors.
\* An empty one passes the check too.
Can(c) == IF channel[c].identity = Garbage THEN CHS ELSE attached[channel[c].identity[1]].can
Sectors(c) == IF channel[c].identity = Garbage THEN 0 ELSE MaxSectors

\* lba_to_chs
Chs(lba) == [cylinder |-> lba \div (HPC * SPT),
             head |-> (lba \div SPT) % HPC,
             sector |-> (lba % SPT) + 1]

\* The byte for the drive/head register: LBA mode, slave, and the part of the
\* address that the command has no other place for.  It does not name the bus.
SelectByte(o) ==
    LET can == Can(o.unit)
    IN  IF o.kind \in Identify \union {"packet"} THEN <<0, o.unit, 0>>
        ELSE IF can.ext THEN <<1, o.unit, 0>>
        ELSE IF can.lba THEN <<1, o.unit, o.lba \div HeadSpan>>
        ELSE <<0, o.unit, Chs(o.lba).head>>

\* What a transfer on the other bus may leave in the cache.
OtherBus ==
    /\ pc \in {"off", "idle"}
    /\ cur_selected' \in OtherBytes
    /\ foreign' = TRUE
    /\ UNCHANGED <<bootVars, fired, pc, tries, opVars, bus>>

\* The sector that the next command of op begins with.
Current == [op EXCEPT !.lba = @ + op.n - op.left]

ReadStatus(state) == [state EXCEPT !.intrq = FALSE]

\* Fault: the cache is written before it is known that the drive is selected.
ata_select_drvEarly(state) ==
    LET select == SelectByte(Current)
    IN  IF select = cur_selected
          THEN bus' = state /\ UNCHANGED <<cur_selected, foreign>>
          ELSE /\ cur_selected' = select /\ foreign' = FALSE
               /\ bus' = IF state.phase = "idle"
                           THEN [ReadStatus(state) EXCEPT !.head = select]
                           ELSE ReadStatus(state)

\* What is selected already, on whichever bus, is not selected again.  While a
\* drive is busy or wants data nothing is selected, and no caller looks at it.
ata_select_drv(state) ==
    LET select == SelectByte(Current)
    IN  IF select = cur_selected
          THEN bus' = state /\ UNCHANGED <<cur_selected, foreign>>
        ELSE IF state.phase = "idle"
          THEN /\ bus' = [ReadStatus(state) EXCEPT !.head = select]
               /\ cur_selected' = select /\ foreign' = FALSE
        ELSE bus' = ReadStatus(state) /\ UNCHANGED <<cur_selected, foreign>>

\* msleep(1), with interrupts on: the timer's next one ends it.
msleep ==
    /\ Delivers(bus.pic, 0)
    /\ bus' = [bus EXCEPT !.pic = irq_handler(@, 0)]
    /\ tries' = tries - 1

\* Fault: the sleeps are not counted.
DriveBusyForever ==
    /\ tries > 0 /\ bus.phase \in {"busy", "reset"}
    /\ UNCHANGED <<ataVars>>

\* A turn of ata_wait_busy that does not end it; msleep(1) follows.
DriveBusy ==
    /\ tries > 0 /\ bus.phase \in {"busy", "reset"}
    /\ msleep
    /\ UNCHANGED <<bootVars, cur_selected, fired, pc, opVars, foreign>>

DriveNotBusy ==
    /\ tries > 0 /\ bus.phase \notin {"busy", "reset"}
    /\ UNCHANGED bus

\* Its time is over: the status is read.
BusyTooLong == tries = 0 /\ bus' = ReadStatus(bus)

\* A turn of ata_wait_for_interrupt that does not end it.
NoInterrupt ==
    /\ tries > 0 /\ ~fired
    /\ msleep
    /\ UNCHANGED <<bootVars, cur_selected, fired, pc, opVars, foreign>>

ata_clear_interrupt_status == fired' = FALSE

Return(value) ==
    /\ answer' = value
    /\ pc' = IF op.kind \in Identify THEN "identified" ELSE "idle"
    /\ tries' = 0

-----------------------------------------------------------------------------
(* What may be wrong when a request begins, so that nothing is promised.   *)

AtRest == bus.phase = "idle" /\ ~bus.intrq

Excuses(o) ==
    \/ ~AtRest                                        \* a drive is at an earlier command
    \/ foreign /\ cur_selected = SelectByte(o)        \* the cache is the other bus's
    \/ ~o.dma /\ fired             \* no transfer by PIO clears the flag,
    \/ ~o.dma /\ o.n > 1           \* nor does it between two sectors,
    \/ o.kind = "packet"           \* nor atapi_send_packet before its answer

Begin(o, label) ==
    /\ op' = o
    /\ blocks' = <<>>
    /\ answer' = PENDING
    /\ trouble' = FALSE
    /\ excused' = Excuses(o)
    /\ GotoWait(label)

\* The request is turned down before anything is done.
Refuse ==
    /\ answer' = "refused"
    /\ blocks' = <<>>
    /\ trouble' = FALSE /\ excused' = FALSE
    /\ UNCHANGED <<op, pc, tries>>

-----------------------------------------------------------------------------
(* The steps of a transfer.                                                *)

\* The transfers that clear the flag before their command.
ClearsFirst(o) == o.dma \/ o.kind = "packet"

AfterBusy(o) == IF o.kind = "packet" THEN "select"
                ELSE IF ClearsFirst(o) THEN "clear" ELSE "command"

\* The loop of ata_read and ata_write over ata_read_dma and ata_write_dma.
NextSector ==
    /\ pc = "loop"
    /\ IF op.left = 0 THEN Return("true") ELSE Goto("select") /\ UNCHANGED answer
    /\ UNCHANGED <<bootVars, cur_selected, fired, op, blocks, bus, trouble, excused, foreign>>

\* ata_init_dma
Prepared(state) == [state EXCEPT !.master = "off", !.took = Garbage]

Select ==
    /\ pc = "select"
    /\ ata_select_drv(IF op.dma THEN Prepared(bus) ELSE bus)
    /\ IF op.kind = "packet" THEN Goto("clear") ELSE GotoWait("busy")
    /\ UNCHANGED <<bootVars, fired, opVars>>

\* ata_wait_busy: of its callers only atapi_send_packet looks at the result.
WaitBusy ==
    /\ pc = "busy"
    /\ \/ DriveBusy
       \/ /\ DriveNotBusy
          /\ Goto(AfterBusy(op))
          /\ UNCHANGED <<bootVars, cur_selected, fired, opVars, foreign>>
       \/ /\ BusyTooLong
          /\ trouble' = TRUE
          /\ IF op.kind = "packet" THEN Return("false")
                                   ELSE Goto(AfterBusy(op)) /\ UNCHANGED answer
          /\ UNCHANGED <<bootVars, cur_selected, fired, op, blocks, excused, foreign>>

Clear ==
    /\ pc = "clear"
    /\ ata_clear_interrupt_status
    /\ Goto("command")
    /\ UNCHANGED <<bootVars, cur_selected, opVars, bus, foreign>>

\* Fault: the count is the number of the last sector.
CountOver(o) == IF o.kind \in Identify \/ o.dma THEN 1 ELSE o.n + 1

\* The sectors the drive is told to move.  A count of zero stands for the most;
\* ata_set_lba48 makes it zero for the count before the most as well.
Count(o) ==
    IF o.kind \in Identify \/ o.dma THEN 1
    ELSE IF Can(o.unit).ext /\ o.n = EXT_MAX - 1 THEN EXT_MAX ELSE o.n

\* Where the drive looks for the sector: the whole address, or the head
\* register with the rest of it.
Address(o) ==
    IF o.kind \in Identify \union {"packet"} THEN ID
    ELSE IF Can(o.unit).ext THEN o.lba
    ELSE IF bus.head[1] = 1 THEN bus.head[3] * HeadSpan + (o.lba % HeadSpan)
    ELSE (Chs(o.lba).cylinder * HPC + bus.head[3]) * SPT + Chs(o.lba).sector - 1

\* The command byte.  A busy drive does not take it, an absent one never
\* answers.  ata_start_dma follows.
Command ==
    /\ pc = "command"
    /\ LET taken == bus.phase = "idle" /\ attached[Selected].kind # NONE
           told == IF taken
                     THEN [bus EXCEPT !.phase = "busy",
                                      !.cmd = [kind |-> op.kind, lba |-> Address(Current),
                                               left |-> Count(op), dma |-> op.dma]]
                     ELSE bus
       IN  bus' = IF op.dma THEN [told EXCEPT !.master = "active"] ELSE told
    /\ GotoWait("wait")
    /\ UNCHANGED <<bootVars, cur_selected, fired, opVars, foreign>>

\* ata_wait_for_interrupt.  The flag stays set; it is cleared where the time is
\* over, after a last sleep behind which nobody looks at it again.
Wait ==
    /\ pc = "wait"
    /\ \/ NoInterrupt
       \/ /\ tries > 0 /\ fired
          /\ Goto(IF op.dma THEN "stop" ELSE "data")
          /\ UNCHANGED <<bootVars, cur_selected, fired, opVars, bus, foreign>>
       \/ /\ tries = 0
          /\ fired' = FALSE
          /\ bus' = IF op.dma THEN [bus EXCEPT !.master = "off"] ELSE bus
          /\ trouble' = TRUE
          /\ Return("false")
          /\ UNCHANGED <<bootVars, cur_selected, op, blocks, excused, foreign>>

\* One sector through the data port, whether the drive is ready or not.
Data ==
    /\ pc = "data"
    /\ LET ready == bus.phase = "data" /\ (bus.cmd.kind = "write") = (op.kind = "write")
           more == bus.cmd.left > 1 \/ bus.cmd.kind = "write"
       IN  /\ blocks' = Append(blocks, IF ready THEN <<Selected, bus.cmd.lba>> ELSE Garbage)
           /\ bus' = IF ~ready THEN bus
                     ELSE IF more THEN [bus EXCEPT !.phase = "busy", !.cmd.left = @ - 1,
                                                   !.cmd.lba = @ + 1]
                     ELSE [bus EXCEPT !.phase = "idle", !.cmd = NoCommand]
    /\ op' = [op EXCEPT !.left = @ - 1]
    /\ IF op.left > 1 THEN GotoWait("wait") /\ UNCHANGED answer ELSE Return("true")
    /\ UNCHANGED <<bootVars, cur_selected, fired, trouble, excused, foreign>>

\* ata_stop_dma, and the status of drive and bus master behind it.
Stop ==
    /\ pc = "stop"
    /\ bus' = Prepared(ReadStatus(bus))
    /\ IF bus.master = "done"
         THEN /\ blocks' = Append(blocks, bus.took)
              /\ op' = [op EXCEPT !.left = @ - 1]
              /\ Goto("loop")
              /\ UNCHANGED answer
         ELSE Return("false") /\ UNCHANGED <<op, blocks>>
    /\ UNCHANGED <<bootVars, cur_selected, fired, trouble, excused, foreign>>

Transfer == NextSector \/ Select \/ WaitBusy \/ Clear \/ Command \/ Wait \/ Data \/ Stop

-----------------------------------------------------------------------------
(* Requests.                                                               *)

Request(kind, c, lba, n, dma) ==
    [kind |-> kind, unit |-> c, lba |-> lba, n |-> n, left |-> n, dma |-> dma]

\* One sector a command.
Dma(kind, c, lba, n) == Begin(Request(kind, c, lba, n, TRUE), "loop")

\* All sectors with one command.
Pio(kind, c, lba, n) ==
    LET most == IF Can(c).ext THEN EXT_MAX ELSE SHORT_MAX
    IN  IF n \in 1 .. most THEN Begin(Request(kind, c, lba, n, FALSE), "select")
                           ELSE Refuse

ata_identify_16(c) == Begin(Request("identify16", c, ID, 1, FALSE), "select")
ata_identify_32(c) == Begin(Request("identify32", c, ID, 1, FALSE), "select")

\* In words, or in double words where identify_32 has read the same as
\* identify_16: the same steps.
ata_read_pio_32(c, lba, n) == channel[c].transfers_32bit /\ Pio("read", c, lba, n)
ata_read_pio_16(c, lba, n) == ~channel[c].transfers_32bit /\ Pio("read", c, lba, n)
ata_write_pio_32(c, lba, n) == channel[c].transfers_32bit /\ Pio("write", c, lba, n)
ata_write_pio_16(c, lba, n) == ~channel[c].transfers_32bit /\ Pio("write", c, lba, n)
ata_read_dma(c, lba, n) == Dma("read", c, lba, n)
ata_write_dma(c, lba, n) == Dma("write", c, lba, n)

ByDma(c) == Can(c).dma /\ bus_master_dma /\ Can(c).lba

\* Outside the device, or by DMA from a device that takes packets.
Impossible(c, lba, n) ==
    \/ ~channel[c].exists
    \/ Sectors(c) < lba + n
    \/ ByDma(c) /\ channel[c].atapi

Idle == pc = "idle" /\ UNCHANGED <<bootVars, cur_selected, fired, bus, foreign>>

ata_read(c, lba, n) ==
    /\ Idle
    /\ IF Impossible(c, lba, n) THEN Refuse
       ELSE IF ByDma(c) THEN ata_read_dma(c, lba, n)
       ELSE ata_read_pio_32(c, lba, n) \/ ata_read_pio_16(c, lba, n)

ata_write(c, lba, n) ==
    /\ Idle
    /\ IF Impossible(c, lba, n) THEN Refuse
       ELSE IF ByDma(c) THEN ata_write_dma(c, lba, n)
       ELSE ata_write_pio_32(c, lba, n) \/ ata_write_pio_16(c, lba, n)

\* The command packet, and then what the device answers.
atapi_send_packet(c) ==
    /\ Idle
    /\ IF channel[c].atapi THEN Begin(Request("packet", c, ID, 2, FALSE), "busy") ELSE Refuse

-----------------------------------------------------------------------------
(* Boot: ata_init, and ata_init_device for each channel.                   *)

\* pci_check_function calls it; a bus master serves all channels or none.
ata_init ==
    /\ pc = "off"
    /\ bus_master_dma' \in BOOLEAN
    /\ Goto("probe")
    /\ UNCHANGED <<attached, channel, booting, cur_selected, fired, opVars, bus, foreign>>

Probed(found) ==
    /\ channel' = [channel EXCEPT ![booting] = found]
    /\ booting' = booting + 1
    /\ Goto(IF booting' \in Channels THEN "probe" ELSE "idle")
    /\ UNCHANGED <<attached, bus_master_dma>>

\* Nobody drives an empty bus.  The reset selects the channel without the cache.
Probe ==
    /\ pc = "probe"
    /\ IF \A c \in Channels : attached[c].kind = NONE
         THEN Probed(Absent) /\ UNCHANGED bus
         ELSE /\ bus' = [RestingBus EXCEPT !.phase = "reset", !.head[2] = booting, !.pic = bus.pic]
              /\ GotoWait("reset")
              /\ UNCHANGED bootVars
    /\ UNCHANGED <<cur_selected, fired, opVars, foreign>>

AwaitReset ==
    /\ pc = "reset"
    /\ \/ DriveBusy
       \/ /\ DriveNotBusy
          /\ Goto("signature")
          /\ UNCHANGED <<bootVars, cur_selected, fired, opVars, foreign>>
       \/ /\ BusyTooLong
          /\ Probed(Absent)
          /\ UNCHANGED <<cur_selected, fired, opVars, foreign>>

\* The signature that the reset leaves; for a slave that is not there it is the
\* master's.
Seen(c) == {NONE, IF attached[c].kind = NONE THEN attached[0].kind ELSE attached[c].kind}

Signature ==
    /\ pc = "signature"
    /\ \E seen \in Seen(booting) :
         IF seen = NONE THEN Probed(Absent) /\ UNCHANGED opVars
         ELSE /\ channel' = [channel EXCEPT ![booting].atapi = seen = "cd"]
              /\ ata_identify_16(booting)
              /\ UNCHANGED <<attached, booting, bus_master_dma>>
    /\ UNCHANGED <<cur_selected, fired, bus, foreign>>

\* What no drive has sent may pass the check, or not.
ata_check_identity(block) == IF block = Garbage THEN BOOLEAN ELSE {TRUE}

Identified ==
    /\ pc = "identified" /\ op.kind = "identify16"
    /\ \E valid \in IF answer = "true" THEN ata_check_identity(blocks[1]) ELSE {FALSE} :
         IF valid
           THEN /\ channel' = [channel EXCEPT ![booting].identity = blocks[1]]
                /\ ata_identify_32(booting)
                /\ UNCHANGED <<attached, booting, bus_master_dma>>
           ELSE Probed(Absent) /\ UNCHANGED opVars
    /\ UNCHANGED <<cur_selected, fired, bus, foreign>>

\* memcmp of the two info blocks; nothing is known of garbage.
SameBlock(one, other) ==
    IF one = Garbage /\ other = Garbage THEN BOOLEAN ELSE {one = other}

\* The capabilities are in the info block; the device is mounted.
Mounted ==
    /\ pc = "identified" /\ op.kind = "identify32"
    /\ \E wide \in IF answer = "true" THEN SameBlock(channel[booting].identity, blocks[1])
                                      ELSE {FALSE} :
         Probed([channel[booting] EXCEPT !.exists = TRUE, !.transfers_32bit = wide])
    /\ UNCHANGED <<cur_selected, fired, opVars, bus, foreign>>

ata_init_device == Probe \/ AwaitReset \/ Signature \/ Identified \/ Mounted

-----------------------------------------------------------------------------
Driver == Transfer \/ ata_init \/ ata_init_device

Requests ==
    \/ \E c \in Channels, lba \in 0 .. MaxSectors - 1, n \in 0 .. EXT_MAX :
         ata_read(c, lba, n) \/ ata_write(c, lba, n)
    \/ \E c \in Channels : atapi_send_packet(c)

AtaNext == External \/ OtherBus \/ Driver \/ Requests

AtaSpec == AtaInit /\ [][AtaNext]_ataVars

\* The driver gets on: every turn of a wait ends with the timer's interrupt.
\* Nothing is assumed of the drives.
AtaFairSpec == AtaSpec /\ WF_ataVars(Driver)

-----------------------------------------------------------------------------
(* Properties.                                                             *)

\* With the head of another request in its register a drive may be told of a
\* sector behind its end.
Blocks == {Garbage} \union (Channels \X ({ID} \union Nat))

AtaTypeOK ==
    /\ booting \in 0 .. 2 /\ tries \in 0 .. WAIT /\ fired \in BOOLEAN
    /\ blocks \in Seq(Blocks) /\ Len(blocks) <= EXT_MAX
    /\ op.left \in 0 .. EXT_MAX
    /\ answer \in {NONE, PENDING, "true", "false", "refused"}
    /\ bus.cmd.left \in 0 .. EXT_MAX /\ bus.took \in Blocks
    /\ bus.pic = pic_remap

\* Unless a request began in a state that Excuses names, the answer is the
\* truth about the drive: the sectors have moved, or there was a reason.
Device == INSTANCE BlockDevice WITH
    Requests <- [unit : Channels, lba : ID .. MaxSectors, n : 0 .. EXT_MAX],
    request <- [unit |-> op.unit, lba |-> op.lba, n |-> op.n],
    moved <- IF answer = "true" THEN blocks ELSE <<>>

ImplementsBlockDevice == Device!Spec

\* A read that succeeded leaves nothing behind on its bus, so the next request
\* needs no excuse; no interrupt of it may answer a later wait.
ReadLeavesRest ==
    pc = "idle" /\ answer = "true" /\ op.kind = "read" /\ ~excused => AtRest

\* Every request is answered, also when the drive never does.
RequestAnswered == (answer = PENDING) ~> (answer # PENDING)
=============================================================================
