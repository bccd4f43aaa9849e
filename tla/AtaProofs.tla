------------------------------ MODULE AtaProofs ------------------------------
(***************************************************************************)
(* Proofs about Ata for every machine, every size of a device and every    *)
(* length of a wait.                                                       *)
(***************************************************************************)
EXTENDS Ata, SequenceTheorems, TLAPS

-----------------------------------------------------------------------------
(* The operators.                                                          *)

\* After each interrupt, and each spurious one, the controllers are at rest.
LEMMA PicRests ==
    /\ irq_handler(pic_remap, 0) = pic_remap
    /\ irq_handler(pic_remap, 14) = pic_remap
    /\ \A line \in Spurious : irq_handler_spurious(pic_remap, line) = pic_remap
<1>1. ASSUME NEW line \in Int PROVE Ended({line}) = {}
  BY <1>1 DEF Ended, Sets!Min
<1>2. irq_handler(pic_remap, 0) = pic_remap
  <2>1. Acknowledged(pic_remap, 0) = [master |-> {0}, slave |-> {}]
    BY DEF Acknowledged, pic_remap
  <2>2. pic_send_eoi([master |-> {0}, slave |-> {}])
          = [master |-> Ended({0}), slave |-> {}]
    BY DEF pic_send_eoi, pic_remap, CASCADE
  <2>. QED  BY <1>1, <2>1, <2>2 DEF irq_handler, pic_remap
<1>3. irq_handler(pic_remap, 14) = pic_remap
  <2>1. Acknowledged(pic_remap, 14) = [master |-> {2}, slave |-> {6}]
    BY DEF Acknowledged, pic_remap, CASCADE
  <2>2. pic_send_eoi([master |-> {2}, slave |-> {6}])
          = [master |-> Ended({2}), slave |-> Ended({6})]
    BY DEF pic_send_eoi, pic_remap, CASCADE
  <2>. QED  BY <1>1, <2>1, <2>2 DEF irq_handler, pic_remap
<1>4. irq_handler_spurious(pic_remap, 7) = pic_remap
  BY DEF irq_handler_spurious, AcknowledgedSpurious, pic_send_eoi, pic_remap, CASCADE
<1>5. irq_handler_spurious(pic_remap, 15) = pic_remap
  <2>1. AcknowledgedSpurious(pic_remap, 15) = [master |-> {2}, slave |-> {}]
    BY DEF AcknowledgedSpurious, pic_remap, CASCADE
  <2>2. pic_send_eoi([master |-> {2}, slave |-> {}])
          = [master |-> Ended({2}), slave |-> {}]
    BY DEF pic_send_eoi, pic_remap, CASCADE
  <2>. QED  BY <1>1, <2>1, <2>2 DEF irq_handler_spurious, pic_remap
<1>. QED  BY <1>2, <1>3, <1>4, <1>5 DEF Spurious

-----------------------------------------------------------------------------
(* Types.                                                                  *)

OpKinds == {"read", "write", "packet"} \union Identify
Sector == {ID} \union Nat
Heads == (0 .. 1) \X Channels \X Nat

Found == [exists : BOOLEAN, atapi : BOOLEAN, identity : Blocks, transfers_32bit : BOOLEAN]

Operations == [kind : OpKinds, unit : Channels, lba : ID .. MaxSectors,
               n : 0 .. EXT_MAX, left : 0 .. EXT_MAX, dma : BOOLEAN]

Commands == [kind : {NONE} \union OpKinds, lba : Sector, left : 0 .. EXT_MAX, dma : BOOLEAN]

Buses == [head : Heads, phase : {"idle", "busy", "data", "reset"}, cmd : Commands,
          intrq : BOOLEAN, master : {"off", "active", "done", "error"}, took : Blocks,
          pic : {pic_remap}]

Moving == {"loop", "select", "busy", "clear", "command", "wait", "data", "stop"}
Labels == {"off", "probe", "reset", "signature", "identified", "idle"} \union Moving

Answers == {NONE, PENDING, "true", "false", "refused"}

Typed ==
    /\ attached \in [Channels -> [kind : {"disk", "cd", NONE}, can : Capabilities]]
    /\ channel \in [Channels -> Found]
    /\ bus_master_dma \in BOOLEAN /\ booting \in 0 .. 2
    /\ cur_selected \in {NoSelect} \union Heads
    /\ fired \in BOOLEAN /\ pc \in Labels /\ tries \in 0 .. WAIT
    /\ op \in Operations
    /\ blocks \in Seq(Blocks)
    /\ answer \in Answers /\ bus \in Buses
    /\ trouble \in BOOLEAN /\ excused \in BOOLEAN /\ foreign \in BOOLEAN

LEMMA TypedRest == RestingBus \in Buses
<1>1. Garbage \in Blocks
  BY DEF Blocks
<1>2. NoCommand \in Commands
  BY AtaAssumption DEF NoCommand, Commands, Sector
<1>3. <<0, 0, 0>> \in Heads
  BY DEF Heads, Channels
<1>. QED  BY <1>1, <1>2, <1>3 DEF RestingBus, Buses

LEMMA TypedInit == AtaInit => Typed
<1>. SUFFICES ASSUME AtaInit PROVE Typed
  OBVIOUS
<1>1. attached \in [Channels -> [kind : {"disk", "cd", NONE}, can : Capabilities]]
  BY MachinesAssumption DEF AtaInit
<1>2. Garbage \in Blocks
  BY DEF Blocks
<1>3. channel \in [Channels -> Found]
  BY <1>2 DEF AtaInit, Absent, Found
<1>4. bus \in Buses
  BY TypedRest DEF AtaInit
<1>5. op \in Operations
  BY AtaAssumption DEF AtaInit, NoOp, Operations, OpKinds, Channels, ID
<1>6. blocks \in Seq(Blocks) /\ tries \in 0 .. WAIT
  BY AtaAssumption DEF AtaInit
<1>7. booting \in 0 .. 2
  BY DEF AtaInit
<1>8. pc \in Labels /\ answer \in Answers /\ cur_selected \in {NoSelect} \union Heads
  BY DEF AtaInit, Labels, Answers
<1>9. bus_master_dma \in BOOLEAN /\ fired \in BOOLEAN /\ trouble \in BOOLEAN /\ excused \in BOOLEAN /\ foreign \in BOOLEAN
  BY DEF AtaInit
<1>. QED  BY <1>1, <1>3, <1>4, <1>5, <1>6, <1>7, <1>8, <1>9 DEF Typed

-----------------------------------------------------------------------------
(* The inductive invariant.                                                *)

\* Where boot is, and whether a request is under way.
Controlled ==
    /\ answer = PENDING <=> pc \in Moving
    /\ pc = "off" => booting = 0
    /\ pc \in {"probe", "reset", "signature", "identified"} => booting \in Channels
    /\ pc = "idle" => booting = 2
    /\ booting \in Channels => answer = NONE \/ op.kind \in Identify
    /\ pc \in Moving /\ op.kind \in Identify => booting = op.unit
    /\ pc = "identified" => op.kind \in Identify /\ answer \in {"true", "false"}

\* A drive that wants to pass on a sector has one left.
DataLeft == bus.phase = "data" => bus.cmd.left > 0

\* What is left of the request, and the steps that each kind goes through.
Counted ==
    /\ op.kind \in Identify \union {"packet"} => op.lba = ID /\ ~op.dma
    /\ op.kind \in Identify => op.n = 1
    /\ op.kind \in {"read", "write"} => op.lba \in Nat
    /\ Len(blocks) + op.left <= op.n
    /\ answer \in {PENDING, "true", "false"} => Len(blocks) + op.left = op.n
    /\ answer = "true" => op.left = 0
    /\ pc \in Moving \ {"loop"} => op.left > 0
    /\ pc \in {"loop", "stop"} => op.dma
    /\ pc = "clear" => op.dma \/ op.kind = "packet"
    /\ pc = "data" => ~op.dma
    /\ DataLeft

\* What is selected is what the cache says, if it was last written for this
\* bus.  A reset goes past the cache, to the master.
SelectionKnown ==
    /\ bus.phase # "reset" /\ ~foreign /\ cur_selected # NoSelect
         => bus.head = cur_selected
    /\ bus.phase = "reset" => bus.head[1] = 0 /\ bus.head[3] = 0
    /\ bus.phase = "reset" \/ booting = 0 \/ pc = "probe"
         => foreign \/ cur_selected \in {NoSelect, <<0, 0, 0>>}

\* The command of the sector that op is at, as the drive has it.
Ours == bus.cmd = [kind |-> op.kind, lba |-> Current.lba, left |-> 1, dma |-> op.dma]

\* By PIO the flag is set for a sector that is ready, and never else.
PioHonest ==
    \/ /\ bus.phase = "idle" /\ ~bus.intrq
       /\ ~fired /\ pc = "wait"
    \/ /\ bus.phase = "busy" /\ ~bus.intrq /\ Ours
       /\ ~fired /\ pc = "wait"
    \/ /\ bus.phase = "data" /\ Ours /\ fired = ~bus.intrq
       /\ pc = "data" => fired

\* By DMA it is set for a sector that has moved, or in trouble.
DmaHonest ==
    /\ bus.phase \in {"idle", "busy"}
    /\ bus.phase = "busy" => Ours /\ bus.master = "active" /\ ~bus.intrq
    /\ bus.master = "done" => bus.phase = "idle" /\ bus.took = <<op.unit, Current.lba>>
    /\ bus.intrq \/ fired => trouble \/ bus.master = "done"
    /\ pc = "stop" => fired

\* A request with no excuse, at each of its steps.
Promise ==
    /\ op.kind # "packet" /\ (op.dma \/ op.n = 1)
    /\ \A i \in 1 .. Len(blocks) : blocks[i] = <<op.unit, op.lba + i - 1>>
    /\ pc \in {"loop", "select"} => ~foreign \/ cur_selected # SelectByte(Current)
    /\ pc \notin {"loop", "select"} => ~foreign /\ bus.head = SelectByte(Current)
    /\ pc \in {"loop", "select", "busy", "clear", "command"} => AtRest /\ (op.dma \/ ~fired)
    /\ pc = "command" /\ fired => trouble
    /\ pc \in {"wait", "data"} /\ ~op.dma => PioHonest
    /\ pc \in {"wait", "stop"} /\ op.dma => DmaHonest

Honest == pc \in Moving /\ ~excused => Promise

AtaInv ==
    /\ Typed /\ Controlled /\ Counted
    /\ SelectionKnown /\ Honest /\ ReadLeavesRest

-----------------------------------------------------------------------------
(* What the steps are made of.                                             *)

USE DEF PENDING, NONE

\* The controllers are at rest between any two steps: an interrupt goes in and
\* out in one.
LEMMA PicStill ==
  ASSUME Typed
  PROVE  /\ msleep => bus' = bus /\ tries' = tries - 1
         /\ Interrupt => bus' = [bus EXCEPT !.intrq = FALSE]
         /\ SpuriousInterrupt =>
              \E told \in BOOLEAN :
                 /\ told => pc # "off"
                 /\ bus' = [bus EXCEPT !.intrq = @ /\ ~told]
                 /\ fired' = (fired \/ told)
                 /\ trouble' = (trouble \/ (told /\ answer = PENDING))
                 /\ excused' = (excused \/ (told /\ answer = PENDING /\ ~op.dma))
                 /\ UNCHANGED <<bootVars, cur_selected, pc, tries, op, blocks, answer, foreign>>
<1>1. bus \in Buses /\ bus.pic = pic_remap
  BY DEF Typed, Buses
<1>2. msleep => bus' = bus /\ tries' = tries - 1
  <2>. SUFFICES ASSUME msleep PROVE bus' = bus
    BY DEF msleep
  <2>1. bus' = [bus EXCEPT !.pic = bus.pic]
    BY <1>1, PicRests DEF msleep
  <2>. QED  BY <1>1, <2>1 DEF Buses
<1>3. Interrupt => bus' = [bus EXCEPT !.intrq = FALSE]
  <2>. SUFFICES ASSUME Interrupt PROVE bus' = [bus EXCEPT !.intrq = FALSE]
    OBVIOUS
  <2>1. bus' = [bus EXCEPT !.intrq = FALSE, !.pic = bus.pic]
    BY <1>1, PicRests DEF Interrupt
  <2>. QED  BY <1>1, <2>1 DEF Buses
<1>4. ASSUME SpuriousInterrupt
      PROVE  \E told \in BOOLEAN :
                 /\ told => pc # "off"
                 /\ bus' = [bus EXCEPT !.intrq = @ /\ ~told]
                 /\ fired' = (fired \/ told)
                 /\ trouble' = (trouble \/ (told /\ answer = PENDING))
                 /\ excused' = (excused \/ (told /\ answer = PENDING /\ ~op.dma))
                 /\ UNCHANGED <<bootVars, cur_selected, pc, tries, op, blocks, answer, foreign>>
  <2>1. PICK line \in Spurious, second \in BOOLEAN :
           LET told == second /\ interrupt_handlers[line] # NoHandler
           IN  /\ bus' = [bus EXCEPT !.intrq = @ /\ ~told,
                                     !.pic = irq_handler_spurious(@, line)]
               /\ fired' = (fired \/ told)
               /\ trouble' = (trouble \/ (told /\ answer = PENDING))
               /\ excused' = (excused \/ (told /\ answer = PENDING /\ ~op.dma))
    BY <1>4 DEF SpuriousInterrupt
  <2>2. PICK told \in BOOLEAN : told = (second /\ interrupt_handlers[line] # NoHandler)
    OBVIOUS
  <2>3. told => pc # "off"
    <3>1. pc = "off" => interrupt_handlers[line] = NoHandler
      BY DEF interrupt_handlers, irq_install, Spurious, Lines
    <3>. QED  BY <2>2, <3>1
  <2>4. irq_handler_spurious(bus.pic, line) = bus.pic
    BY <1>1, PicRests
  <2>5. bus' = [bus EXCEPT !.intrq = @ /\ ~told, !.pic = bus.pic]
    BY <2>1, <2>2, <2>4
  <2>6. bus' = [bus EXCEPT !.intrq = @ /\ ~told]
    BY <1>1, <2>5 DEF Buses
  <2>7. UNCHANGED <<bootVars, cur_selected, pc, tries, op, blocks, answer, foreign>>
    BY <1>4 DEF SpuriousInterrupt
  <2>. QED  BY <2>1, <2>2, <2>3, <2>6, <2>7
<1>. QED  BY <1>2, <1>3, <1>4

LEMMA CanTyped ==
  ASSUME Typed, NEW c \in Channels
  PROVE  Can(c) \in Capabilities
<1>1. channel[c].identity \in Blocks
  BY DEF Typed, Found
<1>2. CASE channel[c].identity = Garbage
  BY <1>2 DEF Can, CHS, Capabilities
<1>3. CASE channel[c].identity # Garbage
  <2>1. channel[c].identity[1] \in Channels
    BY <1>1, <1>3 DEF Blocks
  <2>2. attached[channel[c].identity[1]].can \in Capabilities
    BY <2>1 DEF Typed
  <2>. QED  BY <1>3, <2>2 DEF Can
<1>. QED  BY <1>2, <1>3

LEMMA CurrentIs ==
  ASSUME Typed
  PROVE  /\ Current.kind = op.kind /\ Current.unit = op.unit /\ Current.dma = op.dma
         /\ Current.lba = op.lba + op.n - op.left
         /\ op.left = op.n => Current = op
<1>1. op \in Operations
  BY DEF Typed
<1>2. op.lba \in Int /\ op.n \in Nat /\ op.left \in Nat
  BY <1>1, AtaAssumption DEF Operations, ID
<1>3. op.left = op.n => op.lba + op.n - op.left = op.lba
  BY <1>2
<1>. QED  BY <1>1, <1>3 DEF Current, Operations

LEMMA Euclid ==
  ASSUME NEW a \in Nat, NEW b \in Nat \ {0}
  PROVE  /\ a \div b \in Nat /\ a % b \in 0 .. b - 1
         /\ (a \div b) * b + (a % b) = a
OBVIOUS

LEMMA ChsTyped ==
  ASSUME NEW lba \in Nat
  PROVE  /\ Chs(lba).cylinder \in Nat /\ Chs(lba).head \in Nat
         /\ Chs(lba).sector \in Nat \ {0}
<1>1. HPC \in Nat \ {0} /\ SPT \in Nat \ {0}
  BY AtaAssumption
<1>2. HPC * SPT \in Nat \ {0}
  BY <1>1
<1>3. lba \div (HPC * SPT) \in Nat
  BY <1>2
<1>4. (lba \div SPT) % HPC \in Nat
  BY <1>1
<1>5. (lba % SPT) + 1 \in Nat \ {0}
  BY <1>1
<1>. QED  BY <1>3, <1>4, <1>5 DEF Chs

\* What the driver tells the drive are registers it has.
LEMMA ToldTyped ==
  ASSUME Typed, Counted
  PROVE  /\ SelectByte(Current) \in Heads
         /\ Address(Current) \in Sector
         /\ Count(op) \in 0 .. EXT_MAX
<1>1. op.unit \in Channels /\ op.kind \in OpKinds /\ op.n \in 0 .. EXT_MAX
  BY DEF Typed, Operations
<1>2. op.kind \in {"read", "write"} => Current.lba \in Nat
  <2>. SUFFICES ASSUME op.kind \in {"read", "write"} PROVE Current.lba \in Nat
    OBVIOUS
  <2>1. op.lba \in Nat
    BY DEF Counted
  <2>2. op.n \in Nat /\ op.left \in Nat /\ op.left <= op.n
    <3>1. Len(blocks) \in Nat /\ op.left \in 0 .. EXT_MAX
      BY LenProperties DEF Typed, Operations
    <3>. QED  BY <1>1, <3>1, AtaAssumption DEF Counted
  <2>. QED  BY <2>1, <2>2, CurrentIs
<1>3. Can(op.unit) \in Capabilities
  BY <1>1, CanTyped
<1>4. SelectByte(Current) \in Heads
  <2>1. CASE op.kind \in Identify \union {"packet"}
    <3>1. SelectByte(Current) = <<0, op.unit, 0>>
      BY <2>1, CurrentIs DEF SelectByte
    <3>. QED  BY <1>1, <3>1 DEF Heads
  <2>2. CASE op.kind \notin Identify \union {"packet"}
    <3>1. Current.lba \in Nat
      BY <1>1, <1>2, <2>2 DEF OpKinds
    <3>2. Current.lba \div HeadSpan \in Nat
      BY <3>1, AtaAssumption
    <3>3. Chs(Current.lba).head \in Nat
      BY <3>1, ChsTyped
    <3>. QED  BY <1>1, <2>2, <3>2, <3>3, CurrentIs DEF SelectByte, Heads
  <2>. QED  BY <2>1, <2>2
<1>5. Address(Current) \in Sector
  <2>1. CASE op.kind \in Identify \union {"packet"}
    BY <2>1, CurrentIs DEF Address, Sector
  <2>2. CASE op.kind \notin Identify \union {"packet"}
    <3>1. Current.lba \in Nat
      BY <1>1, <1>2, <2>2 DEF OpKinds
    <3>2. bus.head[3] \in Nat
      BY DEF Typed, Buses, Heads
    <3>3. bus.head[3] * HeadSpan + (Current.lba % HeadSpan) \in Nat
      BY <3>1, <3>2, AtaAssumption
    <3>4. (Chs(Current.lba).cylinder * HPC + bus.head[3]) * SPT + Chs(Current.lba).sector - 1 \in Nat
      <4>1. HPC \in Nat /\ SPT \in Nat
        BY AtaAssumption
      <4>0. Chs(Current.lba).cylinder \in Nat
        BY <3>1, ChsTyped
      <4>2. Chs(Current.lba).cylinder * HPC + bus.head[3] \in Nat
        BY <3>2, <4>0, <4>1
      <4>3. (Chs(Current.lba).cylinder * HPC + bus.head[3]) * SPT \in Nat
        BY <4>1, <4>2
      <4>. QED  BY <3>1, <4>3, ChsTyped
    <3>. QED  BY <2>2, <3>1, <3>3, <3>4, CurrentIs DEF Address, Sector
  <2>. QED  BY <2>1, <2>2
<1>6. Count(op) \in 0 .. EXT_MAX
  BY <1>1, AtaAssumption DEF Count
<1>. QED  BY <1>4, <1>5, <1>6

\* The quotient by a product, one factor after the other.
LEMMA DivDiv ==
  ASSUME NEW a \in Nat, NEW h \in Nat \ {0}, NEW s \in Nat \ {0}
  PROVE  a \div (h * s) = (a \div s) \div h
<1>. DEFINE t == a \div s
            r == a % s
            c == t \div h
            g == t % h
<1>1. t \in Nat /\ r \in 0 .. s - 1 /\ a = t * s + r
  OBVIOUS
<1>2. c \in Nat /\ g \in 0 .. h - 1 /\ t = c * h + g
  BY <1>1
<1>. HIDE DEF t, r, c, g
<1>3. g * s + r \in Nat /\ g * s + r < h * s
  <2>1. g + 1 <= h
    BY <1>2
  <2>2. (g + 1) * s <= h * s
    BY <1>2, <2>1
  <2>3. (g + 1) * s = g * s + s
    BY <1>2
  <2>. QED  BY <1>1, <1>2, <2>2, <2>3
<1>4. a = c * (h * s) + (g * s + r)
  <2>1. t * s = (c * h) * s + g * s
    BY <1>1, <1>2
  <2>2. (c * h) * s = c * (h * s)
    BY <1>2
  <2>3. c * (h * s) \in Int /\ g * s \in Int
    BY <1>2
  <2>. QED  BY <1>1, <2>1, <2>2, <2>3
<1>5. h * s \in Nat \ {0}
  OBVIOUS
<1>6. ASSUME NEW m \in Nat \ {0}, NEW d \in Nat, NEW e \in Nat, e < m
      PROVE  (d * m + e) \div m = d
  BY <1>6
<1>7. (c * (h * s) + (g * s + r)) \div (h * s) = c
  BY <1>2, <1>3, <1>5, <1>6
<1>. QED  BY <1>4, <1>7 DEF c, t

\* The drive looks for the sector where the driver wants it, if the register
\* has the head of this request.
LEMMA AddressFound ==
  ASSUME Typed, Counted, pc \in Moving \ {"loop"}, Controlled,
         op.kind # "packet", bus.head = SelectByte(Current)
  PROVE  Address(Current) = Current.lba
<1>1. CASE op.kind \in Identify
  <2>1. op.left = 1 /\ op.n = 1 /\ op.lba = ID
    <3>1. Len(blocks) \in Nat /\ op.left \in Nat
      BY LenProperties, AtaAssumption DEF Typed, Operations
    <3>. QED  BY <1>1, <3>1 DEF Counted, Controlled
  <2>. QED  BY <1>1, <2>1, CurrentIs DEF Address, ID
<1>2. CASE op.kind \notin Identify
  <2>. DEFINE a == Current.lba
  <2>1. op.kind \in {"read", "write"}
    BY <1>2 DEF Typed, Operations, OpKinds
  <2>2. a \in Nat
    <3>1. op.lba \in Nat
      BY <2>1 DEF Counted
    <3>2. Len(blocks) \in Nat /\ op.left \in Nat /\ op.n \in Nat /\ op.left <= op.n
      <4>1. Len(blocks) \in Nat /\ op.left \in Nat /\ op.n \in Nat
        BY LenProperties, AtaAssumption DEF Typed, Operations
      <4>. QED  BY <4>1 DEF Counted
    <3>. QED  BY <3>1, <3>2, CurrentIs
  <2>. HIDE DEF a
  <2>3. CASE Can(op.unit).ext
    BY <1>2, <2>1, <2>3, CurrentIs DEF Address, Identify
  <2>4. CASE ~Can(op.unit).ext /\ Can(op.unit).lba
    <3>1. bus.head = <<1, op.unit, a \div HeadSpan>>
      BY <2>1, <2>4, CurrentIs DEF SelectByte, Identify, a
    <3>2. (a \div HeadSpan) * HeadSpan + (a % HeadSpan) = a
      BY <2>2, Euclid, AtaAssumption
    <3>. QED  BY <2>1, <2>4, <3>1, <3>2, CurrentIs DEF Address, Identify, a
  <2>5. CASE ~Can(op.unit).ext /\ ~Can(op.unit).lba
    <3>1. bus.head = <<0, op.unit, Chs(a).head>>
      BY <2>1, <2>5, CurrentIs DEF SelectByte, Identify, a
    <3>2. HPC \in Nat \ {0} /\ SPT \in Nat \ {0}
      BY AtaAssumption
    <3>3. (Chs(a).cylinder * HPC + Chs(a).head) * SPT + Chs(a).sector - 1 = a
      <4>1. Chs(a).cylinder = (a \div SPT) \div HPC
        BY <2>2, <3>2, DivDiv DEF Chs
      <4>2. ((a \div SPT) \div HPC) * HPC + ((a \div SPT) % HPC) = a \div SPT
        <5>1. a \div SPT \in Nat
          BY <2>2, <3>2
        <5>. QED  BY <3>2, <5>1, Euclid
      <4>3. (a \div SPT) * SPT + (a % SPT) = a
        BY <2>2, <3>2, Euclid
      <4>4. Chs(a).head = (a \div SPT) % HPC /\ Chs(a).sector - 1 = a % SPT
        <5>1. a % SPT \in Nat
          BY <2>2, <3>2
        <5>. QED  BY <5>1 DEF Chs
      <4>5. Chs(a).cylinder * HPC + Chs(a).head = a \div SPT
        BY <4>1, <4>2, <4>4
      <4>6. (a \div SPT) * SPT \in Int /\ Chs(a).sector \in Int
        BY <2>2, <3>2, ChsTyped
      <4>. QED  BY <4>3, <4>4, <4>5, <4>6
    <3>. QED  BY <2>1, <2>5, <3>1, <3>3, CurrentIs DEF Address, Identify, a
  <2>. QED  BY <2>3, <2>4, <2>5
<1>. QED  BY <1>1, <1>2

-----------------------------------------------------------------------------
(* Type correctness.                                                       *)

\* What the bus may become in one step.
LEMMA BusSteps ==
  ASSUME NEW state \in Buses
  PROVE  /\ \A b \in BOOLEAN : [state EXCEPT !.intrq = b] \in Buses
         /\ ReadStatus(state) \in Buses /\ Prepared(state) \in Buses
         /\ Prepared(ReadStatus(state)) \in Buses
         /\ \A h \in Heads : [ReadStatus(state) EXCEPT !.head = h] \in Buses
         /\ \A m \in {"off", "active", "done", "error"} :
              /\ [state EXCEPT !.master = m] \in Buses
              /\ [state EXCEPT !.phase = "idle", !.intrq = TRUE, !.cmd = NoCommand,
                             !.master = m] \in Buses
         /\ NoCommand \in Commands
<1>1. NoCommand \in Commands
  BY AtaAssumption DEF NoCommand, Commands, Sector
<1>2. Garbage \in Blocks
  BY DEF Blocks
<1>. QED  BY <1>1, <1>2 DEF Buses, ReadStatus, Prepared

\* ata_dma_prepare leaves the drive's side of the bus alone.
LEMMA PreparedIs ==
  ASSUME NEW state \in Buses
  PROVE  /\ Prepared(state) \in Buses /\ Prepared(state).phase = state.phase
         /\ Prepared(state).head = state.head /\ Prepared(state).intrq = state.intrq
<1>1. Prepared(state) \in Buses
  BY BusSteps
<1>2. state = [head |-> state.head, phase |-> state.phase, cmd |-> state.cmd, intrq |-> state.intrq,
               master |-> state.master, took |-> state.took, pic |-> state.pic]
  BY DEF Buses
<1>3. /\ Prepared(state).phase = state.phase /\ Prepared(state).head = state.head
      /\ Prepared(state).intrq = state.intrq
  BY <1>2 DEF Prepared
<1>. QED  BY <1>1, <1>3

LEMMA ExternalTyped ==
  ASSUME Typed, Controlled, Counted, External
  PROVE  Typed'
<1>1. bus \in Buses /\ bus.cmd \in Commands
  BY DEF Typed, Buses
<1>2. ASSUME UNCHANGED <<driverVars, foreign>>, bus' \in Buses,
             trouble' \in BOOLEAN, excused' \in BOOLEAN
      PROVE  Typed'
  BY <1>2 DEF Typed, driverVars, bootVars
<1>3. ASSUME DriveReady, UNCHANGED <<driverVars, foreign>> PROVE Typed'
  <2>1. bus' \in Buses
    BY <1>1, <1>3 DEF DriveReady, Buses
  <2>. QED  BY <1>2, <1>3, <2>1 DEF DriveReady, Typed
<1>4. ASSUME DriveWritten, UNCHANGED <<driverVars, foreign>> PROVE Typed'
  <2>1. bus' \in Buses
    <3>1. NoCommand \in Commands
      BY <1>1, BusSteps
    <3>. QED  BY <1>1, <1>4, <3>1 DEF DriveWritten, Buses
  <2>. QED  BY <1>2, <1>4, <2>1 DEF DriveWritten, Typed
<1>5. ASSUME DriveDma, UNCHANGED <<driverVars, foreign>> PROVE Typed'
  <2>1. <<Selected, bus.cmd.lba>> \in Blocks
    BY <1>1 DEF Buses, Heads, Commands, Selected, Blocks, Sector
  <2>2. bus' \in Buses
    <3>1. NoCommand \in Commands
      BY <1>1, BusSteps
    <3>. QED  BY <1>1, <1>5, <2>1, <3>1 DEF DriveDma, Buses
  <2>. QED  BY <1>2, <1>5, <2>2 DEF DriveDma, Typed
<1>6. ASSUME DriveFails, UNCHANGED <<driverVars, foreign>> PROVE Typed'
  <2>1. bus' \in Buses
    <3>1. PICK m \in IF bus.master = "active" THEN {"active", "error"} ELSE {bus.master} :
             bus' = [bus EXCEPT !.phase = "idle", !.intrq = TRUE, !.cmd = NoCommand,
                                !.master = m]
      BY <1>6 DEF DriveFails
    <3>2. m \in {"off", "active", "done", "error"}
      BY <1>1 DEF Buses
    <3>. QED  BY <1>1, <3>1, <3>2, BusSteps
  <2>2. trouble' \in BOOLEAN /\ excused' \in BOOLEAN
    BY <1>6 DEF DriveFails, Typed
  <2>. QED  BY <1>2, <1>6, <2>1, <2>2
<1>7. ASSUME DriveReset, UNCHANGED <<driverVars, foreign>> PROVE Typed'
  <2>1. bus' \in Buses
    <3>1. [bus.head EXCEPT ![2] = 0] \in Heads
      BY <1>1 DEF Buses, Heads, Channels
    <3>. QED  BY <1>1, <1>7, <3>1 DEF DriveReset, Buses
  <2>. QED  BY <1>2, <1>7, <2>1 DEF DriveReset, Typed
<1>8. ASSUME Interrupt PROVE Typed'
  <2>1. bus' \in Buses
    BY <1>1, <1>8, PicStill, BusSteps
  <2>2. fired' \in BOOLEAN
    BY <1>8 DEF Interrupt
  <2>. QED  BY <1>8, <2>1, <2>2 DEF Interrupt, Typed, bootVars, opVars
<1>9. ASSUME SpuriousInterrupt PROVE Typed'
  <2>1. PICK told \in BOOLEAN :
           /\ told => pc # "off"
           /\ bus' = [bus EXCEPT !.intrq = @ /\ ~told]
           /\ fired' = (fired \/ told)
           /\ trouble' = (trouble \/ (told /\ answer = PENDING))
           /\ excused' = (excused \/ (told /\ answer = PENDING /\ ~op.dma))
           /\ UNCHANGED <<bootVars, cur_selected, pc, tries, op, blocks, answer, foreign>>
    BY <1>9, PicStill
  <2>2. bus' \in Buses
    <3>1. (bus.intrq /\ ~told) \in BOOLEAN
      OBVIOUS
    <3>. QED  BY <1>1, <2>1, <3>1, BusSteps
  <2>3. fired' \in BOOLEAN /\ trouble' \in BOOLEAN /\ excused' \in BOOLEAN
    BY <2>1
  <2>. QED  BY <2>1, <2>2, <2>3 DEF Typed, bootVars
<1>. QED  BY <1>3, <1>4, <1>5, <1>6, <1>7, <1>8, <1>9 DEF External

LEMMA RequestTyped ==
  /\ \A kind \in {"read", "write"}, c \in Channels, lba \in 0 .. MaxSectors,
       n \in 0 .. EXT_MAX, dma \in BOOLEAN :
       Request(kind, c, lba, n, dma) \in Operations
  /\ \A kind \in Identify, c \in Channels : Request(kind, c, ID, 1, FALSE) \in Operations
  /\ \A c \in Channels : Request("packet", c, ID, 2, FALSE) \in Operations
<1>1. /\ 1 \in 0 .. EXT_MAX /\ 2 \in 0 .. EXT_MAX /\ ID \in ID .. MaxSectors
      /\ \A lba \in 0 .. MaxSectors : lba \in ID .. MaxSectors
  BY AtaAssumption DEF ID
<1>. QED  BY <1>1 DEF Request, Operations, OpKinds

LEMMA BeginTyped ==
  ASSUME Typed, NEW o \in Operations, NEW label \in Labels, Begin(o, label)
  PROVE  /\ op' \in Operations /\ blocks' \in Seq(Blocks) /\ answer' \in Answers
         /\ trouble' \in BOOLEAN /\ excused' \in BOOLEAN
         /\ pc' \in Labels /\ tries' \in 0 .. WAIT
<1>1. WAIT \in 0 .. WAIT
  BY AtaAssumption
<1>2. excused' \in BOOLEAN
  BY DEF Begin, Excuses
<1>3. blocks' \in Seq(Blocks)
  BY DEF Begin
<1>4. trouble' \in BOOLEAN
  BY DEF Begin
<1>5. answer' \in Answers
  BY DEF Begin, Answers
<1>6. op' \in Operations /\ pc' \in Labels /\ tries' \in 0 .. WAIT
  BY <1>1 DEF Begin, GotoWait
<1>. QED  BY <1>2, <1>3, <1>4, <1>5, <1>6

LEMMA ReturnTyped ==
  ASSUME Typed, NEW value \in {"true", "false"}, Return(value)
  PROVE  answer' \in Answers /\ pc' \in Labels /\ tries' \in 0 .. WAIT
<1>1. 0 \in 0 .. WAIT
  BY AtaAssumption
<1>. QED  BY <1>1 DEF Return, Answers, Labels

LEMMA RefuseTyped ==
  ASSUME Typed, Refuse
  PROVE  /\ op' \in Operations /\ blocks' \in Seq(Blocks) /\ answer' \in Answers
         /\ trouble' \in BOOLEAN /\ excused' \in BOOLEAN
         /\ pc' \in Labels /\ tries' \in 0 .. WAIT
<1>1. blocks' \in Seq(Blocks)
  BY DEF Refuse
<1>2. trouble' \in BOOLEAN /\ excused' \in BOOLEAN
  BY DEF Refuse
<1>3. answer' \in Answers
  BY DEF Refuse, Answers
<1>4. op' \in Operations /\ pc' \in Labels /\ tries' \in 0 .. WAIT
  BY DEF Refuse, Typed
<1>. QED  BY <1>1, <1>2, <1>3, <1>4

LEMMA GotoTyped ==
  ASSUME Typed, NEW label \in Labels
  PROVE  /\ Goto(label) => pc' \in Labels /\ tries' \in 0 .. WAIT
         /\ GotoWait(label) => pc' \in Labels /\ tries' \in 0 .. WAIT
<1>1. WAIT \in 0 .. WAIT
  BY AtaAssumption
<1>. QED  BY <1>1 DEF Goto, GotoWait, Typed

\* A turn of a wait only counts down.
LEMMA SleptTyped ==
  ASSUME Typed, tries > 0, msleep
  PROVE  bus' = bus /\ tries' \in 0 .. WAIT
<1>1. tries - 1 \in 0 .. WAIT
  BY AtaAssumption DEF Typed
<1>. QED  BY <1>1, PicStill

LEMMA RequestsTyped ==
  ASSUME Typed, Requests
  PROVE  Typed'
<1>1. ASSUME Idle, op' \in Operations, blocks' \in Seq(Blocks), answer' \in Answers,
             trouble' \in BOOLEAN, excused' \in BOOLEAN, pc' \in Labels, tries' \in 0 .. WAIT
      PROVE  Typed'
  BY <1>1 DEF Typed, Idle, bootVars
<1>2. ASSUME Idle, Refuse PROVE Typed'
  BY <1>1, <1>2, RefuseTyped
<1>3. ASSUME Idle, NEW o \in Operations, NEW label \in Labels, Begin(o, label)
      PROVE  Typed'
  BY <1>1, <1>3, BeginTyped
<1>4. "loop" \in Labels /\ "select" \in Labels /\ "busy" \in Labels
  BY DEF Labels, Moving
<1>5. ASSUME NEW c \in Channels, NEW lba \in 0 .. MaxSectors - 1, NEW n \in 0 .. EXT_MAX,
             NEW kind \in {"read", "write"}, Idle,
             Dma(kind, c, lba, n) \/ Pio(kind, c, lba, n) \/ Refuse
      PROVE  Typed'
  <2>1. lba \in 0 .. MaxSectors
    BY AtaAssumption
  <2>2. /\ Request(kind, c, lba, n, TRUE) \in Operations
        /\ Request(kind, c, lba, n, FALSE) \in Operations
    BY <2>1, RequestTyped
  <2>. QED  BY <1>2, <1>3, <1>4, <1>5, <2>2 DEF Dma, Pio
<1>6. ASSUME NEW c \in Channels, NEW lba \in 0 .. MaxSectors - 1, NEW n \in 0 .. EXT_MAX,
             ata_read(c, lba, n) \/ ata_write(c, lba, n)
      PROVE  Typed'
  BY <1>5, <1>6 DEF ata_read, ata_write, ata_read_dma, ata_write_dma, ata_read_pio_32,
       ata_read_pio_16, ata_write_pio_32, ata_write_pio_16
<1>7. ASSUME NEW c \in Channels, atapi_send_packet(c) PROVE Typed'
  BY <1>2, <1>3, <1>4, <1>7, RequestTyped DEF atapi_send_packet
<1>. QED  BY <1>6, <1>7 DEF Requests

LEMMA OtherBusTyped ==
  ASSUME Typed, OtherBus
  PROVE  Typed'
<1>1. cur_selected' \in Heads
  BY MachinesAssumption DEF OtherBus, Heads
<1>. QED  BY <1>1 DEF OtherBus, Typed, bootVars, opVars

LEMMA SelectTyped ==
  ASSUME Typed, Counted, NEW state \in Buses, ata_select_drv(state)
  PROVE  /\ bus' \in Buses /\ cur_selected' \in {NoSelect} \union Heads
         /\ foreign' \in BOOLEAN
<1>. DEFINE select == SelectByte(Current)
<1>1. select \in Heads
  BY ToldTyped
<1>2. /\ cur_selected \in {NoSelect} \union Heads /\ foreign \in BOOLEAN
  BY DEF Typed
<1>. HIDE DEF select
<1>3. /\ [ReadStatus(state) EXCEPT !.head = select] \in Buses
      /\ ReadStatus(state) \in Buses
  BY <1>1, BusSteps
<1>4. \/ bus' = state /\ cur_selected' = cur_selected /\ foreign' = foreign
      \/ /\ bus' = [ReadStatus(state) EXCEPT !.head = select]
         /\ cur_selected' = select /\ foreign' = FALSE
      \/ bus' = ReadStatus(state) /\ cur_selected' = cur_selected /\ foreign' = foreign
  BY DEF ata_select_drv, select
<1>. QED  BY <1>1, <1>2, <1>3, <1>4

LEMMA TransferTyped ==
  ASSUME Typed, Controlled, Counted, Transfer
  PROVE  Typed'
<1>1. /\ bus \in Buses /\ bus.cmd \in Commands /\ op \in Operations
      /\ op.left \in 0 .. EXT_MAX /\ op.n \in 0 .. EXT_MAX
  BY DEF Typed, Buses, Operations
<1>2. {"loop", "select", "busy", "clear", "command", "wait", "data", "stop"} \subseteq Labels
  BY DEF Labels, Moving
<1>3. CASE NextSector
  <2>1. answer' \in Answers /\ pc' \in Labels /\ tries' \in 0 .. WAIT
    BY <1>2, <1>3, ReturnTyped, GotoTyped DEF NextSector, Typed
  <2>. QED  BY <1>3, <2>1 DEF NextSector, Typed, bootVars
<1>4. CASE Select
  <2>1. pc' \in Labels /\ tries' \in 0 .. WAIT
    BY <1>2, <1>4, GotoTyped DEF Select
  <2>2. (IF op.dma THEN Prepared(bus) ELSE bus) \in Buses
    BY <1>1, BusSteps
  <2>3. /\ bus' \in Buses /\ cur_selected' \in {NoSelect} \union Heads
        /\ foreign' \in BOOLEAN
    BY <1>4, <2>2, SelectTyped DEF Select
  <2>. QED  BY <1>4, <2>1, <2>3 DEF Select, Typed, bootVars, opVars
<1>5. CASE WaitBusy
  <2>1. ASSUME DriveBusy PROVE Typed'
    BY <2>1, SleptTyped DEF DriveBusy, Typed, bootVars, opVars
  <2>2. AfterBusy(op) \in Labels
    BY <1>2 DEF AfterBusy
  <2>3. ASSUME DriveNotBusy, Goto(AfterBusy(op)),
               UNCHANGED <<bootVars, cur_selected, fired, opVars, foreign>>
        PROVE  Typed'
    <3>1. pc' \in Labels /\ tries' \in 0 .. WAIT
      BY <2>2, <2>3, GotoTyped
    <3>. QED  BY <2>3, <3>1 DEF DriveNotBusy, Typed, bootVars, opVars
  <2>4. ASSUME BusyTooLong, trouble' = TRUE,
               IF op.kind = "packet" THEN Return("false")
                                     ELSE Goto(AfterBusy(op)) /\ UNCHANGED answer,
               UNCHANGED <<bootVars, cur_selected, fired, op, blocks, excused, foreign>>
        PROVE  Typed'
    <3>1. answer' \in Answers /\ pc' \in Labels /\ tries' \in 0 .. WAIT
      BY <2>2, <2>4, GotoTyped, ReturnTyped DEF Typed
    <3>2. bus' \in Buses
      BY <1>1, <2>4, BusSteps DEF BusyTooLong
    <3>. QED  BY <2>4, <3>1, <3>2 DEF Typed, bootVars
  <2>. QED  BY <1>5, <2>1, <2>3, <2>4 DEF WaitBusy
<1>6. CASE Clear
  <2>1. pc' \in Labels /\ tries' \in 0 .. WAIT
    BY <1>2, <1>6, GotoTyped DEF Clear
  <2>2. fired' \in BOOLEAN
    BY <1>6 DEF Clear, ata_clear_interrupt_status
  <2>. QED  BY <1>6, <2>1, <2>2 DEF Clear, Typed, bootVars, opVars
<1>7. CASE Command
  <2>1. pc' \in Labels /\ tries' \in 0 .. WAIT
    BY <1>2, <1>7, GotoTyped DEF Command
  <2>. DEFINE mine == [kind |-> op.kind, lba |-> Address(Current), left |-> Count(op),
                       dma |-> op.dma]
  <2>2. mine \in Commands
    <3>1. op.kind \in OpKinds /\ op.dma \in BOOLEAN
      BY <1>1 DEF Operations
    <3>. QED  BY <3>1, ToldTyped DEF Commands
  <2>. DEFINE taken == bus.phase = "idle" /\ attached[Selected].kind # NONE
              told == IF taken THEN [bus EXCEPT !.phase = "busy", !.cmd = mine] ELSE bus
  <2>3. told \in Buses
    <3>. HIDE DEF mine
    <3>. QED  BY <1>1, <2>2 DEF Buses
  <2>4. bus' \in Buses
    <3>1. bus' = told \/ bus' = [told EXCEPT !.master = "active"]
      BY <1>7 DEF Command
    <3>. HIDE DEF told
    <3>. QED  BY <2>3, <3>1, BusSteps
  <2>. QED  BY <1>7, <2>1, <2>4 DEF Command, Typed, bootVars, opVars
<1>8. CASE Wait
  <2>1. ASSUME NoInterrupt PROVE Typed'
    BY <2>1, SleptTyped DEF NoInterrupt, Typed, bootVars, opVars
  <2>2. ASSUME Goto(IF op.dma THEN "stop" ELSE "data"),
               UNCHANGED <<bootVars, cur_selected, fired, opVars, bus, foreign>>
        PROVE  Typed'
    <3>1. pc' \in Labels /\ tries' \in 0 .. WAIT
      BY <1>2, <2>2, GotoTyped
    <3>. QED  BY <2>2, <3>1 DEF Typed, bootVars, opVars
  <2>3. ASSUME fired' = FALSE, bus' = IF op.dma THEN [bus EXCEPT !.master = "off"] ELSE bus,
               trouble' = TRUE, Return("false"),
               UNCHANGED <<bootVars, cur_selected, op, blocks, excused, foreign>>
        PROVE  Typed'
    <3>1. answer' \in Answers /\ pc' \in Labels /\ tries' \in 0 .. WAIT
      BY <2>3, ReturnTyped
    <3>2. bus' \in Buses
      BY <1>1, <2>3, BusSteps
    <3>. QED  BY <2>3, <3>1, <3>2 DEF Typed, bootVars
  <2>. QED  BY <1>8, <2>1, <2>2, <2>3 DEF Wait
<1>9. op.left > 0 => [op EXCEPT !.left = @ - 1] \in Operations
  <2>1. op.left > 0 => op.left - 1 \in 0 .. EXT_MAX
    BY <1>1, AtaAssumption
  <2>. QED  BY <1>1, <2>1 DEF Operations
<1>10. CASE Data
  <2>. DEFINE ready == bus.phase = "data" /\ (bus.cmd.kind = "write") = (op.kind = "write")
              moved == IF ready THEN <<Selected, bus.cmd.lba>> ELSE Garbage
  <2>1. moved \in Blocks
    BY <1>1 DEF Buses, Heads, Commands, Selected, Blocks, Sector
  <2>2. blocks' \in Seq(Blocks)
    <3>1. blocks' = Append(blocks, moved) /\ blocks \in Seq(Blocks)
      BY <1>10 DEF Data, Typed
    <3>. HIDE DEF moved
    <3>. QED  BY <2>1, <3>1, AppendProperties
  <2>3. op' \in Operations
    BY <1>9, <1>10 DEF Data, Counted, Moving
  <2>4. answer' \in Answers /\ pc' \in Labels /\ tries' \in 0 .. WAIT
    BY <1>2, <1>10, ReturnTyped, GotoTyped DEF Data, Typed
  <2>5. bus' \in Buses
    <3>1. \/ bus' = bus
          \/ /\ bus.phase = "data"
             /\ bus' = [bus EXCEPT !.phase = "busy", !.cmd.left = @ - 1, !.cmd.lba = @ + 1]
          \/ bus' = [bus EXCEPT !.phase = "idle", !.cmd = NoCommand]
      BY <1>10 DEF Data
    <3>2. bus.phase = "data" => bus.cmd.left - 1 \in 0 .. EXT_MAX
      <4>1. bus.cmd.left \in 0 .. EXT_MAX
        BY <1>1 DEF Commands
      <4>2. bus.phase = "data" => bus.cmd.left >= 1
        <5>1. DataLeft
          BY DEF Counted
        <5>. QED  BY <4>1, <5>1 DEF DataLeft
      <4>3. EXT_MAX \in Nat
        BY AtaAssumption
      <4>. QED  BY <4>1, <4>2, <4>3
    <3>3. bus.cmd.lba + 1 \in Sector
      <4>1. bus.cmd.lba \in Sector
        BY <1>1 DEF Commands
      <4>. QED  BY <4>1 DEF Sector, ID
    <3>4. bus.phase = "data" =>
            [bus.cmd EXCEPT !.left = bus.cmd.left - 1, !.lba = bus.cmd.lba + 1] \in Commands
      BY <1>1, <3>2, <3>3 DEF Commands
    <3>5. NoCommand \in Commands
      BY <1>1, BusSteps
    <3>. QED  BY <1>1, <3>1, <3>4, <3>5 DEF Buses
  <2>. QED  BY <1>10, <2>2, <2>3, <2>4, <2>5 DEF Data, Typed, bootVars
<1>11. CASE Stop
  <2>1. bus' \in Buses /\ bus.took \in Blocks
    <3>1. bus' \in Buses
      BY <1>1, <1>11, BusSteps DEF Stop
    <3>. QED  BY <1>1, <3>1 DEF Buses
  <2>2. answer' \in Answers /\ pc' \in Labels /\ tries' \in 0 .. WAIT
    BY <1>2, <1>11, ReturnTyped, GotoTyped DEF Stop, Typed
  <2>3. op' \in Operations
    BY <1>1, <1>9, <1>11 DEF Stop, Counted, Moving
  <2>4. blocks' \in Seq(Blocks)
    <3>1. blocks \in Seq(Blocks)
      BY DEF Typed
    <3>. QED  BY <1>11, <2>1, <3>1, AppendProperties DEF Stop
  <2>. QED  BY <1>11, <2>1, <2>2, <2>3, <2>4 DEF Stop, Typed, bootVars
<1>. QED  BY <1>3, <1>4, <1>5, <1>6, <1>7, <1>8, <1>10, <1>11 DEF Transfer

LEMMA ProbedTyped ==
  ASSUME Typed, booting \in Channels, NEW found \in Found, Probed(found)
  PROVE  /\ channel' \in [Channels -> Found] /\ booting' \in 0 .. 2
         /\ attached' = attached /\ bus_master_dma' = bus_master_dma
         /\ pc' \in Labels /\ tries' \in 0 .. WAIT
<1>1. booting' \in 0 .. 2
  BY DEF Probed, Channels
<1>2. channel' \in [Channels -> Found]
  BY DEF Probed, Typed
<1>3. "probe" \in Labels /\ "idle" \in Labels
  BY DEF Labels
<1>. QED  BY <1>1, <1>2, <1>3, GotoTyped DEF Probed

LEMMA BootTyped ==
  ASSUME Typed, Controlled, Counted, ata_init \/ ata_init_device
  PROVE  Typed'
<1>1. bus \in Buses /\ channel \in [Channels -> Found]
  BY DEF Typed
<1>2. {"probe", "reset", "signature", "select"} \subseteq Labels
  BY DEF Labels, Moving
<1>3. Absent \in Found
  <2>1. Garbage \in Blocks
    BY DEF Blocks
  <2>. QED  BY <2>1 DEF Absent, Found
<1>4. CASE ata_init
  <2>1. pc' \in Labels /\ tries' \in 0 .. WAIT
    BY <1>2, <1>4, GotoTyped DEF ata_init
  <2>. QED  BY <1>4, <2>1 DEF ata_init, Typed, opVars
<1>5. ASSUME NEW found \in Found, booting \in Channels, Probed(found), bus' \in Buses,
             UNCHANGED <<cur_selected, fired, opVars, foreign>>
      PROVE  Typed'
  BY <1>5, ProbedTyped DEF Typed, opVars
<1>6. CASE Probe
  <2>1. booting \in Channels
    BY <1>6 DEF Probe, Controlled
  <2>2. ASSUME Probed(Absent), UNCHANGED bus PROVE Typed'
    BY <1>1, <1>3, <1>5, <1>6, <2>1, <2>2 DEF Probe
  <2>3. ASSUME bus' = [RestingBus EXCEPT !.phase = "reset", !.head[2] = booting,
                                         !.pic = bus.pic],
               GotoWait("reset"), UNCHANGED bootVars
        PROVE  Typed'
    <3>1. pc' \in Labels /\ tries' \in 0 .. WAIT
      BY <1>2, <2>3, GotoTyped
    <3>2. bus' \in Buses
      <4>1. RestingBus \in Buses
        BY TypedRest
      <4>2. [RestingBus.head EXCEPT ![2] = booting] \in Heads
        BY <2>1 DEF RestingBus, Heads, Channels
      <4>. QED  BY <1>1, <2>3, <4>1, <4>2 DEF Buses
    <3>. QED  BY <1>6, <2>3, <3>1, <3>2 DEF Probe, Typed, bootVars, opVars
  <2>. QED  BY <1>6, <2>2, <2>3 DEF Probe
<1>7. CASE AwaitReset
  <2>1. booting \in Channels
    BY <1>7 DEF AwaitReset, Controlled
  <2>2. ASSUME DriveBusy PROVE Typed'
    BY <2>2, SleptTyped DEF DriveBusy, Typed, bootVars, opVars
  <2>3. ASSUME DriveNotBusy, Goto("signature"),
               UNCHANGED <<bootVars, cur_selected, fired, opVars, foreign>>
        PROVE  Typed'
    <3>1. pc' \in Labels /\ tries' \in 0 .. WAIT
      BY <1>2, <2>3, GotoTyped
    <3>. QED  BY <2>3, <3>1 DEF DriveNotBusy, Typed, bootVars, opVars
  <2>4. ASSUME BusyTooLong, Probed(Absent), UNCHANGED <<cur_selected, fired, opVars, foreign>>
        PROVE  Typed'
    <3>1. bus' \in Buses
      BY <1>1, <2>4, BusSteps DEF BusyTooLong
    <3>. QED  BY <1>3, <1>5, <2>1, <2>4, <3>1
  <2>. QED  BY <1>7, <2>2, <2>3, <2>4 DEF AwaitReset
<1>8. ASSUME NEW kind \in Identify, booting \in Channels,
             Begin(Request(kind, booting, ID, 1, FALSE), "select"),
             channel' \in [Channels -> Found],
             UNCHANGED <<attached, booting, bus_master_dma, cur_selected, fired, bus, foreign>>
      PROVE  Typed'
  <2>1. Request(kind, booting, ID, 1, FALSE) \in Operations
    BY <1>8, RequestTyped
  <2>2. /\ op' \in Operations /\ blocks' \in Seq(Blocks) /\ answer' \in Answers
        /\ trouble' \in BOOLEAN /\ excused' \in BOOLEAN
        /\ pc' \in Labels /\ tries' \in 0 .. WAIT
    BY <1>2, <1>8, <2>1, BeginTyped
  <2>. QED  BY <1>8, <2>2 DEF Typed
<1>9. CASE Signature
  <2>1. booting \in Channels
    BY <1>9 DEF Signature, Controlled
  <2>2. PICK seen \in Seen(booting) :
          IF seen = NONE THEN Probed(Absent) /\ UNCHANGED opVars
          ELSE /\ channel' = [channel EXCEPT ![booting].atapi = seen = "cd"]
               /\ ata_identify_16(booting)
               /\ UNCHANGED <<attached, booting, bus_master_dma>>
    BY <1>9 DEF Signature
  <2>3. CASE seen = NONE
    BY <1>1, <1>3, <1>5, <1>9, <2>1, <2>2, <2>3 DEF Signature
  <2>4. CASE seen # NONE
    <3>1. channel' \in [Channels -> Found]
      <4>1. channel' = [channel EXCEPT ![booting].atapi = seen = "cd"] /\ (seen = "cd") \in BOOLEAN
        BY <2>2, <2>4
      <4>2. channel \in [Channels -> Found]
        BY <1>1
      <4>3. [channel[booting] EXCEPT !.atapi = seen = "cd"] \in Found
        BY <2>1, <4>1, <4>2 DEF Found
      <4>. QED  BY <2>1, <4>1, <4>2, <4>3
    <3>. QED  BY <1>8, <1>9, <2>1, <2>2, <2>4, <3>1 DEF Signature, ata_identify_16, Identify
  <2>. QED  BY <2>3, <2>4
<1>10. answer = "true" /\ pc = "identified" => blocks[1] \in Blocks
  <2>. SUFFICES ASSUME answer = "true", pc = "identified" PROVE blocks[1] \in Blocks
    OBVIOUS
  <2>1. blocks \in Seq(Blocks) /\ op.left \in Nat
    BY AtaAssumption DEF Typed, Operations
  <2>2. op.n = 1 /\ op.left = 0 /\ Len(blocks) + op.left = op.n
    BY DEF Controlled, Counted
  <2>3. Len(blocks) = 1
    BY <2>1, <2>2, LenProperties
  <2>. QED  BY <2>1, <2>3, ElementOfSeq
<1>11. CASE Identified
  <2>1. booting \in Channels /\ pc = "identified"
    BY <1>11 DEF Identified, Controlled
  <2>2. PICK valid \in IF answer = "true" THEN ata_check_identity(blocks[1]) ELSE {FALSE} :
          IF valid
            THEN /\ channel' = [channel EXCEPT ![booting].identity = blocks[1]]
                 /\ ata_identify_32(booting)
                 /\ UNCHANGED <<attached, booting, bus_master_dma>>
            ELSE Probed(Absent) /\ UNCHANGED opVars
    BY <1>11 DEF Identified
  <2>3. CASE valid
    <3>1. blocks[1] \in Blocks
      BY <1>10, <2>1, <2>2, <2>3
    <3>2. channel' \in [Channels -> Found]
      BY <1>1, <2>1, <2>2, <2>3, <3>1 DEF Found
    <3>. QED  BY <1>8, <1>11, <2>1, <2>2, <2>3, <3>2 DEF Identified, ata_identify_32, Identify
  <2>4. CASE ~valid
    BY <1>1, <1>3, <1>5, <1>11, <2>1, <2>2, <2>4 DEF Identified
  <2>. QED  BY <2>3, <2>4
<1>12. CASE Mounted
  <2>1. booting \in Channels
    BY <1>12 DEF Mounted, Controlled
  <2>2. PICK wide \in IF answer = "true"
                        THEN SameBlock(channel[booting].identity, blocks[1]) ELSE {FALSE} :
          Probed([channel[booting] EXCEPT !.exists = TRUE, !.transfers_32bit = wide])
    BY <1>12 DEF Mounted
  <2>3. wide \in BOOLEAN
    BY <2>2 DEF SameBlock
  <2>4. [channel[booting] EXCEPT !.exists = TRUE, !.transfers_32bit = wide] \in Found
    BY <1>1, <2>1, <2>3 DEF Found
  <2>. QED  BY <1>1, <1>5, <1>12, <2>1, <2>2, <2>4 DEF Mounted
<1>. QED  BY <1>4, <1>6, <1>7, <1>9, <1>11, <1>12 DEF ata_init_device

LEMMA TypedNext ==
  ASSUME Typed, Controlled, Counted, [AtaNext]_ataVars
  PROVE  Typed'
<1>1. CASE UNCHANGED ataVars
  BY <1>1 DEF Typed, ataVars, driverVars, bootVars
<1>. QED  BY <1>1, ExternalTyped, OtherBusTyped, TransferTyped, BootTyped, RequestsTyped
             DEF AtaNext, Driver

-----------------------------------------------------------------------------
(* Control.                                                                *)

\* The requests that begin once the channels are probed.
LEMMA RequestsAre ==
  ASSUME Typed, Requests
  PROVE  /\ pc = "idle" /\ UNCHANGED <<bootVars, cur_selected, fired, bus, foreign>>
         /\ \/ Refuse
            \/ \E kind \in {"read", "write"}, c \in Channels, lba \in 0 .. MaxSectors - 1,
                  n \in 0 .. EXT_MAX : Begin(Request(kind, c, lba, n, TRUE), "loop")
            \/ \E kind \in {"read", "write"}, c \in Channels, lba \in 0 .. MaxSectors - 1,
                  n \in 1 .. EXT_MAX : Begin(Request(kind, c, lba, n, FALSE), "select")
            \/ \E c \in Channels : Begin(Request("packet", c, ID, 2, FALSE), "busy")
<1>1. CASE \E c \in Channels, lba \in 0 .. MaxSectors - 1, n \in 0 .. EXT_MAX :
             ata_read(c, lba, n) \/ ata_write(c, lba, n)
  <2>1. PICK c \in Channels, lba \in 0 .. MaxSectors - 1, n \in 0 .. EXT_MAX :
           ata_read(c, lba, n) \/ ata_write(c, lba, n)
    BY <1>1
  <2>2. Idle /\ \E kind \in {"read", "write"} :
                   Dma(kind, c, lba, n) \/ Pio(kind, c, lba, n) \/ Refuse
    BY <2>1 DEF ata_read, ata_write, ata_read_dma, ata_write_dma, ata_read_pio_32,
         ata_read_pio_16, ata_write_pio_32, ata_write_pio_16
  <2>3. ASSUME NEW kind, Pio(kind, c, lba, n)
        PROVE  Refuse \/ (n \in 1 .. EXT_MAX /\ Begin(Request(kind, c, lba, n, FALSE), "select"))
    <3>1. PICK most \in {EXT_MAX, SHORT_MAX} :
             IF n \in 1 .. most THEN Begin(Request(kind, c, lba, n, FALSE), "select") ELSE Refuse
      BY <2>3 DEF Pio
    <3>2. n \in 1 .. most => n \in 1 .. EXT_MAX
      BY AtaAssumption
    <3>. QED  BY <3>1, <3>2
  <2>. QED  BY <2>2, <2>3 DEF Idle, Dma
<1>2. CASE \E c \in Channels : atapi_send_packet(c)
  BY <1>2 DEF atapi_send_packet, Idle
<1>. QED  BY <1>1, <1>2 DEF Requests

\* What boot does with a channel: it gives it up or has found it, or asks for
\* its info block.
LEMMA BootIs ==
  ASSUME Typed, Controlled, ata_init_device
  PROVE  /\ booting \in Channels /\ pc \in {"probe", "reset", "signature", "identified"}
         /\ UNCHANGED <<cur_selected, fired, foreign>>
         /\ \/ /\ \E found : Probed(found)
               /\ bus' = bus \/ bus' = ReadStatus(bus)
               /\ UNCHANGED opVars
            \/ DriveBusy
            \/ /\ Probe /\ GotoWait("reset") /\ UNCHANGED <<bootVars, opVars>>
               /\ bus' = [RestingBus EXCEPT !.phase = "reset", !.head[2] = booting,
                                            !.pic = bus.pic]
            \/ Goto("signature") /\ UNCHANGED <<bootVars, opVars, bus>>
            \/ \E kind \in Identify : /\ Begin(Request(kind, booting, ID, 1, FALSE), "select")
                                      /\ UNCHANGED <<booting, bus>>
<1>1. CASE Probe
  BY <1>1 DEF Probe, Controlled
<1>2. CASE AwaitReset
  BY <1>2 DEF AwaitReset, Controlled, DriveBusy, DriveNotBusy, BusyTooLong
<1>3. CASE Signature
  BY <1>3 DEF Signature, Controlled, ata_identify_16, Identify
<1>4. CASE Identified
  BY <1>4 DEF Identified, Controlled, ata_identify_32, Identify
<1>5. CASE Mounted
  <2>1. \E found : Probed(found)
    BY <1>5 DEF Mounted
  <2>. QED  BY <1>5, <2>1 DEF Mounted, Controlled
<1>. QED  BY <1>1, <1>2, <1>3, <1>4, <1>5 DEF ata_init_device

LEMMA TransferPc ==
  ASSUME Transfer, pc \in Moving
  PROVE  pc' \in Moving \union {"idle", "identified"}
BY DEF Transfer, NextSector, Select, WaitBusy, DriveBusy, AfterBusy, Clear, Command, Wait,
       NoInterrupt, Data, Stop, Goto, GotoWait, Return, Moving

LEMMA ControlledNext ==
  ASSUME Typed, Controlled, Counted, [AtaNext]_ataVars
  PROVE  Controlled'
<1>1. ASSUME UNCHANGED <<pc, answer, booting, op>>
      PROVE  Controlled'
  BY <1>1 DEF Controlled
<1>2. ASSUME pc \in Moving, pc' \in Moving, UNCHANGED <<answer, booting>>,
             op'.kind = op.kind, op'.unit = op.unit
      PROVE  Controlled'
  BY <1>2 DEF Controlled, Moving
<1>3. ASSUME pc \in Moving, NEW value \in {"true", "false"}, Return(value), UNCHANGED booting,
             op'.kind = op.kind
      PROVE  Controlled'
  <2>1. CASE op.kind \in Identify
    <3>1. booting \in Channels
      BY <1>3, <2>1 DEF Controlled, Typed, Operations
    <3>2. pc' = "identified" /\ answer' = value
      BY <1>3, <2>1 DEF Return
    <3>. QED  BY <1>3, <2>1, <3>1, <3>2 DEF Controlled, Moving
  <2>2. CASE op.kind \notin Identify
    <3>1. booting = 2
      <4>1. answer = PENDING
        BY <1>3 DEF Controlled
      <4>2. booting \notin Channels
        BY <2>2, <4>1 DEF Controlled
      <4>. QED  BY <4>2 DEF Typed, Channels
    <3>2. pc' = "idle" /\ answer' = value
      BY <1>3, <2>2 DEF Return
    <3>. QED  BY <1>3, <2>2, <3>1, <3>2 DEF Controlled, Moving, Channels
  <2>. QED  BY <2>1, <2>2
<1>4. CASE UNCHANGED ataVars
  BY <1>1, <1>4 DEF ataVars, driverVars, bootVars
<1>5. CASE External
  BY <1>1, <1>5, PicStill DEF External, Interrupt, driverVars, bootVars, opVars
<1>6. CASE OtherBus
  BY <1>1, <1>6 DEF OtherBus, bootVars, opVars
<1>7. CASE Transfer
  <2>1. ASSUME DriveBusy PROVE Controlled'
    BY <1>1, <2>1 DEF DriveBusy, bootVars, opVars
  <2>2. ASSUME NoInterrupt PROVE Controlled'
    BY <1>1, <2>2 DEF NoInterrupt, bootVars, opVars
  <2>3. {"loop", "select", "busy", "clear", "command", "wait", "data", "stop"} \subseteq Moving
    BY DEF Moving
  <2>4. AfterBusy(op) \in Moving
    BY <2>3 DEF AfterBusy
  <2>5. CASE NextSector
    BY <1>2, <1>3, <2>3, <2>5 DEF NextSector, Goto, bootVars
  <2>6. CASE Select
    BY <1>2, <2>3, <2>6 DEF Select, Goto, GotoWait, bootVars, opVars
  <2>7. CASE WaitBusy
    BY <1>2, <1>3, <2>1, <2>3, <2>4, <2>7 DEF WaitBusy, Goto, bootVars, opVars
  <2>8. CASE Clear \/ Command
    BY <1>2, <2>3, <2>8 DEF Clear, Command, Goto, GotoWait, bootVars, opVars
  <2>9. CASE Wait
    BY <1>2, <1>3, <2>2, <2>3, <2>9 DEF Wait, Goto, bootVars, opVars
  <2>10. [op EXCEPT !.left = @ - 1].kind = op.kind /\ [op EXCEPT !.left = @ - 1].unit = op.unit
    BY DEF Typed, Operations
  <2>11. CASE Data
    BY <1>2, <1>3, <2>3, <2>10, <2>11 DEF Data, GotoWait, bootVars
  <2>12. CASE Stop
    BY <1>2, <1>3, <2>3, <2>10, <2>12 DEF Stop, Goto, bootVars
  <2>. QED  BY <1>7, <2>5, <2>6, <2>7, <2>8, <2>9, <2>11, <2>12 DEF Transfer
<1>8. CASE ata_init
  BY <1>8 DEF ata_init, Goto, Controlled, Moving, opVars, Channels
<1>9. CASE ata_init_device
  <2>1. booting \in Channels /\ pc \in {"probe", "reset", "signature", "identified"}
    BY <1>9, BootIs
  <2>2. pc \notin Moving
    BY <2>1 DEF Moving
  <2>3. ASSUME NEW found, Probed(found), UNCHANGED opVars PROVE Controlled'
    <3>1. booting' \in Channels \/ booting' = 2
      BY <2>1, <2>3 DEF Probed, Channels
    <3>. QED  BY <2>1, <2>2, <2>3, <3>1 DEF Probed, Goto, Controlled, Moving, opVars, Channels
  <2>4. ASSUME DriveBusy PROVE Controlled'
    BY <1>1, <2>4 DEF DriveBusy, bootVars, opVars
  <2>5. ASSUME pc' \in {"reset", "signature"}, UNCHANGED <<bootVars, opVars>>
        PROVE  Controlled'
    BY <2>1, <2>2, <2>5 DEF Controlled, Moving, bootVars, opVars
  <2>6. ASSUME NEW kind \in Identify, Begin(Request(kind, booting, ID, 1, FALSE), "select"),
               UNCHANGED booting
        PROVE  Controlled'
    BY <2>1, <2>6 DEF Begin, GotoWait, Request, Controlled, Moving
  <2>. QED  BY <1>9, <2>3, <2>4, <2>5, <2>6, BootIs DEF Goto, GotoWait
<1>10. CASE Requests
  <2>1. pc = "idle" /\ booting' = booting /\ booting = 2
    BY <1>10, RequestsAre DEF Controlled, bootVars
  <2>2. ASSUME Refuse PROVE Controlled'
    BY <2>1, <2>2 DEF Refuse, Controlled, Moving, Channels
  <2>3. ASSUME NEW o, o.kind \notin Identify, NEW label \in Moving, Begin(o, label)
        PROVE  Controlled'
    BY <2>1, <2>3 DEF Begin, GotoWait, Controlled, Moving, Channels
  <2>4. {"loop", "select", "busy"} \subseteq Moving
    BY DEF Moving
  <2>5. \A kind, c, lba, n, dma : Request(kind, c, lba, n, dma).kind = kind
    BY DEF Request
  <2>6. {"read", "write", "packet"} \intersect Identify = {}
    BY DEF Identify
  <2>7. ASSUME NEW kind \in {"read", "write", "packet"}, NEW c, NEW lba, NEW n, NEW dma,
               NEW label \in Moving, Begin(Request(kind, c, lba, n, dma), label)
        PROVE  Controlled'
    BY <2>3, <2>5, <2>6, <2>7
  <2>. QED  BY <1>10, <2>2, <2>4, <2>7, RequestsAre
<1>. QED  BY <1>4, <1>5, <1>6, <1>7, <1>8, <1>9, <1>10 DEF AtaNext, Driver

LEMMA DataLeftNext ==
  ASSUME Typed, Controlled, DataLeft, [AtaNext]_ataVars
  PROVE  DataLeft'
<1>0. bus \in Buses /\ bus.cmd \in Commands
  BY DEF Typed, Buses
<1>1. ASSUME bus'.phase = bus.phase, bus'.cmd = bus.cmd PROVE DataLeft'
  BY <1>1 DEF DataLeft
<1>2. ASSUME bus'.phase # "data" PROVE DataLeft'
  BY <1>2 DEF DataLeft
<1>3. CASE UNCHANGED bus
  BY <1>1, <1>3
<1>4. CASE External
  <2>1. CASE DriveReady
    BY <1>0, <2>1 DEF DriveReady, DataLeft, Buses
  <2>2. CASE DriveWritten \/ DriveDma \/ DriveFails \/ DriveReset
    <3>1. bus'.phase = "idle"
      BY <1>0, <2>2 DEF DriveWritten, DriveDma, DriveFails, DriveReset, Buses
    <3>. QED  BY <1>2, <3>1
  <2>3. CASE Interrupt \/ SpuriousInterrupt
    <3>1. \E b : bus' = [bus EXCEPT !.intrq = b]
      BY <2>3, PicStill
    <3>. QED  BY <1>0, <1>1, <3>1 DEF Buses
  <2>. QED  BY <1>4, <2>1, <2>2, <2>3 DEF External
<1>5. ASSUME msleep PROVE DataLeft'
  BY <1>3, <1>5, PicStill
<1>6. \A state \in Buses : /\ ReadStatus(state).phase = state.phase
                          /\ ReadStatus(state).cmd = state.cmd
                          /\ Prepared(state).phase = state.phase
                          /\ Prepared(state).cmd = state.cmd
  BY DEF ReadStatus, Prepared, Buses
<1>7. CASE Transfer
  <2>1. CASE Select
    <3>. DEFINE state == IF op.dma THEN Prepared(bus) ELSE bus
    <3>1. state \in Buses /\ state.phase = bus.phase /\ state.cmd = bus.cmd
      BY <1>0, <1>6, BusSteps
    <3>. HIDE DEF state
    <3>2. \/ bus' = state \/ bus' = ReadStatus(state)
          \/ \E h : bus' = [ReadStatus(state) EXCEPT !.head = h]
      BY <2>1 DEF Select, ata_select_drv, state
    <3>3. ReadStatus(state) \in Buses
      BY <3>1, BusSteps
    <3>4. bus'.phase = state.phase /\ bus'.cmd = state.cmd
      BY <1>6, <3>1, <3>2, <3>3 DEF Buses
    <3>. QED  BY <1>1, <3>1, <3>4
  <2>2. CASE WaitBusy
    BY <1>0, <1>1, <1>3, <1>5, <1>6, <2>2
       DEF WaitBusy, DriveBusy, DriveNotBusy, BusyTooLong
  <2>3. CASE Command
    <3>. DEFINE mine == [kind |-> op.kind, lba |-> Address(Current), left |-> Count(op),
                         dma |-> op.dma]
    <3>1. PICK told \in {bus, [bus EXCEPT !.phase = "busy", !.cmd = mine]} :
             bus' = told \/ bus' = [told EXCEPT !.master = "active"]
      BY <2>3 DEF Command
    <3>. HIDE DEF mine
    <3>2. CASE told = bus
      BY <1>0, <1>1, <3>1, <3>2 DEF Buses
    <3>3. CASE told = [bus EXCEPT !.phase = "busy", !.cmd = mine]
      BY <1>0, <1>2, <3>1, <3>3 DEF Buses
    <3>. QED  BY <3>1, <3>2, <3>3
  <2>4. CASE Wait
    <3>1. bus' = bus \/ bus' = [bus EXCEPT !.master = "off"] \/ msleep
      BY <2>4 DEF Wait, NoInterrupt
    <3>. QED  BY <1>0, <1>1, <1>5, <3>1 DEF Buses
  <2>5. CASE Data
    <3>1. \/ bus' = bus
          \/ bus' = [bus EXCEPT !.phase = "busy", !.cmd.left = @ - 1, !.cmd.lba = @ + 1]
          \/ bus' = [bus EXCEPT !.phase = "idle", !.cmd = NoCommand]
      BY <2>5 DEF Data
    <3>. QED  BY <1>0, <1>2, <1>3, <3>1 DEF Buses
  <2>6. CASE Stop
    BY <1>0, <1>1, <1>6, <2>6, BusSteps DEF Stop
  <2>. QED  BY <1>3, <1>7, <2>1, <2>2, <2>3, <2>4, <2>5, <2>6
               DEF Transfer, NextSector, Clear
<1>8. CASE ata_init_device
  <2>1. ASSUME bus' = [RestingBus EXCEPT !.phase = "reset", !.head[2] = booting,
                                         !.pic = bus.pic]
        PROVE  DataLeft'
    BY <1>2, <2>1 DEF RestingBus
  <2>2. ASSUME DriveBusy PROVE DataLeft'
    BY <1>5, <2>2 DEF DriveBusy
  <2>. QED  BY <1>0, <1>1, <1>3, <1>6, <1>8, <2>1, <2>2, BootIs
<1>. QED  BY <1>3, <1>4, <1>7, <1>8, RequestsAre DEF AtaNext, Driver, OtherBus, ata_init,
          ataVars

LEMMA CountedNext ==
  ASSUME Typed, Controlled, Counted, [AtaNext]_ataVars
  PROVE  Counted'
<1>0. DataLeft'
  BY DataLeftNext DEF Counted
<1>1. /\ Len(blocks) \in Nat /\ blocks \in Seq(Blocks)
      /\ op \in Operations /\ op.left \in Nat /\ op.n \in Nat
  BY LenProperties, AtaAssumption DEF Typed, Operations
<1>2. ASSUME UNCHANGED <<pc, answer, op, blocks>> PROVE Counted'
  BY <1>0, <1>2 DEF Counted
<1>3. ASSUME pc \in Moving, NEW label \in Moving, pc' = label, UNCHANGED <<answer, op, blocks>>,
             label # "loop", op.left > 0, label = "stop" => op.dma,
             label = "clear" => op.dma \/ op.kind = "packet", label = "data" => ~op.dma
      PROVE  Counted'
  BY <1>0, <1>3 DEF Counted
<1>4. ASSUME pc \in Moving, NEW value \in {"true", "false"}, Return(value),
             UNCHANGED <<op, blocks>>, value = "true" => op.left = 0
      PROVE  Counted'
  <2>1. answer = PENDING /\ answer' = value /\ pc' \in {"identified", "idle"}
    BY <1>4 DEF Controlled, Return
  <2>. QED  BY <1>0, <1>4, <2>1 DEF Counted, Moving
<1>5. CASE UNCHANGED ataVars
  BY <1>2, <1>5 DEF ataVars, driverVars
<1>6. CASE External
  BY <1>2, <1>6, PicStill DEF External, Interrupt, driverVars, opVars
<1>7. CASE OtherBus
  BY <1>2, <1>7 DEF OtherBus, opVars
<1>8. CASE Transfer
  <2>1. ASSUME DriveBusy PROVE Counted'
    BY <1>2, <2>1 DEF DriveBusy, opVars
  <2>2. ASSUME NoInterrupt PROVE Counted'
    BY <1>2, <2>2 DEF NoInterrupt, opVars
  <2>3. {"loop", "select", "busy", "clear", "command", "wait", "data", "stop"} \subseteq Moving
    BY DEF Moving
  <2>4. /\ pc \in Moving \ {"loop"} => op.left > 0
        /\ pc = "loop" => op.dma
        /\ pc \in Moving => answer = PENDING
    BY DEF Counted, Controlled
  <2>5. CASE NextSector
    BY <1>1, <1>3, <1>4, <2>3, <2>5 DEF NextSector, Goto
  <2>6. CASE Select
    BY <1>3, <2>3, <2>4, <2>6 DEF Select, Goto, GotoWait, opVars
  <2>7. CASE WaitBusy
    <3>1. ASSUME Goto(AfterBusy(op)), UNCHANGED <<answer, op, blocks>> PROVE Counted'
      BY <1>3, <2>3, <2>4, <2>7, <3>1 DEF WaitBusy, Goto, AfterBusy, ClearsFirst
    <3>. QED  BY <1>4, <2>1, <2>3, <2>7, <3>1 DEF WaitBusy, opVars
  <2>8. CASE Clear \/ Command
    BY <1>3, <2>3, <2>4, <2>8 DEF Clear, Command, Goto, GotoWait, opVars
  <2>9. CASE Wait
    BY <1>3, <1>4, <2>2, <2>3, <2>4, <2>9 DEF Wait, Goto, opVars
  <2>10. ASSUME op.left > 0, pc \in Moving, NEW block, blocks' = Append(blocks, block),
                block \in Blocks, op' = [op EXCEPT !.left = @ - 1],
                \/ pc' = "loop" /\ answer' = answer /\ op.dma
                \/ pc' = "wait" /\ answer' = answer /\ op.left > 1
                \/ Return("true") /\ op.left = 1
         PROVE  Counted'
    <3>1. Len(blocks') = Len(blocks) + 1
      BY <1>1, <2>10, AppendProperties
    <3>2. /\ op'.left = op.left - 1 /\ op'.n = op.n /\ op'.kind = op.kind
          /\ op'.lba = op.lba /\ op'.dma = op.dma
      BY <1>1, <2>10 DEF Operations
    <3>3. Len(blocks) + op.left = op.n
      BY <2>4, <2>10 DEF Counted
    <3>4. Len(blocks') + op'.left = op'.n
      BY <1>1, <3>1, <3>2, <3>3
    <3>5. /\ pc' \in Moving \ {"loop"} => op'.left > 0
          /\ answer' = "true" => op'.left = 0
      BY <1>1, <2>4, <2>10, <3>2 DEF Return, Moving
    <3>6. /\ pc' \in {"loop", "stop"} => op'.dma
          /\ pc' \notin {"clear", "data"}
      BY <2>10, <3>2 DEF Return
    <3>7. Len(blocks') + op'.left <= op'.n
      BY <1>1, <3>2, <3>4
    <3>. QED  BY <1>0, <3>2, <3>4, <3>5, <3>6, <3>7 DEF Counted
  <2>11. CASE Data
    <3>1. PICK block \in {<<Selected, bus.cmd.lba>>, Garbage} : blocks' = Append(blocks, block)
      BY <2>11 DEF Data
    <3>2. block \in Blocks
      BY <3>1 DEF Typed, Buses, Heads, Commands, Selected, Blocks, Sector
    <3>. QED  BY <1>1, <2>3, <2>4, <2>10, <2>11, <3>1, <3>2 DEF Data, GotoWait
  <2>12. CASE Stop
    <3>1. bus.took \in Blocks /\ pc = "stop" /\ op.dma
      BY <2>12 DEF Stop, Typed, Buses, Counted
    <3>. QED  BY <1>4, <2>3, <2>4, <2>10, <2>12, <3>1 DEF Stop, Goto
  <2>. QED  BY <1>8, <2>5, <2>6, <2>7, <2>8, <2>9, <2>11, <2>12 DEF Transfer
<1>9. CASE ata_init
  BY <1>0, <1>9 DEF ata_init, Goto, Counted, Moving, opVars
<1>10. ASSUME NEW o, NEW label \in Moving, Begin(o, label), o.left = o.n, o.n \in Nat,
              o.kind \in Identify \union {"packet"} => o.lba = ID /\ ~o.dma,
              o.kind \in Identify => o.n = 1,
              o.kind \in {"read", "write"} => o.lba \in Nat,
              IF label = "loop" THEN o.dma ELSE o.n > 0,
              label \in {"loop", "select", "busy"}
       PROVE  Counted'
  <2>1. op' = o /\ blocks' = <<>> /\ pc' = label /\ answer' = PENDING
    BY <1>10 DEF Begin, GotoWait
  <2>2. Len(blocks') = 0
    BY <2>1
  <2>3. Len(blocks') + op'.left = op'.n /\ Len(blocks') + op'.left <= op'.n
    BY <1>10, <2>1, <2>2
  <2>4. pc' \in Moving \ {"loop"} => op'.left > 0
    BY <1>10, <2>1
  <2>. QED  BY <1>0, <1>10, <2>1, <2>3, <2>4 DEF Counted
<1>11. \A kind, c, lba, n, dma :
          LET o == Request(kind, c, lba, n, dma)
          IN  o.kind = kind /\ o.lba = lba /\ o.n = n /\ o.left = n /\ o.dma = dma
  BY DEF Request
<1>12. CASE ata_init_device
  <2>1. pc \notin Moving
    BY <1>12, BootIs DEF Moving
  <2>2. ASSUME pc' \notin Moving, UNCHANGED opVars PROVE Counted'
    BY <1>0, <2>1, <2>2 DEF Counted, opVars, Moving
  <2>3. ASSUME DriveBusy PROVE Counted'
    BY <1>2, <2>3 DEF DriveBusy, opVars
  <2>4. ASSUME NEW kind \in Identify, Begin(Request(kind, booting, ID, 1, FALSE), "select")
        PROVE  Counted'
    <3>. DEFINE o == Request(kind, booting, ID, 1, FALSE)
    <3>1. o.kind = kind /\ o.lba = ID /\ o.n = 1 /\ o.left = 1 /\ o.dma = FALSE
      BY DEF Request
    <3>2. "select" \in Moving /\ kind \notin {"read", "write"} /\ Begin(o, "select")
      BY <2>4 DEF Identify, Moving
    <3>. HIDE DEF o
    <3>. QED  BY <1>10, <3>1, <3>2
  <2>5. ASSUME NEW found, Probed(found) PROVE pc' \notin Moving
    BY <2>5 DEF Probed, Goto, Moving
  <2>6. "reset" \notin Moving /\ "signature" \notin Moving
    BY DEF Moving
  <2>. QED  BY <1>12, <2>2, <2>3, <2>4, <2>5, <2>6, BootIs DEF Goto, GotoWait
<1>13. CASE Requests
  <2>1. CASE Refuse
    <3>1. pc = "idle"
      BY <1>13, RequestsAre
    <3>2. Len(blocks') + op.left <= op.n
      <4>1. Len(blocks') = 0
        BY <2>1 DEF Refuse
      <4>. QED  BY <1>1, <4>1 DEF Counted
    <3>. QED  BY <1>0, <2>1, <3>1, <3>2 DEF Refuse, Counted, Moving
  <2>2. ASSUME NEW kind \in {"read", "write"}, NEW c, NEW lba \in 0 .. MaxSectors - 1,
               NEW n \in 0 .. EXT_MAX, NEW dma, NEW label \in {"loop", "select"},
               Begin(Request(kind, c, lba, n, dma), label),
               IF label = "loop" THEN dma ELSE n > 0
        PROVE  Counted'
    <3>1. lba \in Nat /\ n \in Nat
      BY AtaAssumption
    <3>2. kind \notin Identify \union {"packet"} /\ label \in Moving
      BY DEF Identify, Moving
    <3>. QED  BY <1>10, <1>11, <2>2, <3>1, <3>2
  <2>3. ASSUME NEW c, Begin(Request("packet", c, ID, 2, FALSE), "busy")
        PROVE  Counted'
    <3>. DEFINE o == Request("packet", c, ID, 2, FALSE)
    <3>1. o.kind = "packet" /\ o.lba = ID /\ o.n = 2 /\ o.left = 2 /\ o.dma = FALSE
      BY DEF Request
    <3>2. "packet" \notin Identify /\ "busy" \in Moving /\ Begin(o, "busy")
      BY <2>3 DEF Identify, Moving
    <3>. HIDE DEF o
    <3>. QED  BY <1>10, <3>1, <3>2
  <2>4. \A n \in 1 .. EXT_MAX : n \in 0 .. EXT_MAX /\ n > 0
    BY AtaAssumption
  <2>. QED  BY <1>13, <2>1, <2>2, <2>3, <2>4, RequestsAre
<1>. QED  BY <1>5, <1>6, <1>7, <1>8, <1>9, <1>12, <1>13 DEF AtaNext, Driver

-----------------------------------------------------------------------------
(* The selection.                                                          *)

\* Only a select, and a reset, write the drive/head register.
LEMMA HeadKept ==
  ASSUME Typed, Controlled,
         \/ External /\ ~DriveReset
         \/ Transfer /\ ~Select
         \/ UNCHANGED bus \/ msleep \/ bus' = ReadStatus(bus)
  PROVE  bus'.head = bus.head /\ (bus'.phase = "reset" <=> bus.phase = "reset")
<1>1. bus \in Buses
  BY DEF Typed
<1>2. CASE UNCHANGED bus \/ msleep \/ bus' = ReadStatus(bus)
  BY <1>1, <1>2, PicStill DEF ReadStatus, Buses
<1>3. CASE External /\ ~DriveReset
  <2>1. CASE Interrupt \/ SpuriousInterrupt
    <3>1. \E b : bus' = [bus EXCEPT !.intrq = b]
      BY <2>1, PicStill
    <3>. QED  BY <1>1, <3>1 DEF Buses
  <2>2. CASE DriveReady \/ DriveWritten \/ DriveDma \/ DriveFails
    BY <1>1, <2>2 DEF DriveReady, DriveWritten, DriveDma, DriveFails, Working, Buses
  <2>. QED  BY <1>3, <2>1, <2>2 DEF External
<1>4. CASE Transfer /\ ~Select
  <2>1. CASE NextSector \/ Clear
    BY <1>2, <2>1 DEF NextSector, Clear
  <2>2. CASE WaitBusy
    BY <1>2, <2>2 DEF WaitBusy, DriveBusy, DriveNotBusy, BusyTooLong
  <2>3. CASE Command
    <3>. DEFINE mine == [kind |-> op.kind, lba |-> Address(Current), left |-> Count(op),
                         dma |-> op.dma]
    <3>1. PICK told \in {bus, [bus EXCEPT !.phase = "busy", !.cmd = mine]} :
             /\ bus' = told \/ bus' = [told EXCEPT !.master = "active"]
             /\ told = bus \/ bus.phase = "idle"
      BY <2>3 DEF Command
    <3>. HIDE DEF mine
    <3>2. CASE told = bus
      BY <1>1, <3>1, <3>2 DEF Buses
    <3>3. CASE told = [bus EXCEPT !.phase = "busy", !.cmd = mine] /\ told # bus
      BY <1>1, <3>1, <3>3 DEF Buses
    <3>. QED  BY <3>1, <3>2, <3>3
  <2>4. CASE Wait
    <3>1. bus' = bus \/ bus' = [bus EXCEPT !.master = "off"] \/ msleep
      BY <2>4 DEF Wait, NoInterrupt
    <3>. QED  BY <1>1, <1>2, <3>1 DEF Buses
  <2>5. CASE Data
    <3>1. \/ bus' = bus
          \/ /\ bus.phase = "data"
             /\ \/ bus' = [bus EXCEPT !.phase = "busy", !.cmd.left = @ - 1, !.cmd.lba = @ + 1]
                \/ bus' = [bus EXCEPT !.phase = "idle", !.cmd = NoCommand]
      BY <2>5 DEF Data
    <3>. QED  BY <1>1, <3>1 DEF Buses
  <2>6. CASE Stop
    BY <1>1, <2>6 DEF Stop, Prepared, ReadStatus, Buses
  <2>. QED  BY <1>4, <2>1, <2>2, <2>3, <2>4, <2>5, <2>6 DEF Transfer
<1>. QED  BY <1>2, <1>3, <1>4

LEMMA SelectionNext ==
  ASSUME Typed, Controlled, Counted, SelectionKnown, [AtaNext]_ataVars
  PROVE  SelectionKnown'
<1>0. bus \in Buses
  BY DEF Typed
<1>1. ASSUME bus'.head = bus.head, bus'.phase = "reset" <=> bus.phase = "reset",
             UNCHANGED <<cur_selected, foreign>>, booting' = booting \/ booting' # 0,
             pc' = "probe" => pc = "probe" \/ booting = 0
      PROVE  SelectionKnown'
  BY <1>1 DEF SelectionKnown
<1>2. CASE UNCHANGED ataVars
  BY <1>1, <1>2 DEF ataVars, driverVars, bootVars
<1>3. CASE External
  <2>1. CASE ~DriveReset
    BY <1>1, <1>3, <2>1, HeadKept, PicStill DEF External, Interrupt, driverVars, bootVars
  <2>2. CASE DriveReset
    <3>1. bus'.head = [bus.head EXCEPT ![2] = 0] /\ bus'.phase = "idle"
      BY <1>0, <2>2 DEF DriveReset, Buses
    <3>2. bus.head \in Heads /\ bus.head[1] = 0 /\ bus.head[3] = 0
      BY <1>0, <2>2 DEF DriveReset, SelectionKnown, Buses
    <3>3. bus'.head = <<0, 0, 0>>
      BY <3>1, <3>2 DEF Heads
    <3>4. foreign \/ cur_selected \in {NoSelect, <<0, 0, 0>>}
      BY <2>2 DEF DriveReset, SelectionKnown
    <3>5. UNCHANGED <<cur_selected, foreign>>
      BY <1>3, <2>2 DEF External, Interrupt, SpuriousInterrupt, driverVars
    <3>. QED  BY <3>1, <3>3, <3>4, <3>5 DEF SelectionKnown
  <2>. QED  BY <2>1, <2>2
<1>4. CASE OtherBus
  BY <1>4 DEF OtherBus, SelectionKnown
<1>5. ASSUME pc \in Moving PROVE pc # "probe" /\ answer = PENDING
  BY <1>5 DEF Moving, Controlled
<1>6. CASE Transfer
  <2>1. CASE ~Select
    <3>1. UNCHANGED <<cur_selected, foreign, booting>>
      BY <1>6, <2>1 DEF Transfer, NextSector, WaitBusy, DriveBusy, Clear, Command, Wait,
           NoInterrupt, Data, Stop, bootVars
    <3>2. pc' # "probe"
      BY <1>6, TransferPc DEF Transfer, NextSector, Select, WaitBusy, Clear, Command, Wait,
           Data, Stop, Moving
    <3>. QED  BY <1>1, <1>6, <2>1, <3>1, <3>2, HeadKept
  <2>2. CASE Select
    <3>. DEFINE state == IF op.dma THEN Prepared(bus) ELSE bus
                select == SelectByte(Current)
    <3>1. state.phase = bus.phase /\ state.head = bus.head /\ state \in Buses
      BY <1>0, PreparedIs
    <3>2. ata_select_drv(state) /\ booting' = booting /\ pc' # "probe"
      BY <2>2 DEF Select, Goto, GotoWait, bootVars
    <3>3. booting = 0 => select = <<0, 0, 0>>
      <4>1. booting = 0 => op.kind \in Identify /\ op.unit = 0
        BY <1>5, <2>2 DEF Select, Controlled, Channels, Moving
      <4>. QED  BY <4>1, CurrentIs DEF SelectByte
    <3>. HIDE DEF state, select
    <3>4. CASE bus' = state /\ UNCHANGED <<cur_selected, foreign>>
      BY <1>1, <3>1, <3>2, <3>4
    <3>5. CASE bus' = ReadStatus(state) /\ UNCHANGED <<cur_selected, foreign>>
      <4>1. bus'.phase = state.phase /\ bus'.head = state.head
        BY <3>1, <3>5 DEF ReadStatus, Buses
      <4>. QED  BY <1>1, <3>1, <3>2, <3>5, <4>1
    <3>6. CASE /\ state.phase = "idle" /\ bus' = [ReadStatus(state) EXCEPT !.head = select]
               /\ cur_selected' = select /\ foreign' = FALSE
      <4>1. bus'.phase = "idle" /\ bus'.head = select
        BY <3>1, <3>6 DEF ReadStatus, Buses
      <4>. QED  BY <3>2, <3>3, <3>6, <4>1 DEF SelectionKnown
    <3>. QED  BY <3>2, <3>4, <3>5, <3>6 DEF ata_select_drv, select
  <2>. QED  BY <2>1, <2>2
<1>7. CASE ata_init
  BY <1>1, <1>7, HeadKept DEF ata_init, Controlled, Goto
<1>8. CASE ata_init_device
  <2>1. UNCHANGED <<cur_selected, foreign>> /\ booting \in Channels
    BY <1>8, BootIs
  <2>2. ASSUME NEW found, Probed(found), bus' = bus \/ bus' = ReadStatus(bus)
        PROVE  SelectionKnown'
    <3>1. booting' # 0 /\ (pc' = "probe" => booting = 0)
      BY <2>1, <2>2 DEF Probed, Goto, Channels
    <3>. QED  BY <1>1, <2>1, <2>2, <3>1, HeadKept
  <2>3. ASSUME DriveBusy PROVE SelectionKnown'
    BY <1>1, <2>3, HeadKept DEF DriveBusy, bootVars
  <2>4. ASSUME Probe, GotoWait("reset"), UNCHANGED bootVars,
               bus' = [RestingBus EXCEPT !.phase = "reset", !.head[2] = booting,
                                         !.pic = bus.pic]
        PROVE  SelectionKnown'
    <3>1. bus'.phase = "reset" /\ bus'.head = <<0, booting, 0>>
      BY <2>4 DEF RestingBus
    <3>2. foreign \/ cur_selected \in {NoSelect, <<0, 0, 0>>}
      BY <2>4 DEF Probe, SelectionKnown
    <3>. QED  BY <2>1, <3>1, <3>2 DEF SelectionKnown
  <2>5. ASSUME Goto("signature"), UNCHANGED <<bootVars, bus>> PROVE SelectionKnown'
    BY <1>1, <2>1, <2>5, HeadKept DEF Goto, bootVars
  <2>6. ASSUME NEW o, Begin(o, "select"), UNCHANGED <<booting, bus>> PROVE SelectionKnown'
    BY <1>1, <2>1, <2>6, HeadKept DEF Begin, GotoWait
  <2>. QED  BY <1>8, <2>2, <2>3, <2>4, <2>5, <2>6, BootIs
<1>9. CASE Requests
  <2>1. UNCHANGED <<cur_selected, foreign, booting, bus>> /\ pc' # "probe"
    BY <1>9, RequestsAre DEF bootVars, Refuse, Begin, GotoWait
  <2>. QED  BY <1>1, <2>1, HeadKept
<1>. QED  BY <1>2, <1>3, <1>4, <1>6, <1>7, <1>8, <1>9 DEF AtaNext, Driver

-----------------------------------------------------------------------------
(* The promise.                                                            *)

LEMMA SelectByteKept ==
  ASSUME UNCHANGED <<bootVars, op>>
  PROVE  Current' = Current /\ SelectByte(Current)' = SelectByte(Current)
BY DEF Current, SelectByte, Can, Chs, bootVars

\* The drive that is selected is the one the request is for.
LEMMA SelectedUnit ==
  ASSUME Typed, bus.head = SelectByte(Current)
  PROVE  Selected = op.unit
<1>1. SelectByte(Current)[2] = op.unit
  BY CurrentIs DEF SelectByte
<1>. QED  BY <1>1 DEF Selected

LEMMA ExternalHonest ==
  ASSUME Typed, Controlled, Counted, Honest, External, pc' \in Moving, ~excused'
  PROVE  Promise'
<1>1. UNCHANGED <<bootVars, op, pc, blocks, cur_selected, answer, foreign, tries>>
  BY PicStill DEF External, Interrupt, driverVars, opVars
<1>2. /\ bus \in Buses /\ answer = PENDING /\ pc \in Moving
      /\ op.dma \in BOOLEAN /\ fired \in BOOLEAN /\ trouble \in BOOLEAN
      /\ bus.intrq \in BOOLEAN
  BY <1>1 DEF Typed, Controlled, Buses, Operations
<1>3. ~excused
  BY <1>1, <1>2, PicStill DEF External, DriveReady, DriveWritten, DriveDma, DriveFails,
       DriveReset, Interrupt, opVars
<1>4. Promise
  BY <1>2, <1>3 DEF Honest
<1>5. /\ Current' = Current /\ SelectByte(Current)' = SelectByte(Current)
  BY <1>1, SelectByteKept
<1>6. ASSUME bus'.head = bus.head,
             pc \in {"loop", "select", "busy", "clear", "command"} => AtRest' /\ (op.dma \/ ~fired'),
             pc = "command" /\ fired' => trouble',
             pc \in {"wait", "data"} /\ ~op.dma => PioHonest',
             pc \in {"wait", "stop"} /\ op.dma => DmaHonest'
      PROVE  Promise'
  BY <1>1, <1>4, <1>5, <1>6 DEF Promise
<1>7. /\ op.dma => pc \in {"loop", "select", "busy", "clear", "command", "wait", "stop"}
      /\ ~op.dma => pc \in {"select", "busy", "command", "wait", "data"}
  BY <1>2, <1>4 DEF Counted, Moving, Promise
<1>8. bus.phase \in {"busy", "reset"} => pc \in {"wait", "stop"}
  BY <1>2, <1>4, <1>7 DEF Promise, AtRest, PioHonest
<1>9. ASSUME bus.phase = "busy"
      PROVE  /\ pc \in {"wait", "stop"} /\ ~bus.intrq /\ Ours
             /\ bus.cmd.left = 1 /\ bus.cmd.dma = op.dma /\ bus.cmd.lba = Current.lba
             /\ op.dma => DmaHonest /\ bus.master = "active"
             /\ ~op.dma => pc = "wait" /\ ~fired
  <2>1. /\ pc \in {"wait", "stop"} /\ ~bus.intrq /\ Ours
        /\ op.dma => DmaHonest /\ bus.master = "active"
        /\ ~op.dma => pc = "wait" /\ ~fired
    BY <1>4, <1>7, <1>8, <1>9 DEF Promise, PioHonest, DmaHonest
  <2>2. bus.cmd.left = 1 /\ bus.cmd.dma = op.dma /\ bus.cmd.lba = Current.lba
    BY <2>1 DEF Ours
  <2>. QED  BY <2>1, <2>2
<1>10. Ours /\ bus'.cmd = bus.cmd => Ours'
  BY <1>1, <1>5 DEF Ours
<1>11. ASSUME DriveReady, fired' = fired PROVE Promise'
  <2>1. bus.phase = "busy" /\ ~bus.cmd.dma
    BY <1>11 DEF DriveReady, Working
  <2>2. /\ bus'.phase = "data" /\ bus'.intrq = TRUE /\ bus'.cmd = bus.cmd
        /\ bus'.head = bus.head
    BY <1>2, <1>11 DEF DriveReady, Buses
  <2>3. pc = "wait" /\ ~op.dma /\ ~fired /\ Ours'
    BY <1>9, <1>10, <2>1, <2>2
  <2>4. PioHonest'
    <3>1. fired' = FALSE /\ pc' = "wait"
      BY <1>1, <1>2, <1>11, <2>3
    <3>2. (fired = ~bus.intrq)'
      BY <2>2, <3>1
    <3>. QED  BY <2>2, <2>3, <3>1, <3>2 DEF PioHonest
  <2>. QED  BY <1>6, <2>2, <2>3, <2>4
<1>12. ASSUME DriveWritten PROVE FALSE
  <2>1. bus.phase = "busy" /\ bus.cmd.left = 0
    BY <1>12 DEF DriveWritten, Working
  <2>. QED  BY <1>9, <2>1
<1>13. ASSUME DriveDma, UNCHANGED <<fired, trouble>> PROVE Promise'
  <2>1. bus.phase = "busy" /\ bus.cmd.dma
    BY <1>13 DEF DriveDma, Working
  <2>2. pc \in {"wait", "stop"} /\ op.dma /\ DmaHonest
    BY <1>9, <2>1
  <2>3. /\ bus'.phase = "idle" /\ bus'.intrq = TRUE /\ bus'.master = "done"
        /\ bus'.head = bus.head /\ bus'.took = <<Selected, bus.cmd.lba>>
    BY <1>2, <1>13 DEF DriveDma, Buses
  <2>4. bus.head = SelectByte(Current)
    BY <1>4, <2>2 DEF Promise
  <2>5. bus'.took = <<op.unit, Current.lba>>
    BY <1>9, <2>1, <2>3, <2>4, SelectedUnit
  <2>6. DmaHonest'
    BY <1>1, <1>5, <1>13, <2>2, <2>3, <2>5 DEF DmaHonest
  <2>. QED  BY <1>6, <2>2, <2>3, <2>6
<1>14. ASSUME DriveFails, fired' = fired PROVE Promise'
  <2>1. bus.phase = "busy" /\ op.dma /\ trouble'
    BY <1>2, <1>14 DEF DriveFails
  <2>2. /\ bus'.phase = "idle" /\ bus'.master # "done" /\ bus'.head = bus.head
    BY <1>2, <1>9, <1>14, <2>1 DEF DriveFails, Buses
  <2>3. pc \in {"wait", "stop"} /\ DmaHonest
    BY <1>9, <2>1
  <2>4. DmaHonest'
    BY <1>1, <1>14, <2>1, <2>2, <2>3 DEF DmaHonest
  <2>. QED  BY <1>6, <2>1, <2>2, <2>3, <2>4
<1>15. ASSUME DriveReset PROVE FALSE
  <2>1. bus.phase = "reset" /\ pc \in {"wait", "stop"}
    BY <1>8, <1>15 DEF DriveReset
  <2>. QED  BY <1>4, <1>7, <2>1 DEF Promise, PioHonest, DmaHonest
<1>16. ASSUME Interrupt PROVE Promise'
  <2>1. bus.intrq /\ trouble' = trouble
    BY <1>16 DEF Interrupt, opVars
  <2>2. /\ bus'.intrq = FALSE /\ bus'.phase = bus.phase /\ bus'.head = bus.head
        /\ bus'.cmd = bus.cmd /\ bus'.master = bus.master /\ bus'.took = bus.took
    BY <1>2, <1>16, PicStill DEF Buses
  <2>3. fired'
    <3>1. pc # "off"
      BY <1>2 DEF Moving
    <3>2. interrupt_handlers[14] # NoHandler
      BY <3>1 DEF interrupt_handlers, register_interrupt_handler, irq_install, Lines, NoHandler
    <3>. QED  BY <1>16, <3>2 DEF Interrupt
  <2>4. pc \in {"wait", "stop", "data"}
    BY <1>2, <1>4, <2>1 DEF Promise, AtRest, Moving
  <2>5. ASSUME ~op.dma PROVE PioHonest'
    <3>1. bus.phase = "data" /\ Ours
      BY <1>4, <1>7, <2>1, <2>4, <2>5 DEF Promise, PioHonest
    <3>. QED  BY <1>1, <1>10, <2>2, <2>3, <3>1 DEF PioHonest
  <2>6. ASSUME op.dma PROVE DmaHonest'
    <3>1. DmaHonest /\ bus.phase = "idle" /\ (trouble \/ bus.master = "done")
      BY <1>4, <1>7, <2>1, <2>4, <2>6 DEF Promise, DmaHonest
    <3>. QED  BY <1>1, <1>5, <2>1, <2>2, <2>3, <3>1 DEF DmaHonest
  <2>. QED  BY <1>6, <2>2, <2>4, <2>5, <2>6
<1>17. ASSUME SpuriousInterrupt PROVE Promise'
  <2>1. PICK told \in BOOLEAN :
           /\ told => pc # "off"
           /\ bus' = [bus EXCEPT !.intrq = @ /\ ~told]
           /\ fired' = (fired \/ told)
           /\ trouble' = (trouble \/ (told /\ answer = PENDING))
           /\ excused' = (excused \/ (told /\ answer = PENDING /\ ~op.dma))
    BY <1>17, PicStill
  <2>2. told => op.dma /\ trouble'
    BY <1>2, <2>1
  <2>3. /\ bus'.intrq = (bus.intrq /\ ~told)
        /\ bus'.phase = bus.phase /\ bus'.head = bus.head
        /\ bus'.cmd = bus.cmd /\ bus'.master = bus.master /\ bus'.took = bus.took
    BY <1>2, <2>1 DEF Buses
  <2>4. bus'.intrq => bus.intrq
    BY <2>3
  <2>5. trouble => trouble'
    BY <2>1
  <2>6. fired' => fired \/ (op.dma /\ trouble')
    BY <2>1, <2>2
  <2>7. ASSUME pc \in {"wait", "data"}, ~op.dma PROVE PioHonest'
    <3>1. bus'.intrq = bus.intrq /\ fired' = fired
      BY <1>2, <2>1, <2>2, <2>3, <2>7
    <3>2. PioHonest
      BY <1>4, <2>7 DEF Promise
    <3>. QED  BY <1>1, <1>10, <2>3, <3>1, <3>2 DEF PioHonest
  <2>8. ASSUME pc \in {"wait", "stop"}, op.dma PROVE DmaHonest'
    <3>1. DmaHonest
      BY <1>4, <2>8 DEF Promise
    <3>2. pc = "stop" => fired'
      BY <2>1, <3>1 DEF DmaHonest
    <3>. QED  BY <1>1, <1>5, <1>10, <2>3, <2>4, <2>5, <2>6, <3>1, <3>2 DEF DmaHonest
  <2>9. pc \in {"loop", "select", "busy", "clear", "command"} => AtRest' /\ (op.dma \/ ~fired')
    BY <1>4, <2>3, <2>4, <2>6 DEF Promise, AtRest
  <2>10. pc = "command" /\ fired' => trouble'
    BY <1>4, <2>5, <2>6 DEF Promise
  <2>. QED  BY <1>6, <2>3, <2>7, <2>8, <2>9, <2>10
<1>. QED  BY <1>11, <1>12, <1>13, <1>14, <1>15, <1>16, <1>17 DEF External, driverVars,
             DriveDma

LEMMA TransferHonest ==
  ASSUME Typed, Controlled, Counted, SelectionKnown, Honest, Transfer, pc' \in Moving, ~excused'
  PROVE  Promise'
<1>1. /\ pc \in Moving /\ answer = PENDING
      /\ UNCHANGED <<bootVars, excused>>
  <2>1. pc \in Moving
    BY DEF Transfer, NextSector, Select, WaitBusy, Clear, Command, Wait, Data, Stop, Moving
  <2>2. UNCHANGED <<bootVars, excused>>
    BY DEF Transfer, NextSector, Select, WaitBusy, DriveBusy, Clear, Command, Wait,
       NoInterrupt, Data, Stop, opVars
  <2>. QED  BY <2>1, <2>2 DEF Controlled
<1>2. /\ bus \in Buses /\ op.dma \in BOOLEAN /\ fired \in BOOLEAN /\ trouble \in BOOLEAN
      /\ bus.intrq \in BOOLEAN /\ op \in Operations
      /\ op.left \in Nat /\ op.n \in Nat /\ op.lba \in Int /\ Len(blocks) \in Nat
      /\ blocks \in Seq(Blocks)
  BY LenProperties, AtaAssumption DEF Typed, Buses, Operations, ID
<1>3. Promise
  BY <1>1 DEF Honest
<1>4. /\ op.dma => pc \in {"loop", "select", "busy", "clear", "command", "wait", "stop"}
      /\ ~op.dma => pc \in {"select", "busy", "command", "wait", "data"}
  BY <1>1, <1>3 DEF Counted, Moving, Promise
<1>5. UNCHANGED op => Current' = Current /\ SelectByte(Current)' = SelectByte(Current)
  BY <1>1, SelectByteKept
<1>6. ASSUME NEW value, Return(value) PROVE FALSE
  BY <1>6 DEF Return, Moving
\* Up to the command the bus is at rest, and what is selected stays selected.
<1>7. ASSUME pc \in {"loop", "busy", "clear"}, UNCHANGED <<op, blocks, cur_selected, foreign>>,
             pc = "loop" => pc' = "select" /\ UNCHANGED <<bus, fired>>,
             pc # "loop" => pc' \in {"clear", "command"},
             bus' = bus \/ bus' = ReadStatus(bus),
             fired' => fired, pc' = "command" /\ fired' => trouble' \/ ~op.dma
      PROVE  Promise'
  <2>1. AtRest /\ (op.dma \/ ~fired)
    BY <1>3, <1>7 DEF Promise
  <2>2. bus'.head = bus.head /\ AtRest'
    BY <1>2, <1>7, <2>1 DEF ReadStatus, AtRest, Buses
  <2>3. op.dma \/ ~fired'
    BY <1>7, <2>1
  <2>4. CASE pc = "loop"
    BY <1>3, <1>5, <1>7, <2>2, <2>3, <2>4 DEF Promise
  <2>5. CASE pc # "loop"
    <3>1. /\ pc' \notin {"loop", "select", "wait", "data", "stop"}
          /\ pc \notin {"loop", "select"}
      BY <1>7, <2>5
    <3>2. ~foreign' /\ bus'.head = SelectByte(Current)'
      BY <1>3, <1>5, <1>7, <2>2, <3>1 DEF Promise
    <3>3. pc' = "command" /\ fired' => trouble'
      BY <1>7, <2>3
    <3>4. /\ op'.kind # "packet" /\ (op'.dma \/ op'.n = 1)
          /\ \A i \in 1 .. Len(blocks') : blocks'[i] = <<op'.unit, op'.lba + i - 1>>
      BY <1>3, <1>7 DEF Promise
    <3>. QED  BY <1>7, <2>2, <2>3, <3>1, <3>2, <3>3, <3>4 DEF Promise
  <2>. QED  BY <2>4, <2>5
<1>8. CASE NextSector
  BY <1>6, <1>7, <1>8 DEF NextSector, Goto
<1>9. CASE Select
  <2>. DEFINE state == IF op.dma THEN Prepared(bus) ELSE bus
  <2>1. /\ AtRest /\ (op.dma \/ ~fired) /\ (~foreign \/ cur_selected # SelectByte(Current))
    BY <1>3, <1>9 DEF Promise, Select
  <2>2. /\ state \in Buses /\ state.phase = "idle" /\ ~state.intrq /\ state.head = bus.head
    BY <1>2, <2>1, PreparedIs DEF AtRest
  <2>3. ata_select_drv(state) /\ UNCHANGED <<op, blocks, fired>>
    BY <1>9 DEF Select, opVars
  <2>4. pc' = "busy"
    BY <1>3, <1>9 DEF Select, Promise, GotoWait
  <2>5. bus'.phase = "idle" /\ ~bus'.intrq /\ bus'.head = SelectByte(Current) /\ ~foreign'
    <3>. HIDE DEF state
    <3>1. CASE SelectByte(Current) = cur_selected
      <4>1. cur_selected # NoSelect
        <5>1. SelectByte(Current) \in Heads
          BY ToldTyped
        <5>. QED  BY <3>1, <5>1 DEF Heads, NoSelect
      <4>2. bus.head = cur_selected
        BY <2>1, <3>1, <4>1 DEF AtRest, SelectionKnown
      <4>. QED  BY <2>1, <2>2, <2>3, <3>1, <4>2 DEF ata_select_drv
    <3>2. CASE SelectByte(Current) # cur_selected
      <4>1. bus' = [ReadStatus(state) EXCEPT !.head = SelectByte(Current)] /\ foreign' = FALSE
        BY <2>2, <2>3, <3>2 DEF ata_select_drv
      <4>. QED  BY <2>2, <4>1 DEF ReadStatus, Buses
    <3>. QED  BY <3>1, <3>2
  <2>6. /\ op'.kind # "packet" /\ (op'.dma \/ op'.n = 1)
        /\ \A i \in 1 .. Len(blocks') : blocks'[i] = <<op'.unit, op'.lba + i - 1>>
    BY <1>3, <2>3 DEF Promise
  <2>. QED  BY <1>5, <2>1, <2>3, <2>4, <2>5, <2>6 DEF Promise, AtRest
<1>10. CASE WaitBusy
  <2>1. AtRest /\ pc = "busy"
    BY <1>3, <1>10 DEF Promise, WaitBusy
  <2>2. AfterBusy(op) \in {"clear", "command"} /\ (AfterBusy(op) = "command" => ~op.dma)
    BY <1>3 DEF AfterBusy, ClearsFirst, Promise
  <2>3. ~DriveBusy
    BY <2>1 DEF DriveBusy, AtRest
  <2>. QED  BY <1>6, <1>7, <1>10, <2>1, <2>2, <2>3
            DEF WaitBusy, DriveNotBusy, BusyTooLong, Goto, opVars
<1>11. CASE Clear
  BY <1>7, <1>11 DEF Clear, Goto, opVars, ata_clear_interrupt_status
<1>12. CASE Command
  <2>1. /\ AtRest /\ ~foreign /\ bus.head = SelectByte(Current) /\ (op.dma \/ ~fired)
        /\ (fired => trouble)
    BY <1>3, <1>12 DEF Promise, Command
  <2>2. Count(op) = 1
    <3>1. ~op.dma => op.n = 1
      BY <1>3 DEF Promise
    <3>. QED  BY <1>2, <3>1, AtaAssumption DEF Count
  <2>3. Address(Current) = Current.lba
    BY <1>1, <1>3, <1>12, <2>1, AddressFound DEF Command, Promise
  <2>. DEFINE mine == [kind |-> op.kind, lba |-> Current.lba, left |-> 1, dma |-> op.dma]
              told == IF bus.phase = "idle" /\ attached[Selected].kind # NONE
                        THEN [bus EXCEPT !.phase = "busy", !.cmd = mine] ELSE bus
  <2>4. bus' = IF op.dma THEN [told EXCEPT !.master = "active"] ELSE told
    BY <1>12, <2>2, <2>3 DEF Command
  <2>5. /\ pc' = "wait" /\ UNCHANGED <<op, blocks, fired, foreign, trouble>>
    BY <1>12 DEF Command, GotoWait, opVars
  <2>6. /\ bus'.head = bus.head /\ ~bus'.intrq
        /\ bus'.phase = "idle" \/ (bus'.phase = "busy" /\ bus'.cmd = mine)
        /\ op.dma => bus'.master = "active"
    <3>. HIDE DEF mine
    <3>1. /\ told.head = bus.head /\ ~told.intrq
          /\ told.phase = "idle" \/ (told.phase = "busy" /\ told.cmd = mine)
          /\ told = bus \/ told = [bus EXCEPT !.phase = "busy", !.cmd = mine]
      BY <1>2, <2>1 DEF AtRest, Buses
    <3>2. [told EXCEPT !.master = "active"].master = "active"
      BY <1>2, <3>1 DEF Buses
    <3>3. /\ [told EXCEPT !.master = "active"].head = told.head
          /\ [told EXCEPT !.master = "active"].intrq = told.intrq
          /\ [told EXCEPT !.master = "active"].phase = told.phase
          /\ [told EXCEPT !.master = "active"].cmd = told.cmd
      OBVIOUS
    <3>. QED  BY <2>4, <3>1, <3>2, <3>3
  <2>7. bus'.phase = "busy" => Ours'
    BY <1>5, <2>5, <2>6 DEF Ours
  <2>8. op.dma => DmaHonest'
    BY <1>3, <2>1, <2>5, <2>6, <2>7 DEF DmaHonest
  <2>9. ~op.dma => PioHonest'
    BY <2>1, <2>5, <2>6, <2>7 DEF PioHonest
  <2>10. /\ op'.kind # "packet" /\ (op'.dma \/ op'.n = 1)
         /\ \A i \in 1 .. Len(blocks') : blocks'[i] = <<op'.unit, op'.lba + i - 1>>
    BY <1>3, <2>5 DEF Promise
  <2>. QED  BY <1>5, <2>1, <2>5, <2>6, <2>8, <2>9, <2>10 DEF Promise
<1>13. CASE Wait
  <2>1. pc = "wait" /\ UNCHANGED <<op, blocks, foreign, cur_selected>>
    BY <1>13, <1>6 DEF Wait, NoInterrupt, opVars
  <2>2. ASSUME UNCHANGED <<bus, fired, trouble>>, pc' = "wait" \/ (pc' = "stop" /\ op.dma /\ fired)
                 \/ (pc' = "data" /\ ~op.dma /\ fired)
        PROVE  Promise'
    <3>1. ~op.dma => PioHonest'
      BY <1>3, <1>5, <2>1, <2>2 DEF Promise, PioHonest, Ours
    <3>2. op.dma => DmaHonest'
      BY <1>3, <1>5, <2>1, <2>2 DEF Promise, DmaHonest, Ours
    <3>. QED  BY <1>3, <1>5, <2>1, <2>2, <3>1, <3>2 DEF Promise
  <2>3. ASSUME NoInterrupt PROVE Promise'
    BY <2>1, <2>2, <2>3, PicStill DEF NoInterrupt, opVars
  <2>. QED  BY <1>6, <1>13, <2>2, <2>3 DEF Wait, Goto, opVars
<1>14. CASE Data
  <2>1. op.left = 1
    <3>1. op.n = 1 /\ op.left > 0 /\ Len(blocks) + op.left = op.n
      BY <1>1, <1>3, <1>14 DEF Data, Counted, Promise, Moving
    <3>. QED  BY <1>2, <3>1
  <2>. QED  BY <1>6, <1>14, <2>1 DEF Data
<1>15. CASE Stop
  <2>1. /\ bus.master = "done" /\ pc' = "loop" /\ pc = "stop"
        /\ blocks' = Append(blocks, bus.took) /\ op' = [op EXCEPT !.left = @ - 1]
        /\ bus' = Prepared(ReadStatus(bus)) /\ UNCHANGED <<fired, foreign, trouble>>
    BY <1>6, <1>15 DEF Stop, Goto
  <2>2. op.dma /\ DmaHonest /\ ~foreign
    BY <1>3, <2>1 DEF Promise, Counted
  <2>3. bus'.phase = "idle" /\ ~bus'.intrq
    BY <1>2, <2>1, <2>2 DEF DmaHonest, Prepared, ReadStatus, Buses
  <2>4. bus.took = <<op.unit, Current.lba>>
    BY <2>1, <2>2 DEF DmaHonest
  <2>5. /\ op'.kind = op.kind /\ op'.dma = op.dma /\ op'.unit = op.unit /\ op'.lba = op.lba
        /\ op'.n = op.n
    BY <1>2, <2>1 DEF Operations
  <2>6. Current.lba = op.lba + (Len(blocks) + 1) - 1
    <3>1. Len(blocks) + op.left = op.n
      BY <1>1 DEF Counted
    <3>. QED  BY <1>2, <3>1, CurrentIs
  <2>7. \A i \in 1 .. Len(blocks') : blocks'[i] = <<op'.unit, op'.lba + i - 1>>
    <3>1. bus.took \in Blocks
      BY <1>2 DEF Buses
    <3>2. /\ Len(blocks') = Len(blocks) + 1
          /\ \A i \in 1 .. Len(blocks) : blocks'[i] = blocks[i]
          /\ blocks'[Len(blocks) + 1] = bus.took
      BY <1>2, <2>1, <3>1, AppendProperties
    <3>3. ASSUME NEW i \in 1 .. Len(blocks') PROVE blocks'[i] = <<op'.unit, op'.lba + i - 1>>
      <4>1. CASE i = Len(blocks) + 1
        BY <2>4, <2>5, <2>6, <3>2, <4>1
      <4>2. CASE i \in 1 .. Len(blocks)
        BY <1>3, <2>5, <3>2, <4>2 DEF Promise
      <4>. QED  BY <1>2, <3>2, <3>3, <4>1, <4>2
    <3>. QED  BY <3>3
  <2>8. op'.kind # "packet" /\ op'.dma
    BY <1>3, <2>2, <2>5 DEF Promise
  <2>. QED  BY <2>1, <2>2, <2>3, <2>7, <2>8 DEF Promise, AtRest
<1>. QED  BY <1>8, <1>9, <1>10, <1>11, <1>12, <1>13, <1>14, <1>15 DEF Transfer

\* A request that begins with no excuse finds its bus at rest.
LEMMA BeginHonest ==
  ASSUME Typed, NEW o \in Operations, NEW label \in {"loop", "select", "busy"}, Begin(o, label),
         o.left = o.n, label = "busy" => o.kind = "packet", ~o.dma => o.n > 0,
         UNCHANGED <<cur_selected, fired, bus, foreign>>,
         UNCHANGED bootVars \/ o.kind \in Identify,
         ~excused'
  PROVE  Promise'
<1>1. op' = o /\ blocks' = <<>> /\ pc' = label /\ ~Excuses(o)
  BY DEF Begin, GotoWait
<1>2. o.lba \in Int /\ o.n \in Nat
  BY AtaAssumption DEF Operations, ID
<1>3. Current' = o
  <2>1. o.lba + o.n - o.left = o.lba
    BY <1>2
  <2>. QED  BY <1>1, <2>1 DEF Current, Operations
<1>4. SelectByte(Current)' = SelectByte(o)
  <2>1. CASE o.kind \in Identify
    BY <1>3, <2>1 DEF SelectByte
  <2>2. CASE UNCHANGED bootVars
    BY <1>3, <2>2 DEF SelectByte, Can, Chs, bootVars
  <2>. QED  BY <2>1, <2>2
<1>5. /\ AtRest' /\ (~foreign' \/ cur_selected' # SelectByte(o))
      /\ (o.dma \/ ~fired') /\ o.kind # "packet"
  BY <1>1 DEF Excuses, AtRest
<1>6. o.dma \/ o.n = 1
  BY <1>1, <1>2 DEF Excuses
<1>7. Len(blocks') = 0
  BY <1>1
<1>. QED  BY <1>1, <1>4, <1>5, <1>6, <1>7 DEF Promise

LEMMA HonestNext ==
  ASSUME Typed, Controlled, Counted, SelectionKnown, Honest, [AtaNext]_ataVars
  PROVE  Honest'
<1>. SUFFICES ASSUME pc' \in Moving, ~excused' PROVE Promise'
  BY DEF Honest
<1>1. CASE UNCHANGED ataVars
  <2>1. Promise
    BY <1>1 DEF Honest, ataVars, driverVars
  <2>2. Current' = Current /\ SelectByte(Current)' = SelectByte(Current)
    BY <1>1, SelectByteKept DEF ataVars, driverVars
  <2>. QED  BY <1>1, <2>1, <2>2 DEF Promise, AtRest, PioHonest, DmaHonest, Ours, ataVars,
            driverVars
<1>2. CASE External
  BY <1>2, ExternalHonest
<1>3. CASE OtherBus
  BY <1>3 DEF OtherBus, Moving
<1>4. CASE Transfer
  BY <1>4, TransferHonest
<1>5. CASE ata_init
  BY <1>5 DEF ata_init, Goto, Moving
<1>6. \A kind, c, lba, n, dma :
         LET o == Request(kind, c, lba, n, dma)
         IN  o.kind = kind /\ o.n = n /\ o.left = n /\ o.dma = dma
  BY DEF Request
<1>7. CASE ata_init_device
  <2>1. /\ booting \in Channels /\ pc \notin Moving
        /\ UNCHANGED <<cur_selected, fired, foreign>>
    BY <1>7, BootIs DEF Moving
  <2>2. ASSUME NEW found, Probed(found) PROVE FALSE
    BY <2>2 DEF Probed, Goto, Moving
  <2>3. ~DriveBusy
    BY <2>1 DEF DriveBusy
  <2>4. ~GotoWait("reset") /\ ~Goto("signature")
    BY DEF Goto, GotoWait, Moving
  <2>5. PICK kind \in Identify : /\ Begin(Request(kind, booting, ID, 1, FALSE), "select")
                                /\ UNCHANGED <<booting, bus>>
    BY <1>7, <2>2, <2>3, <2>4, BootIs
  <2>. DEFINE o == Request(kind, booting, ID, 1, FALSE)
  <2>6. /\ o \in Operations /\ o.kind = kind /\ o.n = 1 /\ o.left = 1 /\ Begin(o, "select")
    BY <2>1, <2>5, RequestTyped DEF Request
  <2>. HIDE DEF o
  <2>. QED  BY <2>1, <2>5, <2>6, BeginHonest
<1>8. CASE Requests
  <2>1. /\ pc \notin Moving
        /\ UNCHANGED <<bootVars, cur_selected, fired, bus, foreign>>
    BY <1>8, RequestsAre DEF Moving
  <2>2. ~Refuse
    BY <2>1 DEF Refuse
  <2>3. ASSUME NEW o \in Operations, NEW label \in {"loop", "select", "busy"}, Begin(o, label),
               o.left = o.n, label = "busy" => o.kind = "packet", ~o.dma => o.n > 0
        PROVE  Promise'
    BY <2>1, <2>3, BeginHonest
  <2>4. ASSUME NEW kind \in {"read", "write"}, NEW c \in Channels,
               NEW lba \in 0 .. MaxSectors - 1, NEW n \in 0 .. EXT_MAX, NEW dma \in BOOLEAN,
               NEW label \in {"loop", "select"}, Begin(Request(kind, c, lba, n, dma), label),
               dma \/ n > 0
        PROVE  Promise'
    <3>1. lba \in 0 .. MaxSectors
      BY AtaAssumption
    <3>. DEFINE o == Request(kind, c, lba, n, dma)
    <3>2. o \in Operations /\ o.n = n /\ o.left = n /\ o.dma = dma /\ Begin(o, label)
      BY <1>6, <2>4, <3>1, RequestTyped
    <3>. HIDE DEF o
    <3>. QED  BY <2>3, <2>4, <3>2
  <2>5. ASSUME NEW c \in Channels, Begin(Request("packet", c, ID, 2, FALSE), "busy")
        PROVE  Promise'
    <3>. DEFINE o == Request("packet", c, ID, 2, FALSE)
    <3>1. o \in Operations /\ o.n = 2 /\ o.left = 2 /\ o.kind = "packet" /\ Begin(o, "busy")
      BY <2>5, RequestTyped DEF Request
    <3>. HIDE DEF o
    <3>. QED  BY <2>3, <3>1
  <2>6. \A n \in 1 .. EXT_MAX : n \in 0 .. EXT_MAX /\ n > 0
    BY AtaAssumption
  <2>. QED  BY <1>8, <2>2, <2>4, <2>5, <2>6, RequestsAre
<1>. QED  BY <1>1, <1>2, <1>3, <1>4, <1>5, <1>7, <1>8 DEF AtaNext, Driver

-----------------------------------------------------------------------------
(* The theorems.                                                           *)

\* A request that succeeded leaves its bus as a promise has it: at the end of
\* the loop, or behind the one sector it read by PIO.
LEMMA RestNext ==
  ASSUME Typed, Controlled, Counted, Honest, ReadLeavesRest, [AtaNext]_ataVars
  PROVE  ReadLeavesRest'
<1>. SUFFICES ASSUME pc' = "idle", answer' = "true", op'.kind = "read", ~excused'
              PROVE  AtRest'
  BY DEF ReadLeavesRest
<1>1. bus \in Buses /\ op \in Operations /\ excused \in BOOLEAN
  BY DEF Typed
<1>2. ASSUME UNCHANGED <<pc, answer, op>>, ~excused, AtRest => AtRest' PROVE AtRest'
  BY <1>2 DEF ReadLeavesRest
<1>3. CASE UNCHANGED ataVars
  BY <1>2, <1>3 DEF ataVars, driverVars, AtRest
<1>4. CASE External
  <2>1. UNCHANGED <<pc, answer, op>>
    BY <1>4, PicStill DEF External, Interrupt, driverVars, opVars
  <2>2. answer # PENDING
    BY <2>1
  <2>3. ~excused
    BY <1>4, <2>2, PicStill DEF External, DriveReady, DriveWritten, DriveDma, DriveFails,
         DriveReset, Interrupt, opVars
  <2>4. AtRest => AtRest'
    <3>. SUFFICES ASSUME AtRest PROVE AtRest'
      OBVIOUS
    <3>1. CASE SpuriousInterrupt
      <4>1. \E b : bus' = [bus EXCEPT !.intrq = bus.intrq /\ b]
        <5>1. PICK told \in BOOLEAN : bus' = [bus EXCEPT !.intrq = @ /\ ~told]
          BY <3>1, PicStill
        <5>. QED  BY <5>1
      <4>. QED  BY <1>1, <4>1 DEF AtRest, Buses
    <3>2. CASE ~SpuriousInterrupt
      BY <1>4, <3>2 DEF External, DriveReady, DriveWritten, DriveDma, DriveFails, DriveReset,
           Working, Interrupt, AtRest
    <3>. QED  BY <3>1, <3>2
  <2>. QED  BY <1>2, <2>1, <2>3, <2>4
<1>5. CASE OtherBus
  BY <1>2, <1>5 DEF OtherBus, opVars, AtRest
<1>6. ASSUME pc' = pc PROVE pc = "idle" /\ pc \notin Moving
  BY <1>6 DEF Moving
<1>7. CASE Transfer
  <2>1. pc \in Moving
    BY <1>7 DEF Transfer, NextSector, Select, WaitBusy, Clear, Command, Wait, Data, Stop, Moving
  <2>2. CASE NextSector
    <3>1. Promise /\ pc = "loop" /\ bus' = bus
      BY <2>1, <2>2 DEF NextSector, Honest
    <3>. QED  BY <3>1 DEF Promise, AtRest
  <2>3. CASE Data
    <3>1. Promise /\ pc = "data" /\ ~op.dma /\ op.n = 1 /\ op.left = 1
      <4>1. Promise /\ pc = "data"
        BY <2>1, <2>3 DEF Data, Honest
      <4>2. /\ Len(blocks) \in Nat /\ op.left \in Nat /\ op.left > 0 /\ ~op.dma
            /\ Len(blocks) + op.left = op.n
        BY <4>1, LenProperties, AtaAssumption
           DEF Typed, Operations, Counted, Controlled, Moving
      <4>3. op.n = 1
        BY <4>1, <4>2 DEF Promise
      <4>. QED  BY <4>1, <4>2, <4>3
    <3>2. bus.phase = "data" /\ ~bus.intrq /\ Ours
      BY <3>1 DEF Promise, PioHonest
    <3>3. op.kind = "read"
      BY <1>1, <2>3 DEF Data, Operations
    <3>4. bus' = [bus EXCEPT !.phase = "idle", !.cmd = NoCommand]
      <4>1. bus.cmd.kind = "read" /\ bus.cmd.left = 1
        BY <3>2, <3>3 DEF Ours
      <4>. QED  BY <2>3, <3>2, <3>3, <4>1 DEF Data
    <3>. QED  BY <1>1, <3>2, <3>4 DEF AtRest, Buses
  <2>4. CASE Select \/ WaitBusy \/ Clear \/ Command \/ Wait \/ Stop
    <3>1. answer' # "true"
      <4>1. answer = PENDING
        BY <2>1 DEF Controlled
      <4>. QED  BY <2>4, <4>1 DEF Select, WaitBusy, DriveBusy, Clear, Command, Wait,
                NoInterrupt, Stop, Return, opVars
    <3>. QED  BY <3>1
  <2>. QED  BY <1>7, <2>2, <2>3, <2>4 DEF Transfer
<1>8. CASE ata_init
  BY <1>8 DEF ata_init, Goto
<1>9. CASE ata_init_device
  <2>1. booting \in Channels /\ pc # "idle"
    BY <1>9, BootIs
  <2>2. UNCHANGED opVars
    <3>1. ~GotoWait("reset") /\ ~Goto("signature") /\ \A o : ~Begin(o, "select")
      BY DEF Goto, GotoWait, Begin
    <3>2. ~DriveBusy
      BY <2>1 DEF DriveBusy
    <3>. QED  BY <1>9, <3>1, <3>2, BootIs
  <2>3. op.kind \in Identify
    BY <2>1, <2>2 DEF Controlled, opVars
  <2>. QED  BY <2>2, <2>3 DEF opVars, Identify
<1>10. CASE Requests
  BY <1>10, RequestsAre DEF Refuse, Begin, GotoWait
<1>. QED  BY <1>3, <1>4, <1>5, <1>7, <1>8, <1>9, <1>10 DEF AtaNext, Driver

THEOREM AtaInvariant == AtaSpec => []AtaInv
<1>1. AtaInit => AtaInv
  <2>. SUFFICES ASSUME AtaInit PROVE AtaInv
    OBVIOUS
  <2>1. pc = "off" /\ pc \notin Moving /\ answer = NONE
    BY DEF AtaInit, Moving
  <2>2. Controlled
    BY <2>1 DEF AtaInit, Controlled, Channels
  <2>3. Counted
    <3>1. Len(blocks) = 0
      BY DEF AtaInit
    <3>. QED  BY <2>1, <3>1
              DEF AtaInit, Counted, DataLeft, NoOp, RestingBus, Identify, Moving
  <2>4. SelectionKnown
    BY DEF AtaInit, SelectionKnown, RestingBus
  <2>. QED  BY <2>1, <2>2, <2>3, <2>4, TypedInit DEF AtaInv, Honest, ReadLeavesRest
<1>2. AtaInv /\ [AtaNext]_ataVars => AtaInv'
  BY TypedNext, ControlledNext, CountedNext, SelectionNext, HonestNext, RestNext DEF AtaInv
<1>. QED  BY <1>1, <1>2, PTL DEF AtaSpec

\* The registers, the counts and the controllers keep their ranges.
THEOREM AtaTypeCorrect == AtaSpec => []AtaTypeOK
<1>1. AtaInv => AtaTypeOK
  <2>. SUFFICES ASSUME AtaInv PROVE AtaTypeOK
    OBVIOUS
  <2>1. Typed /\ Counted
    BY DEF AtaInv
  <2>2. /\ booting \in 0 .. 2 /\ tries \in 0 .. WAIT /\ fired \in BOOLEAN
        /\ blocks \in Seq(Blocks) /\ answer \in {NONE, PENDING, "true", "false", "refused"}
        /\ op \in Operations /\ bus \in Buses
    BY <2>1 DEF Typed, Answers
  <2>3. /\ op.left \in 0 .. EXT_MAX /\ bus.cmd.left \in 0 .. EXT_MAX
        /\ bus.took \in Blocks /\ bus.pic = pic_remap /\ op.n \in 0 .. EXT_MAX
    BY <2>2 DEF Operations, Buses, Commands
  <2>4. Len(blocks) <= EXT_MAX
    <3>1. Len(blocks) \in Nat /\ Len(blocks) + op.left <= op.n
      BY <2>1, <2>2, LenProperties DEF Counted
    <3>. QED  BY <2>3, <3>1, AtaAssumption
  <2>. QED  BY <2>2, <2>3, <2>4 DEF AtaTypeOK
<1>. QED  BY <1>1, AtaInvariant, PTL

\* After a read that succeeded, and that began in none of the states that
\* Excuses names, no drive is at work and no interrupt outstanding.
THEOREM ReadLeavesRestInvariant == AtaSpec => []ReadLeavesRest
BY AtaInvariant, PTL DEF AtaInv

-----------------------------------------------------------------------------
(* The driver implements BlockDevice.                                      *)

\* The request as BlockDevice sees it.
Asked(o) == [unit |-> o.unit, lba |-> o.lba, n |-> o.n]

\* What a request that got through has moved is what it was for.
LEMMA AllMoved ==
  ASSUME Typed, Promise, Len(blocks) = op.n
  PROVE  blocks = Device!Sectors(Asked(op))
<1>1. op.n \in Nat /\ blocks \in Seq(Blocks)
  BY AtaAssumption DEF Typed, Operations
<1>2. blocks = [i \in 1 .. Len(blocks) |-> blocks[i]]
  BY <1>1
<1>3. \A i \in 1 .. Len(blocks) : blocks[i] = <<op.unit, op.lba + i - 1>>
  BY DEF Promise
<1>4. Device!Sectors(Asked(op)) = [i \in 1 .. op.n |-> <<op.unit, op.lba + i - 1>>]
  BY DEF Device!Sectors, Asked
<1>. QED  BY <1>2, <1>3, <1>4

LEMMA AskedTyped ==
  ASSUME NEW o \in Operations
  PROVE  Asked(o) \in [unit : Channels, lba : ID .. MaxSectors, n : 0 .. EXT_MAX]
BY DEF Operations, Asked

LEMMA DeviceStep ==
  ASSUME Typed, Typed', Controlled, Counted, Honest, [AtaNext]_ataVars
  PROVE  [Device!Next]_Device!vars
<1>1. /\ op \in Operations /\ op' \in Operations
      /\ trouble \in BOOLEAN /\ excused \in BOOLEAN /\ trouble' \in BOOLEAN /\ excused' \in BOOLEAN
  BY DEF Typed
<1>2. ASSUME UNCHANGED <<answer, trouble, excused>>, Asked(op)' = Asked(op),
             answer = "true" => blocks' = blocks
      PROVE  UNCHANGED Device!vars
  BY <1>2 DEF Device!vars, Asked
<1>3. ASSUME answer = PENDING, UNCHANGED <<op, answer>>, trouble', excused => excused'
      PROVE  Device!Trouble
  BY <1>1, <1>3 DEF Device!Trouble, Device!Pending
<1>4. ASSUME answer # PENDING, NEW o, NEW label, Begin(o, label)
      PROVE  Device!Ask
  <2>1. op' = o /\ answer' = PENDING /\ trouble' = FALSE
    BY <1>4 DEF Begin
  <2>2. Asked(op') \in [unit : Channels, lba : ID .. MaxSectors, n : 0 .. EXT_MAX]
    BY <1>1, AskedTyped
  <2>. QED  BY <1>1, <1>4, <2>1, <2>2 DEF Device!Ask, Device!Pending, Asked
<1>5. ASSUME answer # PENDING, Refuse
      PROVE  Device!Refuse
  <2>1. Asked(op') \in [unit : Channels, lba : ID .. MaxSectors, n : 0 .. EXT_MAX]
    BY <1>1, AskedTyped
  <2>. QED  BY <1>1, <1>5, <2>1 DEF Device!Refuse, Device!Pending, Refuse, Asked
<1>6. ASSUME answer = PENDING, Return("true"), Asked(op)' = Asked(op),
             UNCHANGED <<trouble, excused>>, excused \/ blocks' = Device!Sectors(Asked(op))
      PROVE  Device!Succeed
  <2>1. answer' = "true"
    BY <1>6 DEF Return
  <2>. QED  BY <1>6, <2>1 DEF Device!Succeed, Device!Pending, Asked
<1>7. ASSUME answer = PENDING, Return("false"), UNCHANGED <<op, excused>>,
             trouble' \/ excused, trouble => trouble'
      PROVE  Device!Fail
  <2>1. answer' = "false"
    BY <1>7 DEF Return
  <2>. QED  BY <1>7, <2>1 DEF Device!Fail, Device!Pending
<1>8. CASE UNCHANGED ataVars
  BY <1>2, <1>8 DEF ataVars, driverVars, Asked
<1>9. CASE External
  <2>1. UNCHANGED <<answer, op, blocks>>
    BY <1>9, PicStill DEF External, Interrupt, driverVars, opVars
  <2>2. \/ UNCHANGED <<trouble, excused>>
        \/ answer = PENDING /\ trouble' /\ (excused => excused')
    <3>1. CASE DriveFails
      BY <1>1, <3>1 DEF DriveFails
    <3>2. CASE SpuriousInterrupt
      <4>1. PICK told \in BOOLEAN :
              /\ trouble' = (trouble \/ (told /\ answer = PENDING))
              /\ excused' = (excused \/ (told /\ answer = PENDING /\ ~op.dma))
        BY <3>2, PicStill
      <4>. QED  BY <1>1, <4>1
    <3>. QED  BY <1>9, <3>1, <3>2 DEF External, DriveReady, DriveWritten, DriveDma, DriveReset,
              Interrupt, opVars
  <2>. QED  BY <1>2, <1>3, <2>1, <2>2 DEF Asked, Device!Next
<1>10. CASE OtherBus
  BY <1>2, <1>10 DEF OtherBus, opVars, Asked
<1>11. CASE Transfer
  <2>1. pc \in Moving /\ answer = PENDING
    <3>1. pc \in Moving
      BY <1>11 DEF Transfer, NextSector, Select, WaitBusy, Clear, Command, Wait, Data, Stop, Moving
    <3>. QED  BY <3>1 DEF Controlled
  <2>2. /\ Len(blocks) \in Nat /\ op.left \in Nat /\ op.n \in Nat /\ blocks \in Seq(Blocks)
        /\ Len(blocks) + op.left = op.n
    BY <2>1, LenProperties, AtaAssumption DEF Typed, Operations, Counted
  <2>3. excused \/ Promise
    BY <2>1 DEF Honest
  <2>4. ASSUME UNCHANGED <<op, answer, trouble, excused>>
        PROVE  UNCHANGED Device!vars
    BY <1>2, <2>1, <2>4 DEF Asked
  <2>5. CASE NextSector
    <3>1. CASE op.left = 0
      BY <1>6, <2>1, <2>2, <2>3, <2>5, <3>1, AllMoved DEF NextSector, Asked, Device!Next
    <3>2. CASE op.left # 0
      BY <2>4, <2>5, <3>2 DEF NextSector
    <3>. QED  BY <3>1, <3>2
  <2>6. CASE Select \/ Clear \/ Command
    BY <2>4, <2>6 DEF Select, Clear, Command, opVars
  <2>7. CASE WaitBusy
    <3>1. ASSUME DriveBusy PROVE UNCHANGED Device!vars
      BY <2>4, <3>1 DEF DriveBusy, opVars
    <3>2. ASSUME trouble' = TRUE, UNCHANGED <<op, excused>>,
                 Return("false") \/ UNCHANGED answer
          PROVE  Device!Next
      BY <1>3, <1>7, <2>1, <3>2 DEF Device!Next
    <3>. QED  BY <2>4, <2>7, <3>1, <3>2 DEF WaitBusy, opVars
  <2>8. CASE Wait
    <3>1. ASSUME NoInterrupt PROVE UNCHANGED Device!vars
      BY <2>4, <3>1 DEF NoInterrupt, opVars
    <3>. QED  BY <1>7, <2>1, <2>4, <2>8, <3>1 DEF Wait, Device!Next, opVars
  <2>9. Asked([op EXCEPT !.left = @ - 1]) = Asked(op)
    BY <1>1 DEF Asked, Operations
  <2>10. CASE Data
    <3>1. Asked(op)' = Asked(op) /\ UNCHANGED <<trouble, excused>>
      BY <2>9, <2>10 DEF Data, Asked
    <3>2. CASE op.left > 1
      BY <1>2, <2>1, <2>10, <3>1, <3>2 DEF Data
    <3>3. CASE ~(op.left > 1)
      <4>1. op.left = 1
        BY <2>1, <2>2, <2>10, <3>3 DEF Data, Counted, Moving
      <4>2. CASE excused
        BY <1>6, <2>1, <2>10, <3>1, <3>3, <4>2 DEF Data, Device!Next
      <4>3. CASE ~excused
        <5>1. Promise /\ pc = "data" /\ ~op.dma /\ op.n = 1
          BY <2>3, <2>10, <4>3 DEF Data, Promise, Counted
        <5>2. bus.phase = "data" /\ Ours /\ bus.head = SelectByte(Current)
          BY <5>1 DEF Promise, PioHonest
        <5>3. Len(blocks) = 0 /\ Current.lba = op.lba
          <6>1. Len(blocks) = 0
            BY <2>2, <4>1, <5>1
          <6>2. op.left = op.n /\ op.lba \in Int
            BY <4>1, <5>1, AtaAssumption DEF Typed, Operations, ID
          <6>. QED  BY <6>1, <6>2, CurrentIs
        <5>4. blocks' = Append(blocks, <<op.unit, op.lba>>)
          <6>1. bus.cmd.kind = op.kind /\ bus.cmd.lba = op.lba
            BY <5>2, <5>3 DEF Ours
          <6>2. Selected = op.unit
            BY <5>2, SelectedUnit
          <6>3. bus.phase = "data" /\ (bus.cmd.kind = "write") = (op.kind = "write")
            BY <5>2, <6>1
          <6>. QED  BY <2>10, <6>1, <6>2, <6>3 DEF Data
        <5>5. blocks' = Device!Sectors(Asked(op))
          <6>1. blocks = <<>>
            BY <2>2, <5>3, EmptySeq
          <6>2. blocks' = <<<<op.unit, op.lba>>>>
            BY <5>4, <6>1
          <6>3. Device!Sectors(Asked(op)) = [i \in 1 .. 1 |-> <<op.unit, op.lba + i - 1>>]
            BY <5>1 DEF Device!Sectors, Asked
          <6>4. op.lba \in Int
            BY AtaAssumption DEF Typed, Operations, ID
          <6>5. \A i \in 1 .. 1 : <<op.unit, op.lba + i - 1>> = <<op.unit, op.lba>>
            BY <6>4
          <6>. QED  BY <6>2, <6>3, <6>5
        <5>. QED  BY <1>6, <2>1, <2>10, <3>1, <3>3, <5>5 DEF Data, Device!Next
      <4>. QED  BY <4>2, <4>3
    <3>. QED  BY <3>2, <3>3
  <2>11. CASE Stop
    <3>1. CASE bus.master = "done"
      <4>1. Asked(op)' = Asked(op) /\ UNCHANGED <<answer, trouble, excused>>
        BY <2>9, <2>11, <3>1 DEF Stop, Asked
      <4>. QED  BY <1>2, <2>1, <4>1
    <3>2. CASE bus.master # "done"
      <4>1. excused \/ trouble
        <5>1. Promise => DmaHonest
          BY <2>11 DEF Promise, Stop, Counted
        <5>. QED  BY <2>3, <2>11, <3>2, <5>1 DEF DmaHonest, Stop
      <4>. QED  BY <1>7, <2>1, <2>11, <3>2, <4>1 DEF Stop, Device!Next
    <3>. QED  BY <3>1, <3>2
  <2>. QED  BY <1>11, <2>5, <2>6, <2>7, <2>8, <2>10, <2>11 DEF Transfer
<1>12. CASE ata_init
  BY <1>2, <1>12 DEF ata_init, opVars, Asked
<1>13. CASE ata_init_device
  <2>1. answer # PENDING
    BY <1>13, BootIs DEF Controlled, Moving
  <2>2. UNCHANGED opVars \/ \E o : Begin(o, "select")
    BY <1>13, BootIs DEF DriveBusy
  <2>. QED  BY <1>2, <1>4, <2>1, <2>2 DEF opVars, Asked, Device!Next
<1>14. CASE Requests
  <2>1. answer # PENDING
    BY <1>14, RequestsAre DEF Controlled, Moving
  <2>2. Refuse \/ \E o, label : Begin(o, label)
    BY <1>14, RequestsAre
  <2>. QED  BY <1>4, <1>5, <2>1, <2>2 DEF Device!Next
<1>. QED  BY <1>8, <1>9, <1>10, <1>11, <1>12, <1>13, <1>14 DEF AtaNext, Driver

\* Whatever the drives and the other bus do: a request that began in none of
\* the states that Excuses names is told true only if the sectors it is for
\* have moved, in order, and false only for a reason.
THEOREM RefinesBlockDevice == AtaSpec => ImplementsBlockDevice
<1>1. AtaInit => Device!Init
  <2>. SUFFICES ASSUME AtaInit PROVE Device!Init
    OBVIOUS
  <2>1. op \in Operations
    BY TypedInit DEF Typed
  <2>2. Asked(op) \in [unit : Channels, lba : ID .. MaxSectors, n : 0 .. EXT_MAX]
    BY <2>1, AskedTyped
  <2>. QED  BY <2>2 DEF AtaInit, Device!Init, Device!NoAnswer, Asked
<1>2. AtaInv /\ AtaInv' /\ [AtaNext]_ataVars => [Device!Next]_Device!vars
  BY DeviceStep DEF AtaInv
<1>. QED  BY <1>1, <1>2, AtaInvariant, PTL DEF AtaSpec, ImplementsBlockDevice, Device!Spec
=============================================================================
