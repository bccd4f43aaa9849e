---------------------------------- MODULE Pic ----------------------------------
(***************************************************************************)
(* The two interrupt controllers and the handlers of their lines           *)
(* (arch/x86/isr.c, drivers/pic.c).  A handler runs with interrupts off    *)
(* from the gate to the iret, and irq_handler tells the controllers the    *)
(* end behind it: for the modules that use this one that is one step.  The *)
(* timer's handler turns interrupts on where it reads the clock            *)
(* (drivers/rtc.c); its line is still in service then, and Delivers lets   *)
(* no other through.  init_apic is commented out.                          *)
(***************************************************************************)
EXTENDS Integers

Sets == INSTANCE FiniteSetsExt

Lines == 0 .. 15    \* 0 to 7 on the master, 8 to 15 on the slave
CASCADE == 2        \* the master's line that the slave is on
Spurious == {7, 15} \* the lines a controller names for one that has fallen
NoHandler == "none"

\* The handlers that irq_install and the inits it calls register.
irq_install ==
    [line \in Lines |->
        CASE line = 0 -> "irq0_callback"
          [] line = 1 -> "kbd_irq"
          [] line = 3 -> "com2_4_irq"
          [] line = 4 -> "com1_3_irq"
          [] line = 8 -> "irq8_callback"
          [] OTHER -> NoHandler]

register_interrupt_handler(handlers, line, handler) == [handlers EXCEPT ![line] = handler]

-----------------------------------------------------------------------------
(* The controllers: the lines in service of each, fully nested.            *)

\* After pic_remap no line is masked and none in service.
pic_remap == [master |-> {}, slave |-> {}]

\* A line is delivered while none of its own or a higher priority is in service.
Delivers(pic, line) ==
    IF line < 8 THEN \A m \in pic.master : line < m
    ELSE /\ \A m \in pic.master : CASCADE < m
         /\ \A s \in pic.slave : line - 8 < s

Acknowledged(pic, line) ==
    IF line < 8 THEN [pic EXCEPT !.master = @ \union {line}]
    ELSE [master |-> pic.master \union {CASCADE}, slave |-> pic.slave \union {line - 8}]

\* No line is in service for a spurious one, but the cascade for the slave's.
AcknowledgedSpurious(pic, line) ==
    IF line < 8 THEN pic ELSE [pic EXCEPT !.master = @ \union {CASCADE}]

\* PIC_EOI ends the line of the highest priority.
Ended(lines) == IF lines = {} THEN {} ELSE lines \ {Sets!Min(lines)}

\* Fault: a spurious interrupt of the slave is told to nobody.
pic_send_eoiNot(pic) ==
    CASE pic.slave = {} /\ CASCADE \in pic.master -> pic
      [] pic.slave # {} /\ CASCADE \in pic.master ->
             [master |-> Ended(pic.master), slave |-> Ended(pic.slave)]
      [] OTHER -> [pic EXCEPT !.master = Ended(@)]

\* The slave is told only what is in service there, the master too when the
\* slave's was spurious, and nobody when nothing is in service.
pic_send_eoi(pic) ==
    CASE pic = pic_remap -> pic
      [] CASCADE \in pic.master /\ pic.slave = {} -> [pic EXCEPT !.master = Ended(@)]
      [] CASCADE \in pic.master /\ pic.slave # {} ->
             [master |-> Ended(pic.master), slave |-> Ended(pic.slave)]
      [] OTHER -> [pic EXCEPT !.master = Ended(@)]

\* The controllers behind the interrupt of a line, and a spurious one: the
\* handler of the line has run in both, for it is told afterwards.
irq_handler(pic, line) == pic_send_eoi(Acknowledged(pic, line))
irq_handler_spurious(pic, line) == pic_send_eoi(AcknowledgedSpurious(pic, line))
=============================================================================
