----------------------------- MODULE RoundRobin -----------------------------
(***************************************************************************)
(* What the scheduler of src/kernel/multitasking promises, without its     *)
(* task table: the processor moves only when the timer takes it away, and  *)
(* then it goes to the first ready task after the current one, counting    *)
(* slots cyclically (doc.txt: "Runs Tasks in from 0 to the 256 ... then 0  *)
(* again").  Which tasks are ready changes only while the processor stays  *)
(* where it is.                                                            *)
(***************************************************************************)
EXTENDS Integers

CONSTANT MAX_TASKS  \* how many tasks there may be, two or more

VARIABLES ready,   \* the tasks that may be given the processor
          current  \* the task that has it

vars == <<ready, current>>

Slots == 0 .. MAX_TASKS - 1

\* How many slots the scheduler's index moves to go from task a to task b:
\* 1 for the next slot, MAX_TASKS for a itself.
Distance(a, b) == IF a < b THEN b - a ELSE b + MAX_TASKS - a

Init == ready = {0} /\ current = 0

\* The timer hands the processor to the first ready task after the current.
Switch(k) ==
    /\ k \in ready
    /\ \A j \in ready : Distance(current, k) <= Distance(current, j)
    /\ current' = k
    /\ UNCHANGED ready

\* A system call creates, ends or blocks tasks and keeps the processor.
Change ==
    /\ ready' \in SUBSET Slots
    /\ UNCHANGED current

Next == Change \/ \E k \in Slots : Switch(k)

Spec == Init /\ [][Next]_vars
=============================================================================
