---------------------------- MODULE KernelStack ----------------------------
(***************************************************************************)
(* The kernel stack under the programs of Launch.  There is one, shared by *)
(* all tasks: an entry from user mode starts at tss.esp0, an interrupt in  *)
(* the kernel where the stack pointer is, and switch_context goes to       *)
(* another task without going to another stack.  A call that waits with    *)
(* interrupts on (waitpid, getchar, a disk access) leaves its frames on it *)
(* while others run.  waitpid moves esp0 below its own; nothing moves it   *)
(* back, and no other call moves it.                                       *)
(*                                                                         *)
(* Depths are counted down from stack_top, in units: what an entry and its *)
(* handler push is one, the frames of waitpid's task_for_pid another.      *)
(***************************************************************************)
EXTENDS Launch

CONSTANT StackUnits     \* bound: how deep waitpid may move esp0

ASSUME StackAssumption == StackUnits \in Nat

VARIABLES
    esp0,   \* tss.esp0
    esp,    \* the stack pointer, while a task runs in the kernel
    frames, \* the units that the waiting call of slot k needs
    call,   \* lookup: in waitpid's task_for_pid; sleep: getchar, disk access
    lost    \* history: the tasks of which a needed unit was overwritten

stack == <<esp0, esp, frames, call, lost>>
stackVars == <<allVars, stack>>

InKernel(k) ==
    doing[k] \in {"boot", "kernel", "load", "wait"} \/ call[k] = "sleep"

\* What is pushed below depth d overwrites the frames that lie there.
Overwritten(d) == {k \in Slots : \E u \in frames[k] : u > d}

\* kernel_main starts at stack_top, which is where esp0 points as well.
StackInit ==
    /\ LaunchInit
    /\ esp0 = 0
    /\ esp = 1
    /\ frames = [k \in Slots |-> IF k = 0 THEN {1} ELSE {}]
    /\ call = [k \in Slots |-> "none"]
    /\ lost = {}

-----------------------------------------------------------------------------
(* What a step does to the stack.                                          *)

\* A system call that is over before interrupts come on again.
Instant ==
    /\ call[runningTask] = "none"
    /\ lost' = lost \union Overwritten(esp0)
    /\ UNCHANGED <<esp0, esp, frames, call>>

\* A call that opens interrupts and waits, esp0 left where it is.
EnterSleep(c) ==
    /\ call[runningTask] = "none"
    /\ lost' = lost \union Overwritten(esp0)
    /\ frames' = [frames EXCEPT ![runningTask] = {esp0 + 1}]
    /\ esp' = esp0 + 1
    /\ call' = [call EXCEPT ![runningTask] = c]
    /\ UNCHANGED esp0

\* Fault: waitpid does not move esp0.
EnterWaitKeepsEsp0 ==
    /\ esp0 < StackUnits
    /\ lost' = lost \union Overwritten(esp0)
    /\ frames' = [frames EXCEPT ![runningTask] = {esp0 + 1, esp0 + 2}]
    /\ call' = [call EXCEPT ![runningTask] = "lookup"]
    /\ esp' = esp0 + 2
    /\ UNCHANGED esp0

\* waitpid moves esp0 below its frame, opens interrupts and calls
\* task_for_pid, whose frames lie below esp0.  (The slot it finds is that of
\* Wait, whenever it looks: PidIsSlot.)
EnterWait ==
    /\ esp0 < StackUnits
    /\ lost' = lost \union Overwritten(esp0)
    /\ frames' = [frames EXCEPT ![runningTask] = {esp0 + 1, esp0 + 2}]
    /\ call' = [call EXCEPT ![runningTask] = "lookup"]
    /\ esp0' = esp0 + 1
    /\ esp' = esp0 + 2

\* task_for_pid returns into waitpid: the deeper of its two units is done.
LookupDone ==
    /\ call[runningTask] = "lookup"
    /\ \E u \in frames[runningTask] :
         /\ u - 1 \in frames[runningTask]
         /\ frames' = [frames EXCEPT ![runningTask] = @ \ {u}]
         /\ esp' = u - 1
    /\ call' = [call EXCEPT ![runningTask] = "none"]
    /\ UNCHANGED <<esp0, lost>>

\* Fault: every call that has waited moves esp0 back up.
ReturnRaisesEsp0 ==
    /\ call[runningTask] # "lookup"
    /\ frames' = [frames EXCEPT ![runningTask] = {}]
    /\ call' = [call EXCEPT ![runningTask] = "none"]
    /\ esp0' = esp0 - 1
    /\ UNCHANGED <<esp, lost>>

\* A call that has waited returns to its program; esp0 stays.
Return ==
    /\ call[runningTask] # "lookup"
    /\ frames' = [frames EXCEPT ![runningTask] = {}]
    /\ call' = [call EXCEPT ![runningTask] = "none"]
    /\ UNCHANGED <<esp0, esp, lost>>

\* The timer interrupt pushes where the stack pointer is.  If it returns to
\* a task in the kernel, that one goes on with the pointer it finds: iret
\* loads a stack pointer only when it returns to user mode.
Interrupt ==
    LET d == IF InKernel(runningTask) THEN esp ELSE esp0
    IN  /\ esp' = d
        /\ lost' = lost \union Overwritten(d)
        /\ UNCHANGED <<esp0, frames, call>>

-----------------------------------------------------------------------------
(* The steps of Launch, each with its effect on the stack.                 *)

InstantCall ==
    /\ \/ crt0Start
       \/ BeginAtomic("init", "begin")
       \/ BeginAtomic("tsh", "prompt")
       \/ Undo
       \/ HandOver("cwd", "argc")
       \/ HandOver("argc", "argv")
       \/ HandOver("argv", "end")
       \/ EndAtomic
       \/ ExitCommand
       \/ Leave
       \/ Shutdown
    /\ Instant

LoadStarts == Load /\ EnterSleep("none")

LoadEnds ==
    /\ \/ NotCreated
       \/ \E k \in Slots : \/ Created("init", "tsh", k, {})
                           \/ Created("tsh", "tsh", k, Context)
                           \/ Created("tsh", "cmd", k, Context)
    /\ Return

WaitStarts == Wait /\ EnterWait

WaitLooks == LookupDone /\ UNCHANGED allVars

WaitEnds == Resume /\ Return

\* getline and init read the keyboard; a command may also read the disk.
ReadStarts ==
    /\ Reading(runningTask) /\ doing[runningTask] = "user"
    /\ EnterSleep("sleep")
    /\ UNCHANGED allVars

ReadEnds == call[runningTask] = "sleep" /\ Return /\ UNCHANGED allVars

KernelTask ==
    /\ KernelStep \/ \E k \in Slots : RunInitProgram(k)
    /\ UNCHANGED stack

TimerInterrupt == TimerStep /\ Interrupt

StackStep ==
    \/ InstantCall
    \/ LoadStarts
    \/ LoadEnds
    \/ WaitStarts
    \/ WaitLooks
    \/ WaitEnds
    \/ ReadStarts
    \/ ReadEnds
    \/ KernelTask
    \/ TimerInterrupt

\* The model ends where a call would go on with frames it has lost.
Ended == PoweredOff \/ runningTask \in lost

StackNext ==
    \/ ~Ended /\ StackStep
    \/ Ended /\ UNCHANGED stackVars

StackSpec == StackInit /\ [][StackNext]_stackVars

-----------------------------------------------------------------------------
(* Properties.                                                             *)

StackTypeOK ==
    /\ esp0 \in 0 .. StackUnits
    /\ esp \in 0 .. StackUnits + 2
    /\ frames \in [Slots -> SUBSET (1 .. StackUnits + 2)]
    /\ call \in [Slots -> {"none", "sleep", "lookup"}]
    /\ lost \subseteq Slots

\* A task in waitpid's polling loop: its lookup is behind it.
Polling(k) == doing[k] = "wait" /\ call[k] # "lookup"

\* The frames of a polling waitpid are never overwritten: not by the tasks
\* that run meanwhile, not by other waits, nor by the entries of programs
\* that run after an inner wait has returned.
PollersIntact == \A k \in Slots : Polling(k) => k \notin lost

\* A task goes on in the kernel with its frames overwritten only in getchar,
\* a disk access or waitpid's lookup: never in waitpid's loop, never while it
\* loads a program (which the atomic period protects, not the stack), and
\* never as the kernel task, whose stack the programs' entries start on.
KeepsFrames == runningTask \in lost => call[runningTask] # "none"

-----------------------------------------------------------------------------
(* What the comment on waitpid says, and its code does not guarantee.      *)

\* "waits until task with pid has exited" (task.c:183): a call that waits
\* goes on with the frames it was called with.  waitpid opens interrupts
\* before it calls task_for_pid, with esp0 above the frames of that call, and
\* getchar leaves esp0 above its own.
CallsIntact == InKernel(runningTask) => runningTask \notin lost
=============================================================================
