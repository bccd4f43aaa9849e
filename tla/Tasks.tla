------------------------------- MODULE Tasks -------------------------------
(***************************************************************************)
(* The task table, the scheduler and the process system calls              *)
(* (src/kernel/multitasking/task.c and scheduler.c, with init and          *)
(* create_process of src/kernel/user/program.c).                           *)
(*                                                                         *)
(* A slot of tasks[] is a task_t.  There is one processor; system calls    *)
(* run with interrupts off, so each is one step, except where the code     *)
(* opens them: the polling loop of waitpid, and the disk waits under       *)
(* load_program.  The timer interrupt (Tick) may come at any point         *)
(* between steps.  A process's memory and its open files are the business  *)
(* of other modules; here a process is a row of the table and a place in   *)
(* its program.                                                            *)
(***************************************************************************)
EXTENDS Integers

CONSTANTS
    MAX_TASKS,  \* slots of tasks[]; uint8_t pids wrap at this value
    Watched     \* slots whose waits the history variable gone follows

ASSUME MaxTasksAssumption == MAX_TASKS \in Nat /\ MAX_TASKS >= 2

VARIABLES
    used,               \* tasks[k].used
    state,              \* tasks[k].state
    pid,                \* tasks[k].pid.pid
    runningTask,        \* the slot runningTask points to
    scheduling_enabled, \* the scheduler's switch
    doing,              \* where the task of slot k is in its program
    target,             \* the slot waitpid of k polls
    gone,               \* history: what a watched k waits for was killed
    passes              \* history: switches that passed over k since it ran

table == <<used, state, pid>>
waits == <<target, gone>>
vars  == <<used, state, pid, runningTask, scheduling_enabled, doing, target,
           gone, passes>>

Slots == 0 .. MAX_TASKS - 1
Pids  == 0 .. MAX_TASKS - 1

TASK_ACTIVE  == "active"
TASK_BLOCKED == "blocked"

\* boot, kernel: kernel_main before and in the kernel shell (slot 0 only);
\* new: created, never run; user: in its program; load: in load_program;
\* wait: in waitpid's loop; dead: has killed itself, and spins in crt0.
Places == {"boot", "kernel", "new", "user", "load", "wait", "dead"}

\* The process the kernel shell starts.  It never exits, and no program of
\* the repository kills it or calls kill(0) from it (user/init/main.c).
InitPid == 1

-----------------------------------------------------------------------------
(* Lookups.                                                                *)

Runnable(k) == used[k] /\ state[k] = TASK_ACTIVE

\* Adding one to a uint8_t.
Inc(i) == IF i + 1 < MAX_TASKS THEN i + 1 ELSE 0

\* k is what getFinalElement returns: the first unused slot, or 0 if none.
IsFinalElement(k) ==
    \/ ~used[k] /\ \A j \in Slots : j < k => used[j]
    \/ k = 0 /\ \A j \in Slots : used[j]

\* k is what getTaskForPid(p) returns; unused slots are searched too.
IsTaskForPid(k, p) ==
    /\ pid[k] = p
    /\ \A j \in Slots : j < k => pid[j] # p

\* How often schedule's loop increments an index that starts at i to reach j.
Steps(i, j) == IF i <= j THEN j - i ELSE j + MAX_TASKS - i

\* Fault: the search starts at the current task, not after it.
IsNextTaskFromCurrent(k) ==
    /\ Runnable(k)
    /\ \A j \in Slots : Runnable(j) =>
         Steps(pid[runningTask], k) <= Steps(pid[runningTask], j)

\* Fault: the index moves on once more before the first slot is looked at.
IsNextTaskSkipsOne(k) ==
    LET i == Inc(Inc(pid[runningTask]))
    IN  /\ Runnable(k)
        /\ \A j \in Slots : Runnable(j) => Steps(i, k) <= Steps(i, j)

\* k is where schedule's loop stops: the first runnable slot from the one
\* after the current pid on, wrapping round.
IsNextTask(k) ==
    LET i == Inc(pid[runningTask])
    IN  /\ Runnable(k)
        /\ \A j \in Slots : Runnable(j) => Steps(i, k) <= Steps(i, j)

\* A task that runs, in its program and so able to issue a system call.
InProgram == doing[runningTask] = "user"

-----------------------------------------------------------------------------
(* initTasking, and kernel_main up to its shell.                           *)

Init ==
    /\ used = [k \in Slots |-> k = 0]
    /\ state = [k \in Slots |-> TASK_ACTIVE]
    /\ pid = [k \in Slots |-> 0]
    /\ runningTask = 0
    /\ scheduling_enabled = FALSE
    /\ doing = [k \in Slots |-> IF k = 0 THEN "boot" ELSE "new"]
    /\ target = [k \in Slots |-> 0]
    /\ gone = [k \in Slots |-> FALSE]
    /\ passes = [k \in Slots |-> 0]

EnterKernelShell ==
    /\ runningTask = 0 /\ doing[0] = "boot"
    /\ doing' = [doing EXCEPT ![0] = "kernel"]
    /\ scheduling_enabled' = TRUE
    /\ UNCHANGED <<table, runningTask, waits, passes>>

-----------------------------------------------------------------------------
(* Creating tasks.                                                         *)

\* Fault for the mutation checks: the pid is the slot's last one plus one.
createTaskFromOwnPid(k) ==
    /\ IsFinalElement(k)
    /\ used' = [used EXCEPT ![k] = TRUE]
    /\ pid' = [pid EXCEPT ![k] = @ + 1]
    /\ passes' = [passes EXCEPT ![k] = 0]

\* createTask writes slot k.  It sets neither state nor anything else a
\* previous tenant left.  In slot 0 (table full, or slot 0 itself free) the
\* pid comes from tasks[-1], memory outside the array: any byte.
createTask(k) ==
    /\ IsFinalElement(k)
    /\ used' = [used EXCEPT ![k] = TRUE]
    /\ \E p \in IF k = 0 THEN Pids ELSE {Inc(pid[k - 1])} :
            pid' = [pid EXCEPT ![k] = p]
    /\ passes' = [passes EXCEPT ![k] = 0]

\* Fault: init() does not block the kernel task.
RunInitNotBlocked(k) ==
    /\ runningTask = 0 /\ doing[0] = "kernel"
    /\ \E j \in Slots : ~used[j]
    /\ createTask(k)
    /\ scheduling_enabled' = TRUE
    /\ doing' = [doing EXCEPT ![k] = "new"]
    /\ UNCHANGED <<state, runningTask, waits>>

\* The shell's run command: init() with its program found.  It ends by
\* blocking the kernel task and opening the scheduler.  The task is blocked
\* but keeps the processor until the next tick, so a typed-ahead run can be
\* served again; the 256-byte keyboard buffer cannot hold enough of them to
\* fill the table.
RunInit(k) ==
    /\ runningTask = 0 /\ doing[0] = "kernel"
    /\ \E j \in Slots : ~used[j]
    /\ createTask(k)
    /\ state' = [state EXCEPT ![0] = TASK_BLOCKED]
    /\ scheduling_enabled' = TRUE
    /\ doing' = [doing EXCEPT ![k] = "new"]
    /\ UNCHANGED <<runningTask, waits>>

\* Fault: the failing path also blocks the kernel task and ends the period.
RunInitFailsBlocked ==
    /\ runningTask = 0 /\ doing[0] = "kernel"
    /\ state' = [state EXCEPT ![0] = TASK_BLOCKED]
    /\ scheduling_enabled' = TRUE
    /\ UNCHANGED <<used, pid, runningTask, doing, waits, passes>>

\* init() with no program to load returns inside its atomic period.
RunInitFails ==
    /\ runningTask = 0 /\ doing[0] = "kernel"
    /\ scheduling_enabled' = FALSE
    /\ UNCHANGED <<table, runningTask, doing, waits, passes>>

\* create_process, up to the reads of load_program, which may sleep.
BeginCreateProcess ==
    /\ InProgram
    /\ doing' = [doing EXCEPT ![runningTask] = "load"]
    /\ UNCHANGED <<table, runningTask, scheduling_enabled, waits, passes>>

CreateProcess(k) ==
    /\ doing[runningTask] = "load"
    /\ createTask(k)
    /\ doing' = [doing EXCEPT ![runningTask] = "user", ![k] = "new"]
    /\ UNCHANGED <<state, runningTask, scheduling_enabled, waits>>

CreateProcessFails ==
    /\ doing[runningTask] = "load"
    /\ doing' = [doing EXCEPT ![runningTask] = "user"]
    /\ UNCHANGED <<table, runningTask, scheduling_enabled, waits, passes>>

-----------------------------------------------------------------------------
(* Ending tasks.                                                           *)

\* kill's effect on the table, and what the watched waiters for k have seen.
FreeSlot(k) ==
    /\ used' = [used EXCEPT ![k] = FALSE]
    /\ gone' = [w \in Slots |->
                  \/ gone[w]
                  \/ /\ w \in Watched /\ used[k]
                     /\ doing[w] = "wait" /\ target[w] = k]
    /\ UNCHANGED <<state, pid, runningTask, scheduling_enabled, target, passes>>

\* A program kills itself by its own pid (sys_exit, or the end of crt0) and
\* spins: it keeps the processor until the next tick.
Exit ==
    /\ InProgram
    /\ pid[runningTask] # InitPid
    /\ \E k \in Slots : IsTaskForPid(k, pid[runningTask]) /\ FreeSlot(k)
    /\ doing' = [doing EXCEPT ![runningTask] = "dead"]

\* A program kills another process, perhaps one already dead.  A pid that no
\* slot holds makes the code dereference NULL, and is left out.
KillOther(p) ==
    /\ InProgram
    /\ p \notin {0, InitPid, pid[runningTask]}
    /\ \E k \in Slots : IsTaskForPid(k, p) /\ FreeSlot(k)
    /\ UNCHANGED doing

\* kill(0) is kill_kern, which blocks whichever task is running.
KillZero ==
    /\ InProgram
    /\ pid[runningTask] # InitPid
    /\ state' = [state EXCEPT ![runningTask] = TASK_BLOCKED]
    /\ UNCHANGED <<used, pid, runningTask, scheduling_enabled, doing, waits,
                   passes>>

-----------------------------------------------------------------------------
(* Waiting and atomic periods.                                             *)

\* waitpid looks its task up once, then polls that slot's used flag.
waitpid(p) ==
    /\ InProgram
    /\ \E k \in Slots :
         /\ IsTaskForPid(k, p)
         /\ target' = [target EXCEPT ![runningTask] = k]
    /\ gone' = [gone EXCEPT ![runningTask] = FALSE]
    /\ doing' = [doing EXCEPT ![runningTask] = "wait"]
    /\ UNCHANGED <<table, runningTask, scheduling_enabled, passes>>

waitpidReturns ==
    /\ doing[runningTask] = "wait"
    /\ ~used[target[runningTask]]
    /\ doing' = [doing EXCEPT ![runningTask] = "user"]
    /\ target' = [target EXCEPT ![runningTask] = 0]
    /\ gone' = [gone EXCEPT ![runningTask] = FALSE]
    /\ UNCHANGED <<table, runningTask, scheduling_enabled, passes>>

start_task_atomic ==
    /\ InProgram
    /\ scheduling_enabled' = FALSE
    /\ UNCHANGED <<table, runningTask, doing, waits, passes>>

end_task_atomic ==
    /\ InProgram
    /\ scheduling_enabled' = TRUE
    /\ UNCHANGED <<table, runningTask, doing, waits, passes>>

-----------------------------------------------------------------------------
(* The timer interrupt: schedule.  With no runnable task its loop never    *)
(* ends, interrupts off; SomeoneRunnable says that this does not happen.   *)

schedule(k) ==
    /\ scheduling_enabled
    /\ IsNextTask(k)
    /\ runningTask' = k
    /\ doing' = [doing EXCEPT ![k] = IF @ = "new" THEN "user" ELSE @]
    /\ passes' = [j \in Slots |->
                    IF j = k \/ ~Runnable(j) THEN 0 ELSE passes[j] + 1]
    /\ UNCHANGED <<table, scheduling_enabled, waits>>

scheduleHeldOff == ~scheduling_enabled /\ UNCHANGED vars

Tick == scheduleHeldOff \/ \E k \in Slots : schedule(k)

-----------------------------------------------------------------------------
SystemCall ==
    \/ BeginCreateProcess
    \/ CreateProcessFails
    \/ \E k \in Slots : CreateProcess(k)
    \/ Exit
    \/ \E p \in Pids : KillOther(p)
    \/ KillZero
    \/ \E p \in Pids : waitpid(p)
    \/ waitpidReturns
    \/ start_task_atomic
    \/ end_task_atomic

KernelShell ==
    \/ EnterKernelShell
    \/ \E k \in Slots : RunInit(k)
    \/ RunInitFails

Next == Tick \/ SystemCall \/ KernelShell

Spec == Init /\ [][Next]_vars

\* The timer keeps firing; a task polling in waitpid gets to see the flag
\* (a turn lasts a millisecond, a poll some nanoseconds); an atomic period
\* ends if its program runs on.
FairSpec ==
    /\ Spec
    /\ SF_vars(Tick)
    /\ SF_vars(waitpidReturns)
    /\ SF_vars(end_task_atomic)

-----------------------------------------------------------------------------
(* Properties.                                                             *)

TypeOK ==
    /\ used \in [Slots -> BOOLEAN]
    /\ state \in [Slots -> {TASK_ACTIVE, TASK_BLOCKED}]
    /\ pid \in [Slots -> Pids]
    /\ runningTask \in Slots
    /\ scheduling_enabled \in BOOLEAN
    /\ doing \in [Slots -> Places]
    /\ target \in [Slots -> Slots]
    /\ gone \in [Slots -> BOOLEAN]
    /\ passes \in [Slots -> Nat]

\* The pid createTask derives from the neighbouring slot is the slot's own
\* number, however slots were freed and reused.  schedule relies on it (it
\* indexes tasks[] with a pid), and so do the lookups.  Slot 0 is left out:
\* once the table has overflowed its pid is any byte.
PidIsSlot == \A k \in Slots \ {0} : used[k] => pid[k] = k

\* schedule's loop, which runs with interrupts off and has no exit for an
\* empty table, always finds a task to run.
SomeoneRunnable == scheduling_enabled => \E k \in Slots : Runnable(k)

\* A runnable task is passed over at most MAX_TASKS - 1 times between two
\* turns, whatever is created, killed or blocked meanwhile.
BoundedWaiting == \A k \in Slots : Runnable(k) => passes[k] < MAX_TASKS

\* Once the kernel task has lost the processor to a process it never gets it
\* back, not even if its slot is overwritten: interrupts from processes
\* push onto its stack (tss esp0).
KernelTaskRetired == [][runningTask # 0 => runningTask' # 0]_vars

\* The scheduler is round robin over the slots.
RR == INSTANCE RoundRobin WITH
        ready <- {k \in Slots : Runnable(k)}, current <- runningTask

ImplementsRoundRobin == RR!Spec

-----------------------------------------------------------------------------
(* What comments and docs say, and the code does not do.                   *)

\* "waits until task with pid has exited" (task.c:183): a watched waiter that
\* keeps getting the processor returns once the process it waits for is gone.
WaitpidReturnsAfterExit ==
    \A w \in Slots \cap Watched :
      []<>(runningTask = w) =>
        []((doing[w] = "wait" /\ gone[w]) => <>(doing[w] # "wait"))

\* "Runs Tasks in from 0 to the 256" (doc.txt:3): a task that was created is
\* run or killed, as long as the scheduler is not held off for good.
CreatedTaskRuns ==
    []<>scheduling_enabled =>
      \A k \in Slots \ {0} :
        (used[k] /\ doing[k] = "new") ~> ~(used[k] /\ doing[k] = "new")
=============================================================================
