------------------------------- MODULE Launch -------------------------------
(***************************************************************************)
(* The programs of user/ on top of Tasks: init, which starts the shell and *)
(* waits for it; TSH, which starts a program, hands it its arguments and   *)
(* working directory and waits for it; and the commands (cat, ls, example),*)
(* which run and end.  Every step of a program is a system call of Tasks   *)
(* together with the program's move to its next call, so a behaviour of    *)
(* LaunchSpec is one of Tasks!Spec in which programs keep to their code.   *)
(***************************************************************************)
EXTENDS Tasks, FiniteSets

VARIABLES
    prog,   \* the program loaded in slot k
    at,     \* where that program is
    child,  \* the program's variable pid: the last process it created
    unset   \* history: what the launcher of k has still to hand to it

programs == <<prog, at, child, unset>>
allVars  == <<vars, programs>>

\* What t_launch gives a child: sys_chdir, task_set_argc, task_set_argv.
Context == {"cwd", "argc", "argv"}

Programs == {"none", "init", "tsh", "cmd"}

\* start: crt0 before main; prompt: TSH reading a line, or a command's work;
\* load to end: a launch, with its atomic period; waiting: in waitpid;
\* exit: in libc's exit between its two calls; dead: spinning in crt0;
\* getchar, off: init after its shell has ended; spin: while(1).
LaunchLabels == {"load", "undo", "cwd", "argc", "argv", "end"}

LabelsOf(p) ==
    CASE p = "none" -> {"none"}
      [] p = "init" -> {"start", "begin", "load", "undo", "end", "wait",
                        "waiting", "getchar", "off", "spin"}
      [] p = "tsh"  -> LaunchLabels \union
                         {"start", "prompt", "wait", "waiting", "exit", "dead"}
      [] p = "cmd"  -> {"start", "prompt", "dead"}

\* The program of the task that runs, at label l.
At(p, l) == prog[runningTask] = p /\ at[runningTask] = l

Goto(l) == at' = [at EXCEPT ![runningTask] = l]

LaunchInit ==
    /\ Init
    /\ prog = [k \in Slots |-> "none"]
    /\ at = [k \in Slots |-> "none"]
    /\ child = [k \in Slots |-> 0]
    /\ unset = [k \in Slots |-> {}]

-----------------------------------------------------------------------------
(* The kernel shell and the timer: steps of Tasks outside the programs.    *)

RunInitProgram(k) ==
    /\ RunInit(k)
    /\ prog' = [prog EXCEPT ![k] = "init"]
    /\ at' = [at EXCEPT ![k] = "start"]
    /\ unset' = [unset EXCEPT ![k] = {}]
    /\ UNCHANGED child

KernelStep == (EnterKernelShell \/ RunInitFails) /\ UNCHANGED programs

TimerStep == Tick /\ UNCHANGED programs

-----------------------------------------------------------------------------
(* crt0 before main: it ends any atomic period, then reads its arguments.  *)

crt0Start ==
    /\ at[runningTask] = "start"
    /\ end_task_atomic
    /\ Goto(IF prog[runningTask] # "init" THEN "prompt"
            ELSE IF pid[runningTask] = InitPid THEN "begin" ELSE "spin")
    /\ UNCHANGED <<prog, child, unset>>

-----------------------------------------------------------------------------
(* Launching a program: what init and t_launch have in common.             *)

\* Fault: the launch goes on without its atomic period.
BeginAtomicForgotten(p, l) ==
    /\ At(p, l)
    /\ doing[runningTask] = "user"
    /\ Goto("load")
    /\ UNCHANGED <<vars, prog, child, unset>>

\* syscall(1), then the first half of syscall(9).
BeginAtomic(p, l) ==
    /\ At(p, l)
    /\ start_task_atomic
    /\ Goto("load")
    /\ UNCHANGED <<prog, child, unset>>

Load ==
    /\ at[runningTask] = "load"
    /\ BeginCreateProcess
    /\ UNCHANGED programs

\* The second half of syscall(9): the new process q in slot k.  A free slot
\* is there: nested shells run out of kernel heap long before 256 tasks.
Created(p, q, k, todo) ==
    /\ At(p, "load")
    /\ \E j \in Slots : ~used[j]
    /\ CreateProcess(k)
    /\ child' = [child EXCEPT ![runningTask] = pid'[k]]
    /\ prog' = [prog EXCEPT ![k] = q]
    /\ at' = [at EXCEPT ![k] = "start",
                        ![runningTask] = IF p = "tsh" THEN "cwd" ELSE "end"]
    /\ unset' = [unset EXCEPT ![k] = todo]

NotCreated ==
    /\ at[runningTask] = "load"
    /\ CreateProcessFails
    /\ Goto("undo")
    /\ UNCHANGED <<prog, child, unset>>

\* Fault: a failed launch prompts again, whoever began it.
UndoPrompts ==
    /\ at[runningTask] = "undo"
    /\ end_task_atomic
    /\ Goto("prompt")
    /\ UNCHANGED <<prog, child, unset>>

\* The failing branch ends the atomic period: the shell prompts again, init
\* spins.
Undo ==
    /\ at[runningTask] = "undo"
    /\ end_task_atomic
    /\ Goto(IF prog[runningTask] = "tsh" THEN "prompt" ELSE "spin")
    /\ UNCHANGED <<prog, child, unset>>

\* Fault: the atomic period ends before the arguments are handed over.
HandOverNotAtomic(c, l) ==
    /\ At("tsh", c)
    /\ end_task_atomic
    /\ \E k \in Slots :
         /\ IsTaskForPid(k, child[runningTask])
         /\ unset' = [unset EXCEPT ![k] = @ \ {c}]
    /\ Goto(l)
    /\ UNCHANGED <<prog, child>>

\* t_launch hands item c to the child, found by its pid, and goes to l.
HandOver(c, l) ==
    /\ At("tsh", c)
    /\ doing[runningTask] = "user"
    /\ \E k \in Slots :
         /\ IsTaskForPid(k, child[runningTask])
         /\ unset' = [unset EXCEPT ![k] = @ \ {c}]
    /\ Goto(l)
    /\ UNCHANGED <<vars, prog, child>>

\* Fault: the launcher waits without having ended its atomic period.
EndAtomicForgotten ==
    /\ at[runningTask] = "end"
    /\ doing[runningTask] = "user"
    /\ Goto("wait")
    /\ UNCHANGED <<vars, prog, child, unset>>

\* Fault: the shell prompts again without waiting for its child.
EndAtomicNoWait ==
    /\ at[runningTask] = "end"
    /\ end_task_atomic
    /\ Goto(IF prog[runningTask] = "tsh" THEN "prompt" ELSE "wait")
    /\ UNCHANGED <<prog, child, unset>>

EndAtomic ==
    /\ at[runningTask] = "end"
    /\ end_task_atomic
    /\ Goto("wait")
    /\ UNCHANGED <<prog, child, unset>>

Wait ==
    /\ at[runningTask] = "wait"
    /\ waitpid(child[runningTask])
    /\ Goto("waiting")
    /\ UNCHANGED <<prog, child, unset>>

Resume ==
    /\ at[runningTask] = "waiting"
    /\ waitpidReturns
    /\ Goto(IF prog[runningTask] = "tsh" THEN "prompt" ELSE "getchar")
    /\ UNCHANGED <<prog, child, unset>>

-----------------------------------------------------------------------------
(* What a line typed at the shell, or a command's own code, leads to.      *)

\* t_exit calls libc's exit: end of atomic period, then sys_exit.
ExitCommand ==
    /\ At("tsh", "prompt")
    /\ end_task_atomic
    /\ Goto("exit")
    /\ UNCHANGED <<prog, child, unset>>

\* Fault: the end of crt0 does not kill its own pid.
LeaveUnkilled ==
    /\ At("tsh", "exit") \/ At("cmd", "prompt")
    /\ doing' = [doing EXCEPT ![runningTask] = "dead"]
    /\ Goto("dead")
    /\ UNCHANGED <<used, state, pid, runningTask, scheduling_enabled, waits,
                   passes, prog, child, unset>>

\* sys_exit of the shell, or the kill of its own pid at the end of crt0 of a
\* command whose main returned.
Leave ==
    /\ At("tsh", "exit") \/ At("cmd", "prompt")
    /\ Exit
    /\ Goto("dead")
    /\ UNCHANGED <<prog, child, unset>>

\* init, left by its shell, waits for a key and shuts the machine down.
Shutdown ==
    /\ At("init", "getchar")
    /\ doing[runningTask] = "user"
    /\ Goto("off")
    /\ UNCHANGED <<vars, prog, child, unset>>

-----------------------------------------------------------------------------
\* What the running program does of itself, once its launch has begun.
Progress ==
    \/ crt0Start
    \/ BeginAtomic("init", "begin")
    \/ Load
    \/ \E k \in Slots : \/ Created("init", "tsh", k, {})
                        \/ Created("tsh", "tsh", k, Context)
                        \/ Created("tsh", "cmd", k, Context)
    \/ NotCreated
    \/ Undo
    \/ HandOver("cwd", "argc")
    \/ HandOver("argc", "argv")
    \/ HandOver("argv", "end")
    \/ EndAtomic
    \/ Wait
    \/ Resume
    \/ Leave

\* What the user at the keyboard decides.
Typed ==
    \/ BeginAtomic("tsh", "prompt")
    \/ ExitCommand
    \/ Shutdown

PoweredOff == \E k \in Slots : at[k] = "off"

LaunchNext ==
    \/ ~PoweredOff /\ (Progress \/ Typed \/ KernelStep \/ TimerStep
                         \/ \E k \in Slots : RunInitProgram(k))
    \/ PoweredOff /\ UNCHANGED allVars

LaunchSpec == LaunchInit /\ [][LaunchNext]_allVars

\* The timer keeps firing, and a program given the processor again and again
\* gets on with what it has begun: commands end, loads end.  Nobody has to
\* type anything.
LaunchFairSpec ==
    /\ LaunchSpec
    /\ SF_allVars(TimerStep)
    /\ \A k \in Slots : SF_allVars(runningTask = k /\ Progress)

-----------------------------------------------------------------------------
(* Properties.                                                             *)

LaunchTypeOK ==
    /\ prog \in [Slots -> Programs]
    /\ at \in [Slots -> UNION {LabelsOf(p) : p \in Programs}]
    /\ child \in [Slots -> Pids]
    /\ unset \in [Slots -> SUBSET Context]
    /\ \A k \in Slots : at[k] \in LabelsOf(prog[k])

\* A process that has been given the processor was handed its working
\* directory, argc and argv before: crt0 reads the last two at once, and a
\* slot keeps its previous tenant's values until they are overwritten.
EnvReady == \A k \in Slots : used[k] /\ doing[k] # "new" => unset[k] = {}

\* No task waits for another, or spins dead, with the scheduler held off:
\* nothing could ever end its wait.
NoHeldWait ==
    runningTask # 0 /\ doing[runningTask] \in {"wait", "dead"}
      => scheduling_enabled

\* At most one program reads the keyboard at a time: the keyboard buffer has
\* one read index and no lock (kbd_getchar).
Reading(k) ==
    /\ used[k]
    /\ \/ prog[k] = "tsh" /\ at[k] = "prompt"
       \/ prog[k] = "cmd" /\ at[k] = "prompt"
       \/ at[k] = "getchar"

OneReader == Cardinality({k \in Slots : Reading(k)}) <= 1

\* A shell that waits for a command prompts again: the programs of user/ do
\* not meet the reuse of slots that can make waitpid miss an exit.
ShellResumes ==
    \A k \in Slots :
      (at[k] = "waiting" /\ prog[k] = "tsh" /\ prog[target[k]] = "cmd")
        ~> (at[k] = "prompt")
=============================================================================
