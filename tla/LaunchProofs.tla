---------------------------- MODULE LaunchProofs ----------------------------
(***************************************************************************)
(* Proofs for every number of slots.  About Tasks, on which Launch builds: *)
(* type correctness, the invariants that make the scheduler sound, its     *)
(* bounded waiting, and that it implements RoundRobin.  About Launch: its  *)
(* behaviours are behaviours of Tasks, a process is never run before it    *)
(* has its arguments and directory, nobody waits with the scheduler held   *)
(* off, and one program at most reads the keyboard.                        *)
(***************************************************************************)
EXTENDS Launch, FiniteSetTheorems, TLAPS

-----------------------------------------------------------------------------
(* Tasks: the inductive invariant.                                         *)

\* The running task's pid, where schedule starts its search, is its slot.
RunningPid == pid[runningTask] = runningTask

\* The kernel task runs until it has started init; then it is blocked.
KernelFirst ==
    /\ runningTask = 0 => used[0] /\ doing[0] \in {"boot", "kernel"}
    /\ state[0] = TASK_ACTIVE =>
         runningTask = 0 /\ \A k \in Slots \ {0} : ~used[k]

\* From then on init is there; nothing ever blocks it.
InitAlive ==
    /\ state[0] = TASK_BLOCKED => used[1]
    /\ state[1] = TASK_ACTIVE

\* How far RoundRobin's index has to go from the running task to k.
Gap(k) == RR!Distance(runningTask, k)

\* Each time k is passed over, the running task comes closer to it.
PassesBounded ==
    \A k \in Slots : Runnable(k) => passes[k] + Gap(k) <= MAX_TASKS

Control == RunningPid /\ PidIsSlot /\ KernelFirst /\ InitAlive

IInv == TypeOK /\ Control /\ PassesBounded

-----------------------------------------------------------------------------
(* Operators.                                                              *)

LEMMA IncInSlots == \A i \in Slots : Inc(i) \in Slots
BY MaxTasksAssumption DEF Inc, Slots

\* schedule's search order is RoundRobin's distance.
LEMMA StepsAreDistance ==
    \A r, k \in Slots : Steps(Inc(r), k) + 1 = RR!Distance(r, k)
BY MaxTasksAssumption DEF Steps, Inc, Slots, RR!Distance

LEMMA StepsRange == \A i, j \in Slots : Steps(i, j) \in Nat
BY MaxTasksAssumption DEF Steps, Slots

LEMMA DistanceRange ==
    \A a, b \in Slots : RR!Distance(a, b) \in 1 .. MAX_TASKS
BY MaxTasksAssumption DEF Slots, RR!Distance

\* Handing the processor from r to k brings it closer to every task that
\* lies further on.
LEMMA DistanceDecreases ==
    \A r, k, j \in Slots :
        (RR!Distance(r, k) <= RR!Distance(r, j) /\ k # j)
          => RR!Distance(k, j) + 1 <= RR!Distance(r, j)
BY MaxTasksAssumption DEF Slots, RR!Distance

-----------------------------------------------------------------------------
(* Type correctness: every variable stays in its range, for any program.   *)

LEMMA CreateTaskType ==
    ASSUME TypeOK, NEW k \in Slots, createTask(k)
    PROVE  /\ used' \in [Slots -> BOOLEAN]
           /\ pid' \in [Slots -> Pids]
           /\ passes' \in [Slots -> Nat]
<1>1. PICK p \in (IF k = 0 THEN Pids ELSE {Inc(pid[k - 1])}) :
          pid' = [pid EXCEPT ![k] = p]
  BY DEF createTask
<1>2. p \in Pids
  <2>1. CASE k = 0
    BY <2>1, <1>1
  <2>2. CASE k # 0
    <3>1. k - 1 \in Slots
      BY <2>2, MaxTasksAssumption DEF Slots
    <3>2. pid[k - 1] \in Slots
      BY <3>1 DEF TypeOK, Pids, Slots
    <3>3. Inc(pid[k - 1]) \in Pids
      BY <3>2, IncInSlots DEF Pids, Slots
    <3>. QED  BY <3>3, <2>2, <1>1
  <2>. QED  BY <2>1, <2>2
<1>. QED  BY <1>1, <1>2 DEF TypeOK, createTask

LEMMA TypeInit == Init => TypeOK
<1> SUFFICES ASSUME Init PROVE TypeOK
  OBVIOUS
<1>1. 0 \in Slots /\ 0 \in Pids
  BY MaxTasksAssumption DEF Slots, Pids
<1>2. used \in [Slots -> BOOLEAN] /\ gone \in [Slots -> BOOLEAN]
  BY Zenon DEF Init
<1>3. state \in [Slots -> {TASK_ACTIVE, TASK_BLOCKED}]
  BY DEF Init
<1>4. pid \in [Slots -> Pids] /\ target \in [Slots -> Slots]
  BY <1>1 DEF Init
<1>5. doing \in [Slots -> Places]
  BY DEF Init, Places
<1>6. passes \in [Slots -> Nat]
  BY DEF Init
<1>. QED  BY <1>1, <1>2, <1>3, <1>4, <1>5, <1>6 DEF Init, TypeOK

LEMMA TypeNext == TypeOK /\ [Next]_vars => TypeOK'
<1> SUFFICES ASSUME TypeOK, [Next]_vars
             PROVE  TypeOK'
  OBVIOUS
<1>1. CASE UNCHANGED vars
  BY <1>1 DEF vars, TypeOK
<1>2. CASE EnterKernelShell
  BY <1>2 DEF EnterKernelShell, TypeOK, table, waits, Places
<1>3. ASSUME NEW k \in Slots, RunInit(k)
      PROVE  TypeOK'
  BY <1>3, CreateTaskType DEF RunInit, TypeOK, waits, Places, TASK_BLOCKED
<1>4. CASE RunInitFails
  BY <1>4 DEF RunInitFails, TypeOK, table, waits
<1>5. CASE BeginCreateProcess
  BY <1>5 DEF BeginCreateProcess, TypeOK, table, waits, Places
<1>6. ASSUME NEW k \in Slots, CreateProcess(k)
      PROVE  TypeOK'
  BY <1>6, CreateTaskType DEF CreateProcess, TypeOK, waits, Places
<1>7. CASE CreateProcessFails
  BY <1>7 DEF CreateProcessFails, TypeOK, table, waits, Places
<1>8. CASE Exit
  BY <1>8 DEF Exit, FreeSlot, TypeOK, Places
<1>9. ASSUME NEW p \in Pids, KillOther(p)
      PROVE  TypeOK'
  BY <1>9 DEF KillOther, FreeSlot, TypeOK
<1>10. CASE KillZero
  BY <1>10 DEF KillZero, TypeOK, waits, TASK_BLOCKED
<1>11. ASSUME NEW p \in Pids, waitpid(p)
       PROVE  TypeOK'
  BY <1>11 DEF waitpid, TypeOK, table, Places
<1>12. CASE waitpidReturns
  BY <1>12, MaxTasksAssumption
  DEF waitpidReturns, TypeOK, table, Places, Slots
<1>13. CASE start_task_atomic
  BY <1>13 DEF start_task_atomic, TypeOK, table, waits
<1>14. CASE end_task_atomic
  BY <1>14 DEF end_task_atomic, TypeOK, table, waits
<1>15. ASSUME NEW k \in Slots, schedule(k)
       PROVE  TypeOK'
  BY <1>15 DEF schedule, TypeOK, table, waits, Places
<1>16. CASE scheduleHeldOff
  BY <1>16 DEF scheduleHeldOff, vars, TypeOK
<1>. QED
  BY <1>1, <1>2, <1>3, <1>4, <1>5, <1>6, <1>7, <1>8, <1>9, <1>10, <1>11,
     <1>12, <1>13, <1>14, <1>15, <1>16
  DEF Next, Tick, SystemCall, KernelShell

\* Every variable stays in its range.
THEOREM TypeCorrect == Spec => []TypeOK
BY TypeInit, TypeNext, PTL DEF Spec

-----------------------------------------------------------------------------
(* Creating a task keeps the control part of the invariant.                *)

\* The new tenant of a slot other than 0 has the slot's number as its pid,
\* because every slot before the first unused one is in use.
LEMMA CreateTaskPid ==
    ASSUME TypeOK, Control, NEW k \in Slots, createTask(k), k # 0
    PROVE  pid' = [pid EXCEPT ![k] = k]
<1>1. ~used[k] /\ \A j \in Slots : j < k => used[j]
  BY DEF createTask, IsFinalElement
<1>2. k - 1 \in Slots /\ used[k - 1]
  BY <1>1, MaxTasksAssumption DEF Slots
<1>3. pid[k - 1] = k - 1
  <2>1. CASE k = 1
    <3>1. state[0] = TASK_ACTIVE
      BY <2>1, <1>1, <1>2
      DEF TypeOK, Control, InitAlive
    <3>. QED  BY <3>1, <2>1 DEF Control, KernelFirst, RunningPid
  <2>2. CASE k # 1
    BY <2>2, <1>2 DEF Control, PidIsSlot, Slots
  <2>. QED  BY <2>1, <2>2
<1>4. Inc(pid[k - 1]) = k
  BY <1>3, MaxTasksAssumption DEF Inc, Slots
<1>. QED  BY <1>4 DEF createTask

\* A system call that creates no task leaves the pids and the processor, and
\* of the blocked tasks and the used slots only takes away what is not init.
LEMMA ControlKept ==
    ASSUME TypeOK, Control,
           pid' = pid, runningTask' = runningTask, runningTask # 0,
           \A k \in Slots : used'[k] => used[k],
           used'[1] = used[1], state'[1] = state[1],
           \A k \in Slots : state[k] = TASK_BLOCKED => state'[k] = TASK_BLOCKED,
           state'[0] \in {TASK_ACTIVE, TASK_BLOCKED}
    PROVE  Control'
<1>1. 0 \in Slots /\ 1 \in Slots
  BY MaxTasksAssumption DEF Slots
<1>2. state[0] = TASK_BLOCKED /\ state'[0] = TASK_BLOCKED
  BY <1>1 DEF TypeOK, Control, KernelFirst
<1>3. RunningPid' /\ PidIsSlot'
  BY DEF Control, RunningPid, PidIsSlot
<1>4. KernelFirst'
  BY <1>2 DEF KernelFirst, TASK_ACTIVE, TASK_BLOCKED
<1>5. InitAlive'
  BY <1>2 DEF Control, InitAlive
<1>. QED  BY <1>3, <1>4, <1>5 DEF Control

\* init, once there, runs in slot 1 under pid 1, and no other slot but 0 has
\* that pid: kill of another pid spares it.
LEMMA KillSparesInit ==
    ASSUME TypeOK, Control, runningTask # 0,
           NEW p \in Pids, p # InitPid,
           NEW k \in Slots, IsTaskForPid(k, p)
    PROVE  k # 1
<1>1. 0 \in Slots /\ 1 \in Slots
  BY MaxTasksAssumption DEF Slots
<1>2. state[0] = TASK_BLOCKED
  BY <1>1 DEF TypeOK, Control, KernelFirst
<1>3. pid[1] = 1
  BY <1>1, <1>2 DEF Control, InitAlive, PidIsSlot
<1>. QED  BY <1>3 DEF IsTaskForPid, InitPid

-----------------------------------------------------------------------------
(* Tasks: the invariant holds and is kept.                                 *)

LEMMA InitControl == Init => Control /\ PassesBounded
<1> SUFFICES ASSUME Init
             PROVE  Control /\ PassesBounded
  OBVIOUS
<1>1. 0 \in Slots /\ 1 \in Slots
  BY MaxTasksAssumption DEF Slots
<1>2. RunningPid /\ KernelFirst
  BY <1>1 DEF Init, RunningPid, KernelFirst
<1>3. PidIsSlot /\ InitAlive
  BY <1>1 DEF Init, PidIsSlot, InitAlive, TASK_ACTIVE, TASK_BLOCKED
<1>4. PassesBounded
  <2> SUFFICES ASSUME NEW k \in Slots
               PROVE  passes[k] + Gap(k) <= MAX_TASKS
    BY DEF PassesBounded
  <2>1. passes[k] = 0 /\ runningTask = 0
    BY DEF Init
  <2>2. Gap(k) \in 1 .. MAX_TASKS
    BY <2>1, <1>1, DistanceRange DEF Gap
  <2>. QED  BY <2>1, <2>2, MaxTasksAssumption
<1>. QED  BY <1>2, <1>3, <1>4 DEF Control

LEMMA NextControl == TypeOK /\ Control /\ [Next]_vars => Control'
<1> SUFFICES ASSUME TypeOK, Control, [Next]_vars
             PROVE  Control'
  OBVIOUS
<1>1. 0 \in Slots /\ 1 \in Slots
  BY MaxTasksAssumption DEF Slots
<1>2. ASSUME doing[runningTask] \notin {"boot", "kernel"}
      PROVE  runningTask # 0
  BY <1>2 DEF Control, KernelFirst
<1>3. CASE UNCHANGED <<table, runningTask, doing>>
  BY <1>3 DEF table, Control, RunningPid, PidIsSlot, KernelFirst, InitAlive
<1>4. CASE EnterKernelShell
  BY <1>1, <1>4 DEF EnterKernelShell, TypeOK, table, Control, RunningPid,
                    PidIsSlot, KernelFirst, InitAlive
<1>5. ASSUME NEW k \in Slots, RunInit(k)
      PROVE  Control'
  <2>1. runningTask = 0 /\ runningTask' = 0 /\ createTask(k) /\ used[0]
    BY <1>5 DEF RunInit, Control, KernelFirst
  <2>2. k # 0 /\ ~used[k] /\ \A j \in Slots : j < k => used[j]
    BY <1>5, <2>1 DEF RunInit, createTask, IsFinalElement, Slots
  <2>3. pid' = [pid EXCEPT ![k] = k]
    BY <2>1, <2>2, CreateTaskPid
  <2>4. used' = [used EXCEPT ![k] = TRUE]
    BY <2>1 DEF createTask
  <2>5. used'[1] /\ used'[0]
    BY <1>1, <2>1, <2>2, <2>4 DEF TypeOK, Slots
  <2>6. state' = [state EXCEPT ![0] = TASK_BLOCKED]
    BY <1>5 DEF RunInit
  <2>7. RunningPid' /\ PidIsSlot'
    BY <1>1, <2>1, <2>2, <2>3, <2>4
    DEF TypeOK, Control, RunningPid, PidIsSlot
  <2>8. doing'[0] \in {"boot", "kernel"}
    BY <1>1, <1>5, <2>2 DEF RunInit, TypeOK
  <2>9. KernelFirst' /\ InitAlive'
    BY <1>1, <2>1, <2>5, <2>6, <2>8
    DEF TypeOK, Control, KernelFirst, InitAlive, TASK_ACTIVE, TASK_BLOCKED
  <2>. QED  BY <2>7, <2>9 DEF Control
<1>6. CASE RunInitFails
  BY <1>3, <1>6 DEF RunInitFails
<1>7. CASE BeginCreateProcess \/ CreateProcessFails \/ waitpidReturns
           \/ \E p \in Pids : waitpid(p)
  <2>1. runningTask # 0 /\ UNCHANGED <<used, state, pid, runningTask>>
    BY <1>2, <1>7 DEF BeginCreateProcess, CreateProcessFails, waitpidReturns,
                      waitpid, InProgram, table
  <2>. QED  BY <2>1, ControlKept, <1>1 DEF TypeOK
<1>8. ASSUME NEW k \in Slots, CreateProcess(k)
      PROVE  Control'
  <2>1. runningTask # 0 /\ runningTask' = runningTask /\ state' = state
    BY <1>2, <1>8 DEF CreateProcess
  <2>2. state[0] = TASK_BLOCKED /\ used[1]
    BY <1>1, <2>1 DEF TypeOK, Control, KernelFirst, InitAlive
  <2>3. createTask(k) /\ used' = [used EXCEPT ![k] = TRUE]
    BY <1>8 DEF CreateProcess, createTask
  <2>4. RunningPid' /\ PidIsSlot'
    <3>1. CASE k = 0
      BY <1>1, <2>1, <2>3, <3>1
      DEF createTask, TypeOK, Control, RunningPid, PidIsSlot
    <3>2. CASE k # 0
      BY <1>1, <2>1, <2>3, <3>2, CreateTaskPid
      DEF TypeOK, Control, RunningPid, PidIsSlot
    <3>. QED  BY <3>1, <3>2
  <2>5. KernelFirst' /\ InitAlive'
    BY <1>1, <2>1, <2>2, <2>3
    DEF TypeOK, Control, KernelFirst, InitAlive, TASK_ACTIVE, TASK_BLOCKED
  <2>. QED  BY <2>4, <2>5 DEF Control
<1>9. ASSUME NEW p \in Pids, p # InitPid, InProgram,
             NEW k \in Slots, IsTaskForPid(k, p), FreeSlot(k)
      PROVE  Control'
  <2>1. runningTask # 0
    BY <1>2, <1>9 DEF InProgram
  <2>2. k # 1
    BY <1>9, <2>1, KillSparesInit
  <2>. QED  BY <1>1, <1>9, <2>1, <2>2, ControlKept DEF FreeSlot, TypeOK
<1>10. CASE Exit
  <2>1. pid[runningTask] \in Pids
    BY DEF TypeOK
  <2>. QED  BY <1>9, <1>10, <2>1 DEF Exit
<1>11. ASSUME NEW p \in Pids, KillOther(p)
       PROVE  Control'
  BY <1>9, <1>11 DEF KillOther, InitPid
<1>12. CASE KillZero
  <2>1. runningTask # 0 /\ runningTask # 1
    BY <1>2, <1>12 DEF KillZero, InProgram, Control, RunningPid, InitPid
  <2>. QED  BY <1>1, <1>12, <2>1, ControlKept DEF KillZero, TypeOK, TASK_BLOCKED
<1>13. CASE start_task_atomic \/ end_task_atomic \/ scheduleHeldOff
  BY <1>3, <1>13 DEF start_task_atomic, end_task_atomic, scheduleHeldOff, vars,
                     table
<1>14. ASSUME NEW k \in Slots, schedule(k)
       PROVE  Control'
  <2>1. Runnable(k) /\ runningTask' = k /\ UNCHANGED <<used, state, pid>>
    BY <1>14 DEF schedule, IsNextTask, table
  <2>2. CASE k = 0
    <3>1. runningTask = 0
      BY <2>1, <2>2 DEF Runnable, Control, KernelFirst
    <3>2. doing'[0] = doing[0]
      BY <1>1, <1>14, <2>2, <3>1 DEF schedule, TypeOK, Control, KernelFirst
    <3>. QED
      BY <2>1, <2>2, <3>1, <3>2
      DEF Control, RunningPid, PidIsSlot, KernelFirst, InitAlive
  <2>3. CASE k # 0
    <3>1. state[0] # TASK_ACTIVE
      BY <2>1, <2>3 DEF Runnable, Control, KernelFirst
    <3>2. pid[k] = k
      BY <2>1, <2>3 DEF Runnable, Control, PidIsSlot
    <3>. QED
      BY <2>1, <2>3, <3>1, <3>2
      DEF Control, RunningPid, PidIsSlot, KernelFirst, InitAlive
  <2>. QED  BY <2>2, <2>3
<1>. QED
  BY <1>3, <1>4, <1>5, <1>6, <1>7, <1>8, <1>10, <1>11, <1>12, <1>13, <1>14
  DEF Next, Tick, SystemCall, KernelShell, vars, table

\* A step that leaves the processor, and after which every runnable task was
\* runnable before with the same count, or has the count 0.
LEMMA PassesKept ==
    ASSUME TypeOK, PassesBounded, runningTask' = runningTask,
           \A k \in Slots : Runnable(k)' =>
             passes'[k] = 0 \/ (Runnable(k) /\ passes'[k] = passes[k])
    PROVE  PassesBounded'
<1> SUFFICES ASSUME NEW k \in Slots, Runnable(k)'
             PROVE  passes'[k] + Gap(k)' <= MAX_TASKS
  BY DEF PassesBounded
<1>1. Gap(k)' = Gap(k)
  BY DEF Gap
<1>2. Gap(k) \in 1 .. MAX_TASKS
  BY DistanceRange DEF Gap, TypeOK
<1>3. CASE passes'[k] = 0
  BY <1>1, <1>2, <1>3, MaxTasksAssumption
<1>4. CASE Runnable(k) /\ passes'[k] = passes[k]
  BY <1>1, <1>4 DEF PassesBounded
<1>. QED  BY <1>3, <1>4

LEMMA NextPasses ==
    TypeOK /\ Control /\ PassesBounded /\ [Next]_vars => PassesBounded'
<1> SUFFICES ASSUME TypeOK, Control, PassesBounded, [Next]_vars
             PROVE  PassesBounded'
  OBVIOUS
<1>1. CASE UNCHANGED <<table, runningTask, passes>>
  BY <1>1, PassesKept DEF table, Runnable
<1>2. ASSUME NEW k \in Slots, createTask(k), runningTask' = runningTask,
             state' = state \/ state' = [state EXCEPT ![0] = TASK_BLOCKED]
      PROVE  PassesBounded'
  <2>1. ASSUME NEW j \in Slots, Runnable(j)'
        PROVE  passes'[j] = 0 \/ (Runnable(j) /\ passes'[j] = passes[j])
    BY <1>2, <2>1
    DEF createTask, Runnable, TypeOK, TASK_ACTIVE, TASK_BLOCKED
  <2>. QED  BY <1>2, <2>1, PassesKept
<1>3. ASSUME NEW k \in Slots, FreeSlot(k)
      PROVE  PassesBounded'
  BY <1>3, PassesKept DEF FreeSlot, Runnable, TypeOK
<1>4. CASE KillZero
  BY <1>4, PassesKept DEF KillZero, Runnable, TypeOK, TASK_ACTIVE, TASK_BLOCKED
<1>5. ASSUME NEW k \in Slots, schedule(k)
      PROVE  PassesBounded'
  <2> SUFFICES ASSUME NEW j \in Slots, Runnable(j)'
               PROVE  passes'[j] + Gap(j)' <= MAX_TASKS
    BY DEF PassesBounded
  <2>1. Runnable(j) /\ Runnable(k) /\ runningTask' = k
    BY <1>5 DEF schedule, IsNextTask, table, Runnable
  <2>2. Gap(j)' = RR!Distance(k, j) /\ Gap(j)' \in 1 .. MAX_TASKS
    BY <2>1, DistanceRange DEF Gap
  <2>3. CASE j = k
    <3>1. passes'[j] = 0
      BY <1>5, <2>3 DEF schedule
    <3>. QED  BY <2>2, <3>1, MaxTasksAssumption
  <2>4. CASE j # k
    <3>1. passes'[j] = passes[j] + 1
      BY <1>5, <2>1, <2>4 DEF schedule
    <3>2. RR!Distance(runningTask, k) <= RR!Distance(runningTask, j)
      <4>1. Steps(Inc(runningTask), k) <= Steps(Inc(runningTask), j)
        BY <1>5, <2>1 DEF schedule, IsNextTask, Control, RunningPid
      <4>2. /\ Steps(Inc(runningTask), k) \in Nat
            /\ Steps(Inc(runningTask), j) \in Nat
        BY IncInSlots, StepsRange DEF TypeOK
      <4>. QED  BY <4>1, <4>2, StepsAreDistance DEF TypeOK
    <3>3. Gap(j)' + 1 <= Gap(j)
      BY <2>2, <2>4, <3>2, DistanceDecreases DEF Gap, TypeOK
    <3>4. passes[j] + Gap(j) <= MAX_TASKS
      BY <2>1 DEF PassesBounded
    <3>5. Gap(j) \in Int /\ Gap(j)' \in Int /\ passes[j] \in Int
      BY <2>2, DistanceRange DEF Gap, TypeOK
    <3>. QED  BY <3>1, <3>3, <3>4, <3>5, MaxTasksAssumption
  <2>. QED  BY <2>3, <2>4
<1>6. CASE KernelShell
  BY <1>1, <1>2, <1>6
  DEF KernelShell, EnterKernelShell, RunInit, RunInitFails
<1>7. CASE SystemCall
  BY <1>1, <1>2, <1>3, <1>4, <1>7
  DEF SystemCall, BeginCreateProcess, CreateProcess, CreateProcessFails, Exit,
      KillOther, waitpid, waitpidReturns, start_task_atomic, end_task_atomic
<1>8. CASE Tick \/ UNCHANGED vars
  BY <1>1, <1>5, <1>8 DEF Tick, scheduleHeldOff, vars, table
<1>. QED  BY <1>6, <1>7, <1>8 DEF Next

LEMMA IInvInit == Init => IInv
BY TypeInit, InitControl DEF IInv

LEMMA IInvNext == IInv /\ [Next]_vars => IInv'
BY TypeNext, NextControl, NextPasses DEF IInv

THEOREM Invariance == Spec => []IInv
BY IInvInit, IInvNext, PTL DEF Spec

-----------------------------------------------------------------------------
(* Tasks: what follows.                                                    *)

\* The pid a task gets is the number of its slot.
THEOREM PidIsSlotInvariant == Spec => []PidIsSlot
<1>1. IInv => PidIsSlot
  BY DEF IInv, Control
<1>. QED  BY <1>1, Invariance, PTL

\* schedule's loop always ends: the kernel task before init was started, and
\* init from then on, may run.
THEOREM SomeoneRunnableInvariant == Spec => []SomeoneRunnable
<1>1. IInv => SomeoneRunnable
  <2> SUFFICES ASSUME IInv
               PROVE  \E k \in Slots : Runnable(k)
    BY DEF SomeoneRunnable
  <2>1. 0 \in Slots /\ 1 \in Slots
    BY MaxTasksAssumption DEF Slots
  <2>2. CASE state[0] = TASK_ACTIVE
    BY <2>1, <2>2 DEF IInv, Control, KernelFirst, Runnable
  <2>3. CASE state[0] = TASK_BLOCKED
    BY <2>1, <2>3 DEF IInv, Control, InitAlive, Runnable
  <2>. QED  BY <2>1, <2>2, <2>3 DEF IInv, TypeOK
<1>. QED  BY <1>1, Invariance, PTL

\* No runnable task is passed over MAX_TASKS times.
THEOREM BoundedWaitingInvariant == Spec => []BoundedWaiting
<1>1. IInv => BoundedWaiting
  <2> SUFFICES ASSUME IInv, NEW k \in Slots, Runnable(k)
               PROVE  passes[k] < MAX_TASKS
    BY DEF BoundedWaiting
  <2>1. Gap(k) \in 1 .. MAX_TASKS
    BY DistanceRange DEF IInv, TypeOK, Gap
  <2>2. passes[k] + Gap(k) <= MAX_TASKS /\ passes[k] \in Nat
    BY DEF IInv, PassesBounded, TypeOK
  <2>. QED  BY <2>1, <2>2, MaxTasksAssumption
<1>. QED  BY <1>1, Invariance, PTL

\* The kernel task does not come back.
THEOREM KernelTaskRetires == Spec => KernelTaskRetired
<1>1. IInv /\ [Next]_vars => [runningTask # 0 => runningTask' # 0]_vars
  <2> SUFFICES ASSUME IInv, Next, runningTask # 0
               PROVE  runningTask' # 0
    BY DEF vars
  <2>1. CASE runningTask' = runningTask
    BY <2>1
  <2>2. ASSUME NEW k \in Slots, schedule(k)
        PROVE  runningTask' # 0
    BY <2>2
    DEF schedule, IsNextTask, Runnable, IInv, Control, KernelFirst
  <2>3. CASE KernelShell \/ SystemCall \/ scheduleHeldOff
    BY <2>1, <2>3
    DEF KernelShell, EnterKernelShell, RunInit, RunInitFails, SystemCall,
        BeginCreateProcess, CreateProcess, CreateProcessFails, Exit, FreeSlot,
        KillOther, KillZero, waitpid, waitpidReturns, start_task_atomic,
        end_task_atomic, scheduleHeldOff, vars
  <2>. QED  BY <2>2, <2>3 DEF Next, Tick
<1>. QED  BY <1>1, Invariance, PTL DEF Spec, KernelTaskRetired

\* The processor goes round the runnable slots in cyclic order.
THEOREM RefinesRoundRobin == Spec => ImplementsRoundRobin
<1>1. Init => RR!Init
  <2> SUFFICES ASSUME Init
               PROVE  RR!Init
    OBVIOUS
  <2>1. 0 \in Slots
    BY MaxTasksAssumption DEF Slots
  <2>2. \A k \in Slots : Runnable(k) <=> k = 0
    BY Zenon DEF Init, Runnable
  <2>. QED  BY <2>1, <2>2 DEF Init, RR!Init
<1>2. IInv /\ [Next]_vars => [RR!Next]_RR!vars
  <2> SUFFICES ASSUME IInv, [Next]_vars
               PROVE  [RR!Next]_RR!vars
    OBVIOUS
  <2>1. CASE runningTask' = runningTask
    <3>1. {k \in Slots : Runnable(k)}' \in SUBSET RR!Slots
      BY DEF RR!Slots, Slots
    <3>. QED  BY <2>1, <3>1 DEF RR!Next, RR!Change
  <2>2. ASSUME NEW k \in Slots, schedule(k)
        PROVE  RR!Next
    <3>1. Runnable(k) /\ runningTask' = k
      BY <2>2 DEF schedule, IsNextTask
    <3>2. {j \in Slots : Runnable(j)}' = {j \in Slots : Runnable(j)}
      BY <2>2 DEF schedule, table, Runnable
    <3>3. ASSUME NEW j \in Slots, Runnable(j)
          PROVE  RR!Distance(runningTask, k) <= RR!Distance(runningTask, j)
      <4>1. Steps(Inc(runningTask), k) <= Steps(Inc(runningTask), j)
        BY <2>2, <3>3 DEF schedule, IsNextTask, IInv, Control, RunningPid
      <4>2. /\ Steps(Inc(runningTask), k) \in Nat
            /\ Steps(Inc(runningTask), j) \in Nat
        BY IncInSlots, StepsRange DEF IInv, TypeOK
      <4>. QED  BY <4>1, <4>2, StepsAreDistance DEF IInv, TypeOK
    <3>4. RR!Switch(k)
      BY <3>1, <3>2, <3>3 DEF RR!Switch
    <3>. QED  BY <3>4 DEF RR!Next, RR!Slots, Slots
  <2>3. CASE KernelShell \/ SystemCall \/ scheduleHeldOff \/ UNCHANGED vars
    BY <2>1, <2>3
    DEF KernelShell, EnterKernelShell, RunInit, RunInitFails, SystemCall,
        BeginCreateProcess, CreateProcess, CreateProcessFails, Exit, FreeSlot,
        KillOther, KillZero, waitpid, waitpidReturns, start_task_atomic,
        end_task_atomic, scheduleHeldOff, vars
  <2>. QED  BY <2>2, <2>3 DEF Next, Tick
<1>. QED
  BY <1>1, <1>2, Invariance, PTL DEF Spec, ImplementsRoundRobin, RR!Spec

-----------------------------------------------------------------------------
(* Launch: programs only do what Tasks allows.                             *)

LEMMA LaunchStepIsStep ==
    TypeOK /\ [LaunchNext]_allVars => [Next]_vars
<1> SUFFICES ASSUME TypeOK, [LaunchNext]_allVars
             PROVE  [Next]_vars
  OBVIOUS
<1>1. CASE UNCHANGED allVars
  BY <1>1 DEF allVars
<1>2. CASE Progress
  <2>1. CASE HandOver("cwd", "argc") \/ HandOver("argc", "argv")
               \/ HandOver("argv", "end")
    BY <2>1 DEF HandOver
  <2>2. CASE crt0Start \/ Undo \/ EndAtomic
    BY <2>2 DEF crt0Start, Undo, EndAtomic, Next, SystemCall
  <2>3. CASE BeginAtomic("init", "begin")
    BY <2>3 DEF BeginAtomic, Next, SystemCall
  <2>4. CASE Load \/ NotCreated
    BY <2>4 DEF Load, NotCreated, Next, SystemCall
  <2>5. ASSUME NEW k \in Slots,
               Created("init", "tsh", k, {}) \/ Created("tsh", "tsh", k, Context)
                 \/ Created("tsh", "cmd", k, Context)
        PROVE  [Next]_vars
    BY <2>5 DEF Created, Next, SystemCall
  <2>6. CASE Wait
    <3>1. child[runningTask] \in Pids
      BY <2>6 DEF Wait, waitpid, IsTaskForPid, TypeOK
    <3>. QED  BY <2>6, <3>1 DEF Wait, Next, SystemCall
  <2>7. CASE Resume \/ Leave
    BY <2>7 DEF Resume, Leave, Next, SystemCall
  <2>. QED  BY <1>2, <2>1, <2>2, <2>3, <2>4, <2>5, <2>6, <2>7 DEF Progress
<1>3. CASE Typed
  BY <1>3 DEF Typed, BeginAtomic, ExitCommand, Shutdown, Next, SystemCall
<1>4. CASE KernelStep
  BY <1>4 DEF KernelStep, Next, KernelShell
<1>5. CASE TimerStep
  BY <1>5 DEF TimerStep, Next
<1>6. ASSUME NEW k \in Slots, RunInitProgram(k) PROVE [Next]_vars
  BY <1>6 DEF RunInitProgram, Next, KernelShell
<1>. QED  BY <1>1, <1>2, <1>3, <1>4, <1>5, <1>6 DEF LaunchNext

LEMMA LaunchIInv == LaunchSpec => []IInv
<1>1. LaunchInit => IInv
  BY IInvInit DEF LaunchInit
<1>2. IInv /\ [LaunchNext]_allVars => IInv'
  BY IInvNext, LaunchStepIsStep DEF IInv
<1>. QED  BY <1>1, <1>2, PTL DEF LaunchSpec

\* Whatever is proved of Tasks holds of the programs of user/ too.
THEOREM LaunchRefinesTasks == LaunchSpec => Spec
<1>1. LaunchInit => Init
  BY DEF LaunchInit
<1>2. IInv /\ [LaunchNext]_allVars => [Next]_vars
  BY LaunchStepIsStep DEF IInv
<1>. QED  BY <1>1, <1>2, LaunchIInv, PTL DEF LaunchSpec, Spec

-----------------------------------------------------------------------------
(* The inductive invariant of the launch protocol.                         *)

Labels == LaunchLabels \union
    {"none", "start", "prompt", "begin", "wait", "waiting", "exit", "dead",
     "getchar", "off", "spin"}

ProgramTypes ==
    /\ at \in [Slots -> Labels]
    /\ child \in [Slots -> Pids]
    /\ unset \in [Slots -> SUBSET Context]

\* The kernel task is no program, and slots keep their number as pid when
\* they are freed.
Numbered ==
    /\ used[0] /\ pid[0] = 0 /\ at[0] = "none"
    /\ \A k \in Slots : pid[k] \in {0, k}

\* A program before its end has its slot.
Alive == \A k \in Slots : at[k] \notin {"none", "dead"} => used[k]

\* Only the running program is in an atomic period, from its first call of a
\* launch to the last.
Held ==
    /\ \A k \in Slots : at[k] \in LaunchLabels =>
         k = runningTask /\ ~scheduling_enabled
    /\ runningTask # 0 /\ at[runningTask] \notin LaunchLabels
         => scheduling_enabled

\* The labels and Tasks' places agree.
InStep ==
    \A k \in Slots : /\ doing[k] = "wait" => at[k] = "waiting"
                     /\ doing[k] = "dead" => at[k] = "dead"

\* What t_launch has not handed over yet when it is at l.
Left(l) ==
    {c \in Context : \/ l = "cwd"
                     \/ l = "argc" /\ c # "cwd"
                     \/ l = "argv" /\ c = "argv"}

\* Only the running launcher's child may lack something, and it has not run.
OnlyChild ==
    \A k \in Slots : used[k] /\ unset[k] # {} =>
      /\ at[runningTask] \in Context
      /\ k # 0 /\ k # runningTask /\ k = child[runningTask]
      /\ doing[k] = "new"
      /\ unset[k] \subseteq Left(at[runningTask])

Protocol == ProgramTypes /\ Numbered /\ Alive /\ Held /\ InStep /\ OnlyChild

LEMMA ProtocolInit == LaunchInit => Protocol
<1> SUFFICES ASSUME LaunchInit PROVE Protocol
  OBVIOUS
<1>1. 0 \in Slots /\ 0 \in Pids
  BY MaxTasksAssumption DEF Slots, Pids
<1>2. ProgramTypes
  <2>1. at \in [Slots -> Labels]
    <3>1. "none" \in Labels
      BY DEF Labels
    <3>. QED  BY <3>1 DEF LaunchInit
  <2>2. child \in [Slots -> Pids]
    BY <1>1 DEF LaunchInit
  <2>3. unset \in [Slots -> SUBSET Context]
    BY DEF LaunchInit
  <2>. QED  BY <2>1, <2>2, <2>3 DEF ProgramTypes
<1>3. Numbered
  BY <1>1 DEF LaunchInit, Init, Numbered
<1>4. Alive /\ Held
  BY <1>1 DEF LaunchInit, Init, Alive, Held, LaunchLabels
<1>5. InStep
  BY <1>1 DEF LaunchInit, Init, InStep
<1>6. OnlyChild
  BY <1>1 DEF LaunchInit, OnlyChild
<1>. QED  BY <1>2, <1>3, <1>4, <1>5, <1>6 DEF Protocol

\* A step of the running program that changes nothing of Tasks but its place
\* and the switch, and nothing of the programs but its label.
LEMMA OwnStep ==
    ASSUME IInv, Protocol,
           at' \in [Slots -> Labels],
           \A k \in Slots \ {runningTask} : at'[k] = at[k] /\ doing'[k] = doing[k],
           at[runningTask] \notin {"none", "dead"} \union Context,
           doing'[runningTask] = "wait" => at'[runningTask] = "waiting",
           doing'[runningTask] # "dead",
           at'[runningTask] \in LaunchLabels => ~scheduling_enabled',
           at'[runningTask] \notin LaunchLabels => scheduling_enabled',
           UNCHANGED <<table, runningTask, child, unset>>
    PROVE  Protocol'
<1>1. ProgramTypes'
  BY DEF Protocol, ProgramTypes
<1>2. runningTask \in Slots /\ runningTask # 0 /\ 0 \in Slots
  BY MaxTasksAssumption DEF Protocol, Numbered, IInv, TypeOK, Slots
<1>3. Numbered' /\ Alive'
  BY <1>2 DEF Protocol, Numbered, Alive, table
<1>4. Held'
  BY <1>2 DEF Protocol, Held
<1>5. InStep'
  BY <1>2 DEF Protocol, InStep
<1>6. \A k \in Slots : used[k] => unset[k] = {}
  BY DEF Protocol, OnlyChild
<1>7. OnlyChild'
  BY <1>6 DEF OnlyChild, table
<1>. QED  BY <1>1, <1>3, <1>4, <1>5, <1>7 DEF Protocol

LEMMA ProtocolNext == IInv /\ Protocol /\ [LaunchNext]_allVars => Protocol'
<1> SUFFICES ASSUME IInv, Protocol, [LaunchNext]_allVars
             PROVE  Protocol'
  OBVIOUS
<1> DEFINE r == runningTask
<1>a. /\ r \in Slots /\ 0 \in Slots /\ TypeOK /\ pid[r] = r
      /\ ProgramTypes /\ Numbered
  BY MaxTasksAssumption
  DEF IInv, TypeOK, Control, RunningPid, Protocol, Slots
<1>b. ASSUME NEW k \in Slots, NEW p, IsTaskForPid(k, p), p # 0
      PROVE  k = p
  BY <1>a, <1>b DEF IsTaskForPid, Numbered
<1>1. CASE UNCHANGED allVars
  BY <1>1 DEF allVars, vars, table, programs, Protocol, ProgramTypes, Numbered,
              Alive, Held, InStep, OnlyChild
<1>2. CASE crt0Start \/ Undo \/ EndAtomic \/ ExitCommand
  <2>1. ASSUME NEW m \in Labels \ LaunchLabels, Goto(m),
               end_task_atomic, UNCHANGED <<prog, child, unset>>,
               at[r] \notin {"none", "dead"} \union Context
        PROVE  Protocol'
    <3>1. at' \in [Slots -> Labels] /\ at'[r] = m
             /\ \A k \in Slots \ {r} : at'[k] = at[k]
      BY <1>a, <2>1 DEF Goto, ProgramTypes
    <3>2. /\ scheduling_enabled' /\ doing[r] = "user"
          /\ UNCHANGED <<table, runningTask, doing>>
      BY <2>1 DEF end_task_atomic, InProgram
    <3>. QED  BY <2>1, <3>1, <3>2, OwnStep
  <2>2. \E m \in {"prompt", "begin", "spin", "wait", "exit"} : Goto(m)
    <3>1. CASE crt0Start
      BY <3>1 DEF crt0Start
    <3>2. CASE Undo
      BY <3>2 DEF Undo
    <3>3. CASE EndAtomic \/ ExitCommand
      BY <3>3 DEF EndAtomic, ExitCommand
    <3>. QED  BY <1>2, <3>1, <3>2, <3>3
  <2>3. PICK m \in {"prompt", "begin", "spin", "wait", "exit"} : Goto(m)
    BY <2>2
  <2>4. /\ end_task_atomic /\ UNCHANGED <<prog, child, unset>>
        /\ at[r] \in {"start", "undo", "end", "prompt"}
    BY <1>2 DEF crt0Start, Undo, EndAtomic, ExitCommand, At
  <2>5. m \in Labels \ LaunchLabels
    BY <2>3 DEF Labels, LaunchLabels
  <2>. QED  BY <2>1, <2>3, <2>4, <2>5 DEF Context
<1>3. ASSUME NEW p, NEW l \in {"begin", "prompt"}, BeginAtomic(p, l)
      PROVE  Protocol'
  <2>1. at' = [at EXCEPT ![r] = "load"] /\ at[r] = l
    BY <1>3 DEF BeginAtomic, Goto, At
  <2>2. /\ ~scheduling_enabled' /\ doing[r] = "user"
        /\ UNCHANGED <<table, runningTask, doing, child, unset>>
    BY <1>3 DEF BeginAtomic, start_task_atomic, InProgram
  <2>3. at' \in [Slots -> Labels]
    BY <1>a, <2>1 DEF ProgramTypes, Labels, LaunchLabels
  <2>4. at'[r] = "load"
    BY <1>a, <2>1 DEF ProgramTypes
  <2>. QED
    BY <1>a, <2>1, <2>2, <2>3, <2>4, OwnStep
    DEF ProgramTypes, Context, LaunchLabels
<1>4. CASE Load \/ NotCreated
  <2>1. at[r] = "load" /\ ~scheduling_enabled
    BY <1>a, <1>4 DEF Load, NotCreated, Protocol, Held, LaunchLabels
  <2>2. /\ UNCHANGED <<table, runningTask, scheduling_enabled, child, unset>>
        /\ \A k \in Slots \ {r} : doing'[k] = doing[k]
        /\ doing'[r] \in {"load", "user"}
    <3>1. CASE Load
      BY <1>a, <3>1 DEF Load, BeginCreateProcess, programs, TypeOK
    <3>2. CASE NotCreated
      BY <1>a, <3>2 DEF NotCreated, CreateProcessFails, TypeOK
    <3>. QED  BY <1>4, <3>1, <3>2
  <2>3. /\ at' \in [Slots -> Labels] /\ at'[r] \in {"load", "undo"}
        /\ \A k \in Slots \ {r} : at'[k] = at[k]
    <3>1. CASE Load
      BY <1>a, <2>1, <3>1 DEF Load, programs, ProgramTypes
    <3>2. CASE NotCreated
      BY <1>a, <3>2 DEF NotCreated, Goto, ProgramTypes, Labels, LaunchLabels
    <3>. QED  BY <1>4, <3>1, <3>2
  <2>. QED
    BY <1>a, <2>1, <2>2, <2>3, OwnStep DEF Context, LaunchLabels
<1>5. ASSUME NEW p \in {"init", "tsh"}, NEW q, NEW k \in Slots,
             NEW todo \in SUBSET Context, p = "init" => todo = {},
             Created(p, q, k, todo)
      PROVE  Protocol'
  <2>1. k # 0 /\ ~used[k] /\ at[r] = "load" /\ p = prog[r]
    BY <1>a, <1>5
    DEF Created, CreateProcess, createTask, IsFinalElement, Numbered, At
  <2>2. used[r] /\ k # r /\ ~scheduling_enabled /\ r # 0
    BY <1>a, <2>1 DEF Protocol, Alive, Held, Numbered, LaunchLabels
  <2>3. pid' = [pid EXCEPT ![k] = k]
    BY <1>a, <1>5, <2>1, CreateTaskPid DEF Created, CreateProcess, IInv
  <2>4. used' = [used EXCEPT ![k] = TRUE] /\ runningTask' = r
          /\ UNCHANGED scheduling_enabled
          /\ doing' = [doing EXCEPT ![r] = "user", ![k] = "new"]
    BY <1>5 DEF Created, CreateProcess, createTask
  <2>5. child' = [child EXCEPT ![r] = k] /\ unset' = [unset EXCEPT ![k] = todo]
    BY <1>a, <1>5, <2>3 DEF Created, TypeOK
  <2>6. PICK m \in {"cwd", "end"} : /\ m = "end" => todo = {}
                                   /\ at' = [at EXCEPT ![k] = "start", ![r] = m]
    BY <1>5 DEF Created
  <2>7. ProgramTypes'
    <3>1. at' \in [Slots -> Labels]
      BY <1>a, <2>6 DEF ProgramTypes, Labels, LaunchLabels
    <3>2. k \in Pids
      BY DEF Pids, Slots
    <3>. QED  BY <1>a, <2>5, <3>1, <3>2 DEF ProgramTypes
  <2>8. Numbered' /\ Alive'
    <3>1. \A j \in Slots : pid'[j] = IF j = k THEN k ELSE pid[j]
      BY <1>a, <2>3 DEF TypeOK
    <3>2. \A j \in Slots : used'[j] = IF j = k THEN TRUE ELSE used[j]
      BY <1>a, <2>4 DEF TypeOK
    <3>3. \A j \in Slots \ {k, r} : at'[j] = at[j]
      BY <1>a, <2>6 DEF ProgramTypes
    <3>4. Numbered'
      BY <1>a, <2>1, <2>2, <3>1, <3>2, <3>3 DEF Numbered
    <3>5. Alive'
      BY <2>2, <3>2, <3>3 DEF Protocol, Alive
    <3>. QED  BY <3>4, <3>5
  <2>9. Held'
    BY <1>a, <2>1, <2>2, <2>4, <2>6 DEF Held, Protocol, ProgramTypes, LaunchLabels
  <2>10. InStep'
    BY <1>a, <2>1, <2>2, <2>4, <2>6 DEF InStep, Protocol, ProgramTypes, TypeOK
  <2>11. \A j \in Slots : used[j] => unset[j] = {}
    BY <2>1 DEF Protocol, OnlyChild, Context
  <2>12. OnlyChild'
    <3>1. ASSUME NEW j \in Slots, used'[j], unset'[j] # {}
          PROVE  j = k /\ todo # {} /\ m = "cwd"
      BY <1>a, <2>4, <2>5, <2>6, <2>11, <3>1 DEF ProgramTypes, TypeOK
    <3>2. at'[r] = m /\ child'[r] = k /\ doing'[k] = "new" /\ unset'[k] = todo
      BY <1>a, <2>2, <2>4, <2>5, <2>6 DEF ProgramTypes, TypeOK
    <3>3. todo \subseteq Left("cwd")
      BY DEF Left, Context
    <3>4. "cwd" \in Context
      BY DEF Context
    <3>. QED  BY <2>1, <2>2, <2>4, <3>1, <3>2, <3>3, <3>4 DEF OnlyChild
  <2>. QED  BY <2>7, <2>8, <2>9, <2>10, <2>12 DEF Protocol
<1>6. ASSUME NEW c \in Context, NEW l \in {"argc", "argv", "end"}, HandOver(c, l),
             Left(c) \ {c} = Left(l)
      PROVE  Protocol'
  <2>1. PICK m \in Slots : /\ IsTaskForPid(m, child[r])
                           /\ unset' = [unset EXCEPT ![m] = @ \ {c}]
    BY <1>6 DEF HandOver
  <2>2. at[r] = c /\ doing[r] = "user" /\ at' = [at EXCEPT ![r] = l]
          /\ UNCHANGED <<vars, child>>
    BY <1>6 DEF HandOver, At, Goto
  <2>3. at' \in [Slots -> Labels] /\ at'[r] = l
          /\ \A k \in Slots \ {r} : at'[k] = at[k]
    BY <1>a, <1>6, <2>2 DEF ProgramTypes, Labels, LaunchLabels
  <2>4. ProgramTypes'
    BY <1>a, <2>1, <2>2, <2>3 DEF ProgramTypes
  <2>5. r # 0 /\ ~scheduling_enabled /\ used[r]
    BY <1>a, <2>2 DEF Protocol, Numbered, Held, Alive, LaunchLabels, Context
  <2>6. Numbered' /\ Alive' /\ InStep'
    BY <1>a, <2>2, <2>3, <2>5 DEF Numbered, Alive, InStep, Protocol, vars
  <2>7. Held'
    BY <1>a, <2>2, <2>3, <2>5 DEF Held, Protocol, vars, LaunchLabels
  <2>8. ASSUME NEW k \in Slots, used'[k], unset'[k] # {}
        PROVE  /\ l \in Context
               /\ k # 0 /\ k # r /\ k = child[r]
               /\ doing[k] = "new"
               /\ unset'[k] \subseteq Left(l)
    <3>1. used[k] /\ unset[k] # {}
      BY <1>a, <2>1, <2>2, <2>8 DEF vars, ProgramTypes
    <3>2. /\ k # 0 /\ k # r /\ k = child[r] /\ doing[k] = "new"
          /\ unset[k] \subseteq Left(c)
      BY <2>2, <3>1 DEF Protocol, OnlyChild
    <3>3. m = k
      BY <1>b, <2>1, <3>2
    <3>4. unset'[k] \subseteq Left(l)
      BY <1>a, <1>6, <2>1, <3>2, <3>3 DEF ProgramTypes
    <3>5. l \in Context
      BY <2>8, <3>4 DEF Left, Context
    <3>. QED  BY <3>2, <3>4, <3>5
  <2>9. OnlyChild'
    BY <2>2, <2>3, <2>8 DEF OnlyChild, vars
  <2>. QED  BY <2>4, <2>6, <2>7, <2>9 DEF Protocol
<1>7. CASE Wait \/ Resume
  <2>1. at[r] \in {"wait", "waiting"} /\ at[r] \notin LaunchLabels
    BY <1>7 DEF Wait, Resume, LaunchLabels
  <2>2. r # 0 /\ scheduling_enabled
    BY <1>a, <2>1 DEF Protocol, Numbered, Held
  <2>3. PICK m \in {"waiting", "prompt", "getchar"} : Goto(m)
    BY <1>7 DEF Wait, Resume
  <2>4. at' \in [Slots -> Labels] /\ at'[r] = m
          /\ \A k \in Slots \ {r} : at'[k] = at[k]
    BY <1>a, <2>3 DEF ProgramTypes, Goto, Labels
  <2>5. UNCHANGED <<table, runningTask, scheduling_enabled, child, unset>>
    BY <1>7 DEF Wait, Resume, waitpid, waitpidReturns
  <2>6. /\ \A k \in Slots \ {r} : doing'[k] = doing[k]
        /\ doing'[r] = "wait" => m = "waiting"
        /\ doing'[r] # "dead"
    <3>1. CASE Wait
      <4>1. Goto("waiting") /\ doing' = [doing EXCEPT ![r] = "wait"]
        BY <3>1 DEF Wait, waitpid
      <4>. QED  BY <1>a, <2>4, <4>1 DEF Goto, ProgramTypes, TypeOK
    <3>2. CASE Resume
      BY <1>a, <3>2 DEF Resume, waitpidReturns, TypeOK
    <3>. QED  BY <1>7, <3>1, <3>2
  <2>. QED
    BY <2>1, <2>2, <2>4, <2>5, <2>6, OwnStep DEF Context, LaunchLabels
<1>9. CASE Leave
  <2>1. /\ at[r] \in {"exit", "prompt"} /\ Goto("dead")
        /\ doing' = [doing EXCEPT ![r] = "dead"]
        /\ UNCHANGED <<child, unset>>
    BY <1>9 DEF Leave, Exit, At
  <2>2. r # 0 /\ scheduling_enabled
    BY <1>a, <2>1 DEF Protocol, Numbered, Held, LaunchLabels
  <2>3. PICK k \in Slots : IsTaskForPid(k, pid[r]) /\ FreeSlot(k)
    BY <1>9 DEF Leave, Exit
  <2>4. k = r
    BY <1>a, <1>b, <2>2, <2>3
  <2>5. used' = [used EXCEPT ![r] = FALSE]
          /\ UNCHANGED <<pid, runningTask, scheduling_enabled>>
    BY <2>3, <2>4 DEF FreeSlot
  <2>6. at' \in [Slots -> Labels] /\ at'[r] = "dead"
          /\ \A j \in Slots \ {r} : at'[j] = at[j]
    BY <1>a, <2>1 DEF ProgramTypes, Goto, Labels
  <2>7. ProgramTypes' /\ Numbered'
    BY <1>a, <2>1, <2>2, <2>5, <2>6 DEF ProgramTypes, Numbered, TypeOK
  <2>8. Alive' /\ Held' /\ InStep'
    <3>1. Alive'
      BY <1>a, <2>5, <2>6 DEF Protocol, Alive, TypeOK
    <3>2. Held'
      BY <2>2, <2>5, <2>6 DEF Protocol, Held, LaunchLabels
    <3>3. InStep'
      BY <1>a, <2>1, <2>6 DEF Protocol, InStep, TypeOK
    <3>. QED  BY <3>1, <3>2, <3>3
  <2>9. OnlyChild'
    <3>1. \A j \in Slots : used[j] => unset[j] = {}
      BY <2>1 DEF Protocol, OnlyChild, Context
    <3>. QED  BY <1>a, <2>1, <2>5, <3>1 DEF OnlyChild, TypeOK
  <2>. QED  BY <2>7, <2>8, <2>9 DEF Protocol
<1>10. CASE Shutdown
  <2>1. /\ at[r] = "getchar" /\ at' = [at EXCEPT ![r] = "off"]
        /\ UNCHANGED <<vars, child, unset>> /\ doing[r] = "user"
    BY <1>10 DEF Shutdown, At, Goto
  <2>2. at' \in [Slots -> Labels] /\ at'[r] = "off"
          /\ \A k \in Slots \ {r} : at'[k] = at[k]
    BY <1>a, <2>1 DEF ProgramTypes, Labels
  <2>3. scheduling_enabled
    BY <1>a, <2>1 DEF Protocol, Numbered, Held, LaunchLabels
  <2>. QED
    BY <2>1, <2>2, <2>3, OwnStep DEF vars, table, Context, LaunchLabels
<1>11. CASE KernelStep
  <2>1. r = 0 /\ UNCHANGED <<table, runningTask, at, child, unset>>
    BY <1>11
    DEF KernelStep, EnterKernelShell, RunInitFails, programs, IInv, Control,
        KernelFirst
  <2>2. doing' = doing \/ doing' = [doing EXCEPT ![0] = "kernel"]
    BY <1>11 DEF KernelStep, EnterKernelShell, RunInitFails
  <2>3. ProgramTypes' /\ Numbered' /\ Alive'
    BY <1>a, <2>1 DEF ProgramTypes, Numbered, Protocol, Alive, table
  <2>4. \A k \in Slots : at[k] \notin LaunchLabels
    BY <1>a, <2>1 DEF Protocol, Held, Numbered, LaunchLabels
  <2>5. Held'
    BY <2>1, <2>4 DEF Held
  <2>6. InStep' /\ OnlyChild'
    <3>1. InStep'
      <4>1. \A k \in Slots : doing'[k] = doing[k] \/ doing'[k] = "kernel"
        BY <1>a, <2>2 DEF TypeOK
      <4>. QED  BY <2>1, <4>1 DEF Protocol, InStep
    <3>2. \A j \in Slots : used[j] => unset[j] = {}
      BY <1>a, <2>1, <2>4 DEF Protocol, OnlyChild, LaunchLabels, Context
    <3>3. OnlyChild'
      BY <2>1, <3>2 DEF OnlyChild, table
    <3>. QED  BY <3>1, <3>3
  <2>. QED  BY <2>3, <2>5, <2>6 DEF Protocol
<1>12. ASSUME NEW k \in Slots, schedule(k), UNCHANGED programs
       PROVE  Protocol'
  <2>1. /\ scheduling_enabled /\ scheduling_enabled' /\ runningTask' = k
        /\ UNCHANGED <<table, at, child, unset>>
        /\ doing' = [doing EXCEPT ![k] = IF @ = "new" THEN "user" ELSE @]
    BY <1>12 DEF schedule, programs
  <2>2. \A j \in Slots : at[j] \notin LaunchLabels
    BY <2>1 DEF Protocol, Held
  <2>3. ProgramTypes' /\ Numbered' /\ Alive' /\ Held'
    BY <1>a, <2>1, <2>2
    DEF ProgramTypes, Numbered, Protocol, Alive, table, Held
  <2>4. InStep'
    BY <1>a, <2>1, <1>12 DEF Protocol, InStep, TypeOK
  <2>5. \A j \in Slots : used[j] => unset[j] = {}
    BY <1>a, <2>2 DEF Protocol, OnlyChild, LaunchLabels, Context
  <2>6. OnlyChild'
    BY <2>1, <2>5 DEF OnlyChild, table
  <2>. QED  BY <2>3, <2>4, <2>6 DEF Protocol
<1>13. ASSUME NEW k \in Slots, RunInitProgram(k)
       PROVE  Protocol'
  <2>1. /\ r = 0 /\ k # 0 /\ ~used[k] /\ runningTask' = 0
        /\ used' = [used EXCEPT ![k] = TRUE]
        /\ doing' = [doing EXCEPT ![k] = "new"]
        /\ at' = [at EXCEPT ![k] = "start"]
        /\ unset' = [unset EXCEPT ![k] = {}] /\ UNCHANGED child
    BY <1>a, <1>13
    DEF RunInitProgram, RunInit, createTask, IsFinalElement, Numbered
  <2>2. pid' = [pid EXCEPT ![k] = k]
    BY <1>a, <1>13, <2>1, CreateTaskPid DEF RunInitProgram, RunInit, IInv
  <2>3. \A j \in Slots : at[j] \notin LaunchLabels
    BY <1>a, <2>1 DEF Protocol, Held, Numbered, LaunchLabels
  <2>4. at' \in [Slots -> Labels] /\ at'[k] = "start"
          /\ \A j \in Slots \ {k} : at'[j] = at[j]
    BY <1>a, <2>1 DEF ProgramTypes, Labels
  <2>5. ProgramTypes'
    BY <1>a, <2>1, <2>4 DEF ProgramTypes
  <2>6. Numbered' /\ Alive'
    BY <1>a, <2>1, <2>2, <2>4 DEF Numbered, Protocol, Alive, TypeOK
  <2>7. Held'
    BY <2>1, <2>3, <2>4 DEF Held, LaunchLabels
  <2>8. InStep'
    BY <1>a, <2>1, <2>4 DEF Protocol, InStep, TypeOK
  <2>9. \A j \in Slots : used[j] => unset[j] = {}
    BY <1>a, <2>3 DEF Protocol, OnlyChild, LaunchLabels, Context
  <2>10. OnlyChild'
    BY <1>a, <2>1, <2>9 DEF OnlyChild, ProgramTypes, TypeOK
  <2>. QED  BY <2>5, <2>6, <2>7, <2>8, <2>10 DEF Protocol
<1>14. /\ Left("cwd") \ {"cwd"} = Left("argc")
       /\ Left("argc") \ {"argc"} = Left("argv")
       /\ Left("argv") \ {"argv"} = Left("end")
  BY DEF Left, Context
<1>15. CASE Progress
  <2>1. ASSUME NEW k \in Slots,
               Created("init", "tsh", k, {}) \/ Created("tsh", "tsh", k, Context)
                 \/ Created("tsh", "cmd", k, Context)
        PROVE  Protocol'
    BY <1>5, <2>1
  <2>2. CASE HandOver("cwd", "argc") \/ HandOver("argc", "argv")
               \/ HandOver("argv", "end")
    BY <1>6, <1>14, <2>2 DEF Context
  <2>. QED
    BY <1>2, <1>3, <1>4, <1>7, <1>9, <1>15, <2>1, <2>2 DEF Progress
<1>16. CASE Typed
  BY <1>2, <1>3, <1>10, <1>16 DEF Typed
<1>17. CASE TimerStep
  <2>1. CASE scheduleHeldOff
    BY <1>1, <1>17, <2>1 DEF TimerStep, scheduleHeldOff, allVars
  <2>. QED  BY <1>12, <1>17, <2>1 DEF TimerStep, Tick
<1>. QED
  BY <1>1, <1>11, <1>13, <1>15, <1>16, <1>17 DEF LaunchNext

LEMMA ProtocolInvariant == LaunchSpec => []Protocol
BY ProtocolInit, ProtocolNext, LaunchIInv, PTL DEF LaunchSpec

-----------------------------------------------------------------------------
(* What follows.                                                           *)

\* crt0 of a process never reads arguments, and its program never uses a
\* working directory, that a previous tenant of its slot left there.
THEOREM EnvReadyInvariant == LaunchSpec => []EnvReady
<1>1. Protocol => EnvReady
  BY DEF Protocol, OnlyChild, EnvReady
<1>. QED  BY <1>1, ProtocolInvariant, PTL

\* Nobody waits, or spins after its end, with the scheduler held off.
THEOREM NoHeldWaitInvariant == LaunchSpec => []NoHeldWait
<1>1. IInv /\ Protocol => NoHeldWait
  <2> SUFFICES ASSUME IInv, Protocol, runningTask # 0,
                      doing[runningTask] \in {"wait", "dead"}
               PROVE  scheduling_enabled
    BY DEF NoHeldWait
  <2>1. at[runningTask] \in {"waiting", "dead"}
    BY DEF IInv, TypeOK, Protocol, InStep
  <2>. QED  BY <2>1 DEF Protocol, Held, LaunchLabels
<1>. QED  BY <1>1, ProtocolInvariant, LaunchIInv, PTL
-----------------------------------------------------------------------------
(* Labels fit programs, and one program at most is not waiting for the one *)
(* it has started.                                                         *)

\* It has a child to start or to wait for.
Delegating(k) == at[k] \in Context \union {"end", "wait", "waiting"}

\* The first init, the shells and the commands: any other init spins.
Interactive(k) == k # 0 /\ used[k] /\ (prog[k] = "init" => k = InitPid)

\* Nobody it has started is alive.
Leaf(k) == Interactive(k) /\ ~(Delegating(k) /\ used[child[k]])

OtherInitsSpin ==
    \A k \in Slots : prog[k] = "init" /\ at[k] \notin {"start", "spin"} => k = InitPid

\* Nobody has run while the kernel task runs.
NobodyRan ==
    runningTask = 0 => \A k \in Slots : prog[k] \in {"none", "init"}

\* A task, but for the kernel's, has a program.
Inhabited == \A k \in Slots \ {0} : used[k] => prog[k] # "none"

\* The slot that waitpid polls is that of the child.
PollsChild == \A k \in Slots : doing[k] = "wait" => target[k] = child[k]

OneLeaf == \A j, k \in Slots : Leaf(j) /\ Leaf(k) => j = k

OneParent ==
    \A j, k \in Slots :
      /\ Interactive(j) /\ Delegating(j) /\ Interactive(k) /\ Delegating(k)
      /\ child[j] = child[k] /\ used[child[j]]
      => j = k

Chain ==
    LaunchTypeOK /\ OtherInitsSpin /\ NobodyRan /\ Inhabited /\ PollsChild /\ OneLeaf
      /\ OneParent

\* The labels of every program, written out.
LEMMA LabelFacts ==
    /\ LabelsOf("none") = {"none"}
    /\ LabelsOf("init") = {"start", "begin", "load", "undo", "end", "wait",
                           "waiting", "getchar", "off", "spin"}
    /\ LabelsOf("tsh") = LaunchLabels \union
                            {"start", "prompt", "wait", "waiting", "exit", "dead"}
    /\ LabelsOf("cmd") = {"start", "prompt", "dead"}
BY DEF LabelsOf

LEMMA ChainInit == LaunchInit => Chain
<1> SUFFICES ASSUME LaunchInit PROVE Chain
  OBVIOUS
<1>1. 0 \in Slots /\ 0 \in Pids
  BY MaxTasksAssumption DEF Slots, Pids
<1>2. LaunchTypeOK
  <2>1. "none" \in Programs
    BY DEF Programs
  <2>2. prog \in [Slots -> Programs]
    BY <2>1 DEF LaunchInit
  <2>3. \A k \in Slots : at[k] \in LabelsOf(prog[k])
    BY LabelFacts DEF LaunchInit
  <2>4. at \in [Slots -> UNION {LabelsOf(p) : p \in Programs}]
    BY <2>2, <2>3 DEF LaunchInit
  <2>5. child \in [Slots -> Pids] /\ unset \in [Slots -> SUBSET Context]
    BY <1>1 DEF LaunchInit
  <2>. QED  BY <2>2, <2>3, <2>4, <2>5 DEF LaunchTypeOK
<1>3. \A k \in Slots : ~Interactive(k)
  BY DEF LaunchInit, Init, Interactive
<1>4. OtherInitsSpin /\ NobodyRan /\ Inhabited
  BY DEF LaunchInit, Init, OtherInitsSpin, NobodyRan, Inhabited
<1>5. PollsChild
  BY DEF LaunchInit, Init, PollsChild
<1>6. OneLeaf /\ OneParent
  BY <1>3 DEF OneLeaf, OneParent, Leaf
<1>. QED  BY <1>2, <1>4, <1>5, <1>6 DEF Chain

\* Labels stay fitting where the running program goes to one of its own.
LEMMA LabelsFit ==
    ASSUME LaunchTypeOK, Protocol', runningTask \in Slots,
           NEW m \in LabelsOf(prog[runningTask]),
           at' = [at EXCEPT ![runningTask] = m], prog' = prog
    PROVE  LaunchTypeOK'
<1>1. /\ \A k \in Slots : at'[k] \in LabelsOf(prog'[k])
      /\ prog' \in [Slots -> Programs]
  BY DEF LaunchTypeOK
<1>. QED  BY <1>1 DEF LaunchTypeOK, Protocol, ProgramTypes

\* A step of the running program that starts and ends nobody leaves the
\* relation of parents and children as it is.
LEMMA MoveStep ==
    ASSUME IInv, Protocol, Chain, Protocol',
           NEW m \in LabelsOf(prog[runningTask]),
           at' = [at EXCEPT ![runningTask] = m],
           UNCHANGED <<prog, child, used, runningTask>>,
           runningTask # 0,
           prog[runningTask] = "init" /\ m \notin {"start", "spin"}
             => runningTask = InitPid,
           at[runningTask] \in Context \union {"end", "wait", "waiting"}
             <=> m \in Context \union {"end", "wait", "waiting"},
           PollsChild'
    PROVE  Chain'
<1>1. runningTask \in Slots
  BY DEF IInv, TypeOK
<1>2. LaunchTypeOK'
  BY <1>1, LabelsFit DEF Chain
<1>3. \A k \in Slots : at'[k] = IF k = runningTask THEN m ELSE at[k]
  BY <1>1 DEF Chain, LaunchTypeOK
<1>4. OtherInitsSpin' /\ NobodyRan' /\ Inhabited'
  BY <1>3 DEF Chain, OtherInitsSpin, NobodyRan, Inhabited
<1>5. \A k \in Slots : /\ Delegating(k)' = Delegating(k)
                       /\ Interactive(k)' = Interactive(k)
  BY <1>3 DEF Delegating, Interactive
<1>6. OneLeaf' /\ OneParent'
  BY <1>5 DEF Chain, OneLeaf, OneParent, Leaf
<1>. QED  BY <1>2, <1>4, <1>6 DEF Chain

LEMMA ChainNext == IInv /\ Protocol /\ Chain /\ [LaunchNext]_allVars => Chain'
<1> SUFFICES ASSUME IInv, Protocol, Chain, [LaunchNext]_allVars
             PROVE  Chain'
  OBVIOUS
<1> DEFINE r == runningTask
           Delegates == Context \union {"end", "wait", "waiting"}
<1>a. /\ r \in Slots /\ 0 \in Slots /\ TypeOK /\ pid[r] = r
      /\ ProgramTypes /\ Numbered /\ LaunchTypeOK
      /\ at[r] \in LabelsOf(prog[r]) /\ prog[r] \in Programs
  BY MaxTasksAssumption
  DEF IInv, TypeOK, Control, RunningPid, Protocol, Slots, Chain, LaunchTypeOK
<1>b. Protocol'
  BY ProtocolNext
<1>c. at[r] # "none" => r # 0
  BY <1>a DEF Numbered
<1>d. prog[r] = "init" /\ at[r] \notin {"start", "spin"} => r = InitPid
  BY <1>a DEF Chain, OtherInitsSpin
<1>1. CASE UNCHANGED allVars
  <2>1. UNCHANGED <<prog, at, child, unset, used, runningTask, doing, target>>
    BY <1>1 DEF allVars, vars, table, programs
  <2>. QED
    BY <2>1 DEF Chain, LaunchTypeOK, OtherInitsSpin, NobodyRan, Inhabited, PollsChild, OneLeaf,
                OneParent, Leaf, Delegating, Interactive
<1>2. ASSUME NEW m \in LabelsOf(prog[r]), Goto(m), at[r] # "none",
             UNCHANGED <<prog, child, used, runningTask>>,
             m \in Delegates <=> at[r] \in Delegates,
             prog[r] = "init" /\ m \notin {"start", "spin"} => r = InitPid,
             \/ UNCHANGED target /\ \A k \in Slots : doing'[k] = "wait" => doing[k] = "wait"
             \/ PollsChild'
      PROVE  Chain'
  <2>1. PollsChild'
    BY <1>2 DEF Chain, PollsChild
  <2>. QED  BY <1>2, <1>b, <1>c, <2>1, MoveStep DEF Goto
<1>3. CASE crt0Start
  <2>1. prog[r] \in {"init", "tsh", "cmd"} /\ at[r] = "start"
    BY <1>3, <1>a, LabelFacts DEF crt0Start, Programs
  <2>2. UNCHANGED <<prog, child, used, runningTask, target, doing>>
    BY <1>3 DEF crt0Start, end_task_atomic, table, waits
  <2>3. CASE prog[r] # "init"
    <3>1. Goto("prompt") /\ "prompt" \in LabelsOf(prog[r])
      BY <1>3, <2>1, <2>3, LabelFacts DEF crt0Start, LaunchLabels
    <3>. QED  BY <1>2, <2>1, <2>2, <2>3, <3>1 DEF Context
  <2>4. CASE prog[r] = "init" /\ r = InitPid
    <3>1. Goto("begin") /\ "begin" \in LabelsOf(prog[r])
      BY <1>3, <1>a, <2>4, LabelFacts DEF crt0Start
    <3>. QED  BY <1>2, <2>1, <2>2, <2>4, <3>1 DEF Context
  <2>5. CASE prog[r] = "init" /\ r # InitPid
    <3>1. Goto("spin") /\ "spin" \in LabelsOf(prog[r])
      BY <1>3, <1>a, <2>5, LabelFacts DEF crt0Start
    <3>. QED  BY <1>2, <2>1, <2>2, <2>5, <3>1 DEF Context
  <2>. QED  BY <2>3, <2>4, <2>5
<1>4. CASE BeginAtomic("init", "begin") \/ BeginAtomic("tsh", "prompt")
  <2>1. /\ prog[r] \in {"init", "tsh"} /\ at[r] \in {"begin", "prompt"} /\ Goto("load")
        /\ UNCHANGED <<prog, child, used, runningTask, target, doing>>
    BY <1>4 DEF BeginAtomic, At, start_task_atomic, table, waits
  <2>2. "load" \in LabelsOf(prog[r])
    BY <2>1, LabelFacts DEF LaunchLabels
  <2>. QED  BY <1>2, <1>d, <2>1, <2>2 DEF Context
<1>5. CASE Load
  <2>1. /\ UNCHANGED <<prog, at, child, unset, used, runningTask, target>>
        /\ \A k \in Slots : doing'[k] = "wait" => doing[k] = "wait"
    BY <1>5, <1>a DEF Load, programs, BeginCreateProcess, table, waits, TypeOK
  <2>. QED
    BY <2>1 DEF Chain, LaunchTypeOK, OtherInitsSpin, NobodyRan, Inhabited, PollsChild, OneLeaf,
                OneParent, Leaf, Delegating, Interactive
<1>6. CASE NotCreated
  <2>1. /\ at[r] = "load" /\ Goto("undo")
        /\ UNCHANGED <<prog, child, used, runningTask, target>>
        /\ \A k \in Slots : doing'[k] = "wait" => doing[k] = "wait"
    BY <1>6, <1>a DEF NotCreated, CreateProcessFails, table, waits, TypeOK
  <2>2. "undo" \in LabelsOf(prog[r])
    BY <1>a, <2>1, LabelFacts DEF LaunchLabels, Programs
  <2>. QED  BY <1>2, <1>d, <2>1, <2>2 DEF Context
<1>7. CASE Undo
  <2>1. /\ at[r] = "undo"
        /\ UNCHANGED <<prog, child, used, runningTask, target, doing>>
        /\ Goto(IF prog[r] = "tsh" THEN "prompt" ELSE "spin")
    BY <1>7 DEF Undo, end_task_atomic, table, waits
  <2>2. PICK m \in {"prompt", "spin"} : Goto(m) /\ m \in LabelsOf(prog[r])
    BY <1>a, <2>1, LabelFacts DEF LaunchLabels, Programs
  <2>. QED  BY <1>2, <1>d, <2>1, <2>2 DEF Context
<1>8. ASSUME NEW c, NEW l, <<c, l>> \in {<<"cwd", "argc">>, <<"argc", "argv">>, <<"argv", "end">>},
             HandOver(c, l)
      PROVE  Chain'
  <2>1. /\ prog[r] = "tsh" /\ at[r] = c /\ Goto(l)
        /\ UNCHANGED <<prog, child, used, runningTask, target, doing>>
    BY <1>8 DEF HandOver, At, vars
  <2>2. l \in LabelsOf(prog[r]) /\ c \in Delegates /\ l \in Delegates /\ c # "none"
    BY <1>8, <2>1, LabelFacts DEF LaunchLabels, Context
  <2>. QED  BY <1>2, <2>1, <2>2
<1>9. CASE EndAtomic
  <2>1. /\ at[r] = "end" /\ Goto("wait")
        /\ UNCHANGED <<prog, child, used, runningTask, target, doing>>
    BY <1>9 DEF EndAtomic, end_task_atomic, table, waits
  <2>2. "wait" \in LabelsOf(prog[r])
    BY <1>a, <2>1, LabelFacts DEF LaunchLabels, Programs
  <2>. QED  BY <1>2, <1>d, <2>1, <2>2
<1>10. CASE Wait
  <2>1. /\ at[r] = "wait" /\ Goto("waiting")
        /\ UNCHANGED <<prog, child, used, runningTask>>
        /\ doing' = [doing EXCEPT ![r] = "wait"]
    BY <1>10 DEF Wait, waitpid, table
  <2>2. "waiting" \in LabelsOf(prog[r])
    BY <1>a, <2>1, LabelFacts DEF LaunchLabels, Programs
  <2>3. PICK k \in Slots : /\ IsTaskForPid(k, child[r])
                           /\ target' = [target EXCEPT ![r] = k]
    BY <1>10 DEF Wait, waitpid
  <2>4. k = child[r]
    BY <1>a, <2>3 DEF IsTaskForPid, Numbered, ProgramTypes, Pids, Slots
  <2>5. PollsChild'
    BY <1>a, <2>1, <2>3, <2>4 DEF Chain, PollsChild, TypeOK
  <2>. QED  BY <1>2, <1>d, <2>1, <2>2, <2>5
<1>11. CASE Resume
  <2>1. /\ at[r] = "waiting" /\ doing[r] = "wait" /\ ~used[target[r]]
        /\ UNCHANGED <<prog, child, used, runningTask>>
        /\ doing' = [doing EXCEPT ![r] = "user"]
        /\ target' = [target EXCEPT ![r] = 0]
    BY <1>11 DEF Resume, waitpidReturns, table
  <2>2. PICK m \in {"prompt", "getchar"} : Goto(m) /\ m \in LabelsOf(prog[r])
    BY <1>11, <1>a, <2>1, LabelFacts DEF Resume, LaunchLabels, Programs
  <2>3. LaunchTypeOK'
    BY <1>a, <1>b, <2>1, <2>2, LabelsFit DEF Goto
  <2>4. \A k \in Slots : at'[k] = IF k = r THEN m ELSE at[k]
    BY <1>a, <2>2 DEF Goto, ProgramTypes
  <2>5. OtherInitsSpin' /\ NobodyRan' /\ Inhabited' /\ PollsChild'
    BY <1>a, <1>d, <2>1, <2>4
    DEF Chain, OtherInitsSpin, NobodyRan, Inhabited, PollsChild, TypeOK
  <2>6. ~used[child[r]]
    BY <1>a, <2>1 DEF Chain, PollsChild
  <2>7. \A k \in Slots : /\ Leaf(k)' <=> Leaf(k)
                         /\ Interactive(k)' <=> Interactive(k)
                         /\ Delegating(k)' => Delegating(k)
    BY <2>1, <2>4, <2>6 DEF Leaf, Interactive, Delegating, Context
  <2>8. OneLeaf'
    BY <2>7 DEF Chain, OneLeaf
  <2>9. OneParent'
    BY <2>1, <2>7 DEF Chain, OneParent
  <2>. QED  BY <2>3, <2>5, <2>8, <2>9 DEF Chain
<1>12. CASE ExitCommand \/ Shutdown
  <2>1. /\ UNCHANGED <<prog, child, used, runningTask, target, doing>>
        /\ \/ prog[r] = "tsh" /\ at[r] = "prompt" /\ Goto("exit")
           \/ prog[r] = "init" /\ at[r] = "getchar" /\ Goto("off")
    BY <1>12 DEF ExitCommand, Shutdown, At, end_task_atomic, table, waits, vars
  <2>2. PICK m \in {"exit", "off"} : Goto(m) /\ m \in LabelsOf(prog[r])
    BY <2>1, LabelFacts
  <2>. QED  BY <1>2, <1>d, <2>1, <2>2 DEF Context
<1>13. ASSUME NEW p \in {"init", "tsh"}, NEW q \in {"tsh", "cmd"}, NEW k \in Slots,
              NEW todo, Created(p, q, k, todo)
       PROVE  Chain'
  <2>1. k # 0 /\ ~used[k] /\ at[r] = "load" /\ prog[r] = p /\ doing[r] = "load"
    BY <1>a, <1>13
    DEF Created, CreateProcess, createTask, IsFinalElement, Numbered, At
  <2>2. used[r] /\ k # r /\ r # 0
    BY <1>a, <1>c, <2>1 DEF Protocol, Alive
  <2>3. pid' = [pid EXCEPT ![k] = k]
    BY <1>a, <1>13, <2>1, CreateTaskPid DEF Created, CreateProcess, IInv
  <2>4. /\ used' = [used EXCEPT ![k] = TRUE] /\ runningTask' = r
        /\ doing' = [doing EXCEPT ![r] = "user", ![k] = "new"]
        /\ target' = target
        /\ child' = [child EXCEPT ![r] = k]
        /\ prog' = [prog EXCEPT ![k] = q]
        /\ unset' = [unset EXCEPT ![k] = todo]
    BY <1>a, <1>13, <2>3 DEF Created, CreateProcess, createTask, waits, TypeOK
  <2>5. PICK m \in {"cwd", "end"} :
             m \in LabelsOf(p) /\ at' = [at EXCEPT ![k] = "start", ![r] = m]
    BY <1>13, LabelFacts DEF Created, LaunchLabels
  <2>6. /\ \A j \in Slots : at'[j] = IF j = r THEN m ELSE IF j = k THEN "start" ELSE at[j]
        /\ \A j \in Slots : prog'[j] = IF j = k THEN q ELSE prog[j]
        /\ \A j \in Slots : used'[j] = IF j = k THEN TRUE ELSE used[j]
        /\ \A j \in Slots : child'[j] = IF j = r THEN k ELSE child[j]
        /\ \A j \in Slots : child[j] \in Slots
    BY <1>a, <2>2, <2>4, <2>5 DEF ProgramTypes, TypeOK, LaunchTypeOK, Pids, Slots
  <2>7. LaunchTypeOK'
    <3>1. prog' \in [Slots -> Programs]
      BY <1>a, <2>4 DEF LaunchTypeOK, Programs
    <3>2. \A j \in Slots : at'[j] \in LabelsOf(prog'[j])
      BY <1>a, <2>1, <2>2, <2>5, <2>6, LabelFacts DEF LaunchTypeOK
    <3>3. ProgramTypes'
      BY <1>b DEF Protocol
    <3>. QED  BY <3>1, <3>2, <3>3 DEF LaunchTypeOK, ProgramTypes
  <2>8. OtherInitsSpin' /\ NobodyRan' /\ Inhabited'
    <3>1. OtherInitsSpin'
      BY <1>d, <2>1, <2>6 DEF Chain, OtherInitsSpin
    <3>2. NobodyRan'
      BY <2>2, <2>4 DEF NobodyRan
    <3>3. Inhabited'
      BY <2>6 DEF Chain, Inhabited
    <3>. QED  BY <3>1, <3>2, <3>3
  <2>9. PollsChild'
    BY <1>a, <2>2, <2>4, <2>6 DEF Chain, PollsChild, TypeOK
  <2>10. Leaf(r)
    BY <1>d, <2>1, <2>2 DEF Leaf, Interactive, Delegating, Context
  <2>11. \A j \in Slots \ {r} : Interactive(j) => Delegating(j) /\ used[child[j]]
    BY <1>a, <2>10 DEF Chain, OneLeaf, Leaf
  <2>12. /\ \A j \in Slots \ {k} : Interactive(j)' <=> Interactive(j)
         /\ \A j \in Slots \ {k, r} : Delegating(j)' <=> Delegating(j)
         /\ ~Delegating(k)'
    <3>1. \A j \in Slots \ {k} : Interactive(j)' <=> Interactive(j)
      BY <2>6 DEF Interactive
    <3>2. \A j \in Slots \ {k, r} : Delegating(j)' <=> Delegating(j)
      BY <2>6 DEF Delegating
    <3>3. ~Delegating(k)'
      BY <2>2, <2>6 DEF Delegating, Context
    <3>. QED  BY <3>1, <3>2, <3>3
  <2>13. \A j \in Slots \ {k} : ~Leaf(j)'
    <3>1. ASSUME NEW j \in Slots, j = r PROVE ~Leaf(j)'
      <4>1. at'[j] = m /\ child'[j] = k /\ used'[k]
        BY <2>6, <3>1
      <4>. QED  BY <4>1 DEF Leaf, Delegating, Context
    <3>2. ASSUME NEW j \in Slots \ {k, r} PROVE ~Leaf(j)'
      BY <2>6, <2>11, <2>12, <3>2 DEF Leaf
    <3>. QED  BY <3>1, <3>2
  <2>14. OneLeaf'
    BY <2>13 DEF OneLeaf
  <2>15. OneParent'
    <3> SUFFICES ASSUME NEW i \in Slots, NEW j \in Slots,
                        Interactive(i)', Delegating(i)', Interactive(j)', Delegating(j)',
                        child'[i] = child'[j], used'[child'[i]]
                 PROVE  i = j
      BY DEF OneParent
    <3>1. i # k /\ j # k
      BY <2>12
    <3>2. \A h \in Slots \ {k, r} : Interactive(h) => child[h] # k
      BY <2>1, <2>11
    <3>3. CASE i = r \/ j = r
      BY <2>6, <2>12, <3>1, <3>2, <3>3
    <3>4. CASE i # r /\ j # r
      BY <2>6, <2>11, <2>12, <3>1, <3>4 DEF Chain, OneParent
    <3>. QED  BY <3>3, <3>4
  <2>. QED  BY <2>7, <2>8, <2>9, <2>14, <2>15 DEF Chain
<1>14. CASE Leave
  <2>1. /\ prog[r] \in {"tsh", "cmd"} /\ at[r] \in {"exit", "prompt"} /\ Goto("dead")
        /\ doing' = [doing EXCEPT ![r] = "dead"]
        /\ UNCHANGED <<prog, child, unset>>
    BY <1>14 DEF Leave, Exit, At
  <2>2. r # 0
    BY <1>c, <2>1
  <2>3. PICK k \in Slots : IsTaskForPid(k, r) /\ FreeSlot(k)
    BY <1>14, <1>a DEF Leave, Exit
  <2>4. k = r
    BY <1>a, <2>2, <2>3 DEF IsTaskForPid, Numbered
  <2>5. used' = [used EXCEPT ![r] = FALSE] /\ UNCHANGED <<runningTask, target>>
    BY <2>3, <2>4 DEF FreeSlot
  <2>6. LaunchTypeOK'
    BY <1>a, <1>b, <2>1, LabelsFit, LabelFacts DEF Goto, LaunchLabels
  <2>7. /\ \A j \in Slots : at'[j] = IF j = r THEN "dead" ELSE at[j]
        /\ \A j \in Slots : used'[j] = IF j = r THEN FALSE ELSE used[j]
        /\ \A j \in Slots : child[j] \in Slots
    BY <1>a, <2>1, <2>5 DEF Goto, ProgramTypes, TypeOK, Pids, Slots
  <2>8. OtherInitsSpin' /\ NobodyRan' /\ Inhabited' /\ PollsChild'
    BY <1>a, <1>d, <2>1, <2>2, <2>5, <2>7
    DEF Chain, OtherInitsSpin, NobodyRan, Inhabited, PollsChild, TypeOK
  <2>9. Leaf(r)
    BY <1>a, <2>1, <2>2 DEF Leaf, Interactive, Delegating, Context, Protocol, Alive
  <2>10. \A j \in Slots \ {r} : Interactive(j) => Delegating(j) /\ used[child[j]]
    BY <1>a, <2>9 DEF Chain, OneLeaf, Leaf
  <2>11. /\ ~Interactive(r)'
         /\ \A j \in Slots \ {r} : Interactive(j)' <=> Interactive(j)
         /\ \A j \in Slots \ {r} : Delegating(j)' <=> Delegating(j)
    <3>1. ~Interactive(r)'
      BY <1>a, <2>5, <2>7 DEF Interactive
    <3>2. \A j \in Slots \ {r} : Interactive(j)' <=> Interactive(j)
      BY <2>1, <2>7 DEF Interactive
    <3>3. \A j \in Slots \ {r} : Delegating(j)' <=> Delegating(j)
      BY <2>7 DEF Delegating
    <3>. QED  BY <3>1, <3>2, <3>3
  <2>12. ASSUME NEW j \in Slots, Leaf(j)'
         PROVE  j # r /\ Interactive(j) /\ Delegating(j) /\ child[j] = r
    <3>1. j # r /\ Interactive(j) /\ Delegating(j) /\ used[child[j]]
      BY <2>5, <2>10, <2>11, <2>12 DEF Leaf
    <3>2. ~used'[child[j]]
      BY <2>1, <2>11, <2>12, <3>1 DEF Leaf
    <3>. QED  BY <2>7, <3>1, <3>2
  <2>13. OneLeaf'
    <3>1. used[r]
      BY <2>9 DEF Leaf, Interactive
    <3>. QED  BY <2>12, <3>1 DEF OneLeaf, OneParent, Chain
  <2>14. OneParent'
    <3>1. \A j \in Slots : Interactive(j)' => j # r
      BY <2>5, <2>11
    <3>. QED  BY <2>1, <2>7, <2>11, <3>1 DEF OneParent, Chain
  <2>. QED  BY <2>6, <2>8, <2>13, <2>14 DEF Chain
<1>15. CASE KernelStep
  <2>1. /\ UNCHANGED <<prog, at, child, unset, used, runningTask, target>>
        /\ \A k \in Slots : doing'[k] = "wait" => doing[k] = "wait"
    BY <1>15, <1>a
    DEF KernelStep, EnterKernelShell, RunInitFails, programs, table, waits, TypeOK
  <2>. QED
    BY <2>1 DEF Chain, LaunchTypeOK, OtherInitsSpin, NobodyRan, Inhabited, PollsChild, OneLeaf,
                OneParent, Leaf, Delegating, Interactive
<1>16. ASSUME NEW k \in Slots, schedule(k), UNCHANGED programs
       PROVE  Chain'
  <2>1. /\ UNCHANGED <<prog, at, child, unset, used, target>> /\ runningTask' = k
        /\ \A j \in Slots : doing'[j] = "wait" => doing[j] = "wait"
    BY <1>16, <1>a DEF schedule, programs, table, waits, TypeOK
  <2>2. k = 0 => r = 0
    BY <1>16 DEF schedule, IsNextTask, Runnable, IInv, Control, KernelFirst
  <2>3. /\ LaunchTypeOK' /\ OtherInitsSpin' /\ NobodyRan' /\ Inhabited' /\ PollsChild'
    BY <2>1, <2>2 DEF Chain, LaunchTypeOK, OtherInitsSpin, NobodyRan, Inhabited, PollsChild
  <2>4. OneLeaf' /\ OneParent'
    BY <2>1 DEF Chain, OneLeaf, OneParent, Leaf, Delegating, Interactive
  <2>. QED  BY <2>3, <2>4 DEF Chain
<1>17. ASSUME NEW k \in Slots, RunInitProgram(k)
       PROVE  Chain'
  <2>1. /\ r = 0 /\ k # 0 /\ ~used[k] /\ runningTask' = 0
        /\ used' = [used EXCEPT ![k] = TRUE]
        /\ doing' = [doing EXCEPT ![k] = "new"]
        /\ at' = [at EXCEPT ![k] = "start"]
        /\ prog' = [prog EXCEPT ![k] = "init"]
        /\ UNCHANGED <<child, target>>
    BY <1>a, <1>17
    DEF RunInitProgram, RunInit, createTask, IsFinalElement, Numbered, waits
  <2>2. /\ \A j \in Slots : at'[j] = IF j = k THEN "start" ELSE at[j]
        /\ \A j \in Slots : prog'[j] = IF j = k THEN "init" ELSE prog[j]
        /\ \A j \in Slots : used'[j] = IF j = k THEN TRUE ELSE used[j]
    BY <1>a, <2>1 DEF ProgramTypes, TypeOK, LaunchTypeOK
  <2>3. LaunchTypeOK'
    <3>1. prog' \in [Slots -> Programs]
      BY <1>a, <2>1 DEF LaunchTypeOK, Programs
    <3>2. \A j \in Slots : at'[j] \in LabelsOf(prog'[j])
      BY <1>a, <2>2, LabelFacts DEF LaunchTypeOK
    <3>3. ProgramTypes'
      BY <1>b DEF Protocol
    <3>. QED  BY <3>1, <3>2, <3>3 DEF LaunchTypeOK, ProgramTypes
  <2>4. OtherInitsSpin' /\ NobodyRan' /\ Inhabited' /\ PollsChild'
    BY <1>a, <2>1, <2>2 DEF Chain, OtherInitsSpin, NobodyRan, Inhabited, PollsChild, TypeOK
  <2>5. ASSUME NEW j \in Slots, Interactive(j)'
        PROVE  j = InitPid
    <3>1. prog'[j] \in {"none", "init"}
      BY <2>1, <2>4 DEF NobodyRan
    <3>. QED  BY <2>4, <2>5, <3>1 DEF Interactive, Inhabited
  <2>6. OneLeaf' /\ OneParent'
    BY <2>5 DEF OneLeaf, OneParent, Leaf
  <2>. QED  BY <2>3, <2>4, <2>6 DEF Chain
<1>18. CASE Progress
  <2>1. ASSUME NEW k \in Slots,
               Created("init", "tsh", k, {}) \/ Created("tsh", "tsh", k, Context)
                 \/ Created("tsh", "cmd", k, Context)
        PROVE  Chain'
    BY <1>13, <2>1
  <2>. QED
    BY <1>3, <1>4, <1>5, <1>6, <1>7, <1>8, <1>9, <1>10, <1>11, <1>14, <1>18, <2>1
    DEF Progress
<1>19. CASE Typed
  BY <1>4, <1>12, <1>19 DEF Typed
<1>20. CASE TimerStep
  <2>1. CASE scheduleHeldOff
    BY <1>1, <1>20, <2>1 DEF TimerStep, scheduleHeldOff, allVars
  <2>. QED  BY <1>16, <1>20, <2>1 DEF TimerStep, Tick
<1>. QED
  BY <1>1, <1>15, <1>17, <1>18, <1>19, <1>20 DEF LaunchNext

LEMMA ChainInvariant == LaunchSpec => []Chain
BY ChainInit, ChainNext, ProtocolInvariant, LaunchIInv, PTL DEF LaunchSpec

\* Every program is at a label of its own, and every value stays in its range.
THEOREM LaunchTypeCorrect == LaunchSpec => []LaunchTypeOK
<1>1. Chain => LaunchTypeOK
  BY DEF Chain
<1>. QED  BY <1>1, ChainInvariant, PTL

\* However shells are nested and whoever ends first, one program at most is
\* in getchar: the keyboard buffer needs no lock.
THEOREM OneReaderInvariant == LaunchSpec => []OneReader
<1>1. Protocol /\ Chain => OneReader
  <2> SUFFICES ASSUME Protocol, Chain
               PROVE  OneReader
    OBVIOUS
  <2> DEFINE readers == {k \in Slots : Reading(k)}
  <2>1. ASSUME NEW k \in readers PROVE Leaf(k)
    <3>1. used[k] /\ at[k] \in {"prompt", "getchar"} /\ k # 0
      BY <2>1 DEF Reading, Protocol, Numbered
    <3>2. prog[k] = "init" => k = InitPid
      BY <2>1, <3>1 DEF Chain, OtherInitsSpin
    <3>. QED  BY <3>1, <3>2 DEF Leaf, Interactive, Delegating, Context
  <2>2. \A j, k \in readers : j = k
    BY <2>1 DEF Chain, OneLeaf
  <2>3. CASE readers = {}
    BY <2>3, FS_EmptySet DEF OneReader
  <2>4. CASE readers # {}
    <3>1. PICK k \in readers : readers = {k}
      BY <2>2, <2>4
    <3>. QED  BY <3>1, FS_Singleton DEF OneReader
  <2>. QED  BY <2>3, <2>4
<1>. QED  BY <1>1, ChainInvariant, ProtocolInvariant, PTL
=============================================================================
