------------------------- MODULE KernelStackProofs -------------------------
(***************************************************************************)
(* Proofs about KernelStack for every number of slots and every depth: the *)
(* programs on their stack are those of Launch, a polling waitpid keeps    *)
(* its frames, and only getchar, disk accesses and waitpid's lookup can    *)
(* ever go on without theirs.                                              *)
(***************************************************************************)
EXTENDS KernelStack, LaunchProofs

-----------------------------------------------------------------------------
(* The stack does not change what programs do.                             *)

LEMMA StackStepIsLaunchStep ==
    [StackNext]_stackVars => [LaunchNext]_allVars
<1> SUFFICES ASSUME [StackNext]_stackVars, ~UNCHANGED stackVars
             PROVE  [LaunchNext]_allVars
  BY DEF stackVars
<1>1. ~PoweredOff /\ StackStep
  BY DEF StackNext, Ended
<1>2. CASE InstantCall
  BY <1>1, <1>2 DEF InstantCall, LaunchNext, Progress, Typed
<1>3. CASE LoadStarts
  BY <1>1, <1>3 DEF LoadStarts, LaunchNext, Progress
<1>4. CASE LoadEnds
  BY <1>1, <1>4 DEF LoadEnds, LaunchNext, Progress
<1>5. CASE WaitStarts \/ WaitEnds
  BY <1>1, <1>5 DEF WaitStarts, WaitEnds, LaunchNext, Progress
<1>6. CASE WaitLooks \/ ReadStarts \/ ReadEnds
  BY <1>6 DEF WaitLooks, ReadStarts, ReadEnds
<1>7. CASE KernelTask
  BY <1>1, <1>7 DEF KernelTask, LaunchNext
<1>8. CASE TimerInterrupt
  BY <1>1, <1>8 DEF TimerInterrupt, LaunchNext
<1>. QED
  BY <1>1, <1>2, <1>3, <1>4, <1>5, <1>6, <1>7, <1>8 DEF StackStep

\* The programs of KernelStack are those of Launch: what is proved of Launch
\* and of Tasks holds with the stack under them.
THEOREM StackRefinesLaunch == StackSpec => LaunchSpec
<1>1. StackInit => LaunchInit
  BY DEF StackInit
<1>. QED  BY <1>1, StackStepIsLaunchStep, PTL DEF StackSpec, LaunchSpec

-----------------------------------------------------------------------------
(* The inductive invariant.                                                *)

\* A task that goes on in the kernel does so below where programs enter it.
AtDepth == InKernel(runningTask) => esp >= esp0

\* The kernel task's frame lies at the top, and it runs right above the end.
KernelFrame ==
    runningTask = 0 => /\ frames[0] = {1} /\ esp = 1
                       /\ call[0] = "none" /\ 0 \notin lost

Poller(k) == Polling(k) => k \notin lost /\ \A u \in frames[k] : u <= esp0

\* Until it is overwritten nobody else can have moved esp0.
Looker(k) ==
    call[k] = "lookup" =>
      doing[k] = "wait" /\ (k \notin lost => frames[k] = {esp0, esp0 + 1})

Loader(k) ==
    doing[k] = "load" =>
      at[k] = "load" /\ call[k] = "none" /\ \A u \in frames[k] : u <= esp

\* A program outside the kernel needs nothing of the stack.
Bare(k) ==
    k # 0 /\ call[k] = "none" /\ doing[k] \notin {"load", "wait"}
      => frames[k] = {}

Kept(k) == k # 0 /\ k \in lost => call[k] # "none"

SlotInv(k) == Poller(k) /\ Looker(k) /\ Loader(k) /\ Bare(k) /\ Kept(k)

SInv == StackTypeOK /\ AtDepth /\ KernelFrame /\ \A k \in Slots : SlotInv(k)

LEMMA SInvInit == StackInit => SInv
<1> SUFFICES ASSUME StackInit PROVE SInv
  OBVIOUS
<1>1. 0 \in Slots /\ runningTask = 0
        /\ doing = [k \in Slots |-> IF k = 0 THEN "boot" ELSE "new"]
  BY MaxTasksAssumption DEF StackInit, LaunchInit, Init, Slots
<1>2. /\ esp0 = 0 /\ esp = 1 /\ lost = {}
      /\ frames = [k \in Slots |-> IF k = 0 THEN {1} ELSE {}]
      /\ call = [k \in Slots |-> "none"]
  BY DEF StackInit
<1>3. StackTypeOK
  BY <1>2, StackAssumption DEF StackTypeOK
<1>4. AtDepth /\ KernelFrame
  BY <1>1, <1>2 DEF AtDepth, KernelFrame
<1>5. ASSUME NEW k \in Slots PROVE SlotInv(k)
  BY <1>1, <1>2
  DEF SlotInv, Poller, Polling, Looker, Loader, Bare, Kept
<1>. QED  BY <1>3, <1>4, <1>5 DEF SInv

-----------------------------------------------------------------------------
(* A step as its slots see it.                                             *)

\* Slot k is left where it is, or a process is created or first run in it.
Moved(k) ==
    \/ doing'[k] = doing[k] /\ at'[k] = at[k]
    \/ doing[k] \notin {"load", "wait"} /\ doing'[k] \in {"new", "user"}

\* Only the running task can be loading a program: it holds the scheduler.
LEMMA LoaderRuns ==
    ASSUME Protocol, SInv, NEW k \in Slots, doing[k] = "load"
    PROVE  k = runningTask /\ ~scheduling_enabled
<1>1. at[k] = "load"
  BY DEF SInv, SlotInv, Loader
<1>. QED  BY <1>1 DEF Protocol, Held, LaunchLabels

\* A slot whose own call the step does not touch: what is pushed, at esp0 or
\* below, spares its frames or belongs to a call that may lose them.
LEMMA SlotKept ==
    ASSUME Protocol, SInv, NEW k \in Slots, NEW d \in Nat, d >= esp0, Moved(k),
           call'[k] = call[k], frames'[k] = frames[k],
           doing[k] = "load" => /\ k = runningTask => d = esp /\ esp' = esp
                                /\ at'[k] = at[k],
           \/ lost' = lost /\ esp0' = esp0
           \/ lost' = lost \union Overwritten(d) /\ esp0' = esp0
           \/ /\ lost' = lost \union Overwritten(d)
              /\ d = esp0 /\ esp0' = esp0 + 1
    PROVE  SlotInv(k)'
<1>1. esp0 \in Nat /\ esp \in Nat /\ SlotInv(k)
        /\ \A u \in frames[k] : u \in Nat
  BY StackAssumption DEF SInv, StackTypeOK
<1>2. Poller(k)'
  BY <1>1 DEF SlotInv, Poller, Polling, Moved, Overwritten
<1>3. Looker(k)'
  <2> SUFFICES ASSUME call[k] = "lookup"
               PROVE  /\ doing'[k] = "wait"
                      /\ k \notin lost' => frames[k] = {esp0', esp0' + 1}
    BY DEF Looker
  <2>1. doing[k] = "wait" /\ (k \notin lost => frames[k] = {esp0, esp0 + 1})
    BY <1>1 DEF SlotInv, Looker
  <2>2. k \notin lost =>
          k \in Overwritten(esp0)
    BY <1>1, <2>1 DEF Overwritten
  <2>. QED  BY <2>1, <2>2 DEF Moved
<1>4. Loader(k)'
  BY <1>1, LoaderRuns DEF SlotInv, Loader, Moved
<1>5. Bare(k)'
  BY <1>1 DEF SlotInv, Bare, Moved
<1>6. Kept(k)'
  <2> SUFFICES ASSUME k # 0, call[k] = "none", k \in lost'
               PROVE  FALSE
    BY DEF Kept
  <2>1. k \in Overwritten(d)
    BY <1>1 DEF SlotInv, Kept
  <2>2. PICK u \in frames[k] : u > d
    BY <2>1 DEF Overwritten
  <2>3. CASE doing[k] = "load"
    BY <1>1, <2>2, <2>3, LoaderRuns DEF SlotInv, Loader
  <2>4. CASE doing[k] = "wait"
    BY <1>1, <2>2, <2>4 DEF SlotInv, Poller, Polling
  <2>5. CASE doing[k] \notin {"load", "wait"}
    BY <1>1, <2>2, <2>5 DEF SlotInv, Bare
  <2>. QED  BY <2>3, <2>4, <2>5
<1>. QED  BY <1>2, <1>3, <1>4, <1>5, <1>6 DEF SlotInv
\* A step of the running program's own call, seen from its slot.
LEMMA OwnCall ==
    ASSUME IInv, Protocol, SInv, StackTypeOK', NEW d \in Nat, d >= esp0,
           runningTask # 0, runningTask' = runningTask,
           \A k \in Slots \ {runningTask} :
             Moved(k) /\ call'[k] = call[k] /\ frames'[k] = frames[k],
           \/ lost' = lost /\ esp0' = esp0
           \/ lost' = lost \union Overwritten(d) /\ esp0' = esp0
           \/ /\ lost' = lost \union Overwritten(d)
              /\ d = esp0 /\ esp0' = esp0 + 1,
           doing'[runningTask] \in {"boot", "kernel", "load", "wait"}
             \/ call'[runningTask] = "sleep" => esp' >= esp0',
           SlotInv(runningTask)'
    PROVE  SInv'
<1>1. AtDepth' /\ KernelFrame'
  BY DEF AtDepth, KernelFrame, InKernel
<1>2. ASSUME NEW k \in Slots \ {runningTask} PROVE SlotInv(k)'
  <2>1. doing[k] # "load"
    BY <1>2, LoaderRuns
  <2>. QED  BY <1>2, <2>1, SlotKept
<1>3. \A k \in Slots : SlotInv(k)'
  BY <1>2
<1>. QED  BY <1>1, <1>3 DEF SInv

\* What the labels say of the running program and of a free slot.
LEMMA ProgramRuns ==
    ASSUME IInv, Protocol, SInv
    PROVE  /\ runningTask \in Slots
           /\ doing \in [Slots -> Places] /\ at \in [Slots -> Labels]
           /\ esp0 \in Nat /\ esp \in Nat
           /\ at[runningTask] # "none" => runningTask # 0
           /\ call[runningTask] # "none" => runningTask # 0
           /\ \A k \in Slots : IsFinalElement(k) /\ (\E j \in Slots : ~used[j]) =>
                /\ k # 0 /\ ~used[k] /\ doing[k] \notin {"load", "wait"}
<1>1. /\ runningTask \in Slots
      /\ doing \in [Slots -> Places] /\ at \in [Slots -> Labels]
  BY DEF IInv, TypeOK, Protocol, ProgramTypes
<1>2. at[runningTask] # "none" => runningTask # 0
  BY DEF Protocol, Numbered
<1>3. call[runningTask] # "none" => runningTask # 0
  BY DEF SInv, KernelFrame
<1>4. ASSUME NEW k \in Slots, IsFinalElement(k), \E j \in Slots : ~used[j]
      PROVE  k # 0 /\ ~used[k] /\ doing[k] \notin {"load", "wait"}
  <2>1. ~used[k] /\ k # 0
    BY <1>4 DEF IsFinalElement, Protocol, Numbered
  <2>2. at[k] \in {"none", "dead"}
    BY <2>1 DEF Protocol, Alive
  <2>3. doing[k] # "load" /\ doing[k] # "wait"
    BY <2>2 DEF SInv, SlotInv, Loader, Protocol, InStep
  <2>. QED  BY <2>1, <2>3
<1>5. esp0 \in Nat /\ esp \in Nat
  BY StackAssumption DEF SInv, StackTypeOK
<1>. QED  BY <1>1, <1>2, <1>3, <1>4, <1>5

-----------------------------------------------------------------------------
(* Each step keeps the invariant.                                          *)

\* A system call that is over at once.
LEMMA InstantKeeps ==
    ASSUME IInv, Protocol, SInv, InstantCall
    PROVE  SInv'
<1> DEFINE r == runningTask
<1>1. /\ runningTask' = r /\ r # 0 /\ doing[r] = "user"
      /\ doing'[r] \in {"user", "dead"}
      /\ \A k \in Slots \ {r} : doing'[k] = doing[k] /\ at'[k] = at[k]
  <2>1. CASE crt0Start \/ Undo \/ EndAtomic \/ ExitCommand
    BY <2>1, ProgramRuns
    DEF crt0Start, Undo, EndAtomic, ExitCommand, end_task_atomic, InProgram,
        Goto, At
  <2>2. CASE BeginAtomic("init", "begin") \/ BeginAtomic("tsh", "prompt")
    BY <2>2, ProgramRuns
    DEF BeginAtomic, start_task_atomic, InProgram, Goto, At
  <2>3. CASE HandOver("cwd", "argc") \/ HandOver("argc", "argv")
               \/ HandOver("argv", "end") \/ Shutdown
    BY <2>3, ProgramRuns DEF HandOver, Shutdown, Goto, At, vars
  <2>4. CASE Leave
    <3>1. /\ doing[r] = "user" /\ doing' = [doing EXCEPT ![r] = "dead"]
          /\ at[r] # "none" /\ Goto("dead") /\ runningTask' = r
      BY <2>4 DEF Leave, Exit, InProgram, FreeSlot, At
    <3>. QED  BY <3>1, ProgramRuns DEF Goto
  <2>. QED  BY <2>1, <2>2, <2>3, <2>4 DEF InstantCall
<1>2. /\ call[r] = "none" /\ lost' = lost \union Overwritten(esp0)
      /\ UNCHANGED <<esp0, esp, frames, call>>
  BY DEF InstantCall, Instant
<1>3. StackTypeOK'
  BY <1>2 DEF SInv, StackTypeOK, Overwritten
<1>4. frames[r] = {} /\ r \notin lost
  BY <1>1, <1>2, ProgramRuns DEF SInv, SlotInv, Bare, Kept
<1>5. SlotInv(r)'
  BY <1>1, <1>2, <1>4
  DEF SlotInv, Poller, Polling, Looker, Loader, Bare, Kept, Overwritten
<1>. QED
  BY <1>1, <1>2, <1>3, <1>5, ProgramRuns, OwnCall DEF Moved

\* A call that opens interrupts: at esp0 the program had nothing to lose.
LEMMA LoadStartKeeps ==
    ASSUME IInv, Protocol, SInv, LoadStarts
    PROVE  SInv'
<1> DEFINE r == runningTask
<1>1. /\ runningTask' = r /\ doing[r] = "user" /\ at[r] = "load"
      /\ doing' = [doing EXCEPT ![r] = "load"] /\ at' = at
  BY DEF LoadStarts, Load, BeginCreateProcess, InProgram, programs
<1>2. /\ call[r] = "none" /\ lost' = lost \union Overwritten(esp0)
      /\ frames' = [frames EXCEPT ![r] = {esp0 + 1}] /\ esp' = esp0 + 1
      /\ call' = [call EXCEPT ![r] = "none"] /\ esp0' = esp0
  BY DEF LoadStarts, EnterSleep
<1>3. StackTypeOK'
  BY <1>2, ProgramRuns, StackAssumption DEF SInv, StackTypeOK, Overwritten
<1>4. r # 0 /\ frames[r] = {} /\ r \notin lost
  BY <1>1, <1>2, ProgramRuns DEF SInv, SlotInv, Bare, Kept
<1>5. doing'[r] = "load" /\ call'[r] = "none" /\ frames'[r] = {esp0 + 1}
  BY <1>1, <1>2, ProgramRuns DEF SInv, StackTypeOK
<1>6. SlotInv(r)'
  BY <1>1, <1>2, <1>4, <1>5, ProgramRuns
  DEF SlotInv, Poller, Polling, Looker, Loader, Bare, Kept, Overwritten
<1>7. \A k \in Slots \ {r} :
        Moved(k) /\ call'[k] = call[k] /\ frames'[k] = frames[k]
  BY <1>1, <1>2, ProgramRuns DEF Moved, SInv, StackTypeOK
<1>. QED
  BY <1>1, <1>2, <1>3, <1>4, <1>6, <1>7, ProgramRuns, OwnCall

LEMMA LoadEndKeeps ==
    ASSUME IInv, Protocol, SInv, LoadEnds, runningTask \notin lost
    PROVE  SInv'
<1> DEFINE r == runningTask
<1>1. /\ runningTask' = r /\ at[r] = "load" /\ doing[r] = "load"
      /\ doing'[r] = "user" /\ \A k \in Slots \ {r} : Moved(k)
  <2>1. CASE NotCreated
    BY <2>1, ProgramRuns DEF NotCreated, CreateProcessFails, Goto, Moved
  <2>2. ASSUME NEW p, NEW q, NEW k \in Slots, NEW t, Created(p, q, k, t)
        PROVE  /\ runningTask' = r /\ at[r] = "load" /\ doing[r] = "load"
               /\ doing'[r] = "user" /\ \A j \in Slots \ {r} : Moved(j)
    <3>1. /\ at[r] = "load" /\ doing[r] = "load" /\ runningTask' = r
          /\ doing' = [doing EXCEPT ![r] = "user", ![k] = "new"]
          /\ IsFinalElement(k) /\ \E j \in Slots : ~used[j]
          /\ \E l \in {"cwd", "end"} : at' = [at EXCEPT ![k] = "start", ![r] = l]
      BY <2>2 DEF Created, CreateProcess, createTask, At
    <3>2. doing[k] \notin {"load", "wait"}
      BY <3>1, ProgramRuns
    <3>3. k # r
      BY <3>1, <3>2
    <3>. QED  BY <3>1, <3>2, <3>3, ProgramRuns DEF Moved
  <2>. QED  BY <2>1, <2>2 DEF LoadEnds
<1>2. /\ frames' = [frames EXCEPT ![r] = {}]
      /\ call' = [call EXCEPT ![r] = "none"]
      /\ UNCHANGED <<esp0, esp, lost>>
  BY DEF LoadEnds, Return
<1>3. StackTypeOK'
  BY <1>2, ProgramRuns DEF SInv, StackTypeOK
<1>4. frames'[r] = {} /\ call'[r] = "none"
        /\ \A k \in Slots \ {r} : call'[k] = call[k] /\ frames'[k] = frames[k]
  BY <1>2, ProgramRuns DEF SInv, StackTypeOK
<1>5. SlotInv(r)'
  BY <1>1, <1>2, <1>4
  DEF SlotInv, Poller, Polling, Looker, Loader, Bare, Kept
<1>. QED
  BY <1>1, <1>2, <1>3, <1>4, <1>5, ProgramRuns, OwnCall

\* waitpid pushes below esp0 what it protects, and its lookup below that.
LEMMA WaitStartKeeps ==
    ASSUME IInv, Protocol, SInv, WaitStarts
    PROVE  SInv'
<1> DEFINE r == runningTask
<1>1. /\ runningTask' = r /\ doing[r] = "user" /\ at[r] = "wait"
      /\ doing' = [doing EXCEPT ![r] = "wait"] /\ Goto("waiting")
  BY DEF WaitStarts, Wait, waitpid, InProgram
<1>2. /\ lost' = lost \union Overwritten(esp0) /\ esp0 < StackUnits
      /\ frames' = [frames EXCEPT ![r] = {esp0 + 1, esp0 + 2}]
      /\ call' = [call EXCEPT ![r] = "lookup"]
      /\ esp0' = esp0 + 1 /\ esp' = esp0 + 2
  BY DEF WaitStarts, EnterWait
<1>3. StackTypeOK'
  BY <1>2, ProgramRuns, StackAssumption DEF SInv, StackTypeOK, Overwritten
<1>4. /\ doing'[r] = "wait" /\ call'[r] = "lookup"
      /\ frames'[r] = {esp0', esp0' + 1}
  BY <1>1, <1>2, ProgramRuns DEF SInv, StackTypeOK
<1>5. SlotInv(r)'
  BY <1>1, <1>4 DEF SlotInv, Poller, Polling, Looker, Loader, Bare, Kept
<1>6. \A k \in Slots \ {r} :
        Moved(k) /\ call'[k] = call[k] /\ frames'[k] = frames[k]
  BY <1>1, <1>2, ProgramRuns DEF Moved, Goto, SInv, StackTypeOK
<1>. QED
  BY <1>1, <1>2, <1>3, <1>5, <1>6, ProgramRuns, OwnCall

\* The lookup returns: what is left lies at esp0.
LEMMA WaitLookKeeps ==
    ASSUME IInv, Protocol, SInv, WaitLooks, runningTask \notin lost
    PROVE  SInv'
<1> DEFINE r == runningTask
<1>1. UNCHANGED <<doing, at, runningTask, esp0, lost>> /\ call[r] = "lookup"
        /\ call' = [call EXCEPT ![r] = "none"]
  BY DEF WaitLooks, LookupDone, allVars, vars, programs
<1>2. doing[r] = "wait" /\ frames[r] = {esp0, esp0 + 1} /\ r # 0
  BY <1>1, ProgramRuns DEF SInv, SlotInv, Looker
<1>3. PICK u \in frames[r] :
        /\ u - 1 \in frames[r]
        /\ frames' = [frames EXCEPT ![r] = @ \ {u}]
        /\ esp' = u - 1
  BY DEF WaitLooks, LookupDone
<1>4. u = esp0 + 1
  BY <1>2, <1>3, ProgramRuns
<1>5. frames'[r] = {esp0} /\ call'[r] = "none" /\ esp' = esp0
  BY <1>1, <1>2, <1>3, <1>4, ProgramRuns DEF SInv, StackTypeOK
<1>6. StackTypeOK'
  BY <1>1, <1>3, <1>5, ProgramRuns, StackAssumption DEF SInv, StackTypeOK
<1>7. SlotInv(r)'
  BY <1>1, <1>2, <1>5, ProgramRuns
  DEF SlotInv, Poller, Polling, Looker, Loader, Bare, Kept
<1>8. \A k \in Slots \ {r} :
        Moved(k) /\ call'[k] = call[k] /\ frames'[k] = frames[k]
  BY <1>1, <1>3, ProgramRuns DEF Moved, SInv, StackTypeOK
<1>. QED
  BY <1>1, <1>2, <1>5, <1>6, <1>7, <1>8, ProgramRuns, OwnCall

\* A call that waited returns, and needs nothing any more.
LEMMA ReturnKeeps ==
    ASSUME IInv, Protocol, SInv, WaitEnds \/ ReadEnds, runningTask \notin lost
    PROVE  SInv'
<1> DEFINE r == runningTask
<1>1. /\ frames' = [frames EXCEPT ![r] = {}]
      /\ call' = [call EXCEPT ![r] = "none"]
      /\ UNCHANGED <<esp0, esp, lost>>
  BY DEF WaitEnds, ReadEnds, Return
<1>2. StackTypeOK'
  BY <1>1, ProgramRuns DEF SInv, StackTypeOK
<1>3. /\ runningTask' = r /\ r # 0 /\ esp >= esp0
      /\ doing'[r] = "load" => doing[r] = "load" /\ call[r] # "none"
      /\ \A k \in Slots \ {r} : Moved(k)
  <2>1. CASE WaitEnds
    <3>1. /\ doing[r] = "wait" /\ doing' = [doing EXCEPT ![r] = "user"]
          /\ at[r] = "waiting" /\ \E l \in {"prompt", "getchar"} : Goto(l)
          /\ runningTask' = r
      BY <2>1 DEF WaitEnds, Resume, waitpidReturns
    <3>. QED
      BY <3>1, ProgramRuns DEF Goto, Moved, SInv, AtDepth, InKernel
  <2>2. CASE ReadEnds
    <3>1. call[r] = "sleep" /\ UNCHANGED <<doing, at, runningTask>>
      BY <2>2 DEF ReadEnds, allVars, vars, programs
    <3>. QED  BY <3>1, ProgramRuns DEF Moved, SInv, AtDepth, InKernel
  <2>. QED  BY <2>1, <2>2
<1>4. frames'[r] = {} /\ call'[r] = "none"
        /\ \A k \in Slots \ {r} : call'[k] = call[k] /\ frames'[k] = frames[k]
  BY <1>1, ProgramRuns DEF SInv, StackTypeOK
<1>5. doing'[r] # "load"
  BY <1>3, ProgramRuns DEF SInv, SlotInv, Loader
<1>6. SlotInv(r)'
  BY <1>1, <1>3, <1>4, <1>5
  DEF SlotInv, Poller, Polling, Looker, Loader, Bare, Kept
<1>. QED
  BY <1>1, <1>2, <1>3, <1>4, <1>6, ProgramRuns, OwnCall

LEMMA ReadStartKeeps ==
    ASSUME IInv, Protocol, SInv, ReadStarts
    PROVE  SInv'
<1> DEFINE r == runningTask
<1>1. /\ UNCHANGED <<doing, at, runningTask>> /\ doing[r] = "user"
      /\ at[r] \in {"prompt", "getchar"}
  BY DEF ReadStarts, Reading, allVars, vars, programs
<1>2. /\ call[r] = "none" /\ lost' = lost \union Overwritten(esp0)
      /\ frames' = [frames EXCEPT ![r] = {esp0 + 1}] /\ esp' = esp0 + 1
      /\ call' = [call EXCEPT ![r] = "sleep"] /\ esp0' = esp0
  BY DEF ReadStarts, EnterSleep
<1>3. StackTypeOK'
  BY <1>2, ProgramRuns, StackAssumption DEF SInv, StackTypeOK, Overwritten
<1>4. r # 0 /\ doing'[r] = "user" /\ call'[r] = "sleep"
  BY <1>1, <1>2, ProgramRuns DEF SInv, StackTypeOK
<1>5. SlotInv(r)'
  BY <1>1, <1>4 DEF SlotInv, Poller, Polling, Looker, Loader, Bare, Kept
<1>6. \A k \in Slots \ {r} :
        Moved(k) /\ call'[k] = call[k] /\ frames'[k] = frames[k]
  BY <1>1, <1>2, ProgramRuns DEF Moved, SInv, StackTypeOK
<1>. QED
  BY <1>1, <1>2, <1>3, <1>4, <1>5, <1>6, ProgramRuns, OwnCall

\* The kernel task goes on, or starts init in a free slot.
LEMMA KernelKeeps ==
    ASSUME IInv, Protocol, SInv, KernelTask
    PROVE  SInv'
<1>1. /\ runningTask = 0 /\ runningTask' = 0 /\ doing[0] \in {"boot", "kernel"}
      /\ doing'[0] \in {"boot", "kernel"}
      /\ \A k \in Slots : k # 0 => Moved(k)
      /\ at'[0] = at[0]
  <2>1. CASE KernelStep
    <3>1. /\ runningTask = 0 /\ runningTask' = 0 /\ at' = at
          /\ doing[0] \in {"boot", "kernel"}
          /\ doing' = [doing EXCEPT ![0] = "kernel"] \/ doing' = doing
      BY <2>1 DEF KernelStep, EnterKernelShell, RunInitFails, programs
    <3>. QED  BY <3>1, ProgramRuns DEF Moved
  <2>2. ASSUME NEW k \in Slots, RunInitProgram(k)
        PROVE  /\ runningTask = 0 /\ runningTask' = 0
               /\ doing[0] \in {"boot", "kernel"}
               /\ doing'[0] \in {"boot", "kernel"}
               /\ \A j \in Slots : j # 0 => Moved(j)
               /\ at'[0] = at[0]
    <3>1. /\ runningTask = 0 /\ runningTask' = 0 /\ doing[0] = "kernel"
          /\ IsFinalElement(k) /\ \E j \in Slots : ~used[j]
          /\ doing' = [doing EXCEPT ![k] = "new"]
          /\ at' = [at EXCEPT ![k] = "start"]
      BY <2>2 DEF RunInitProgram, RunInit, createTask
    <3>2. k # 0 /\ doing[k] \notin {"load", "wait"}
      BY <3>1, ProgramRuns
    <3>. QED  BY <3>1, <3>2, ProgramRuns DEF Moved
  <2>. QED  BY <2>1, <2>2 DEF KernelTask
<1>2. UNCHANGED stack
  BY DEF KernelTask
<1>3. StackTypeOK' /\ AtDepth' /\ KernelFrame'
  BY <1>1, <1>2 DEF SInv, StackTypeOK, AtDepth, KernelFrame, InKernel, stack
<1>4. ASSUME NEW k \in Slots, k # 0 PROVE SlotInv(k)'
  <2>1. doing[k] # "load"
    BY <1>1, <1>4, LoaderRuns
  <2>. QED  BY <1>1, <1>2, <1>4, <2>1, ProgramRuns, SlotKept DEF stack
<1>5. SlotInv(0)'
  BY <1>1, <1>2, ProgramRuns
  DEF stack, SlotInv, Poller, Polling, Looker, Loader, Bare, Kept, SInv,
      KernelFrame
<1>. QED  BY <1>3, <1>4, <1>5 DEF SInv

\* The timer interrupt, whoever it finds and whoever goes on after it.
LEMMA TimerKeeps ==
    ASSUME IInv, Protocol, SInv, TimerInterrupt
    PROVE  SInv'
<1> DEFINE r == runningTask
           d == IF InKernel(r) THEN esp ELSE esp0
<1>1. /\ esp' = d /\ lost' = lost \union Overwritten(d)
      /\ UNCHANGED <<esp0, frames, call, at>>
  BY DEF TimerInterrupt, TimerStep, Interrupt, programs
<1>2. d \in Nat /\ d >= esp0
  BY ProgramRuns DEF SInv, AtDepth
<1>3. StackTypeOK'
  BY <1>1, StackAssumption DEF SInv, StackTypeOK, Overwritten
<1>4. /\ \A k \in Slots : Moved(k)
      /\ scheduling_enabled \/ UNCHANGED vars
      /\ runningTask' = r \/ Runnable(runningTask')
  <2>1. CASE scheduleHeldOff
    BY <1>1, <2>1 DEF scheduleHeldOff, vars, Moved
  <2>2. ASSUME NEW k \in Slots, schedule(k)
        PROVE  /\ \A j \in Slots : Moved(j)
               /\ scheduling_enabled /\ Runnable(runningTask')
    <3>1. /\ scheduling_enabled /\ IsNextTask(k) /\ runningTask' = k
          /\ doing' = [doing EXCEPT ![k] = IF @ = "new" THEN "user" ELSE @]
      BY <2>2 DEF schedule
    <3>. QED  BY <1>1, <3>1, ProgramRuns DEF Moved, IsNextTask
  <2>. QED  BY <2>1, <2>2 DEF TimerInterrupt, TimerStep, Tick
<1>5. AtDepth'
  BY <1>1, <1>2 DEF AtDepth
<1>6. runningTask' = 0 => r = 0 /\ InKernel(0) /\ d = esp
  BY <1>4 DEF IInv, Control, KernelFirst, Runnable, TypeOK, InKernel,
              TASK_ACTIVE, TASK_BLOCKED
<1>7. KernelFrame'
  <2> SUFFICES ASSUME runningTask' = 0
               PROVE  /\ frames[0] = {1} /\ esp' = 1
                      /\ call[0] = "none" /\ 0 \notin lost'
    BY <1>1 DEF KernelFrame
  <2>1. /\ frames[0] = {1} /\ esp = 1 /\ d = 1
        /\ call[0] = "none" /\ 0 \notin lost
    BY <1>6 DEF SInv, KernelFrame
  <2>2. 0 \notin Overwritten(1)
    BY <2>1 DEF Overwritten
  <2>. QED  BY <1>1, <2>1, <2>2
<1>8. ASSUME NEW k \in Slots PROVE SlotInv(k)'
  <2>1. doing[k] = "load" => k = r /\ d = esp
    BY LoaderRuns DEF InKernel
  <2>. QED  BY <1>1, <1>2, <1>4, <2>1, SlotKept
<1>. QED  BY <1>3, <1>5, <1>7, <1>8 DEF SInv

LEMMA SInvNext ==
    IInv /\ Protocol /\ SInv /\ [StackNext]_stackVars => SInv'
<1> SUFFICES ASSUME IInv, Protocol, SInv, [StackNext]_stackVars
             PROVE  SInv'
  OBVIOUS
<1>1. CASE UNCHANGED stackVars
  <2>1. UNCHANGED <<doing, at, runningTask, esp0, esp, frames, call, lost>>
    BY <1>1 DEF stackVars, stack, allVars, vars, programs
  <2>2. StackTypeOK' /\ AtDepth' /\ KernelFrame'
    BY <2>1 DEF SInv, StackTypeOK, AtDepth, KernelFrame, InKernel
  <2>3. \A k \in Slots : SlotInv(k)'
    BY <2>1
    DEF SInv, SlotInv, Poller, Polling, Looker, Loader, Bare, Kept
  <2>. QED  BY <2>2, <2>3 DEF SInv
<1>2. CASE ~Ended /\ StackStep
  <2>1. runningTask \notin lost
    BY <1>2 DEF Ended
  <2>. QED
    BY <1>2, <2>1, InstantKeeps, LoadStartKeeps, LoadEndKeeps, WaitStartKeeps,
       WaitLookKeeps, ReturnKeeps, ReadStartKeeps, KernelKeeps, TimerKeeps
    DEF StackStep
<1>. QED  BY <1>1, <1>2 DEF StackNext

LEMMA SInvInvariant == StackSpec => []SInv
<1>. QED
  BY SInvInit, SInvNext, StackRefinesLaunch, LaunchIInv, ProtocolInvariant, PTL
  DEF StackSpec

-----------------------------------------------------------------------------
(* Theorems.                                                               *)

\* The stack pointer, esp0 and the frames stay in their range.
THEOREM StackTypeCorrect == StackSpec => []StackTypeOK
<1>1. SInv => StackTypeOK
  BY DEF SInv
<1>. QED  BY <1>1, SInvInvariant, PTL

\* The frames of a polling waitpid are never overwritten, whatever programs
\* run, wait and return meanwhile (esp0 at task.c:187).
THEOREM PollersIntactInvariant == StackSpec => []PollersIntact
<1>1. SInv => PollersIntact
  BY DEF SInv, SlotInv, Poller, PollersIntact
<1>. QED  BY <1>1, SInvInvariant, PTL

\* Neither the kernel task nor a program that is loading another ever goes on
\* with its frames overwritten.
THEOREM KeepsFramesInvariant == StackSpec => []KeepsFrames
<1>1. IInv /\ SInv => KeepsFrames
  BY DEF SInv, SlotInv, Kept, KernelFrame, KeepsFrames, IInv, TypeOK
<1>2. StackSpec => []IInv
  BY StackRefinesLaunch, LaunchIInv, PTL
<1>. QED  BY <1>1, <1>2, SInvInvariant, PTL
=============================================================================
