SPECIFICATION Spec
CONSTANTS
    MAX_TASKS = 4
    Watched = {}
INVARIANTS TypeOK PidIsSlot SomeoneRunnable BoundedWaiting
PROPERTIES KernelTaskRetired ImplementsRoundRobin
