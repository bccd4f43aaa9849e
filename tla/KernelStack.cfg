SPECIFICATION StackSpec
CONSTANTS
    MAX_TASKS = 5
    Watched = {}
    StackUnits = 4
INVARIANTS StackTypeOK PollersIntact KeepsFrames
