SPECIFICATION FairSpec
CONSTANTS
    MAX_TASKS = 4
    Watched = {}
PROPERTY CreatedTaskRuns
