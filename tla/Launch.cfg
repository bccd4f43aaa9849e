SPECIFICATION LaunchFairSpec
CONSTANTS
    MAX_TASKS = 5
    Watched = {}
INVARIANTS LaunchTypeOK EnvReady NoHeldWait OneReader
PROPERTY ShellResumes
