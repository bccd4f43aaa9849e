SPECIFICATION FairSpec
CONSTANTS
    MAX_TASKS = 4
    Watched = {1, 2, 3}
PROPERTY WaitpidReturnsAfterExit
