SPECIFICATION FramesSpec
CONSTANTS
    MaxBlocks = 18
    Ram <- MCRam
    KernelImage <- MCKernelImage
    ENTRIES = 4
    KERNEL_VBASE = 8
    KERNEL_PAGES = 2
    KHEAP_START = 10
    KHEAP_PAGES = 1
    TASKS = 2
    TASK_MAX_FRAMES = 2
    PAGE = 2
    RAW_PAGES = 1
    Programs <- MCPrograms
CHECK_DEADLOCK FALSE
VIEW View
INVARIANTS FramesTypeOK   LoadFits
PROPERTIES LeaksTwo
