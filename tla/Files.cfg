SPECIFICATION FilesSpec
CONSTANTS
    SECTOR = 2
    WORD = 64
    Parts <- MCParts
    Begins <- MCBegins
    OneLetter <- MCOneLetter
    UP = ".."
    DOT = "."
    ACPI_PAGE = 4
    LOW_MEMORY = 8
    PCI_BUSES = 2
    PCI_DEVICE_N = 2
    PCI_FUNCTION_N = 2
    Machines <- MCMachines
    SLOTS = 2
    FD_CAPACITY = 1
    INIT_PATH <- MCInitPath
    MaxFds = 2
    MaxKills = 2
    MaxOpens = 2
    MaxPlace = 2
    MaxBelow = 3
CHECK_DEADLOCK FALSE
INVARIANTS FilesTypeOK    RefsCounted 
