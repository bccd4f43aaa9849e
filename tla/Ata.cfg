SPECIFICATION AtaFairSpec
CONSTANTS
    Machines <- MCMachines
    OtherBytes <- MCOtherBytes
    MaxSectors = 2
    SHORT_MAX = 1
    EXT_MAX = 3
    HeadSpan = 1
    HPC = 2
    SPT = 1
    WAIT = 1
INVARIANTS AtaTypeOK 
PROPERTIES  RequestAnswered
