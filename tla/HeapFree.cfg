SPECIFICATION HeapSpec
CONSTANTS
    KHEAP_INITIAL_SIZE = 16
    HeaderSize = 2
    Sizes = {1, 2, 5}
    IndexLimit = 24
INVARIANT RefusedOnlyWhenFull
