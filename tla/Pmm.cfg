SPECIFICATION Spec
CONSTANTS
    AddrSpace = 256
    PageSize = 4
    LowMemory = 4
    MemoryMaps <- MapSet
    KernelStart = 4
    KernelEnd = 9
    Sizes <- SizeSet
INVARIANTS FirstFit Accounting PmmInv RamInsideMap
 
CHECK_DEADLOCK FALSE
