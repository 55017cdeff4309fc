SPECIFICATION Spec
CONSTANTS
    a = a
    b = b
    c = c
    d = d
    madt_cpu <- Table
    BSP = b
    Usable <- Enabled
    NULL = NULL
INVARIANTS
    OneOnBootStack
    ExactCount
    PunctualLaunch
    NeverUndercounts
PROPERTIES
    LaunchEnds
    StartedCoresJoin
CHECK_DEADLOCK FALSE
