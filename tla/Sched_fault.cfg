SPECIFICATION PanicSpec
CONSTANTS
    NCores = 2
    k = k
    v = v
    a = a
    b = b
    Threads = {k, v, a}
    Procs = {"kernel", "v86", "test"}
    kernel_proc = "kernel"
    v86_proc = "v86"
    NULL = NULL
    SleepPeriods = 2
    ThreadsOf <- MCThreadsOf
    TestProcs <- MCTests
    Calls <- MCFaultYieldCalls
INVARIANTS
    ReadyThreadsAreSaved
PROPERTIES
    PanicStopsCores
CHECK_DEADLOCK FALSE
