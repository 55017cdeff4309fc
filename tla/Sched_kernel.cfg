SPECIFICATION Spec
CONSTANTS
    NCores = 2
    k = k
    v = v
    a = a
    b = b
    Threads = {k, v, a, b}
    Procs = {"kernel", "v86", "test0", "test1"}
    kernel_proc = "kernel"
    v86_proc = "v86"
    NULL = NULL
    SleepPeriods = 2
    ThreadsOf <- MCThreadsOf
    TestProcs <- MCTwoTests
    Calls <- MCKernelCalls
INVARIANTS
    SchedInv
    StackHandover
    NoPanic
PROPERTIES
    ShortSleepIsTheRace
    TerminatedForGood
    ImplementsDispatch
