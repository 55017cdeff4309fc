SPECIFICATION FairSpec
CONSTANTS
    NCores = 2
    k = k
    v = v
    a = a
    b = b
    Threads = {k, v}
    Procs = {"kernel", "v86"}
    kernel_proc = "kernel"
    v86_proc = "v86"
    NULL = NULL
    SleepPeriods = 2
    ThreadsOf <- MCThreadsOf
    TestProcs <- MCNoTests
    Calls <- MCKernelCalls
PROPERTIES
    
    SleepersWake
    
