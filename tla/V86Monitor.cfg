SPECIFICATION MonitorSpec
CONSTANTS
    SegSize = 12
    Start = 3
    IpSize = 3
    bios = bios
    user = user
    ivt <- Vectors
    Segs = {bios, user}
    Arith = {0, 1}
    MaxFrames = 3
INVARIANTS MonitorTypeOK  KernelContext
PROPERTY Resumes
CHECK_DEADLOCK FALSE
