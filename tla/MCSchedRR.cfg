SPECIFICATION FairSpec
CONSTANTS
    NPROC = 2
    CPU = {c0}
    Cpu0 = c0
    NoCPU = NoCPU
    Modes = {}
    FirstMode = 0
    UintBits = 8
    MaxPid = 2
    MaxTicks = 1
PROPERTIES RoundRobin
