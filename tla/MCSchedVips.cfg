SPECIFICATION FairSpec
CONSTANTS
    NPROC = 3
    CPU = {c0}
    Cpu0 = c0
    NoCPU = NoCPU
    Modes = {}
    FirstMode = 2
    UintBits = 8
    MaxPid = 3
    MaxTicks = 1
PROPERTIES VipsTakeTurns
