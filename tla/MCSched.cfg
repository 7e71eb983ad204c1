SPECIFICATION Spec
CONSTANTS
    NPROC = 2
    CPU = {c0, c1}
    Cpu0 = c0
    NoCPU = NoCPU
    Modes = {1, 2}
    FirstMode = 0
    UintBits = 8
    MaxPid = 3
    MaxTicks = 2
INVARIANTS CandidateHeld RunTimeBound
PROPERTIES PickRespectsPolicy
