SPECIFICATION Spec
CONSTANTS
    NPROC = 3
    CPU = {c1, c2}
    NoCPU = NoCPU
    MaxPid = 3
    KillArgs = {0, 2}
    Calls = {"fork", "exit", "wait", "wait_sched", "kill", "fault", "getppid", "getptable"}
SYMMETRY CpuSymmetry
INVARIANTS SchedAsserts ParentAlive NoLostWakeup IInv
PROPERTIES LifeCycle
