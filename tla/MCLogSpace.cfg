SPECIFICATION Spec
CONSTANTS
    Thread = {t1, t2, t3}
    Block = {b1, b2, b3}
    Val = {0, 1}
    MAXOPBLOCKS = 1
    LogBlocks = 3
INVARIANT NoLogPanic
