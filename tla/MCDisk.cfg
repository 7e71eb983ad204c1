SPECIFICATION DiskSpec
CONSTANTS
    Thread = {t1, t2}
    Block = {b1, b2, b3}
    Process = {t1, t2, t3}
    Blockno = {b1, b2, b3}
    Data = {0, 1}
    NBUF = 2
    MaxPinned = 1
    NoBlock = NoBlock
    Nobody = Nobody
    Val = {0, 1}
    MAXOPBLOCKS = 2
    LogBlocks = 6
SYMMETRY DiskSymmetry
INVARIANTS DurableWhenIdle BeginOpSound Coherent BuffersCounted
PROPERTIES Refinement
