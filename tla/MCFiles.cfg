SPECIFICATION MCSpec
CONSTANTS
    Proc = {1, 2}
    NoProc = NoProc
    NBlock = 8
    BSIZE = 2
    NDIRECT = 1
    MaxChunk = 2
    Sizes = {3}
    Images <- MCImages
    Calls <- MCCalls
    Reader = {t1, t2}
    Writer = {t1, t2}
    UintBits = 2
    INPUT_BUF_SIZE = 2
    UART_TX_BUF_SIZE = 2
    PIPESIZE = 2
    MaxCount = 2
    Counts = {0, 2}
    Nobody = Nobody
    Plain = {x}
    Newline = nl
    Eof = eof
    SyncCPU = {c1, c2}
    Intr = Intr
    OutChar = {0, 1}
    Byte = {0, 1}
    Writers = {w1, w2}
    Readers = {r1}
    Killable = {w1, r1}
INVARIANTS BlocksOwned FilesAsWritten NoHoles FileRefs ObjectsHeld InputRing SomeoneSends PipeSleepers
PROPERTIES CompleteKept OutputInOrder PipeFifo
