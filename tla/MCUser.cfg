SPECIFICATION UserSpec
CONSTANTS
    MAXARGS = 3
    Lines <- MCLines
    Page = {1, 2, 3, 4, 5, 6, 7, 8, 9, 10, 11, 12, 13, 14, 15, 16, 17, 18}
    Proc = {1, 2}
    Programs <- MCPrograms
    Increment <- MCIncrement
    MaxUser = 4
    Addr = {1, 2, 5}
    MaxCalls = 6
INVARIANTS PagesOwned PrivateMemory WiredAsWritten InSequence HeapTiled DateIsRight FilterOutput SleepExact
PROPERTIES ShellReturns
CHECK_DEADLOCK FALSE
