SPECIFICATION MCSpec
CONSTANTS
    a = a
    b = b
    p1 = p1
    p2 = p2
    Proc = {p1, p2}
    Nobody = Nobody
    NINODES = 3
    NINODE = 3
    Name = {a, b}
    Paths <- DownPaths
    Calls <- MCCalls
INVARIANTS OrphansFreed
