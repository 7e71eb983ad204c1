SPECIFICATION FairSpec
CONSTANTS
    Thread = {t1, t2, t3}
    Nobody = Nobody
    Intr = Intr
    NUM = 8
    UintBits = 4
INVARIANTS ChainsOwned
PROPERTIES RequestServed
