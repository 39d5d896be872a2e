SPECIFICATION Spec
CONSTANTS
    g1 = g1
    g2 = g2
    g3 = g3
    r1 = r1
    r2 = r2
    r3 = r3
    r4 = r4
    Goroutines = {g1, g2, g3}
    Readers = {r1, r2, r3, r4}
    Request <- SomeRequests
    PoolParses = 2
SYMMETRY ReaderSymmetry
INVARIANTS
    Exclusive
    OwnStream
CHECK_DEADLOCK FALSE
