SPECIFICATION Spec
CONSTANTS
    Handles = {h1, h2, h3}
    Workers = {w1, w2, w3}
    Callers = {c1}
    ThreadsPerPool = 1
    MaxHandlesPerPool = 2
    Failures = {}
    Spin = Spin
    Null = Null
SYMMETRY PoolSymmetry
INVARIANTS
    Coverage
    RightCallback
