SPECIFICATION FairSpec
CONSTANTS
    Handles = {h1}
    Workers = {w1, w2, w3}
    Callers = {c1}
    ThreadsPerPool = 2
    MaxHandlesPerPool = 1
    Failures = {"alloc", "spawn", "wait"}
    Spin = Spin
    Null = Null
INVARIANTS
    NeverParked
    WriterAlone
    AllJoined
PROPERTIES
    WriterGetsIn
    DestructorReturns
