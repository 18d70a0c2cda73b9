SPECIFICATION Spec
CONSTANTS
    Null = Null
    NumPeers = 2
    Workers = {w1, w2}
    Callers = {a1}
    MaxSends = 2
    MaxSize = 1
    Pris = {"medium"}
    Kinds = {"async"}
    Targets = {"one", "all"}
    Cancels = {"handle"}
    Faults = {"break"}
    MaxAcks = 0
SYMMETRY WorkerSymmetry
INVARIANTS
    Accounting
