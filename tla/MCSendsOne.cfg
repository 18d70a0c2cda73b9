SPECIFICATION Spec
CONSTANTS
    Null = Null
    NumPeers = 1
    Workers = {w1, w2}
    Callers = {a1}
    MaxSends = 3
    MaxSize = 2
    Pris = {"low", "high"}
    Kinds = {"async"}
    Targets = {"one"}
    Cancels = {"player", "all"}
    Faults = {"break", "destroy", "shutdown"}
    MaxAcks = 1
SYMMETRY WorkerSymmetry
INVARIANTS
    ResultIsTruthful
    WireOrder
PROPERTIES
    StreamIntegrity
