SPECIFICATION FairSpec
CONSTANTS
    Null = Null
    NumPeers = 1
    Workers = {w1, w2}
    Callers = {a1}
    MaxSends = 2
    MaxSize = 1
    Pris = {"medium"}
    Kinds = {"sync", "async"}
    Targets = {"one", "all"}
    Cancels = {}
    Faults = {"close", "shutdown"}
    MaxAcks = 1
PROPERTIES
    PromiseKept
    EverySendCompletes
