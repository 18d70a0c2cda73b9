SPECIFICATION Spec
CONSTANTS
    w1 = w1  w2 = w2  c1 = c1  c2 = c2  Null = Null
    Workers = {w1, w2}
    Callers = {c1, c2}
    FirstPeerIds = {1, 10}
    MaxPeers = 2
    MaxPlayers = 3
    MaxStarts = 2
    Calls = {"Host", "Close", "CloseImmediate", "DestroyPeer"}
    ConnectIn = {"initialised"}
    CloseIn <- SessionStates
    Remote = {"connect", "refuse", "close", "reset", "leave", "message", "flush", "sockets"}
SYMMETRY ThreadSymmetry
INVARIANT NoFault
INVARIANT IndicatedOnce
INVARIANT NobodyLeft
INVARIANT Reachable
PROPERTY NoResurrection
