SPECIFICATION Spec
CONSTANTS
    w1 = w1  w2 = w2  c1 = c1  Null = Null
    Workers = {w1, w2}
    Callers = {c1}
    FirstPeerIds = {10}
    MaxPeers = 3
    MaxPlayers = 3
    MaxStarts = 1
    Calls = {"Host", "TerminateSession", "Connect", "Close", "CancelConnect"}
    ConnectIn = {"initialised"}
    CloseIn <- SessionStates
    Remote = {"unreachable", "refuse", "close", "reset", "leave", "kick", "terminate", "flush", "message", "connect", "sockets"}
SYMMETRY ThreadSymmetry
INVARIANT UniquePlayers
INVARIANT OneComplete
INVARIANT LocalGone
