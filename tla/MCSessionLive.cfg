SPECIFICATION FairSpec
CONSTANTS
    w1 = w1  w2 = w2  c1 = c1  c2 = c2  Null = Null
    Workers = {w1, w2}
    Callers = {c1, c2}
    FirstPeerIds = {10}
    MaxPeers = 2
    MaxPlayers = 2
    MaxStarts = 2
    Calls = {"Host", "ConnectSync", "Close", "CloseImmediate", "DestroyPeer"}
    ConnectIn = {"initialised"}
    CloseIn = {"initialised", "hosting", "connecting_to_host", "connected", "terminated"}
    Remote = {"connect", "unreachable", "refuse", "close", "leave", "kick", "terminate"}
PROPERTY CallsReturn
