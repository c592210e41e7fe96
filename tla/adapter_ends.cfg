SPECIFICATION FairSpec
CONSTANTS
    c1 = c1
    c2 = c2
    c3 = c3
    i1 = i1
    i2 = i2
    Clients = {c1, c2}
    Rpcs = {i1}
    Events = {"startupTimeout", "cancellation", "rpcTimeout", "spawnFailure", "handshakeFailure", "crash", "close"}
    NoClient = NoClient
INVARIANTS TypeOK ClosedForGood
PROPERTIES OperationsEnd
