SPECIFICATION Spec
CONSTANTS
    c1 = c1
    c2 = c2
    c3 = c3
    i1 = i1
    i2 = i2
    Clients = {c1, c2, c3}
    Rpcs = {i1}
    Events = {"rpcTimeout", "unsupported", "startupTimeout", "cancellation", "spawnFailure", "handshakeFailure", "stopFailure", "close"}
    NoClient = NoClient
SYMMETRY Symmetry
INVARIANTS OneInUse KnownIsOwned StoppedIsEvidence
