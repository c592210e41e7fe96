SPECIFICATION Spec
CONSTANTS
    r1 = r1
    r2 = r2
    b1 = b1
    b2 = b2
    t1 = t1
    t2 = t2
    Runs = {r1, r2}
    Backends = {b1, b2}
    Threads = {t1, t2}
    Calls <- WriteCalls
    Events = {"shutdown", "RPC_TIMEOUT"}
    NoRun = NoRun
    NoBackend = NoBackend
    NoThread = NoThread
SYMMETRY Symmetry
PROPERTIES HealthyLeavesNoChild
