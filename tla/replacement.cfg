SPECIFICATION Spec
CONSTANTS
    r1 = r1
    r2 = r2
    b1 = b1
    b2 = b2
    t1 = t1
    t2 = t2
    Runs = {r1, r2}
    Backends = {b1, b2}
    Threads = {t1, t2}
    Calls <- WriteCalls
    Events = {"shutdown", "RUNTIME_DISCONNECTED", "crash", "UNSUPPORTED_SERVER_REQUEST", "startFailure", "stopFailure"}
    NoRun = NoRun
    NoBackend = NoBackend
    NoThread = NoThread
SYMMETRY Symmetry
INVARIANTS OneRuntime
PROPERTIES HealthyLeavesNoTurn CalledOffStaysOff
