SPECIFICATION FairSpec
CONSTANTS
    r1 = r1
    r2 = r2
    b1 = b1
    b2 = b2
    t1 = t1
    t2 = t2
    Runs = {r1}
    Backends = {b1}
    Threads = {t1}
    Calls <- MixedCalls
    Events = {"RPC_TIMEOUT", "RUNTIME_DISCONNECTED", "RUNTIME_BUSY", "UNSUPPORTED_SERVER_REQUEST", "rejection", "cancellation", "shutdown", "unreadable", "deadline", "stopFailure"}
    NoRun = NoRun
    NoBackend = NoBackend
    NoThread = NoThread
INVARIANTS TypeOK RepliesHonest AnswerSettles
PROPERTIES CalledOffStaysOff CallsSettle
