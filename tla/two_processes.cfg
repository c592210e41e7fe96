SPECIFICATION FairSpec
CONSTANTS
    p1 = p1
    p2 = p2
    t1 = t1
    t2 = t2
    w1 = w1
    w2 = w2
    Processes = {p1, p2}
    Threads = {t1, t2}
    Workspaces = {w1, w2}
    NoProcess = NoProcess
    NoThread = NoThread
    NoWorkspace = NoWorkspace
INVARIANTS TypeOK TurnsExclusive NothingLeaks
PROPERTIES CallsEnd
