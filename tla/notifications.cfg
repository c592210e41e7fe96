SPECIFICATION FairSpec
CONSTANTS
    MaxClients = 2
    MaxTurns = 2
    MaxRouted = 2
CHECK_DEADLOCK FALSE
INVARIANTS TypeOK ReadyIsDrained
PROPERTIES TerminalsConfirmed PumpsEnd
