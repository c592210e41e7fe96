SPECIFICATION FairSpec
CONSTANT Events = {"cancellation", "stopFailure", "slowStop", "crash"}
INVARIANTS TypeOK 
PROPERTIES SignalEnds InputEndEnds
