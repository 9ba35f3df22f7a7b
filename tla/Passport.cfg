CONSTANTS
    Tab = {t1, t2}
    Job = {j1, j2}
    InitialInk = 490
    Earning = 10
    MaxEpoch = 1
    MaxChanges = 2
    MaxOthers = 1
    Faults = {"rpc", "net"}
SPECIFICATION Spec
INVARIANTS
    PassportSound
PROPERTIES
    NothingFallsBack
    SyncEnds
CHECK_DEADLOCK FALSE
