CONSTANTS
    Request = {r1, r2, r3}
    Series = {s1}
    Chapter = {0, 60}
    StatusInput = {"READING", "COMPLETED"}
    InitialLast <- MCInitialLast
    MaxLast = 60
    Faults = {"rpc", "db", "crash"}
SPECIFICATION Spec
SYMMETRY Symmetry
INVARIANTS
    RecordsSound
    InkIsEarned
    MilestonesPaid
CHECK_DEADLOCK FALSE
