CONSTANTS
    Request = {r1, r2}
    Series = {s1}
    Chapter = {0, 60}
    StatusInput = {"READING", "PLAN_TO_READ"}
    InitialLast <- MCInitialLast
    MaxLast = 60
    Faults = {}
SPECIFICATION Spec
INVARIANT FirstChapterIsRead
CHECK_DEADLOCK FALSE
