CONSTANTS
    Tab = {t1, t2}
    User = {u1, u2}
    Session = {s1, s2}
    Faults = {"net", "expire"}
    MaxFaults = 1
    MaxLoads = 3
    Nil = Nil
SPECIFICATION ClientSpec
CONSTRAINT Explored
SYMMETRY Interchangeable
INVARIANT SessionSound
CHECK_DEADLOCK FALSE
