CONSTANTS
    alice = alice
    bob = bob
    User = {alice, bob}
    Submission = {s1}
    Request = {r1, r2}
    SubmitterOf <- MCSubmitterOf
    InitialInk <- MCDecisiveInk
    MaxEarned <- MCNoReading
    Faults = {}
SPECIFICATION Spec
PROPERTY DecidedOnce
CHECK_DEADLOCK FALSE
