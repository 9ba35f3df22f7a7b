CONSTANTS
    alice = alice
    bob = bob
    User = {alice, bob}
    Submission = {s1, s2}
    Request = {r1, r2, r3}
    SubmitterOf <- MCSubmitterOf
    InitialInk <- MCInitialInk
    MaxEarned <- MCReading
    Faults = {"rpc", "db", "crash"}
SPECIFICATION Spec
SYMMETRY Symmetry
INVARIANTS
    RewardPaidOnce
    ClaimedMeansPaid
    PaidWithOneBadge
    VotesBackedByInk
    UnrecordedOnlyByFault
    TallySound
CHECK_DEADLOCK FALSE
