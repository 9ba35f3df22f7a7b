\* Tips: three presses: an attempt, a retry that overlaps it, and one more.
CONSTANTS
    small = small
    large = large
    nobody = nobody
    p1 = p1
    p2 = p2
    p3 = p3
    k1 = k1
    k2 = k2
    k3 = k3
    Attempt = {p1, p2, p3}
    Key = {k1, k2, k3}
    Transfer = {small, large, nobody}
    AmountOf <- MCAmountOf
    Payable = {small, large}
    InitialUsdc = 2
    None = None
    Ways = {"tip", "send"}
    MaxPresses = 2
    Parcel = {small, large}
    Cost <- MCCost
    FirstUsdc = 2
    MaxWalletVisits = 2
    MaxEarned = 2
    MaxReads = 3
    MaxWalletFaults = 1
    Nobody = Nobody
SPECIFICATION MCSpec
CONSTRAINT Few
ACTION_CONSTRAINT Reduced
INVARIANTS
    ConfirmedSound
    SubmittedSound
    PaidTwiceOnlyByFault
    WalletSound
CHECK_DEADLOCK FALSE
