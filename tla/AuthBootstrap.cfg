\* Three logins: a first one, one that resumes it and one that resumes either.
CONSTANTS
    Login = {l1, l2, l3}
    Address = {a1, a2}
    MaxDrifts = 1
    None = None
SPECIFICATION FairSpec
INVARIANTS
    OneWallet
    IdentitySound
PROPERTY LoginSucceeds
CHECK_DEADLOCK FALSE
