CONSTANTS
    root = root
    peer = peer
    mod = mod
    hire = hire
    Admin = {root, peer, mod, hire}
    Call = {c1, c2, c3}
    InitialAdmin <- MCInitialAdmin
    MAX_FAILED_ATTEMPTS = 2
    BACKUP_CODE_COUNT = 1
SPECIFICATION Spec
SYMMETRY Symmetry
INVARIANTS
    CredentialsSound
    ConsoleSound
    SuperAdminRemains
PROPERTIES
    FourEyes
CHECK_DEADLOCK FALSE
