\* The service: three invocations over three keys of two users, so every race of two
\* or three calls for one key, and calls for different keys of one user.
CONSTANTS
    u1 = u1
    u2 = u2
    k1 = k1
    k2 = k2
    k3 = k3
    User = {u1, u2}
    Key = {k1, k2, k3}
    Call = {c1, c2, c3}
    NoRow = NoRow
    UserOf <- MCUserOf
    TriggerOf <- MCTriggerOf
\* The package.
    op = op
    reader = reader
    s1 = s1
    s2 = s2
    e1 = e1
    e2 = e2
    l1 = l1
    j1 = j1
    x1 = x1
    x2 = x2
    Address = {op, reader}
    Deployer = op
    Suggestion = {s1, s2}
    RecordKey = {e1, e2}
    Nobody = Nobody
    Amount = {4, 10}
    MaxHandovers = 1
    Owner = {op, reader}
    Operator = {op}
    Library = {l1}
    Journal = {j1}
    SeriesId = {l1}
    EntryId = {x1, x2}
    MaxChapterNo = 1
    MaxEpoch = 3
    Nil = Nil
SPECIFICATION SceneSpec
CONSTRAINT Bounded
SYMMETRY Sym
INVARIANTS
    NoDoubleMint
    LedgerBackedByChain
    BooksAgree
    DriftOnlyByFault
    AnswersAreTrue
    ClaimSound
    ObjectsSound
PROPERTIES
    ImplementsPromise
    LostIsNeverCredited
    ObjectsKept
CHECK_DEADLOCK FALSE
