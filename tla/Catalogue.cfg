CONSTANTS
    en = en
    ja = ja
    a = a
    b = b
    c = c
    Language = {en, ja}
    ChapterNumber = {1, 2}
    Id = {a, b, c}
    Job = {j1, j2}
    Tab = {t1, t2}
    None = None
    Listed <- MCListed
    File <- MCFile
    MaxChanges = 1
    MaxForced = 1
    MaxSaves = 1
    Faults = {"source", "db", "net", "crash"}
SPECIFICATION Spec
CONSTRAINT OneAtATime
SYMMETRY Interchangeable
INVARIANT CatalogueSound
PROPERTY RowsMoveForward
CHECK_DEADLOCK FALSE
