SPECIFICATION Spec
CONSTANTS
    a = a
    b = b
    a1 = a1
    a2 = a2
    b1 = b1
    NoPage = NoPage
    NoStory = NoStory
    Absent = Absent
    Nothing = Nothing
    Scenes = {"reader", "ai", "shelf", "journal", "dao", "passport", "creator"}
    Series = {a, b}
    Chapter = {a1, a2, b1}
    SeriesOf <- MCSeriesOf
    Number <- MCNumber
    Novel = {a}
    Finished = {a}
    MaxVisits = 3
    MaxReaderFaults = 1
    Story = {a, b}
    Own = {a}
    MaxPages = 3
    MaxQuestions = 3
    MaxAiFaults = 1
    Title = {a, b}
    MaxScreens = 3
    MaxShelfWrites = 2
    MaxShelfFaults = 1
    MaxEntries = 3
    MaxVersion = 2
    MaxJournalVisits = 2
    MaxJournalFaults = 1
    Proposal = {a}
    Weight = {2, 3}
    DaoQuorum = 4
    MaxBallots = 3
    MaxLists = 3
    MaxDaoFaults = 1
    small = small
    large = large
    Totals = {0, 498, 600}
    MaxPassportVisits = 2
    MaxExports = 2
    MaxAnchors = 1
    MaxPassportFaults = 1
    Unfetched = Unfetched
    AppTab = {tab1, tab2}
    Pitch = {small, large}
    MaxCalls = 3
    MaxAppFaults = 1
    Blank = Blank
    tab1 = tab1
    tab2 = tab2
CONSTRAINT Few
SYMMETRY AppSymmetry
INVARIANTS CompletedIsLast AiSound PagesTold TallyTold
CHECK_DEADLOCK FALSE
