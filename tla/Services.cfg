SPECIFICATION ServicesSpec
CONSTANTS
    k1 = k1
    k2 = k2
    k3 = k3
    Keys = {k1, k2, k3}
    Size <- Lengths
    Numbers = {1, 2, 3}
    Word = Word
    Blank = Blank
    Long = Long
    None = None
    MAX_ROUNDS = 2
    MAX_CALLS_PER_ROUND = 2
    CONTEXT_CHARS = 3
    MaxCallsAsked = 3
    MaxHits = 2
    Strays = {"unasked"}
    p1 = p1
    p2 = p2
    t1 = t1
    pdf = pdf
    bad = bad
    txt = txt
    hung = hung
    Parses = {p1, p2}
    Turns = {t1}
    Docs = {pdf, bad, txt, hung}
    Kind <- DocKinds
    Chars <- DocChars
    Normal <- DocNormal
    Separator = 1
    Note = 1
    LongestWord = 1
    Images = {pdf, hung}
    Usable = {pdf}
    Lists <- DocLists
    ChatDocs <- DocRows
    Workers = 2
    DOC_CHAR_BUDGET = 6
    MAX_DOCS_PER_TURN = 2
    MAX_IMAGES_PER_TURN = 1
    MAX_ATTACHMENTS_LISTED = 2
    MaxStuck = 1
    NoDoc = NoDoc
    c1 = c1
    c2 = c2
    Calls = {c1, c2}
    MaxGrants = 2
    Buffer = 1
    Life = 2
    MaxTime = 3
    Unknown = Unknown
    NullExpiry = NullExpiry
    Days = {1, 2, 3}
    Offset = 1
    ZoneFails = FALSE
    NoEvent = NoEvent
    Pollers = {1, 2}
    Funds <- PollerFunds
    Absent = {"c"}
    StaleAfter <- PollerLimits
    Published <- PollerDates
    Today = 4
    LastDay = 5
    SnapshotRows = 1
    FailureRows = 1
    Statuses = {"success", "download_failed"}
    MaxAttempts = 3
    u1 = u1
    Users = {u1}
    GateCalls = {c1}
    SANDBOX_USER_ID = SANDBOX_USER_ID
    GLOBAL_OWNER = GLOBAL_OWNER
    Folder = Folder
    RETRY_ATTEMPTS = 3
    MaxChanges = 2
    a1 = a1
    a2 = a2
    Attempts = {a1, a2}
    Consumed <- Consumptions
    Null = Null
INVARIANTS ServicesTypeOK GroundedCitations EndsWell OneNumberEach
           ErrorStoresNothing ReadyIsRead
           GoodForMargin OldGrantFades DatesStay
           ReportIsTrue ScopesKept RowsAddUp
PROPERTIES Answered
