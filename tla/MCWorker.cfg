SPECIFICATION FairSpec
CONSTANTS
    Sids = {s1, s2}
    Handlers = {h1, h2}
    Cancels = {c1, c2}
    Concurrency = 1
    MaxTurns = 1
    None = None
INVARIANTS
    RepliesMatch
    ConcurrencyRespected
    NoticeAfterFinish
PROPERTIES
    RequestsAnswered
    CancelledLeaves
CHECK_DEADLOCK FALSE
