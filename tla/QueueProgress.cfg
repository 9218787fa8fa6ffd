CONSTANTS
    NoLine = NoLine
    None = None
    a1 = a1
    a2 = a2
    b1 = b1
    c1 = c1
    e1 = e1
    e2 = e2
    Snapshot = {a1, c1}
    Event = {e1, e2}
    EventOf <- TwoMatchEventOf
    BetOf <- OneMatchBetOf
    StartsAt <- TwoMatchStartsAt
    KickoffAt = 2
    Scores = {}
    Generator = {scheduler}
    Publisher = {telegram}
    Settler = {}
    Unsendable = {a1}
    Untellable = {}
    Rematched = {}
    Rescheduled = {e1}
    StaleAfter = 2
    MinAlertLead = 1
    Window = 2
    Limit = 2
    MaxTime = 3
    MaxFaults = 1
    MaxCorrections = 0
SPECIFICATION FairSpec
PROPERTIES
    QueuedIsSentInTime
    ExpiredIsDropped
