CONSTANTS
    NoLine = NoLine
    None = None
    a1 = a1
    a2 = a2
    b1 = b1
    c1 = c1
    e1 = e1
    e2 = e2
    Snapshot = {b1, c1}
    Event = {e1}
    EventOf <- OneMatchEventOf
    BetOf <- OneMatchBetOf
    StartsAt <- OneMatchStartsAt
    KickoffAt = 1
    Scores <- HomeOrAwayWin
    Generator = {scheduler}
    Publisher = {telegram}
    Settler = {worker}
    Unsendable = {}
    Untellable = {b1}
    Rematched = {}
    Rescheduled = {}
    StaleAfter = 2
    MinAlertLead = 1
    Window = 2
    Limit = 2
    MaxTime = 2
    MaxFaults = 1
    MaxCorrections = 1
SPECIFICATION FairSpec
PROPERTIES
    DeliveredIsSettled
    SettledIsTold
