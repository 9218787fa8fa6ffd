CONSTANTS
    NoLine = NoLine
    None = None
    a1 = a1
    a2 = a2
    b1 = b1
    c1 = c1
    e1 = e1
    e2 = e2
    Snapshot = {a1, a2}
    Event = {e1}
    EventOf <- OneMatchEventOf
    BetOf <- OneMatchBetOf
    StartsAt <- OneMatchStartsAt
    KickoffAt = 2
    Scores <- HomeOrAwayWin
    Generator = {scheduler, operator}
    Publisher = {telegram}
    Settler = {worker, console}
    Unsendable = {}
    Untellable = {}
    Rematched = {e1}
    Rescheduled = {}
    StaleAfter = 2
    MinAlertLead = 1
    Window = 3
    Limit = 2
    MaxTime = 3
    MaxFaults = 1
    MaxCorrections = 0
SPECIFICATION Spec
SYMMETRY WorkerSymmetry
INVARIANTS
    AccountsFollowTheChat
    ReadsStayValid
    RepliedOncePerFault
    ShownScoreExplainsOutcome
    OneLiveAlertPerPick
    DeliveredStaysAlert
    AnnouncedOncePerFault
PROPERTIES
    SettlementWrittenOnce
    ImplementsLedger
