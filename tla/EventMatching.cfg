CONSTANTS
    None = None
    s1 = s1
    s2 = s2
    s3 = s3
    b1 = b1
    b2 = b2
    Source = {s1, s2, s3}
    Book = {b1}
    PlayersOf <- OneListedPlayers
    Alike <- AllAlike
    StartsAt <- OneListedStart
    MovesTo <- OneListedMoves
    LateNamed = {b1}
    Matcher = {"uel-predictions", "odds-corridors", "operator"}
    ModeOf <- JobModes
    Step = 5
    MaxTime = 15
    MaxFaults = 1
SPECIFICATION FairSpec
INVARIANTS
    MatchedPlayersAgree
    MatchedOnce
PROPERTY FinishedPairIsMatched
