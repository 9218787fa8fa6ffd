CONSTANTS
    None = None
    s1 = s1
    s2 = s2
    s3 = s3
    b1 = b1
    b2 = b2
    Source = {s1}
    Book = {b1, b2}
    PlayersOf <- TwiceListedPlayers
    Alike <- AllAlike
    StartsAt <- TwiceListedStart
    MovesTo <- NoMoves
    LateNamed = {}
    Matcher = {"uel-predictions", "odds-corridors"}
    ModeOf <- JobModes
    Step = 5
    MaxTime = 25
    MaxFaults = 0
SPECIFICATION FairSpec
PROPERTY FinishedPairIsMatched
