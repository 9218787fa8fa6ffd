CONSTANTS
    NoLine = NoLine
    None = None
    p1 = p1
    p2 = p2
    fam = fam
    Pair = {p1, p2}
    Bets <- OneBet
    Odds = {110, 130, 140}
    FirstOdds <- HigherFirst
    Scores <- HomeOrAwayWin
    Kickoffs = {1, 2}
    StartsAt <- StartsAtOne
    Family = {fam}
    FamilyOf <- FirstInFamily
    Builder = {"odds-corridors", "operator"}
    Scheduler = {"odds-corridors"}
    WidthOf <- TwoWidths
    MinSamples = 1
    LookupMin = 1
    MaxOddsAge = 1
    MaxTime = 2
    MaxChanges = 2
    MaxFaults = 1
SPECIFICATION FairSpec
INVARIANTS
    CorridorsPartition
    DecisionRestsOnKnownResults
PROPERTIES
    AsOfNeverMovesBack
    ObservationsCatchUp
