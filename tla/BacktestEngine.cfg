CONSTANTS
    NoLine = NoLine
    Line <- LinesInReach
    MaxGoals = 2
    Opportunity <- Recorded
    Strategy <- OneOfEachMode
    MaxRun = 3
SPECIFICATION EngineSpec
INVARIANTS
    OppositeSidesCancel
    OneMainResultWins
    OrientationDoesNotMatter
    LegacyAgrees
    KellyNeverRuins
    StakesNeedAnEdge
    MetricsExplainBankroll
PROPERTY GoalsHelpTheirSide
CHECK_DEADLOCK FALSE
