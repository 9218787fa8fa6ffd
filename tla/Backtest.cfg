CONSTANTS
    NoLine = NoLine
    None = None
    q1 = q1
    q2 = q2
    q3 = q3
    q4 = q4
    Length = 13
    Match <- Matches
    SportOf <- OneSport
    PlayersOf <- Pairs
    StartOf <- AfterABreak
    PublicAt <- TwoLater
    Known <- Corpus
    Early <- Stored
    Named = {0,1,2,3,4,5,6,7,8,10,11,12}
    MinSamples = 1
    Train = 6
    Validation = 3
    Test = 2
    Step = 2
    Quote = {q1, q2, q3, q4}
    QuoteOf <- Prices
    Lead = 3
    Report = {"backtest", "train"}
SPECIFICATION Spec
INVARIANTS
    NothingFromTheFuture
    TestedOnce
    BetsMeanWhatTheyPrice
