CONSTANTS
    None = None
    p1 = p1
    p2 = p2
    p3 = p3
    Source = {"uel_ef", "fonbet"}
    Participant = {p1, p2, p3}
    SourceOf <- Sources
    Rank <- Order
    Name = {"anna", "annna", "boris", "madrid", "madrld", "real"}
    Like <- Likeness
    Long = {"annna", "boris", "madrid", "madrld"}
    Early = {p1, p2}
    NamesOf <- Names
    Renames <- Relisted
    Runner = {"uel-history", "fonbet-odds", "operator"}
    RunnerOf <- JobSources
    Fallible = {"operator"}
SPECIFICATION FairSpec
INVARIANTS
    NoSilentMerge
    OnlyRacesDisagree
    NamedAsListed
PROPERTY NamesAreDecided
