CONSTANTS
    None = None
    m1 = m1
    m2 = m2
    c1 = c1
    c2 = c2
    Match = {m1,m2}
    Tour <- TwoTours
    Collector = {c1, c2}
    Kind = {"uel", "esb", "sis", "fonbet"}
    Listing <- Listings
    Score = {"1:0", "2:0"}
    Side = {"AB", "BA"}
    MaxTime = 1
    MaxNews = 1
SYMMETRY Interchangeable
SPECIFICATION Spec
INVARIANTS
    FirstObserved
    RowsOfOnePayload
