CONSTANTS
    None = None
    t1 = t1
    t2 = t2
    t3 = t3
    e1 = e1
    e2 = e2
    p3 = p3
    p1 = p1
    p2 = p2
    d1 = d1
    d2 = d2
    UELTour = {t1, t2, t3}
    ESBTour = {e1, e2}
    Listed <- TwoTours
    Participants <- ESBParticipants
    ToursOf <- ESBPages
    Gone = {p3}
    Days <- TwoDays
    Enabled = {{"uel"}, {"esb"}, {"sis"}}
    MaxTournaments = 1
    ESBMaxTournaments = 1
    PageFloor = 1
    MaxFaults = 1
SPECIFICATION FairSpec
INVARIANTS
    RowsHaveTheirBodies
PROPERTIES
    CatalogueCovered
    ParticipantsCovered
