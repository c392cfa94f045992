SPECIFICATION FairSpec
CONSTANTS
    t1 = t1
    t2 = t2
    t3 = t3
    w1 = w1
    w2 = w2
    Teams <- MCTeams
    Workers = {w1, w2}
    Settings <- MCRaised
    First <- MCFirst
    MaxPeople = 0
    MaxSize = 1
    SizeBound = 1
    Overrides = TRUE
    Failures = FALSE
INVARIANTS
    PromotionHoldsItsTeams
PROPERTIES
    RoomIsFilled
