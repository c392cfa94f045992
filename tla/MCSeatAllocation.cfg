SPECIFICATION Spec
CONSTANTS
    t1 = t1
    t2 = t2
    t3 = t3
    w1 = w1
    w2 = w2
    Teams <- MCTeams
    Workers = {w1}
    Settings <- MCSettings
    First <- MCFirst
    MaxPeople = 3
    MaxSize = 2
    SizeBound = 3
    Overrides = TRUE
    Failures = TRUE
SYMMETRY MCSymmetry
INVARIANTS
    TypeOK
    PaymentMatchesTeam
PROPERTIES
    PlacesAreFair
    ImplementsPlaces
