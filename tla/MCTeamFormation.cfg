SPECIFICATION Spec
CONSTANTS
    u1 = u1
    u2 = u2
    u3 = u3
    t1 = t1
    t2 = t2
    Users <- MCUsers
    Teams <- MCTeams
    Existing <- MCExisting
    Nobody = Nobody
    Organizer = Organizer
    MinSize = 2
    MaxSize = 2
    MaxRequests = 1
    Phases = {"OPEN", "LOCKED", "CLOSED"}
    Failures = TRUE
    MaxPending = 2
SYMMETRY MCSymmetry
CONSTRAINT PendingBound
INVARIANTS
    TypeOK
    OneTeamPerUser
    RowsAgree
    NoInviteForMember
PROPERTIES
    SizesHold
    ImplementsMembership
