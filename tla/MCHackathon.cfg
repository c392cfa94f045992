SPECIFICATION Spec
CONSTANTS
    t1 = t1  t2 = t2
    p1 = p1
    m1 = m1  m2 = m2
    r1 = r1  r2 = r2
    k1 = k1  k2 = k2
    s1 = s1
    c1 = c1
    ShortlistSizes <- MCShortlistSizes
    CheckInSizes <- MCCheckInSizes
    IdeaSizes <- MCIdeaSizes
    JudgingSizes <- MCJudgingSizes
    AttendanceSizes <- MCAttendanceSizes
    WithdrawalSizes <- MCWithdrawalSizes
    ProblemSizes <- MCProblemSizes
SYMMETRY Symmetry
INVARIANTS
    TypeOK
    CardsAreTrue
    ArrivedFirst
    HeldFilesExist
    LeaderboardFollowsReviews
PROPERTIES
    CheckInsAreKept
    DecisionsStand
    ImplementsMembership
CHECK_DEADLOCK FALSE
