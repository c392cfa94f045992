SPECIFICATION Spec
CONSTANTS
    p1 = p1  p2 = p2
    r1 = r1  r2 = r2
    w1 = w1  w2 = w2  w3 = w3
    s1 = s1
    SeatSizes <- MCSeatSizes
    ReminderSizes <- MCReminderSizes
    UploadSizes <- MCUploadSizes
    LogicSizes <- MCLogicSizes
    HistorySizes <- MCHistorySizes
    RuleSizes <- MCRuleSizes
SYMMETRY Symmetry
INVARIANTS
    TypeOK
    ClosedFormIsFull
    RemindedOnce
    AnswerNamesItsFiles
    LayoutSettles
    AnswersKeepMeaning
    RulesJudged
PROPERTIES
    LimitsHold
CHECK_DEADLOCK FALSE
