SPECIFICATION Spec
CONSTANTS
    w1 = w1
    r1 = r1
    r2 = r2
    NoRubric = NoRubric
    Teams = {1, 2}
    Judges = {1, 2}
    Workers = {w1}
    Rubrics <- MCRubrics
    MaxScore = 2
    Scores <- MCScores
    Settings <- MCSettings
    First <- MCFirst
    Queues = FALSE
    Edits = FALSE
SYMMETRY MCSymmetry
INVARIANTS
    TypeOK
    RanksAreEarned
    OneRubric
PROPERTIES
    PublishedResultsStand
