SPECIFICATION Spec
CONSTANTS
    w1 = w1
    r1 = r1
    r2 = r2
    NoRubric = NoRubric
    Teams = {1}
    Judges = {1, 2, 3}
    Workers = {w1}
    Rubrics <- MCRubrics
    MaxScore = 2
    Scores <- MCScores
    Settings <- MCEverybody
    First <- MCFirst
    Queues = TRUE
    Edits = TRUE
SYMMETRY MCSymmetry
INVARIANTS
    ScoresAreSound
PROPERTIES
    ReviewsAreKept
