SPECIFICATION Spec
CONSTANTS
    People = {p1, p2}
    Slots = {1, 2}
    Refs = {x1}
    MaxSelfCreated = 1
    MaxExtra = 1
INVARIANT RequestsAwaitATeam
CHECK_DEADLOCK FALSE
