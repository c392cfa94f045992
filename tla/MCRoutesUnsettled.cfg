SPECIFICATION Spec
CONSTANTS
    Last = 5
    Breaks = {2, 4}
    Actions = {"show"}
INVARIANTS RoutesSettle
CHECK_DEADLOCK FALSE
