SPECIFICATION Spec
CONSTANTS
    Getters = {g1, g2}
    MaxUpdates = 2
CHECK_DEADLOCK FALSE
INVARIANTS SeenBeforeEveryCall
