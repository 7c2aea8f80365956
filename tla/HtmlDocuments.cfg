SPECIFICATION Spec
CONSTANTS
    Getters = {g1, g2}
    MaxUpdates = 3
CHECK_DEADLOCK FALSE
INVARIANTS SeenBeforeCall Converges
PROPERTIES EveryGetEnds
