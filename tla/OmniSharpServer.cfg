SPECIFICATION Spec
CONSTANTS
    Callers = {c1, c2}
    MaxCalls = 5
    Windows = FALSE
CHECK_DEADLOCK FALSE
INVARIANTS OneServer ProvidersOfCurrentEngine
PROPERTIES EveryCallEnds
