CONSTANTS
    Requests = {r1}
    Errors = {"modified", "other"}
    MaxCrashes = 0
    MayStop = FALSE
CHECK_DEADLOCK FALSE
SPECIFICATION FairSpec
PROPERTY EveryRequestEnds
