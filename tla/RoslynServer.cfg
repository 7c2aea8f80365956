SPECIFICATION Spec
CONSTANTS
    Solutions = {solA, solB}
    Projects = Projects
    None = None
    DefaultSolution = ""
    MaxSessions = 3
    MaxOpens = 1
    Callers = {1, 2}
CHECK_DEADLOCK FALSE
INVARIANTS ServerHasWorkspace CrashReportedOnce
PROPERTIES EveryServerConnected EveryRestartEnds
