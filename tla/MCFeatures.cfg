CONSTANTS
    c1 = c1  c2 = c2  c3 = c3  a1 = a1   r1 = r1  r2 = r2
    Commands = {c1, c2, c3}
    Attaches = {a1}
    Requests = {r1, r2}
    Nobody = Nobody
    MaxStops = 1
    MaxCrashes = 1
    Workspaces <- MCWorkspaces
    NewFiles <- MCNewFiles
    Installations <- MCInstallations
    FolderCount = 2
    NoTarget = NoTarget
    Machines <- MCMachines
CHECK_DEADLOCK FALSE
SPECIFICATION Spec
INVARIANTS FlagsAreExact ActiveIsOpen StartFits
PROPERTIES
    EveryCommandEnds EverySocketCloses EveryModifiedRequestEnds AutoStartEnds
    InitializationSettles
