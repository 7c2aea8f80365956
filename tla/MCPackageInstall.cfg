CONSTANTS
    w1 = w1  w2 = w2
    debugger = debugger
    omnisharp = omnisharp
    Windows = {w1, w2}
    PackageList <- MCPackageList
    IdOf <- MCIdOf
    Debugger = "Debugger"
    Unused = {}
    Checked = {debugger}
    WithFallback = {debugger}
    NFiles = 2
    MaxCloses = 2
CHECK_DEADLOCK FALSE
SPECIFICATION MCSpec
INVARIANTS LockedIsWhole LaunchMeansInstalled
PROPERTY EveryActivationEnds
