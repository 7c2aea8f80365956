SPECIFICATION ServicesSpec
CONSTANTS
    d1 = d1  d2 = d2
    k1 = k1  k2 = k2  misc = misc
    c1 = c1  c2 = c2
    l1 = l1  l2 = l2
    Docs = {d1, d2}
    NoDoc = NoDoc
    Keys = {k1, k2, misc}
    NoKey = NoKey
    Lists <- MCLists
    MaxRefreshes = 3
    MaxCommands = 1
    QuickStat = TRUE
    Captures = {c1, c2}
    MaxChanges = 2
    Launches = {l1, l2}
    NoLaunch = NoLaunch
    MaxSessions = 4
SYMMETRY LaunchSymmetry
CHECK_DEADLOCK FALSE
INVARIANTS RefCountsExact AnnouncedOnce CapturesEndClean EndTogether
PROPERTY OnlyAChoiceChangesContext
