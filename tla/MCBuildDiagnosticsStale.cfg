SPECIFICATION Spec
CONSTANTS
    f1 = f1  f2 = f2
    Files = {f1, f2}
    Diags <- MCDiags
    CodeOf <- MCCodeOf
    BuildOnly <- MCBuildOnly
    Reports <- MCReports
    Scopes = {"fullSolution", "openFiles", "none"}
    MaxBuilds = 3
    MaxOpens = 2
CHECK_DEADLOCK FALSE
INVARIANT DisplayedIsOfLastReport
