SPECIFICATION MCSpec
CONSTANTS
    f1 = f1  f2 = f2
    Files = {f1, f2}
    Diags <- MCDiags
    CodeOf <- MCCodeOf
    BuildOnly <- MCBuildOnly
    Reports <- MCReports
    Scopes = {"fullSolution", "openFiles", "none"}
    MaxBuilds = 3
    MaxOpens = 2
    Folders <- MCFolders
    Workspaces <- MCWorkspaces
    UserFiles <- MCUserFiles
    MaxEdits = 1
    Values = {"a", "true"}
    UserSettings <- MCUserSettings
    Followed = {"disableAIFeatures", "useOmnisharpServer", "dotnetPath", "loggingLevel", "inlayHintsEnableForParameters", "enableRoslynAnalyzers", "componentPaths"}
    MigratedHere = {"runSettingsPath", "inlayHintsEnableForParameters"}
    MaxStarts = 2
    l1 = l1  l2 = l2
    Launches = {l1, l2}
    Configurations <- MCConfigurations
    Environments <- MCEnvironments
    EnvironmentFiles <- MCEnvironmentFiles
    d1 = d1  d2 = d2  p1 = p1
    Docs = {d1, d2}
    NoDoc = NoDoc
    Everything = Everything
    Projects = {p1}
    MaxEvents = 4
    MaxAsked = 2
    Names = {d1}
    MaxCalls = 4
    MaxVersions = 2
    Inputs <- MCInputs
    NoInput = NoInput
    TextDocs = {d1, d2}
    Texts = {"brace", "indentedLines", "replaced"}
    MaxTyped = 2
    w1 = w1  w2 = w2
    Windows = {w1, w2}
    MaxReloads = 1
CHECK_DEADLOCK FALSE
INVARIANTS
    TypeOK OpenFilesShowBuildErrors ClosedFilesShowAll UserStateKept EditsFit SessionsFit
    OmniSharpInStep AlgorithmsCorrect
