----------------------------- MODULE MCWorkspace -----------------------------
(* Workspace with a few small values of everything.                            *)
EXTENDS MCBuildDiagnostics, Workspace

CONSTANTS d1, d2, p1, l1, l2, w1, w2

-----------------------------------------------------------------------------
(* BuildAssets: two folders, one project of each kind or two; the files absent, *)
(* with comments only, without entries, or with entries the code would add.     *)

Project(kind) ==
    [isExe |-> kind # "library", core |-> kind # "standalone", web |-> kind \in {"web", "hosted"},
     hosted |-> kind = "hosted", standalone |-> kind = "standalone"]
File(k, v, names) ==
    [kind |-> k, version |-> v,
     entries |-> [i \in DOMAIN names |->
        [name |-> names[i], user |-> TRUE, group |-> names[i] = "other" /\ i = 1]]]
Absent == File("absent", "", <<>>)
OwnTasks == File("entries", "2.0", <<"build", "other">>)
OwnLaunch == File("entries", "2.0", <<"other", "console">>)

MCFolders == <<"f1", "f2">>
Folder(p, t, l) == [projects |-> p, tasks |-> t, launch |-> l]
MCWorkspaces ==
    {[f1 |-> Folder(p, t, l), f2 |-> Folder(<<>>, Absent, Absent)] :
        p \in {<<Project("library")>>, <<Project("console"), Project("web")>>,
               <<Project("hosted")>>, <<Project("standalone")>>},
        t \in {Absent, File("text", "", <<>>), File("object", "", <<>>),
               File("entries", "2.0", <<"other">>), OwnTasks},
        l \in {Absent, File("entries", "2.0", <<"hosted">>), OwnLaunch}}
    \cup {[f \in {"f1", "f2"} |-> Folder(<<Project("console")>>, Absent, Absent)]}
MCUserFiles == [tasks |-> {OwnTasks}, launch |-> {OwnLaunch}]

-----------------------------------------------------------------------------
(* Options: an option under old and new names, in one scope or several, and the *)
(* settings of the dotnet path.                                                 *)

RunSettings == << <<"dotnet", "runSettingsPath">>, <<"omnisharp", "testRunSettings">> >>
Hints == << <<"dotnet", "inlayHintsEnableForParameters">>, <<"csharp", "inlayHintsEnableForParameters">> >>
Dotnet == <<"dotnet", "dotnetPath">>

MCUserSettings ==
    {[p \in {<<RunSettings[2], "Global">>, <<RunSettings[2], "Workspace">>, <<Dotnet, "Global">>} |->
        IF p[2] = "Global" THEN "a" ELSE "b"],
     [p \in {<<RunSettings[2], "WorkspaceFolder">>, <<RunSettings[1], "Global">>,
             <<Hints[2], "Global">>, <<Dotnet, "Workspace">>} |->
        IF p[2] = "Workspace" THEN "missing" ELSE "a"],
     [p \in {<<Dotnet, "Global">>, <<<<"dotnet", "useOmnisharpServer">>, "Global">>,
             <<Hints[2], "Workspace">>} |->
        CASE p[1] = Dotnet -> "a" [] p[1] = Hints[2] -> "false" [] OTHER -> "true"],
     [p \in {<<Dotnet, "Global">>, <<<<"dotnetAcquisitionExtension", "existingDotnetPath">>, "Global">>,
             <<Hints[2], "Workspace">>} |-> "a"]}

-----------------------------------------------------------------------------
(* DebugSessions: a configuration of each type, and installations with and      *)
(* without Dev Kit and the service.                                             *)

Configuration(type, request, projectPath, envFile, ready) ==
    [type |-> type, request |-> request, folder |-> TRUE, projectPath |-> projectPath, program |-> 0,
     process |-> FALSE, pipeTransport |-> FALSE, envFile |-> envFile, env |-> [k \in {"a"} |-> 1],
     launchEnv |-> [k \in {"a"} |-> 1], option |-> "", checkForDevCert |-> "",
     serverReadyAction |-> ready, targetArchitecture |-> "", name |-> 1,
     platform |-> "", assetsPath |-> "none"]
InBrowser(envFile, assetsPath) ==
    [Configuration("monovsdbg_wasm", "launch", 0, envFile, FALSE) EXCEPT
        !.platform = "browser", !.assetsPath = assetsPath]
MCConfigurations ==
    {Configuration("", "", 0, "", FALSE), Configuration("dotnet", "launch", 1, "", TRUE),
     Configuration("dotnet", "launch", 2, "", FALSE),
     Configuration("coreclr", "launch", 0, "file", TRUE),
     Configuration("coreclr", "attach", 0, "", FALSE),
     Configuration("monovsdbg_wasm", "launch", 0, "absent", FALSE),
     InBrowser("", "none"), InBrowser("", "given")}

Installation(service, isRunning, found, devKit) ==
    [service |-> service, running |-> isRunning, projects |-> found, devKit |-> devKit,
     linux |-> FALSE, remote |-> FALSE, appleSilicon |-> devKit, option |-> "set"]
MCEnvironments ==
    {Installation("two", TRUE, <<"executable">>, TRUE), Installation("one", TRUE, <<"library", "wasm8">>, TRUE),
     Installation("", TRUE, <<"library", "executable", "executable">>, FALSE),
     Installation("", TRUE, <<"wasm", "wasm9">>, FALSE), Installation("", TRUE, <<"wasm8", "wasm9">>, FALSE),
     Installation("", FALSE, <<>>, FALSE), Installation("cancelled", TRUE, <<>>, TRUE)}
MCEnvironmentFiles ==
    [f \in {"file"} |->
        <<[kind |-> "pair", key |-> "a", value |-> 2], [kind |-> "comment", key |-> "", value |-> 0],
          [kind |-> "pair", key |-> "b", value |-> 3]>>]

-----------------------------------------------------------------------------
(* The algorithms that keep no state, beside a workspace where nothing is at     *)
(* work: what holds of the steps of the workspace holds of these.              *)

CONSTANTS Inputs, NoInput

VARIABLE input

Pure == INSTANCE Algorithms
AlgorithmInputs == INSTANCE MCAlgorithmInputs
MCInputs == AlgorithmInputs!AllInputs

MCInit == WorkspaceInit /\ Pure!Init

MCNext ==
    \/ WorkspaceNext /\ UNCHANGED input
    \/ part = "none" /\ Pure!Next /\ UNCHANGED workspaceVars

MCSpec == MCInit /\ [][MCNext]_<<workspaceVars, input>>

\* Each algorithm that keeps no state gives what its reference says (processPicker.ts,
\* platform.ts, dotnetInfo.ts, and the providers of OmniSharp and Razor).
AlgorithmsCorrect == Pure!AlgorithmsCorrect
=============================================================================
