----------------------------- MODULE MCFeatures -----------------------------
(* Features with three commands, one attach request and two requests.        *)
EXTENDS Features

CONSTANTS c1, c2, c3, a1, r1, r2

-----------------------------------------------------------------------------
(* OmniSharpLaunch: workspaces of two folders with files of each kind in the   *)
(* root or below it, and installations that fit and that do not.               *)

File(kind_, folder, directory, name) ==
    [kind |-> kind_, folder |-> folder, directory |-> directory, name |-> name]
Sln == File("sln", 1, 10, 1)
Sln2 == File("sln", 2, 21, 2)
Proj == File("csproj", 1, 11, 3)
Proj2 == File("csproj", 2, 20, 4)
Csx == File("csx", 1, 12, 5)
Cake == File("cake", 2, 20, 6)
Cs == File("cs", 1, 10, 7)
Vsls == File("vsls", 0, 0, 8)

MCWorkspaces ==
    {<<>>, <<Vsls>>, <<Sln>>, <<Proj, Csx>>, <<Proj, Sln, Proj2>>, <<Cs>>, <<Proj2, Cs>>,
     <<Csx, Cake>>, <<Sln2, Cake, Sln, Cs>>}
MCNewFiles == {Proj, Cs}

Installation(modern, windows, cli, dotnet, mono, msbuild, serverPath, userBinary, maxResults) ==
    [useModernNet |-> modern, windows |-> windows, cliVersion |-> cli, dotnetVersion |-> dotnet,
     monoVersion |-> mono, msbuild |-> msbuild, serverPath |-> serverPath, userBinary |-> userBinary,
     defaultSolution |-> 2, maxProjectResults |-> maxResults]
MCInstallations ==
    {Installation(TRUE, FALSE, 8000, 8000, 0, FALSE, "", "", 0),
     Installation(TRUE, TRUE, 6000, 6000, 0, FALSE, "latest", "", 2),
     Installation(TRUE, FALSE, 8000, 8000, 0, FALSE, "absolute", "user.dll", 0),
     Installation(TRUE, FALSE, 8000, 8000, 0, FALSE, "absolute", "user", 0),
     Installation(FALSE, TRUE, 0, 0, 0, FALSE, "absolute", "user", 0),
     Installation(FALSE, TRUE, 0, 0, 0, FALSE, "absolute", "", 0),
     Installation(FALSE, FALSE, 0, 0, 64, TRUE, "version", "", 1),
     Installation(FALSE, FALSE, 0, 0, 50, TRUE, "", "", 0),
     Installation(FALSE, FALSE, 0, 0, 64, TRUE, "invalid", "", 0)}

-----------------------------------------------------------------------------
(* Activation: every combination of what decides which server there is.        *)

Machine(platform, old, trusted, devKit, useOmniSharp, auto, has) ==
    [platform |-> platform, oldRuntimeExtension |-> old, trusted |-> trusted, devKit |-> devKit,
     useOmnisharp |-> useOmniSharp, razorDevMode |-> old, debuggerInstalled |-> has, autoStart |-> auto,
     hasProjects |-> has, serverPath |-> "dll", manifest |-> "win32-x64",
     toolingRuntime |-> IF devKit THEN "valid" ELSE "", onPath |-> has, acquirable |-> has,
     disableAI |-> FALSE, crashDumpPath |-> FALSE, custom |-> FALSE]
MCMachines ==
    {Machine("supported", old, trusted, devKit, useOmniSharp, auto, has) :
        old \in BOOLEAN, trusted \in BOOLEAN, devKit \in BOOLEAN, useOmniSharp \in BOOLEAN,
        auto \in BOOLEAN, has \in BOOLEAN}
    \cup {Machine(p, FALSE, TRUE, FALSE, FALSE, FALSE, TRUE) : p \in {"unsupported", "unknown"}}
=============================================================================
