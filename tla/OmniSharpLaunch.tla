--------------------------- MODULE OmniSharpLaunch ---------------------------
(* What OmniSharp is started for, and how: the search for solutions and projects
   (omnisharp/launcher.ts), the choice among them (autoStart in omnisharp/server.ts,
   the selector in features/commands.ts), the requirements, the place of the server
   (omnisharpManager.ts and the files it uses) and the host it runs on.

   A file of the workspace is a record of its kind, its folder and the rank of its
   directory; a name or a path is a number.  The steps of start that OmniSharpServer
   models (the state, the engine, the stop) are left out here, and the arguments
   that only repeat an option.                                                 *)
EXTENDS Naturals, Sequences, FiniteSets

LOCAL INSTANCE SequencesExt
LOCAL INSTANCE StableSort

CONSTANTS
    Workspaces,     \* sequences of files a workspace may begin with
    NewFiles,       \* files that may be created
    Environments,   \* what is installed and how the options are set
    FolderCount,    \* the number of workspace folders
    NoTarget

VARIABLES
    files,          \* the files, in the order findFiles gives them
    scanned,        \* what the search has found
    missed,         \* files created after they could be found and before the watcher
    launchPc,
    target,         \* the launch target
    launchPath,     \* where the server is
    hostKind,       \* what it runs on
    lastPath,       \* workspaceState: lastSolutionPathOrFolder
    environment

vars == <<files, scanned, missed, launchPc, target, launchPath, hostKind, lastPath, environment>>

ProjectKinds == {"sln", "csproj", "csx", "cake"}

-----------------------------------------------------------------------------
(* Launch targets.                                                           *)

\* A target is named by its path: of a solution the file, of the others a folder.
Target(kind, label, directory) ==
    [kind |-> kind, label |-> label, directory |-> directory,
     path |-> <<IF kind = "Solution" THEN label ELSE 0, directory>>]
VslsTarget == Target("LiveShare", 0, 0)

\* The directory of a workspace folder.
Root(folder) == 10 * folder

IsVsls(file) == file.kind = "vsls"

ByDirectory(targets) == StableSort(targets, LAMBDA a, b : a.directory < b.directory)

\* resourcesAndFolderMapToLaunchTargets: the folders in the order of the map, each of
\* which asks whether there are projects and solutions in any folder up to itself.
ResourcesAndFolderMapToLaunchTargets(order, resources, maxProjectResults) ==
    LET Files(kind) == SelectSeq(resources, LAMBDA f : f.kind = kind /\ f.folder \in ToSet(order))
        FileTargets(kind, as) ==
            [i \in DOMAIN Files(kind) |-> Target(as, Files(kind)[i].name, Files(kind)[i].directory)]
        Has(k, kind) == \E f \in ToSet(resources) : f.kind = kind /\ f.folder = order[k]
        Before(k, kind) == \E j \in 1 .. k : Has(j, kind)
        RootIf(condition, kind, k) == IF condition THEN <<Target(kind, order[k], Root(order[k]))>> ELSE <<>>
        roots == FlattenSeq([k \in DOMAIN order |->
                     RootIf(Before(k, "csproj") /\ ~Before(k, "sln"), "Folder", k)])
        others == FlattenSeq([k \in DOMAIN order |->
                     RootIf(Has(k, "csx"), "Csx", k) \o RootIf(Has(k, "cake"), "Cake", k) \o
                     RootIf(Has(k, "cs") /\ ~Before(k, "csproj") /\ ~Before(k, "sln"), "Folder", k)])
        targets == others \o ByDirectory(FileTargets("sln", "Solution")) \o ByDirectory(roots)
                          \o ByDirectory(FileTargets("csproj", "Project"))
    IN  IF maxProjectResults > 0 THEN SubSeq(targets, 1, Min({maxProjectResults, Len(targets)})) ELSE targets

\* resourcesToLaunchTargets: folders are in the map in the order of their first file.
FirstOfFolder(resources, i) == \A j \in 1 .. i - 1 : resources[j].folder # resources[i].folder

\* Mutant: the first folder, of index 0, counts as none.
FolderOrderFromOne(resources) ==
    LET firsts == SelectSeq([i \in DOMAIN resources |-> i], LAMBDA i : FirstOfFolder(resources, i)
                                                                    /\ resources[i].folder # 1)
    IN  [k \in DOMAIN firsts |-> resources[firsts[k]].folder]

FolderOrder(resources) ==
    LET firsts == SelectSeq([i \in DOMAIN resources |-> i], LAMBDA i : FirstOfFolder(resources, i))
    IN  [k \in DOMAIN firsts |-> resources[firsts[k]].folder]

ResourcesToLaunchTargets(resources, maxProjectResults) ==
    LET local == SelectSeq(resources, LAMBDA f : ~IsVsls(f)) IN
    CASE resources = <<>> -> <<>>
      [] resources # <<>> /\ local = <<>> -> <<VslsTarget>>
      [] OTHER -> ResourcesAndFolderMapToLaunchTargets(
                      FolderOrder(SelectSeq(local, LAMBDA f : f.folder \in 1 .. FolderCount)),
                      local, maxProjectResults)

\* The target autoStart takes of several: the default solution, the one of last time,
\* the first folder or solution; with none, it shows the selector.
First(fitting) == IF fitting = <<>> THEN NoTarget ELSE Head(fitting)

Choice(targets) ==
    LET Default(t) == t.kind = "Solution" /\ t.label = environment.defaultSolution
        default == First(SelectSeq(targets, Default))
        preferred == First(SelectSeq(targets, LAMBDA t : t.path = lastPath))
    IN  CASE Len(targets) = 1 -> targets[1]
          [] Len(targets) > 1 /\ default # NoTarget -> default
          [] Len(targets) > 1 /\ default = NoTarget /\ preferred # NoTarget -> preferred
          [] OTHER -> First(SelectSeq(targets, LAMBDA t : t.kind \in {"Folder", "Solution"}))

-----------------------------------------------------------------------------
(* Requirements, place and host.                                             *)

\* DotnetResolver and OmniSharpMonoResolver: the least versions, 6.0.100 and 6.4.0;
\* getDotnetInfo, of the dotnet of the option dotNetCliPaths, must be 6.0.0.
DotnetResolves == environment.dotnetVersion >= 6100
MonoResolves == environment.monoVersion >= 64

\* checkRequirements: nothing is checked of Windows with the .NET Framework.
MeetsRequirements ==
    CASE environment.useModernNet -> environment.cliVersion >= 6000
      [] ~environment.useModernNet /\ environment.windows -> TRUE
      [] OTHER -> MonoResolves /\ environment.msbuild

\* GetLaunchPathForVersion
LaunchPathForVersion(version) ==
    [version |-> version,
     binary |-> IF environment.useModernNet THEN "OmniSharp.dll" ELSE "OmniSharp.exe"]

\* DownloadAndInstallOmnisharp with the package of GetPackagesFromVersion, whose result
\* nobody reads: the path is returned whether the packages were installed or not.
Installs(version) == LaunchPathForVersion(version)

\* GetOmniSharpLaunchPath, of omnisharp.path: nothing, an absolute path, which is taken
\* as it is when something is there, "latest" or a version; what it may come to, {}
\* for an exception.
OmniSharpLaunchPaths ==
    CASE environment.serverPath = "" -> {LaunchPathForVersion("default")}
      [] environment.serverPath = "absolute" ->
             IF environment.userBinary # "" THEN {[version |-> "user", binary |-> environment.userBinary]}
             ELSE {}
      [] environment.serverPath = "latest" -> {Installs("latest")}
      [] environment.serverPath = "version" -> {Installs("version")}
      [] environment.serverPath = "invalid" -> {}

\* configure: modern .NET with its resolver, the .NET Framework of Windows, or Mono;
\* "" for an exception.
Configure ==
    CASE environment.useModernNet -> IF DotnetResolves THEN ".NET" ELSE ""
      [] ~environment.useModernNet /\ environment.windows -> "Windows .NET Framework"
      [] OTHER -> IF MonoResolves THEN "Mono .NET Framework" ELSE ""

\* What is run for it: with modern .NET a dll on the host and anything else as it is,
\* cmd on Windows, mono otherwise, whatever the file is.
Dlls == {"OmniSharp.dll", "user.dll"}
Command ==
    CASE hostKind = ".NET" -> IF launchPath.binary \in Dlls THEN "dotnet" ELSE "itself"
      [] hostKind = "Windows .NET Framework" -> "cmd"
      [] hostKind = "Mono .NET Framework" -> "mono"

-----------------------------------------------------------------------------

NoPath == [version |-> "", binary |-> ""]
Ended == {"launched", "missing", "failed", "dismissed", "liveShare"}

Init ==
    /\ files \in Workspaces
    /\ environment \in Environments
    /\ scanned = <<>> /\ missed = {}
    /\ launchPc = "idle"
    /\ target = NoTarget /\ launchPath = NoPath /\ hostKind = ""
    /\ lastPath \in {<<0, 0>>} \cup {Target("Project", f.name, f.directory).path : f \in ToSet(files)}

Unchanged == UNCHANGED <<files, missed, environment, launchPath, hostKind>>

AutoStart ==
    /\ launchPc = "idle"
    /\ launchPc' = "search"
    /\ UNCHANGED <<scanned, target, lastPath>> /\ Unchanged

\* The two searches of findLaunchTargets; the second ends at the first .cs file.
\* Mutant: the glob of the first search leaves scripts out.
FindProjectsNoScripts ==
    /\ launchPc = "search"
    /\ scanned' = SelectSeq(files, LAMBDA f : f.kind \in {"sln", "csproj"})
    /\ launchPc' = "searchCs"
    /\ UNCHANGED <<target, lastPath>> /\ Unchanged
FindProjects ==
    /\ launchPc = "search"
    /\ scanned' = SelectSeq(files, LAMBDA f : f.kind # "cs")
    /\ launchPc' = "searchCs"
    /\ UNCHANGED <<target, lastPath>> /\ Unchanged

CsFiles == SelectSeq(files, LAMBDA f : f.kind = "cs")
Targets == ResourcesToLaunchTargets(scanned, environment.maxProjectResults)

\* The search is over: nothing found is watched for, one target or the choice started.
FindCs ==
    /\ launchPc = "searchCs"
    /\ scanned' = scanned \o SubSeq(CsFiles, 1, Min({1, Len(CsFiles)}))
    /\ \E targets \in {ResourcesToLaunchTargets(scanned', environment.maxProjectResults)} :
           IF targets = <<>> THEN launchPc' = "watch" /\ UNCHANGED target
           ELSE \E choice \in {Choice(targets)} :
                    /\ target' = choice
                    /\ launchPc' = IF choice = NoTarget THEN "select" ELSE "start"
    /\ UNCHANGED lastPath /\ Unchanged

\* A file that the watcher sees starts the search again; one made while the search
\* was under way is not seen any more.
CreateFile(f) ==
    /\ f \notin ToSet(files)
    /\ files' = Append(files, f)
    /\ missed' = IF launchPc = "searchCs" THEN missed \cup {f} ELSE missed
    /\ launchPc' = IF launchPc = "watch" /\ f.kind \in ProjectKinds THEN "search" ELSE launchPc
    /\ UNCHANGED <<scanned, target, launchPath, hostKind, lastPath, environment>>

\* showProjectSelector, whose pick goes through restart.
Select(t) ==
    /\ launchPc = "select"
    /\ target' = t
    /\ launchPc' = "start"
    /\ UNCHANGED <<scanned, lastPath>> /\ Unchanged

Dismiss ==
    /\ launchPc = "select"
    /\ launchPc' = "dismissed"
    /\ UNCHANGED <<scanned, target, lastPath>> /\ Unchanged

\* start, up to its second await: Live Share has its own server, and requirements
\* that are missing end in a prompt.
Start ==
    /\ launchPc = "start"
    /\ launchPc' = CASE target.kind = "LiveShare" -> "liveShare"
                     [] target.kind # "LiveShare" /\ MeetsRequirements -> "locate"
                     [] OTHER -> "missing"
    /\ UNCHANGED <<scanned, target, lastPath>> /\ Unchanged

\* The path is known, or an error was reported; the target is remembered before the
\* engine starts.
Locate ==
    /\ launchPc = "locate"
    /\ \/ \E path \in OmniSharpLaunchPaths :
              launchPath' = path /\ launchPc' = "configure" /\ lastPath' = target.path
       \/ /\ OmniSharpLaunchPaths = {} \/ environment.serverPath = "latest"
          /\ launchPc' = "failed" /\ UNCHANGED <<launchPath, lastPath>>
    /\ UNCHANGED <<files, scanned, missed, target, hostKind, environment>>

\* launchOmniSharp: the process is spawned, or an error rejects.
Launch ==
    /\ launchPc = "configure"
    /\ hostKind' = Configure
    /\ \/ Configure # "" /\ launchPc' = "launched"
       \/ launchPc' = "failed"
    /\ UNCHANGED <<files, scanned, missed, target, launchPath, lastPath, environment>>

System == FindProjects \/ FindCs \/ Start \/ Locate \/ Launch
Next ==
    \/ AutoStart \/ System \/ Dismiss
    \/ \E f \in NewFiles : CreateFile(f)
    \/ \E t \in ToSet(Targets) : Select(t)

\* Searches, checks and installations end; the user may leave the selector open.
Fairness == WF_vars(System)
Spec == Init /\ [][Next]_vars /\ Fairness

-----------------------------------------------------------------------------

\* The search finds every solution and project of the folders, the root where it
\* has projects and no solution, and no target twice; the limit cuts the list
\* (launcher.ts:111-220).  Of several folders, a folder may get the root of another's
\* projects, or nothing for its own files, as :160-161 ask of all folders so far.
TargetsFit ==
    LET all == ResourcesToLaunchTargets(scanned, 0)
        Has(kind) == \E f \in ToSet(scanned) : f.kind = kind
    IN  /\ Has("sln") \/ Has("csproj") \/ Has("csx") \/ Has("cake") \/ Has("cs") => all # <<>>
        /\ \A f \in ToSet(scanned) :
               /\ f.kind = "sln" => Target("Solution", f.name, f.directory) \in ToSet(all)
               /\ f.kind = "csproj" => Target("Project", f.name, f.directory) \in ToSet(all)
        /\ Cardinality(ToSet(all)) = Len(all)
        /\ (\E t \in ToSet(all) : t.kind = "Folder") => ~Has("sln") \/ FolderOrder(scanned) # <<1>>
        /\ IsPrefix(Targets, all)

\* A server that was launched is of a target that was found, is what is remembered,
\* and runs on a host that was checked for and fits what the extension has installed;
\* only a user's own binary is run by itself (launcher.ts:330-390).  A user's file is
\* not looked at: without modern .NET its dll is given to cmd or mono as well.
LaunchIsSound ==
    launchPc = "launched" =>
        /\ target \in ToSet(Targets) /\ target.kind # "LiveShare" /\ lastPath = target.path
        /\ Command = "dotnet" => DotnetResolves /\ launchPath.binary \in Dlls
        /\ Command = "mono" => MonoResolves
        /\ Command \in {"cmd", "mono"} => launchPath.binary # "OmniSharp.dll"
        /\ Command = "itself" => launchPath.version = "user"

\* A start with a project in the workspace comes to an end, unless the file came
\* after the search and before the watcher, or the user leaves the selector open
\* (server.ts:676-699).
AutoStartEnds ==
    (launchPc = "search" /\ \E f \in ToSet(files) : f.kind \in ProjectKinds)
        ~> (launchPc \in Ended \cup {"select"})
=============================================================================
