---------------------------- MODULE DebugSessions ----------------------------
(* From a debug configuration to a session: the two configuration providers
   (shared/dotnetConfigurationProvider.ts, shared/configurationProvider.ts with
   shared/workspaceConfigurationProvider.ts), the environment file, the projects a
   server gives for it (IWorkspaceDebugInformationProvider of both servers), and the
   tracker that hands the pipe of C# Dev Kit to the debugger
   (coreclrDebug/provisionalDebugSessionTracker.ts).

   Every launch runs through steps that await a service, a dialog or VS Code, while
   others do the same and C# Dev Kit comes up.  Assets that are generated for a
   configuration are in BuildAssets, the process picker in ProcessPicker.      *)
EXTENDS Naturals, Sequences, FiniteSets, SequencesExt

CONSTANTS
    Launches,           \* launches of a user and the companions they may start
    Configurations,     \* configurations a launch may begin with
    Environments,       \* installation, settings, projects and what the service answers
    EnvironmentFiles    \* the environment file of a configuration, as lines

VARIABLES
    launch,             \* of each launch: its step and what is known of its session
    listeners,          \* listeners for the start of the first of two configurations
    resolutions,        \* how often a companion was promised, by name
    companions,         \* how often one was started, by name
    tracking,           \* _sessions is not undefined
    sessions,           \* _sessions
    pipe,               \* _brokeredServicePipeName is known
    told,               \* sessions that were sent the pipe
    environment

vars == <<launch, listeners, resolutions, companions, tracking, sessions, pipe, told, environment>>

-----------------------------------------------------------------------------
(* What is resolved.                                                         *)

\* loadSettingDebugOptions: a setting that is not empty, where launch.json has none and
\* that is not one of console and debugConsoleVerbosity.
LoadSettingDebugOptions(c) ==
    [c EXCEPT !.option = IF c.option = "" /\ environment.option # "" THEN environment.option ELSE c.option]

\* CreateFromContent: of the lines key = value, those of launch.json win, and then the
\* last; lines that are no pair, comment or blank are warned of.
CreateFromContent(lines, env) ==
    LET pairs == SelectSeq(lines, LAMBDA l : l.kind = "pair" /\ l.key \notin DOMAIN env)
        keys == {pairs[i].key : i \in DOMAIN pairs}
        Final(key) == SelectLastInSeq(pairs, LAMBDA l : l.key = key)
    IN  [env |-> [k \in DOMAIN env \cup keys |-> IF k \in DOMAIN env THEN env[k] ELSE pairs[Final(k)].value],
         warned |-> \E i \in DOMAIN lines : lines[i].kind = "other"]

ParseEnvFile(c) ==
    IF c.envFile = "" THEN c
    ELSE [c EXCEPT !.env = CreateFromContent(EnvironmentFiles[c.envFile], c.env).env, !.envFile = ""]

\* checkForDevCert, which is not asked of Linux, of a remote or of a pipe.
WantsDevCert(c) ==
    /\ ~environment.linux /\ ~environment.remote /\ ~c.pipeTransport
    /\ \/ c.checkForDevCert = "yes"
       \/ c.checkForDevCert = "" /\ c.serverReadyAction /\ c.type = "coreclr"

\* On Apple Silicon, the architecture of the process that was picked.
TargetArchitecture(c, translated) ==
    IF c.type = "coreclr" /\ environment.appleSilicon
    THEN IF translated THEN "x86_64" ELSE "arm64"
    ELSE c.targetArchitecture

\* resolveDotnetDebugConfigurationServiceResult and the provider of projects, which is
\* asked when there is no service: what a dotnet configuration may come to.
ByService(c) ==
    CASE environment.service = "cancelled" -> "cancelled"
      [] environment.service = "error" -> "failed"
      [] environment.service = "one" -> "resolved"
      [] environment.service = "two" -> "resolved"
      [] environment.service = "none of it" -> "failed"

\* The projects the server gives, and of these the executables by their places; a server
\* that does not run, or fails, gives nothing.
WorkspaceDebugInformation == environment.projects
WebAssembly == {"wasm", "wasm8", "wasm9"}     \* without a target framework, before .NET 9, or since
Executables ==
    SelectSeq([i \in DOMAIN WorkspaceDebugInformation |-> i],
              LAMBDA i : WorkspaceDebugInformation[i] # "library")

\* resolveDebugConfigurationWithWorkspaceDebugInformationProvider: the place of the project
\* among all projects selects one of the executables.  One of WebAssembly goes on with the
\* configuration of Blazor.
ByProjects(c) ==
    CASE ~environment.running \/ c.projectPath \notin DOMAIN WorkspaceDebugInformation -> "failed"
      [] c.projectPath \notin DOMAIN Executables -> "failed"
      [] OTHER -> IF WorkspaceDebugInformation[Executables[c.projectPath]] \in WebAssembly
                  THEN "blazor" ELSE "resolved"

ResolveDotnet(c) ==
    CASE c.request # "launch" \/ ~c.folder -> "failed"
      [] c.request = "launch" /\ c.folder /\ environment.service # "" -> ByService(c)
      [] OTHER -> ByProjects(c)

\* The program of a resolved configuration: the service's own, or a project's.
Program(c) == IF environment.service # "" THEN c.program ELSE Executables[c.projectPath]

\* isDotNet9OrNewer: the first WebAssembly project with a target framework decides.
IsDotNet9OrNewer ==
    LET framed == SelectSeq(WorkspaceDebugInformation, LAMBDA k : k \in {"wasm8", "wasm9"})
    IN  framed # <<>> /\ Head(framed) = "wasm9"

\* getAssetsPathAndProgram and, without C# Dev Kit, getNet9WasmAssetsPathAndProgram: the
\* path is not empty if an executable is a WebAssembly project.
AssetsPathAndProgram ==
    /\ environment.running
    /\ \E i \in DOMAIN WorkspaceDebugInformation : WorkspaceDebugInformation[i] \in WebAssembly
    /\ environment.devKit \/ IsDotNet9OrNewer

\* A configuration whose assets are those of a project, unless it names them; the provider
\* of all types here is DotnetWorkspaceConfigurationProvider.
RunsInBrowser(c) == c.type = "monovsdbg_wasm" /\ c.platform = "browser" /\ c.folder

\* provideDebugConfigurations: what is offered when there is no launch.json; of several
\* executables the user selects one, or none.
ProvideDebugConfigurations(folder, selected) ==
    CASE ~folder \/ ~environment.running \/ WorkspaceDebugInformation = <<>> -> {}
      [] Executables # <<>> -> IF Len(Executables) = 1 \/ selected THEN {"generated"} ELSE {}
      [] OTHER -> {"fallback", "attach"}

-----------------------------------------------------------------------------

Idle == [step |-> "idle", config |-> <<>>, pipe |-> FALSE, early |-> FALSE]
Step(l) == launch[l].step
Config(l) == launch[l].config

Init ==
    /\ launch = [l \in Launches |-> Idle]
    /\ environment \in Environments
    /\ listeners = {} /\ resolutions = 0 /\ companions = 0
    /\ tracking = TRUE /\ sessions = {} /\ pipe = FALSE /\ told = {}

Goes(l, step) == launch' = [launch EXCEPT ![l].step = step]
GoesWith(l, step, config) == launch' = [launch EXCEPT ![l].step = step, ![l].config = config]
KeepTracker == UNCHANGED <<tracking, sessions, pipe, told, environment>>
KeepCompanions == UNCHANGED <<listeners, resolutions, companions>>

\* resolveDebugConfiguration: an empty configuration has VS Code ask; one of the type
\* dotnet goes to its service, the others take the settings.
Begin(l, c) ==
    /\ Step(l) = "idle"
    /\ CASE c.type = "" -> GoesWith(l, "noConfiguration", c)
         [] c.type = "dotnet" -> GoesWith(l, "service", c)
         [] OTHER -> GoesWith(l, "substitute", LoadSettingDebugOptions(c))
    /\ KeepCompanions /\ KeepTracker

\* Without C# Dev Kit VS Code then asks for configurations, and the user launches one.
Provide(l) ==
    /\ Step(l) = "noConfiguration" /\ ~environment.devKit
    /\ \E selected \in BOOLEAN :
           Goes(l, IF ProvideDebugConfigurations(Config(l).folder, selected) = {} THEN "failed" ELSE "idle")
    /\ KeepCompanions /\ KeepTracker

\* The answer of the service.  With two configurations, a listener waits for a session
\* with the name of the first and is disposed when it comes.
ServiceAnswers(l) ==
    /\ Step(l) = "service"
    /\ LET result == ResolveDotnet(Config(l)) IN
       /\ IF result = "resolved"
          THEN GoesWith(l, "substitute", [Config(l) EXCEPT !.program = Program(Config(l)), !.type = "coreclr"])
          ELSE Goes(l, result)
       /\ IF result = "resolved" /\ environment.service = "two"
          THEN listeners' = listeners \cup {l} /\ resolutions' = resolutions + 1
          ELSE UNCHANGED <<listeners, resolutions>>
    /\ UNCHANGED companions /\ KeepTracker

\* resolveDebugConfigurationWithSubstitutedVariables, up to its first await.
Substitute(l) ==
    /\ Step(l) = "substitute"
    /\ LET c == Config(l)
           parsed == IF c.request = "launch" THEN ParseEnvFile(c) ELSE c
       IN  IF c.request = "launch" /\ c.envFile \notin DOMAIN EnvironmentFiles \cup {""}
           THEN Goes(l, "failed")
           ELSE launch' = [launch EXCEPT
                    ![l].config = parsed,
                    ![l].pipe = pipe,
                    ![l].step = CASE c.request = "attach" /\ ~c.process -> "pick"
                                  [] ~(c.request = "attach" /\ ~c.process) /\ WantsDevCert(c) -> "certificate"
                                  [] OTHER -> "assets"]
    /\ KeepCompanions /\ KeepTracker

\* A process is picked, or "No process was selected".
Pick(l) ==
    /\ Step(l) = "pick"
    /\ \/ \E translated \in BOOLEAN :
              GoesWith(l, IF WantsDevCert(Config(l)) THEN "certificate" ELSE "assets",
                       [Config(l) EXCEPT !.process = TRUE,
                                         !.targetArchitecture = TargetArchitecture(Config(l), translated)])
       \/ Goes(l, "cancelled")
    /\ KeepCompanions /\ KeepTracker

\* checkForDevCerts: goes on with a certificate or when the dialog is closed, and not when
\* none could be made; "More Information" asks again.
Certificate(l) ==
    /\ Step(l) = "certificate"
    /\ \/ Goes(l, "assets")
       \/ Goes(l, "cancelled")
    /\ KeepCompanions /\ KeepTracker

\* A WebAssembly configuration of a browser that names no assets gets a project's.
Assets(l) ==
    /\ Step(l) = "assets"
    /\ LET c == Config(l)
           wants == RunsInBrowser(c) /\ c.assetsPath = "none"
       IN  IF wants /\ AssetsPathAndProgram
           THEN GoesWith(l, "resolved", [c EXCEPT !.assetsPath = "found", !.program = Head(Executables)])
           ELSE Goes(l, IF wants THEN "cancelled" ELSE "resolved")
    /\ KeepCompanions /\ KeepTracker

\* VS Code starts the session: the tracker and every listener for its name see it.
\* Mutant: the listeners are not disposed.
StartedKeepsListeners(l) ==
    /\ Step(l) = "resolved"
    /\ Goes(l, "running")
    /\ LET mine == {k \in listeners : Config(k).name = Config(l).name} IN
       companions' = companions + Cardinality(mine)
    /\ sessions' = IF tracking THEN sessions \cup {l} ELSE sessions
    /\ UNCHANGED <<resolutions, listeners, tracking, pipe, told, environment>>

Started(l) ==
    /\ Step(l) = "resolved"
    /\ Goes(l, "running")
    /\ LET mine == {k \in listeners : Config(k).name = Config(l).name} IN
       /\ listeners' = listeners \ mine
       /\ companions' = companions + Cardinality(mine)
    /\ sessions' = IF tracking THEN sessions \cup {l} ELSE sessions
    /\ UNCHANGED <<resolutions, tracking, pipe, told, environment>>

\* A task before it fails, or the debugger is not there: no session and no event.
NotStarted(l) ==
    /\ Step(l) = "resolved"
    /\ Goes(l, "failed")
    /\ KeepCompanions /\ KeepTracker

Terminated(l) ==
    /\ Step(l) = "running"
    /\ Goes(l, "ended")
    /\ sessions' = sessions \ {l}
    /\ UNCHANGED <<tracking, pipe, told, environment>> /\ KeepCompanions

\* onCsDevKitInitialized: the sessions that run are told, and tracking is over.
\* Mutant: tracking ends before the sessions are told.
OnCsDevKitInitializedTellsNone ==
    /\ environment.devKit /\ ~pipe
    /\ pipe' = TRUE
    /\ tracking' = FALSE /\ sessions' = {} /\ told' = {}
    /\ launch' = [l \in Launches |-> [launch[l] EXCEPT !.early = Step(l) \in {"pick", "certificate", "assets", "resolved"}]]
    /\ UNCHANGED environment /\ KeepCompanions

OnCsDevKitInitialized ==
    /\ environment.devKit /\ ~pipe
    /\ pipe' = TRUE
    /\ told' = sessions
    /\ tracking' = FALSE /\ sessions' = {}
    /\ launch' = [l \in Launches |-> [launch[l] EXCEPT !.early = Step(l) \in {"pick", "certificate", "assets", "resolved"}]]
    /\ UNCHANGED environment /\ KeepCompanions

Next ==
    \/ OnCsDevKitInitialized
    \/ \E l \in Launches :
           \/ \E c \in Configurations : Begin(l, c)
           \/ Provide(l) \/ ServiceAnswers(l) \/ Substitute(l) \/ Pick(l) \/ Certificate(l) \/ Assets(l)
           \/ Started(l) \/ NotStarted(l) \/ Terminated(l)

Spec == Init /\ [][Next]_vars

-----------------------------------------------------------------------------

\* Once C# Dev Kit is up, a running session knows its pipe, by its configuration or by a
\* request, except one that was resolved before and started after
\* (provisionalDebugSessionTracker.ts:57-73 with configurationProvider.ts:73-76).
SessionsKnowPipe ==
    pipe => \A l \in Launches :
        Step(l) = "running" => launch[l].pipe \/ l \in told \/ launch[l].early

\* Sessions that run are tracked for as long as C# Dev Kit is not there.
TrackedUntilDevKit ==
    sessions = IF tracking THEN {l \in Launches : Step(l) = "running"} ELSE {}

\* A second configuration is started at most as often as one was promised, and one that
\* still waits belongs to a launch that did not start.  Which session starts it is not said:
\* it is the next of the name of the first configuration, another launch's too
\* (dotnetConfigurationProvider.ts:163-175).
CompanionsPaired ==
    /\ companions + Cardinality(listeners) = resolutions
    /\ \A l \in listeners : Step(l) \notin {"idle", "running", "ended"}

\* What runs was resolved: with a process to attach to, the variables of launch.json as
\* they are there, and for WebAssembly in a browser the assets it names or those of a
\* project the server gave, which without C# Dev Kit is one of .NET 9.
SessionsAreResolved ==
    \A l \in Launches : Step(l) = "running" =>
        LET c == Config(l) IN
        /\ c.request = "attach" => c.process
        /\ c.request = "launch" => c.envFile = ""
        /\ c.type # "dotnet"
        /\ \A k \in DOMAIN c.launchEnv : c.env[k] = c.launchEnv[k]
        /\ RunsInBrowser(c) => \/ c.assetsPath = "given"
                               \/ c.assetsPath = "found" /\ AssetsPathAndProgram

SessionsFit == SessionsKnowPipe /\ TrackedUntilDevKit /\ CompanionsPaired /\ SessionsAreResolved
=============================================================================
