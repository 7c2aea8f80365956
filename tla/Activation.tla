------------------------------ MODULE Activation ------------------------------
(* The activation of the extension (main.ts, activateRoslyn.ts, activateOmniSharp.ts,
   lsptoolshost/activate.ts, omnisharp/omnisharpLanguageServer.ts): the checks and
   awaits of activate(), the server that is started without being awaited, what other
   extensions wait for with initializationFinished(), the runtime the Roslyn server is
   started with (lsptoolshost/dotnetRuntime) and what it is told of the options
   (getServerExecutableOptions), which later changes do not reach.

   The installations activate() awaits are in PackageInstall, the migration in
   Options, the launch of OmniSharp in OmniSharpLaunch and its starts in
   OmniSharpServer, the life of the Roslyn server in RoslynServer: here a migration
   or an installation ends or fails, and OmniSharp is started or the start comes to
   nothing.                                                                    *)
EXTENDS Naturals, FiniteSets

CONSTANTS Environments      \* machines, installed extensions, options and workspaces

VARIABLES
    environment,
    step,           \* of activate()
    chosen,         \* the server activate() has decided on
    exports,        \* what activate() returned
    context,        \* dotnet.server.activationContext, which enables the commands
    server,         \* the promise of the server: step of its start or its end
    omniSharp,      \* the OmniSharp server itself
    razor,          \* the promise of Razor's extension for OmniSharp
    hostInfo,       \* the runtime found, which is kept for ever
    options,        \* what the server was started with
    registered,     \* commands, debugger and listeners are there
    debugger,       \* the promise of the debugger
    projects,       \* the promise of the first ProjectInitializationComplete
    finished,       \* initializationFinished of an extension that asked: what it awaits
    telemetry,      \* the level of telemetry now
    prompts         \* what the user was told to restart for

vars == <<environment, step, chosen, exports, context, server, omniSharp, razor, hostInfo, options,
          registered, debugger, projects, finished, telemetry, prompts>>

-----------------------------------------------------------------------------
(* The runtime of the Roslyn server.                                         *)

\* getServerPath: the path of an environment variable or the option must exist.
ServerPathExists == environment.serverPath # "missing"

\* getHostExecutableInfo: with Dev Kit an override that is absolute and exists, then a
\* runtime on the path, then one that is there already or is acquired; the manifest of
\* the extension must name a known platform.
HostExecutables ==
    CASE environment.manifest = "invalid" -> {}
      [] environment.manifest # "invalid" /\ environment.devKit /\ environment.toolingRuntime = "valid" ->
             {"tooling"}
      [] environment.manifest # "invalid" /\ ~(environment.devKit /\ environment.toolingRuntime = "valid")
             /\ environment.onPath -> {"path"}
      [] OTHER -> IF environment.acquirable THEN {"acquired"} ELSE {}

\* getServerExecutableOptions: arguments and environment, fixed for every process the
\* client starts.
ServerExecutableOptions ==
    [host |-> hostInfo,
     command |-> IF environment.serverPath = "dll" THEN hostInfo ELSE environment.serverPath,
     telemetryLevel |-> telemetry,
     devKit |-> options.devKit,              \* as it was when the start began
     copilot |-> options.devKit /\ ~environment.disableAI,
     dumps |-> environment.crashDumpPath,
     variables |-> environment.custom]       \* of the user, over all others

-----------------------------------------------------------------------------

NoOptions == [telemetryLevel |-> "", devKit |-> FALSE]

Init ==
    /\ environment \in Environments
    /\ step = "closed" /\ chosen = "none" /\ exports = "none" /\ context = "" /\ server = "none"
    /\ omniSharp = "stopped" /\ razor = "none"
    /\ hostInfo = "" /\ options = NoOptions /\ registered = FALSE
    /\ debugger = "none" /\ projects = FALSE /\ finished = "no"
    /\ telemetry = "on" /\ prompts = {}

\* A new extension host knows nothing of the one before it.
Restarted ==
    /\ step' = "closed" /\ chosen' = "none" /\ exports' = "none" /\ context' = "" /\ server' = "none"
    /\ omniSharp' = "stopped" /\ razor' = "none"
    /\ hostInfo' = "" /\ options' = NoOptions /\ registered' = FALSE
    /\ debugger' = "none" /\ projects' = FALSE /\ finished' = "no"
    /\ prompts' = {} /\ UNCHANGED telemetry

StartUnchanged ==
    UNCHANGED <<context, server, omniSharp, razor, hostInfo, options, registered, debugger, projects,
                finished, telemetry>>

\* activate() up to its first dialog: the platform is asked for and must be supported.
Activate ==
    /\ step = "closed"
    /\ \/ environment.platform = "unknown" /\ step' = "rejected" /\ UNCHANGED <<exports, prompts>>
       \/ environment.platform = "unsupported" /\ step' = "returned" /\ exports' = "null"
              /\ prompts' = prompts \cup {"unsupported"}
       \/ environment.platform = "supported"
              /\ step' = (IF environment.oldRuntimeExtension THEN "dialog" ELSE "migrate")
              /\ UNCHANGED <<exports, prompts>>
    /\ UNCHANGED <<environment, chosen>> /\ StartUnchanged

\* checkDotNetRuntimeExtensionVersion: a version that is too old is updated, and the
\* window reloaded, or the activation fails.
RuntimeExtension ==
    /\ step = "dialog"
    /\ \/ /\ environment' = [environment EXCEPT !.oldRuntimeExtension = FALSE]
          /\ Restarted
       \/ /\ step' = "rejected"
          /\ UNCHANGED <<environment, chosen, exports, prompts>> /\ StartUnchanged

\* The options are migrated, or an update of them rejects; the server is the one that
\* the option and Dev Kit name now, whatever is installed while packages are.
\* Mutant: OmniSharp is used in spite of Dev Kit.
UseOmnisharpServerAnyway == environment.useOmnisharp
UseOmnisharpServer == ~environment.devKit /\ environment.useOmnisharp

Migrated ==
    /\ step = "migrate"
    /\ \/ step' = "install" /\ chosen' = (IF UseOmnisharpServer THEN "omnisharp" ELSE "roslyn")
       \/ step' = "rejected" /\ UNCHANGED chosen
    /\ UNCHANGED <<environment, exports, prompts>> /\ StartUnchanged

\* Packages are installed, or the activation rejects.  An untrusted workspace gets no
\* server, another the one that was chosen, whose start nobody awaits: Roslyn's looks
\* for Dev Kit again, and OmniSharp's is that of Razor's extension too, but for those
\* who develop Razor.
Installed ==
    /\ step = "install"
    /\ \/ /\ step' = "returned"
          /\ exports' = IF environment.trusted THEN chosen ELSE "limited"
          /\ context' = CASE exports' = "limited" -> "Limited"
                          [] exports' = "omnisharp" -> "OmniSharp"
                          [] OTHER -> context
          /\ server' = CASE exports' = "limited" -> "none"
                         [] exports' = "omnisharp" -> "razor"
                         [] OTHER -> "devKit"
          /\ razor' = IF exports' = "omnisharp" /\ ~environment.razorDevMode THEN "activating" ELSE "done"
          /\ debugger' = IF environment.debuggerInstalled /\ exports' # "limited" THEN "activating" ELSE "done"
          /\ options' = [NoOptions EXCEPT !.devKit = environment.devKit]
       \/ step' = "rejected" /\ UNCHANGED <<exports, context, server, razor, debugger, options>>
    /\ UNCHANGED <<environment, chosen, omniSharp, hostInfo, registered, projects, finished, telemetry, prompts>>

\* Trust that is granted restarts the extensions.
GrantTrust ==
    /\ exports = "limited"
    /\ environment' = [environment EXCEPT !.trusted = TRUE]
    /\ Restarted

ActivationUnchanged == UNCHANGED <<environment, step, chosen, exports>>
RoslynUnchanged == UNCHANGED <<hostInfo, options, projects>>
OmniSharpUnchanged == UNCHANGED <<omniSharp, razor>>

\* The Roslyn server: Dev Kit is activated, the server's path checked, the runtime
\* resolved, the options put together, the client started.
DevKitActivated ==
    /\ server = "devKit"
    /\ \/ server' = "resolve"
       \/ options.devKit /\ server' = "rejected"
    /\ ActivationUnchanged /\ OmniSharpUnchanged /\ RoslynUnchanged
    /\ UNCHANGED <<context, registered, debugger, finished, telemetry, prompts>>

ResolveHost ==
    /\ server = "resolve"
    /\ \/ /\ ServerPathExists
          /\ \E host \in HostExecutables : hostInfo' = host /\ server' = "options"
       \/ (~ServerPathExists \/ HostExecutables = {}) /\ server' = "rejected" /\ UNCHANGED hostInfo
    /\ ActivationUnchanged /\ OmniSharpUnchanged
    /\ UNCHANGED <<context, options, registered, debugger, projects, finished, telemetry, prompts>>

PutOptions ==
    /\ server = "options"
    /\ options' = ServerExecutableOptions
    /\ context' = IF options.devKit THEN "RoslynDevKit" ELSE "Roslyn"
    /\ server' = "starting"
    /\ ActivationUnchanged /\ OmniSharpUnchanged
    /\ UNCHANGED <<hostInfo, registered, debugger, projects, finished, telemetry, prompts>>

\* With the client started, everything that needs it is registered.
RoslynStarted ==
    /\ server = "starting" /\ exports = "roslyn"
    /\ \/ server' = "started" /\ registered' = TRUE
       \/ server' = "rejected" /\ UNCHANGED registered
    /\ ActivationUnchanged /\ OmniSharpUnchanged /\ RoslynUnchanged
    /\ UNCHANGED <<context, debugger, finished, telemetry, prompts>>

\* registerProjectInitialization; a workspace without a project sends none.
ProjectInitializationComplete ==
    /\ server = "started" /\ exports = "roslyn" /\ environment.hasProjects /\ ~projects
    /\ projects' = TRUE
    /\ ActivationUnchanged /\ OmniSharpUnchanged
    /\ UNCHANGED <<context, server, hostInfo, options, registered, debugger, finished, telemetry, prompts>>

\* activateOmniSharpLanguageServer: the server for Razor is downloaded, then everything is
\* registered and autoStart called; the promise that is returned waits for ServerStart.
RazorDownloaded ==
    /\ server = "razor"
    /\ \/ /\ server' = "starting" /\ registered' = TRUE
          /\ omniSharp' = IF environment.autoStart /\ environment.hasProjects THEN "starting" ELSE "stopped"
       \/ ~environment.razorDevMode /\ server' = "rejected" /\ UNCHANGED <<registered, omniSharp>>
    /\ ActivationUnchanged /\ RoslynUnchanged
    /\ UNCHANGED <<context, razor, debugger, finished, telemetry, prompts>>

OmniSharpStepUnchanged ==
    /\ ActivationUnchanged /\ RoslynUnchanged
    /\ UNCHANGED <<context, razor, registered, debugger, telemetry, prompts>>

\* The queues of a server that is gone stay as they are, empty or not, for whoever
\* polls them.
QueuesLeft == finished' \in IF finished = "queue" THEN {"debugger", "hung"} ELSE {finished}

\* o.restart, o.pickProjectAndStart and the like.
StartOmniSharp ==
    /\ exports = "omnisharp" /\ registered /\ environment.hasProjects /\ omniSharp \in {"stopped", "dead"}
    /\ omniSharp' = "starting"
    /\ QueuesLeft /\ OmniSharpStepUnchanged /\ UNCHANGED server

\* start: ServerStart is fired, which settles the promise the first time; or the start
\* ends without it, for Live Share or missing requirements, or for a path that does not
\* exist, a process that is not spawned or does not report in time, after which the
\* state stays Starting and no other start gets through.
OmniSharpStarted ==
    /\ omniSharp = "starting"
    /\ \/ omniSharp' = "started" /\ server' = "started"
       \/ omniSharp' \in {"stopped", "stuck"} /\ UNCHANGED server
    /\ OmniSharpStepUnchanged /\ UNCHANGED finished

\* A server is stopped, or dies, which leaves its state as it was.
OmniSharpStops ==
    /\ omniSharp = "started"
    /\ omniSharp' \in {"stopped", "dead"}
    /\ QueuesLeft /\ OmniSharpStepUnchanged /\ UNCHANGED server

\* activateRazorOmniSharpExtension, and coreclr-debug.
RazorActivated ==
    /\ razor = "activating"
    /\ razor' \in {"done", "rejected"}
    /\ ActivationUnchanged /\ RoslynUnchanged
    /\ UNCHANGED <<context, server, omniSharp, registered, debugger, finished, telemetry, prompts>>

DebuggerActivated ==
    /\ debugger = "activating"
    /\ debugger' \in {"done", "rejected"}
    /\ ActivationUnchanged /\ RoslynUnchanged /\ OmniSharpUnchanged
    /\ UNCHANGED <<context, server, registered, finished, telemetry, prompts>>

\* initializationFinished: what is awaited, one after the other, until one rejects.
AskInitialization ==
    /\ exports \in {"roslyn", "omnisharp"} /\ finished = "no"
    /\ finished' = IF exports = "roslyn" THEN "debugger" ELSE "server"
    /\ ActivationUnchanged /\ RoslynUnchanged /\ OmniSharpUnchanged
    /\ UNCHANGED <<context, server, registered, debugger, telemetry, prompts>>

Awaited == {"debugger", "server", "projects", "queue", "razor"}
Pending == finished \in Awaited \cup {"hung"}

Done ==
    \/ finished = "debugger" /\ debugger = "done"
    \/ finished = "server" /\ server = "started" /\ (exports = "omnisharp" => omniSharp \in {"started", "dead"})
    \/ finished = "projects" /\ projects
    \/ finished = "queue" /\ omniSharp = "started"
    \/ finished = "razor" /\ razor = "done"

\* Mutant: only the debugger's promise is awaited with its rejection.
RejectedDebugger == finished = "debugger" /\ debugger = "rejected"
\* With OmniSharp, waitForInitialize throws if the server was stopped again.
Rejected ==
    \/ finished = "debugger" /\ debugger = "rejected"
    \/ finished = "server" /\ server = "rejected"
    \/ finished = "server" /\ exports = "omnisharp" /\ server = "started" /\ omniSharp \notin {"started", "dead"}
    \/ finished = "razor" /\ razor = "rejected"

\* Mutant: the projects are not awaited.
AwaitsNextNoProjects ==
    CASE finished = "server" -> IF exports = "roslyn" THEN "resolved" ELSE "queue"
      [] finished = "queue" -> "debugger"
      [] finished = "debugger" -> IF exports = "roslyn" THEN "server" ELSE "razor"
      [] OTHER -> "resolved"
AwaitsNext ==
    CASE finished = "server" -> IF exports = "roslyn" THEN "projects" ELSE "queue"
      [] finished = "queue" -> "debugger"
      [] finished = "debugger" -> IF exports = "roslyn" THEN "server" ELSE "razor"
      [] OTHER -> "resolved"

InitializationFinished ==
    /\ \/ Done /\ finished' = AwaitsNext
       \/ finished = "queue" /\ omniSharp = "dead" /\ QueuesLeft
       \/ Rejected /\ finished' = "rejected"
    /\ ActivationUnchanged /\ RoslynUnchanged /\ OmniSharpUnchanged
    /\ UNCHANGED <<context, server, registered, debugger, telemetry, prompts>>

\* The client of Roslyn exists, with its listeners.
Listening == exports = "roslyn" /\ server \in {"starting", "started"}

\* A change of telemetry is told to the user once the client exists, with the server's
\* constructor; dotnet.restartServer then starts a process with the same options.
TelemetryChanged ==
    /\ step # "closed" /\ telemetry = "on"
    /\ telemetry' = "off"
    /\ prompts' = IF Listening THEN prompts \cup {"telemetry"} ELSE prompts
    /\ ActivationUnchanged /\ RoslynUnchanged /\ OmniSharpUnchanged
    /\ UNCHANGED <<context, server, registered, debugger, finished>>

\* Dev Kit is installed at any time: a Roslyn server that was started without it offers
\* to reload, unless the listener is not there yet; OmniSharp has none.
DevKitInstalled ==
    /\ step # "closed" /\ ~environment.devKit
    /\ environment' = [environment EXCEPT !.devKit = TRUE]
    /\ prompts' = prompts \cup {IF Listening THEN "devKit" ELSE "unseen"}
    /\ UNCHANGED <<step, chosen, exports>> /\ StartUnchanged

System ==
    \/ Migrated \/ Installed
    \/ DevKitActivated \/ ResolveHost \/ PutOptions \/ RoslynStarted \/ ProjectInitializationComplete
    \/ RazorDownloaded \/ RazorActivated \/ DebuggerActivated \/ InitializationFinished

Next ==
    \/ Activate \/ System \/ OmniSharpStarted
    \/ RuntimeExtension \/ GrantTrust \/ StartOmniSharp \/ OmniSharpStops
    \/ AskInitialization \/ TelemetryChanged \/ DevKitInstalled

\* Promises settle, a start of OmniSharp ends one way or the other, and the queues of one
\* that runs are sent; dialogs, and a server that is not started by itself, wait for a
\* user.  The editor activates the extension when it will.
Fairness == WF_vars(System) /\ WF_vars(OmniSharpStarted)
Spec == Init /\ [][Next]_vars /\ Fairness

-----------------------------------------------------------------------------

\* No server in a workspace that is not trusted; OmniSharp runs beside a Dev Kit only
\* when that came after the choice, of which OmniSharp tells nobody; the commands that
\* are enabled belong to the server there is (main.ts:74-160).
ServerFits ==
    /\ server # "none" => environment.trusted
    /\ server \in {"starting", "started"} =>
           context \in CASE exports = "omnisharp" -> {"OmniSharp"}
                         [] exports = "roslyn" -> {"Roslyn", "RoslynDevKit"}
    /\ (omniSharp # "stopped" /\ environment.devKit) => "unseen" \in prompts

\* initializationFinished means that everything is registered and that the server, the
\* debugger and the projects, or Razor's extension, have been ready; OmniSharp may have
\* been stopped since (activateRoslyn.ts:75-79, activateOmniSharp.ts:51-59).
FinishedMeansReady ==
    finished = "resolved" =>
        /\ server = "started" /\ registered /\ debugger = "done"
        /\ IF exports = "roslyn" THEN projects ELSE razor = "done"

\* A server that reports telemetry at another level than is set now, and one without
\* the Dev Kit that is there now, was said to need a restart, except for a Dev Kit that
\* came during the start, before the client was made (roslynLanguageServer.ts:852-898).
ChangeIsTold ==
    server = "started" /\ exports = "roslyn" =>
        /\ options.telemetryLevel # telemetry => "telemetry" \in prompts
        /\ ~options.devKit /\ environment.devKit => prompts \cap {"devKit", "unseen"} # {}
        /\ options.devKit <=> context = "RoslynDevKit"

ActivationFits == ServerFits /\ FinishedMeansReady /\ ChangeIsTold

\* Every extension that waits is answered when there is a project; with OmniSharp unless
\* no start of the server comes about, which leaves the promise pending for ever
\* (omnisharpLanguageServer.ts:349-351), or it is gone with requests in its queues,
\* which waitForInitialize then polls for ever (stdioEngine.ts:295-300).
NeverStarted == exports = "omnisharp" /\ server = "starting" /\ omniSharp \in {"stopped", "stuck"}

InitializationSettles ==
    (Pending /\ environment.hasProjects) ~> (~Pending \/ NeverStarted \/ finished = "hung")
=============================================================================
