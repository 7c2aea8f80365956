------------------------------ MODULE Features ------------------------------
(***************************************************************************)
(* The features of the extension that keep a little state of their own and *)
(* share none with each other: one of them is at work, and the others rest *)
(* in their initial states.                                                *)
(***************************************************************************)
EXTENDS Naturals, FiniteSets, Sequences

CONSTANTS
    Commands,       \* invocations of commands
    Attaches,       \* requests of the server to attach the debugger
    Requests,       \* requests to the OmniSharp engine
    Nobody,
    MaxStops,       \* bounds: how often the Roslyn server goes away
    MaxCrashes,     \* and OmniSharp dies
    Workspaces, NewFiles, Installations, FolderCount, NoTarget, \* OmniSharpLaunch
    Machines        \* Activation

\* What is known of a machine, the extensions installed, the options and the workspace.
MachineRecords ==
    [platform : {"supported", "unsupported", "unknown"}, oldRuntimeExtension : BOOLEAN,
     trusted : BOOLEAN, devKit : BOOLEAN, useOmnisharp : BOOLEAN, debuggerInstalled : BOOLEAN,
     autoStart : BOOLEAN, razorDevMode : BOOLEAN, hasProjects : BOOLEAN, serverPath : STRING, manifest : STRING,
     toolingRuntime : STRING, onPath : BOOLEAN, acquirable : BOOLEAN, disableAI : BOOLEAN,
     crashDumpPath : BOOLEAN, custom : BOOLEAN]

ASSUME FeatureAssumption ==
    /\ IsFiniteSet(Commands) /\ Nobody \notin Commands
    /\ MaxStops \in Nat /\ MaxCrashes \in Nat
    /\ Machines \subseteq MachineRecords

VARIABLES
    feature,        \* the one at work
    \* RoslynCommands
    server, stops, restoreInProgress, testRunInProgress, roslynPc, attach, registered, event, answer,
    \* DotnetTest
    kind, testPc, subscribed, activeInstance, closed, listening, path, connection, launched, stopping,
    \* LspEngine
    client, ready, initializeTask, request, tries, error, rejection, crashes,
    \* OmniSharpLaunch
    files, scanned, missed, launchPc, target, launchPath, hostKind, lastPath, installation,
    \* Activation
    machine, step, chosen, exports, context, serverPromise, omniSharp, razor, hostInfo, options,
    servicesRegistered, debugger, projects, finished, telemetry, prompts

Roslyn == INSTANCE RoslynCommands WITH pc <- roslynPc
Test == INSTANCE DotnetTest WITH pc <- testPc, Overlap <- FALSE, StopFails <- FALSE
Engine == INSTANCE LspEngine WITH Errors <- {"modified", "other"}, MayStop <- TRUE
Launch == INSTANCE OmniSharpLaunch WITH
    environment <- installation, Environments <- Installations
Activating == INSTANCE Activation WITH
    environment <- machine, server <- serverPromise, registered <- servicesRegistered,
    Environments <- Machines

roslynVars == <<server, stops, restoreInProgress, testRunInProgress, roslynPc, attach,
                registered, event, answer>>
testVars == <<kind, testPc, subscribed, activeInstance, closed, listening, path,
              connection, launched, stopping>>
engineVars == <<client, ready, initializeTask, request, tries, error, rejection, crashes>>
launchVars == <<files, scanned, missed, launchPc, target, launchPath, hostKind, lastPath, installation>>
activationVars == <<machine, step, chosen, exports, context, serverPromise, omniSharp, razor, hostInfo,
                    options, servicesRegistered, debugger, projects, finished, telemetry, prompts>>
vars == <<feature, roslynVars, testVars, engineVars, launchVars, activationVars>>

AnyOf(S) == CHOOSE x \in S : TRUE

\* What a debug command does, what is installed and what the workspace holds matters
\* only to its own feature.
Init ==
    /\ feature \in {"roslynCommands", "dotnetTest", "lspEngine", "omniSharpLaunch", "activation"}
    /\ Roslyn!Init /\ Test!Init /\ Engine!Init
    /\ feature # "dotnetTest" => kind = [c \in Commands |-> "run"]
    /\ Launch!Init
    /\ feature # "omniSharpLaunch" =>
           files = AnyOf(Workspaces) /\ installation = AnyOf(Installations) /\ lastPath = <<0, 0>>
    /\ Activating!Init /\ (feature # "activation" => machine = AnyOf(Machines))

Next ==
    /\ UNCHANGED feature
    /\ \/ /\ feature = "roslynCommands" /\ Roslyn!Next
          /\ UNCHANGED <<testVars, engineVars, launchVars, activationVars>>
       \/ /\ feature = "dotnetTest" /\ Test!Next
          /\ UNCHANGED <<roslynVars, engineVars, launchVars, activationVars>>
       \/ /\ feature = "lspEngine" /\ Engine!Next
          /\ UNCHANGED <<roslynVars, testVars, launchVars, activationVars>>
       \/ /\ feature = "omniSharpLaunch" /\ Launch!Next
          /\ UNCHANGED <<roslynVars, testVars, engineVars, activationVars>>
       \/ /\ feature = "activation" /\ Activating!Next
          /\ UNCHANGED <<roslynVars, testVars, engineVars, launchVars>>

\* A feature that rests has no step to take that is fair.
Spec ==
    /\ Init /\ [][Next]_vars
    /\ Roslyn!Fairness /\ Test!Fairness /\ Engine!Fairness
    /\ Launch!Fairness /\ Activating!Fairness

-----------------------------------------------------------------------------
(* Properties, each of one feature.                                          *)

\* The types of all variables of the first three features.
TypeOK == Roslyn!TypeOK /\ Test!TypeOK /\ Engine!TypeOK

\* restoreInProgress and testRunInProgress are set exactly while the one command
\* they let through is under way (restore.ts:76-93, unitTesting.ts:71-78).
FlagsAreExact == TypeOK /\ Roslyn!FlagsAreExact

\* Every restore, test run and attach request comes to an end
\* (restore.ts:86-97, roslynLanguageServer.ts:815-823).
EveryCommandEnds == Roslyn!EveryCommandEnds

\* No debug listener but the active one listens, and it was not closed
\* (dotnetTest.ts:699-702, 762-776).
ActiveIsOpen == Test!ActiveIsOpen

\* A test command ends, and a debug session closes its socket
\* (dotnetTest.ts:795-809).
EverySocketCloses == Test!EverySocketCloses

\* A request whose document was modified under it is answered or given up
\* (lspEngine.ts:370-380).
EveryModifiedRequestEnds == Engine!EveryModifiedRequestEnds

\* OmniSharp is launched on a target that was found, with a host that fits it
\* (launcher.ts:60-220, 273-487), and an extension that is activated has the server,
\* commands and prompts that fit its machine (main.ts:74-160, activateRoslyn.ts).
StartFits == Launch!TargetsFit /\ Launch!LaunchIsSound /\ Activating!ActivationFits

\* A start that finds a project in the workspace comes to an end (server.ts:676-745); one
\* whose project comes between its search and its watcher may not.
AutoStartEnds == Launch!AutoStartEnds

\* Every extension that waits for the initialization is answered when there is a
\* project, with OmniSharp unless no start of it comes about or it is gone with
\* requests in its queues (activateRoslyn.ts:75-79, activateOmniSharp.ts:51-59).
InitializationSettles == Activating!InitializationSettles
=============================================================================
