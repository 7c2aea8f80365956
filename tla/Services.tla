------------------------------ MODULE Services ------------------------------
(***************************************************************************)
(* Services of the extension that run beside the language servers and      *)
(* share no state with each other: the project contexts of documents, the  *)
(* capture of logs and the debugging of Blazor apps.  One of them is at    *)
(* work, and the others rest in their initial states.                      *)
(*                                                                         *)
(* The capture of logs is looked at twice: for the levels, with changes of *)
(* them and stops of the server, and for the files, without.               *)
(***************************************************************************)
EXTENDS ProjectContext

CONSTANTS
    Captures,       \* invocations of csharp.collectLogs and captures of others
    Launches,       \* launches of Blazor apps
    NoLaunch,
    MaxChanges,     \* bounds: changes of levels and stops of the server
    MaxSessions     \* and debug sessions

ASSUME ServicesAssumption ==
    /\ MaxChanges \in Nat /\ MaxSessions \in Nat
    /\ IsFiniteSet(Launches) /\ NoLaunch \notin Launches
    /\ "user" \notin Captures

VARIABLES
    service,        \* the one at work
    \* LogCapture
    running, outputVerbose, traceVerbose, serverVerbose, clientVerbose, traceUpdates, changes,
    logPc, logs, observers, restores, dumps, trace, archive, disk,
    \* BlazorDebug
    isTrackingSessions, tracked, stops, blazorPc, app, chain, sessions, bridge, pidByUrl,
    late, crossed

Levels == INSTANCE LogCapture
    WITH Commands <- Captures, pc <- logPc, Selections <- {{"activity"}}
Files == INSTANCE LogCapture
    WITH Commands <- Captures, pc <- logPc, MaxChanges <- 0,
         Selections <- {{"memory"}, {"trace", "memory"}}
Blazor == INSTANCE BlazorDebug WITH pc <- blazorPc

logVars == <<running, outputVerbose, traceVerbose, serverVerbose, clientVerbose, traceUpdates,
             changes, logPc, logs, observers, restores, dumps, trace, archive, disk>>
blazorVars == <<isTrackingSessions, tracked, stops, blazorPc, app, chain, sessions, bridge,
                pidByUrl, late, crossed>>
servicesVars == <<service, vars, logVars, blazorVars>>

\* An open document or an old trace matters only to its own service.
ServicesInit ==
    /\ service \in {"projectContext", "logLevels", "logFiles", "blazorDebug"}
    /\ Init /\ Levels!Init /\ Blazor!Init
    /\ service # "projectContext" => active = NoDoc
    /\ service # "logFiles" => disk = {}

ServicesNext ==
    /\ UNCHANGED service
    /\ \/ /\ service = "projectContext" /\ Next
          /\ UNCHANGED <<logVars, blazorVars>>
       \/ /\ service = "logLevels" /\ Levels!Next
          /\ UNCHANGED <<vars, blazorVars>>
       \/ /\ service = "logFiles" /\ Files!Next
          /\ UNCHANGED <<vars, blazorVars>>
       \/ /\ service = "blazorDebug" /\ Blazor!Next
          /\ UNCHANGED <<vars, logVars>>

ServicesSpec == ServicesInit /\ [][ServicesNext]_servicesVars

-----------------------------------------------------------------------------
(* Properties of the services besides those of ProjectContext.               *)

\* With nothing under way a running server logs at the level of the C# channel and
\* its client traces as the trace channel says (roslynLanguageServer.ts:131-193),
\* and no observer outlives its capture but where raising the levels failed
\* (loggingUtils.ts:500-526).  Dumps a saved command collected are in its archive and
\* off the disk, and nothing collected is removed that no archive holds
\* (loggingUtils.ts:338-372).
CapturesEndClean ==
    Levels!TypeOK /\ Levels!LevelsSettle /\ Levels!ObserversEnd /\ Levels!CollectedIsArchived

\* "captures sessions started during a Blazor debug launch so they can all be torn
\* down together when any one terminates" (blazorDebugConfigurationProvider.ts:70);
\* a URL has at most one listening bridge, the one whose pid is kept (:618-631).
EndTogether == Blazor!TypeOK /\ Blazor!EndTogether /\ Blazor!OneBridge
=============================================================================
