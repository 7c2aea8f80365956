------------------------------ MODULE Workspace ------------------------------
(***************************************************************************)
(* What the extension keeps of the user's workspace, files and settings:   *)
(* the diagnostics of builds (BuildDiagnostics) and the parts that share   *)
(* no state with it nor with each other.  One of them is at work, and the  *)
(* others rest in one of their initial states.                             *)
(***************************************************************************)
EXTENDS BuildDiagnostics, Sequences

CONSTANTS
    Folders, Workspaces, UserFiles,                             \* BuildAssets
    Values, UserSettings, MigratedHere, Followed, MaxStarts,    \* Options
    Launches, Configurations, Environments, EnvironmentFiles,   \* DebugSessions
    Docs, NoDoc, Everything, Projects, MaxEvents, MaxAsked,     \* OmniSharpDiagnostics
    Names, MaxCalls, MaxVersions,                               \* OmniSharpDocuments
    TextDocs, Texts, MaxTyped,                                  \* ServerEdits
    Windows, MaxReloads,                                        \* CopilotSurvey
    MaxEdits                                                    \* of BuildAssets and Options

\* A configuration has the fields that are resolved, with the variables of launch.json, and
\* a type whose sessions are tracked; clr, with a provider of its own, is left out.
ASSUME ConfigurationsAssumption == \A c \in Configurations :
    /\ c = [f \in DOMAIN c |-> c[f]]
    /\ {"type", "request", "folder", "process", "envFile", "env", "launchEnv", "option",
        "targetArchitecture", "platform", "assetsPath", "program"} \subseteq DOMAIN c
    /\ c.type \in {"", "dotnet", "coreclr", "monovsdbg", "monovsdbg_wasm"}
    /\ c.assetsPath \in {"none", "given"}
    /\ c.env = c.launchEnv /\ c.env = [k \in DOMAIN c.env |-> c.env[k]]

\* What the service answers, and whether the server runs.
ASSUME EnvironmentsAssumption == \A e \in Environments :
    e.service \in {"", "cancelled", "error", "one", "two", "none of it"} /\ e.running \in BOOLEAN

\* The bounds, and what is a document and what stands for none or for all.
ASSUME BoundsAssumption ==
    /\ MaxAsked \in Nat /\ MaxCalls \in Nat /\ MaxVersions \in Nat /\ IsFiniteSet(Names)
    /\ NoDoc \notin Docs /\ Everything \notin Docs

VARIABLES
    part,           \* the one at work
    \* BuildAssets
    projects, assetFiles, suppressed, disabled, auto, operations, command, writes, confirmed,
    touched, lost, assetEdits,
    \* Options
    settings, first, useOmnisharp, phase, remaining, updates, configuration, oldOptions,
    pending, reloads, overwritten, starts, settingEdits,
    \* DebugSessions
    launch, listeners, resolutions, companions, tracking, sessions, pipe, told, environment,
    \* OmniSharpDiagnostics
    running, analyzers, disk, text, buffer, opened, visible, shown, restores, counts, current,
    allPending, checks, analysis, underWay, orphans, behind, unchecked, over, events,
    \* OmniSharpDocuments
    documentKind, documentText, source, calls, known, responses, requests, given, renavigated,
    crossed, lagging,
    \* ServerEdits
    editor, sent, changes, handlers, registered, inserts, insertsAsked, editCommand, applying,
    applied, typed,
    \* CopilotSurvey
    globalState, copy, survey, server, listening, completed, chosen, windowReloads

Assets == INSTANCE BuildAssets WITH disk <- assetFiles, edits <- assetEdits
Settings == INSTANCE Options WITH asked <- reloads, edits <- settingEdits
Sessions == INSTANCE DebugSessions
OmniSharp == INSTANCE OmniSharpDiagnostics WITH all <- allPending
Documents == INSTANCE OmniSharpDocuments WITH
    text <- documentText, asked <- requests, told <- given, behind <- lagging
Edits == INSTANCE ServerEdits WITH
    known <- sent, awaiting <- handlers, asked <- insertsAsked, command <- editCommand
Copilot == INSTANCE CopilotSurvey WITH reloads <- windowReloads

assetVars == <<projects, assetFiles, suppressed, disabled, auto, operations, command, writes,
               confirmed, touched, lost, assetEdits>>
optionVars == <<settings, first, useOmnisharp, phase, remaining, updates, configuration,
                oldOptions, pending, reloads, overwritten, starts, settingEdits>>
sessionVars == <<launch, listeners, resolutions, companions, tracking, sessions, pipe, told,
                 environment>>
omniSharpVars == <<running, analyzers, disk, text, buffer, opened, visible, shown, restores,
    counts, current, allPending, checks, analysis, underWay, orphans, behind, unchecked, over, events>>
documentVars == <<documentKind, documentText, source, calls, known, responses, requests, given,
                  renavigated, crossed, lagging>>
editVars == <<editor, sent, changes, handlers, registered, inserts, insertsAsked, editCommand,
              applying, applied, typed>>
surveyVars == <<globalState, copy, survey, server, listening, completed, chosen, windowReloads>>
workspaceVars == <<part, vars, assetVars, optionVars, sessionVars, omniSharpVars, documentVars,
                   editVars, surveyVars>>

\* With none of them at work the algorithms that keep no state may be.
PartNames == {"builds", "assets", "options", "sessions", "omniSharp", "documents", "edits",
              "survey", "none"}

\* A part at rest is in one initial state.
AnyOf(S) == CHOOSE x \in S : TRUE

WorkspaceInit ==
    /\ part \in PartNames
    /\ Init
    /\ part # "builds" => analyzerScope = AnyOf(Scopes) /\ compilerScope = analyzerScope
    /\ Assets!Init
    /\ part # "assets" =>
        /\ suppressed = FALSE
        /\ LET w == AnyOf(Workspaces)
           IN  \A f \in DOMAIN w : /\ projects[f] = w[f].projects
                                   /\ assetFiles[f] = [tasks |-> w[f].tasks, launch |-> w[f].launch]
    /\ Settings!Init /\ (part # "options" => settings = AnyOf(UserSettings))
    /\ Sessions!Init /\ (part # "sessions" => environment = AnyOf(Environments))
    /\ OmniSharp!Init /\ (part # "omniSharp" => analyzers = FALSE)
    /\ Documents!Init /\ (part # "documents" => documentKind = "virtual")
    /\ Edits!Init /\ Copilot!Init

WorkspaceNext ==
    /\ UNCHANGED part
    /\ \/ /\ part = "builds" /\ Next
          /\ UNCHANGED <<assetVars, optionVars, sessionVars, omniSharpVars, documentVars,
                         editVars, surveyVars>>
       \/ /\ part = "assets" /\ Assets!Next
          /\ UNCHANGED <<vars, optionVars, sessionVars, omniSharpVars, documentVars,
                         editVars, surveyVars>>
       \/ /\ part = "options" /\ Settings!Next
          /\ UNCHANGED <<vars, assetVars, sessionVars, omniSharpVars, documentVars,
                         editVars, surveyVars>>
       \/ /\ part = "sessions" /\ Sessions!Next
          /\ UNCHANGED <<vars, assetVars, optionVars, omniSharpVars, documentVars,
                         editVars, surveyVars>>
       \/ /\ part = "omniSharp" /\ OmniSharp!Next
          /\ UNCHANGED <<vars, assetVars, optionVars, sessionVars, documentVars,
                         editVars, surveyVars>>
       \/ /\ part = "documents" /\ Documents!Next
          /\ UNCHANGED <<vars, assetVars, optionVars, sessionVars, omniSharpVars,
                         editVars, surveyVars>>
       \/ /\ part = "edits" /\ Edits!Next
          /\ UNCHANGED <<vars, assetVars, optionVars, sessionVars, omniSharpVars,
                         documentVars, surveyVars>>
       \/ /\ part = "survey" /\ Copilot!Next
          /\ UNCHANGED <<vars, assetVars, optionVars, sessionVars, omniSharpVars,
                         documentVars, editVars>>

WorkspaceSpec == WorkspaceInit /\ [][WorkspaceNext]_workspaceVars

-----------------------------------------------------------------------------
(* Properties, each of one part; those of builds are BuildDiagnostics'.       *)

\* What the user has decided stays: no entry of tasks.json or launch.json is overwritten
\* that the user did not agree to replace, and no file has an entry twice
\* (assets.ts:1020-1057, 892-1005); a migration loses no setting, what it moved is what the
\* server is given, and a reload is asked for only after a change (migrateOptions.ts,
\* optionChangeObserver.ts); the survey is retired by an explicit choice, and by that for
\* good (copilotChatSurvey.ts:12-13).
UserStateKept == Assets!AssetsKept /\ Settings!OptionsSettle /\ Copilot!SurveyKept

\* Of the requests for what to insert the last alone has a token, none is about a text the
\* server does not have, and a command that ends well has applied its edit once, one that
\* fails never (onAutoInsert.ts:15-17, 82-93, serverCommands.ts:118-146).  Late and
\* cancelled answers are applied, and are not spoken of.
EditsFit == Edits!EditsFit

\* A debug session is told the pipe of Dev Kit or tracked until it is there; what runs has
\* the process, variables and assets its configuration asks for; and companions are started
\* at most as often as they were promised, by whichever session of the name comes first
\* (provisionalDebugSessionTracker.ts, configurationProvider.ts, dotnetConfigurationProvider.ts).
SessionsFit == Sessions!SessionsFit

\* Once nothing is under way the problems of a document an editor shows are those of its
\* text, unless its edits did not reach the server or its last check failed or was answered
\* out of order, and none are added to a closed file (diagnosticsProvider.ts:206-321); documents that are no
\* files show what the server gave last, and nothing is kept of a closed one
\* (virtualDocumentTracker.ts, sourceGeneratedDocumentProvider.ts).
OmniSharpInStep == OmniSharp!DiagnosticsFit /\ Documents!DocumentsFit
=============================================================================
