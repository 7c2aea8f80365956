# Verification of the C# extension for Visual Studio Code

The extension connects VS Code to a C# language server (Roslyn's, or OmniSharp
as the older choice), installs what it needs to run and to debug, and keeps the
editor's and the servers' views of files, projects and diagnostics together.
Nearly all of it is asynchronous TypeScript on one thread: whatever is between
two `await`s runs undisturbed, and anything may run at an `await`. Its hard
errors are of orders: a state read before an `await` and used after it, an event
that answers the wrong question, two commands or two windows at a time, a server
that dies between a question and its answer. This project models those parts in
TLA+, checks them with TLC on small instances, and proves some of the results
with TLAPS for every instance.

Paths in this file and in the modules are relative to `src/` of the repository.

## 1. The system

### Parts that are modelled

| Part | State | Operations | What is hard | What makes it correct |
|---|---|---|---|---|
| **OmniSharp request queues**: `omnisharp/requestQueue.ts`, `prioritization.ts`, handlers of `engines/stdioEngine.ts` | three queues with pending requests and a map of those sent; the next id; the promises of the callers | makeRequest, cancelRequest, the response handler, drain | priorities, full queues, cancellation of sent and unsent requests, answers in any order | nothing lost, doubled or reordered; an edit is never overtaken; every promise settles |
| **OmniSharp life cycle**: `omnisharp/server.ts`, `engines/stdioEngine.ts`, `omnisharpLanguageServer.ts` | `_state`, the engine and its process, provider registrations | start, stop, restart, the "started" event, exit | five awaits in start, a timer racing an event, one bus for all engines | one process, owned by the state; providers of the present engine; every call ends |
| **Razor virtual Html documents**: `lsptoolshost/razor/htmlDocumentManager.ts`, `htmlDocument.ts` | a text and checksum per document, one pending update per path, VS Code's copy | updateDocumentText, getDocument, close | change events without a number, an overwritten promise, a load racing an update | the display converges; a request goes on with the text it asked for; it ends |
| **Project contexts**: `lsptoolshost/projectContext/*`, `workspace/miscellaneousFileNotifier.ts` | three maps that count documents per key, a cancellation source, a timer | refresh on several events, the change command, verification | refreshes that overtake each other, stale answers | exact counts; only the user changes a choice; only the last refresh is verified |
| **Roslyn server life cycle**: `lsptoolshost/server/roslynLanguageServer.ts`, `roslynLanguageClient.ts` | the client's state, the solution or projects held, subscriptions to Dev Kit | open, default search, restart, crash handling, connection to Dev Kit | relaunch by a library, overlapping restarts, two processes that load at any time | every process is told the workspace and the pipe name; a crash is reported once |
| **Build diagnostics**: `lsptoolshost/diagnostics/buildDiagnosticsService.ts` | the last report and what is displayed | a build starts and reports, a file is opened or closed | ids that arrive late, a report racing an opening | an open file shows only what live analysis does not; a closed one shows the report |
| **Package installation**: `packageManager/*`, `installRuntimeDependencies.ts`, `coreclrDebug/activate.ts` | install.Begin, install.Lock and the files on disk, shared by all windows; each window's activation | filter, download with fallback, validate, unpack, lock, activate the debugger | a window killed between two steps, two windows in one folder, partial failure | what is locked is whole; the debugger is launched only when installed; activation ends |
| **Restore, test and attach commands**: `projectRestore/restore.ts`, `testing/unitTesting.ts`, `roslynLanguageServer.ts` | two global flags, listeners of debug sessions | the commands, the server's request to attach | the server leaves while a request is under way, a session that reports before it has started | flags are set exactly while used; every command ends |
| **OmniSharp tests**: `omnisharp/features/dotnetTest.ts` | the static active listener, its socket and file | run, debug, the debugger's messages | a socket shared by all commands, many ways out | only the active listener listens; sockets are closed |
| **OmniSharp over LSP**: `omnisharp/engines/lspEngine.ts` | the client, one task that waits for the projects, retry counters | start, stop, makeRequest | retry by error code, server death while waiting | requests end |
| **Log capture**: `lsptoolshost/logging/*`, levels of `roslynLanguageServer.ts` | the server's and the client's levels, observers, dumps and traces on disk | collect logs, capture for another extension, dispose, changes of levels | captures that overlap, restarts, a trace found by name, failing tools and archives | the levels settle; nothing collected is removed that is not archived |
| **Blazor debugging**: `razor/src/blazorDebug/*` | the tracked sessions, a start listener per launch, a bridge process per URL | resolve a configuration, sessions starting, failing and ending | three sessions started from three places, launches that overlap | the sessions of a launch end together; one bridge per URL |
| **Build and debug assets**: `shared/assets.ts` | `tasks.json` and `launch.json` of each folder, the suppression settings, prompts that are open | addAssetsIfNecessary for all folders at a time, the command, writes | the files are read before a question and written after the answer; the user edits meanwhile; one folder fails or is cancelled | an entry of the user's is replaced only after consent to replace, names stay distinct |
| **Process picker**: `shared/processPicker.ts` | none | list and parse the processes of this machine or of a remote one | three tools with other outputs, an order with missing command lines | every process is listed once, in the order promised |
| **OmniSharp launch**: `omnisharp/launcher.ts`, `server.ts` (autoStart), `omnisharpManager.ts`, the two host resolvers | what the searches have found, the target, the path and host | search, choose, select, locate, launch | searches and a watcher with a gap between, bounded results, a path that may not be installed | targets are those of the files found; what is launched is the version asked for, on a host that meets the requirements; it ends |
| **.NET and platform detection**: `shared/platform.ts`, `shared/utils/getDotnetInfo.ts`, `coreclrDebug/util.ts` | none | read the machine and `dotnet --info` | outputs that lack a key or repeat it | the debugger fits the machine it will run on |
| **Options**: `shared/options.ts`, `migrateOptions.ts`, `observers/*`, `lsptoolshost/options/*` | the settings of three scopes, the values last compared with | read with old names, migrate at each start, prompt, answer the server | a start that ends between two awaited updates, an edit meanwhile, old names that only a scope has | a migration loses nothing; the server gets what was migrated; a prompt only after a change |
| **Debug configurations**: `shared/configurationProvider.ts`, `dotnetConfigurationProvider.ts`, `coreclrDebug/provisionalDebugSessionTracker.ts` | listeners for a first session, the sessions tracked until Dev Kit is there | resolve in two stages, start, end, the arrival of Dev Kit | resolutions awaiting a service, sessions that never start, Dev Kit in between, assets that are not found | every session is told the pipe or still tracked; what runs has what it asks for; companions pair up |
| **Activation**: `main.ts`, `activateRoslyn.ts`, `activateOmniSharp.ts`, `lsptoolshost/activate.ts`, `lsptoolshost/dotnetRuntime/*` | the promises other extensions await, the runtime found, the options the server was started with | activate, the start beside it, changes of telemetry and extensions | a start that nobody awaits and that may fail, or never come about | one kind of server, with a runtime that fits; what says it is ready has been; a promise settles, but for starts that never come about |
| **OmniSharp diagnostics**: `omnisharp/features/diagnosticsProvider.ts`, `changeForwarding.ts`, `fileOpenCloseProvider.ts` | the collection, the advisor's counters, two debounced pipes, requests under way | edits, shows, opens, closes, restores, checks and their answers | a debounce that keeps the last document, answers for closed files, a limit that is crossed, restarts | a visible document that rests shows the problems of its text, if the answers about it came in order; nothing is added to a closed file |
| **OmniSharp documents**: `virtualDocumentTracker.ts`, `sourceGeneratedDocumentProvider.ts`, `definitionMetadataDocumentProvider.ts` | the maps of infos and responses | go to a definition, open, update, close | create before update, updates that cross a close, a definition gone to twice | what is shown is what the server gave last; nothing is kept of a closed document |
| **OmniSharp language features**: providers of `omnisharp/features/` | the last completions | conversions of the answers | indices through a filter, overlapping edits, missing ranges | each conversion is what its reference says |
| **Edits of the Roslyn server**: `lsptoolshost/autoInsert/*`, `server/serverCommands.ts`, `diagnostics/nestedCodeAction.ts`, `fixAllCodeAction.ts` | the source of tokens, the registrations, the step of a command | changes sent, what to insert, commit of a completion, nested and fix-all actions | the text changes between request, answer and edit; a retry of an edit that was refused | the last request alone has a token; a command that ends well has applied its edit once |
| **Copilot survey**: `lsptoolshost/copilot/copilotChatSurvey.ts` | two keys shared by all windows | register, probe, ask, snooze, retire | windows that write meanwhile, a server that is ready during the probe | only a choice retires it, and for good |
| **Razor endpoints**: `lsptoolshost/razor/razorEndpoints.ts`, `razor/src/completion`, `formatting`, `folding` | none | convert VS Code's answers for the Html document | positions after the last line, numbers counted from another base | each conversion is what its reference says |

### How the parts interact

* The features of OmniSharp call `OmniSharpServer.makeRequest`, which hands a
  request to the engine of `_state`: `StdioEngine` puts it into the queues,
  `LspEngine` into its client. `DotnetTest` is such a feature.
* `RoslynLanguageServer` owns the client. Project contexts, restore, tests, Html
  documents and build diagnostics send requests through it and subscribe to its
  events (`languageServerEvents.ts`); a stop rejects all requests in flight.
* C# Dev Kit, another extension, runs the builds whose reports reach
  `BuildDiagnosticsService` and a server to which Roslyn's is connected.
* The windows of a user share the extension's folder: `PackageInstall` is the
  one part whose state outlives a window; the settings of `Options` and the
  files of `BuildAssets` are the user's and outlive it too.
* `activate()` runs the migration, then the installation, then starts one of
  the two servers without awaiting it; whatever needs the server awaits the
  promise that `Activation` models. `OmniSharpLaunch` is what precedes the
  `start` that `OmniSharpServer` models.
* A configuration that `DebugSessions` resolves may need assets (`BuildAssets`),
  a process (`ProcessPicker`) or the projects of one of the two servers.
* OmniSharp's providers (diagnostics, documents, language features) are made at
  each start of its server and send their requests through the queues.

### Parts that are not modelled

They are listed, each with its reason, as `not_modelled` components in
`PROJECT.json`: the middleware of OmniSharp, server extensions and components,
source generators and toasts, observers that turn an event into a text, telemetry,
and parts that only declare types or forward calls (`protocol.ts`, both
`vscodeAdapter.ts`). Section 7 says which are to come.

## 2. Modules

Each module begins with the entry points it models. The names of variables and
actions are those of the code, and an action is all that runs from one `await`
to the next. Comments give `file:line` where a guard or an order comes from.

* **RequestQueue** – `pending`, `waiting`, `nextId` are the queues' `_pending`,
  `_waiting` and the engine's `_nextId`; `owed` is what the process has read.
  `MakeRequest`, `Cancel` and `HandleResponsePacket` each end with the drain the
  code ends with, or without it where the code does not drain.
* **RequestService** – the abstract service: requests of a class of a given
  capacity are queued, sent, settled or dropped, the urgent ones first.
  `RequestQueue` refines it, with `Status` as the mapping.
* **OmniSharpServer** – `pc[c]` is the `await` that a call is at; `Continue` its
  next stretch of code. `loaders` and `ready` keep the order of the listeners of
  the shared bus, since a "started" event resolves all of them.
* **HtmlDocuments** – one Razor file. `pending` is the entry of
  `pendingUpdates`, `wire` and `loading` the side of VS Code, which loads a
  document, ignores changes of closed ones, and applies the others in order.
* **ProjectContext** – `uriKey`, `context` and `refCount` are the three maps of
  the service; a cancellation source is a number.
* **RoslynServer** – `held` is `_solutionFile` or `_projectFiles`, `told` what
  the present process knows, `devKit`, `connecting` and `listeners` the
  subscriptions of `_sendBuildHost...` to the other extension.
* **BuildDiagnostics** – `all` and `displayed` are `_allBuildDiagnostics` and the
  collection. A displayed diagnostic carries the part of the filter that listed
  it, so a duplicate is visible.
* **PackageInstall** – `folder`, `begin`, `lock`, `content` are the disk; `pc`,
  `todo`, `buffer`, `writes` and `status` are a window's and are gone when it is
  closed or killed. `lost` is history: the files whose last write ended with its window or
  failed.
* **RoslynCommands**, **DotnetTest**, **LspEngine** – three small features.
  **OmniSharpLaunch** – `launchPc` is the step from the search to the process;
  `missed` are files created after the search and before the watcher.
  **Activation** – `step` is where `activate()` is; `server`, `debugger`, `razor`
  and `projects` are the promises that go on beside it, `omniSharp` is the server of
  that name, whose starts fire ServerStart or end without, and `finished` what another
  extension's `initializationFinished()` awaits. **Features** is the union of the
  five: one is at work, chosen in the initial state, and the others rest. It
  instantiates each module once, so their specifications are used unchanged.
* **LogCapture** – `pc[c]` is where a command is. The levels are pairs of what a
  channel is set to and what the server or its client was told; `traceUpdates`
  counts the updates that have still to run in a turn of their own. `disk` and
  `archive` hold files, known by the command, kind and moment.
* **BlazorDebug** – `sessions` is the sequence of the sessions asked for, `chain`
  the `currentConfigurationIndex` of a launch's listener, `stops` what is left of
  the lists that end siblings. `late` and `crossed` are history.
* **Services** – the union of **ProjectContext**, which it extends, with the two
  modules above; LogCapture is instantiated twice, for the levels and for the
  files, as nothing but the commands' progress connects the two.
* **BuildAssets** – `disk` holds the files, as the sequence of their entries, each
  the user's or the extension's; `auto` and `command` are where the two ways of
  adding assets are; `touched` and `lost` are history.
* **Options** – `settings` maps a pair of a name and a scope to its value;
  `remaining` and `updates` are what a migration has still to do, so that it can
  be interrupted between any two awaited updates.
* **DebugSessions** – each launch has the step it is at; `listeners` and
  `companions` are the pairs of configurations that start each other, `tracking`,
  `sessions` and `pipe` the tracker's fields. A project is its kind, and the projects of
  a service a sequence, since the code takes them by their places.
* **OmniSharpDiagnostics** – `buffer` is what the server knows of a document and
  `shown` the collection; `current` and `all` are the two debounced pipes and
  `checks` the requests under way. The variables called ghosts in its comments
  record which of the orders of section 5 has happened.
* **OmniSharpDocuments** – three kinds of documents that share no state, one at
  work; `known` and `responses` are the provider's maps.
* **ServerEdits** – a text is the number of its changes: `editor` what VS Code has,
  `known` what the server was sent. `inserts` are the requests for what to insert,
  `command` the one command under way and `applying` the edits VS Code was asked for.
* **CopilotSurvey** – `globalState` is what the windows share and `copy` what each
  reads; `survey` is the step of each window, `chosen` history.
* **ProcessPicker**, **DotnetHost**, **LanguageFeatures**, **RazorEndpoints** – functions, each with a
  reference definition written from what it is for. **Algorithms** evaluates one
  on an input: its state is the input, and the invariant a predicate of it.
  **StableSort** is JavaScript's sort.
* **Workspace** – the union of **BuildDiagnostics**, which it extends, with
  BuildAssets, Options, DebugSessions, OmniSharpDiagnostics, OmniSharpDocuments,
  ServerEdits and CopilotSurvey. None of these reads a variable of another; they are
  checked in one run as **Features** and **Services** are. **MCWorkspace** puts Algorithms
  beside it: a behaviour of its `MCSpec` is one of `WorkspaceSpec` in which `input` may
  change too, so that what is proved of `WorkspaceSpec` holds of it.
* **MC...** modules give the instances for TLC; RoslynServer, OmniSharpServer,
  HtmlDocuments and LspEngine need none and are checked with a `.cfg` of their own.
* **RequestQueueProofs**, **RoslynServerProofs**, **OmniSharpServerProofs**,
  **HtmlDocumentsProofs**, **PackageInstallProofs**, **FeaturesProofs**,
  **WorkspaceProofs** and **ServicesProofs** hold the proofs (section 6), each
  about the module it is named for.

## 3. Runs

Every property has a mutant in `PROJECT.json`: a plausible slip in one mapped
definition under which TLC finds the property violated by the same run. A property
of a union, as `OmniSharpInStep` or `AlgorithmsCorrect`, has one for each part that
it speaks of. Some properties are conjunctions whose parts have names: `NoRequestLost`
is `InOnePlace` and `EveryAnswerAwaited`, `SentInOrder` includes `PriorityFirst`,
`ServerHasWorkspace` includes `StateFollowsServer`, `OneServer` includes
`RunningIsOwned`, `AnnouncedOnce` is `PendingVerificationIsOfLastRefresh` and
`NotifiedOnce`, `CapturesEndClean` is `LevelsSettle`, `ObserversEnd` and
`CollectedIsArchived`, `EndTogether` includes `OneBridge`, `UserStateKept` is
`AssetsKept` of the files, `OptionsSettle` of the settings and `SurveyKept` of the survey,
and `EditsFit` is `OneInsert`, `AppliedOnce` and `AskedAfterChange`.

* **request_queue** (`MCRequestQueue.cfg`): one priority, two normal and three
  deferred requests with concurrency 1, so that the capacities are 1, 1 and 2.
  Each queue can be over-full while another has room, the deferred one can hold
  two in flight and one behind, and a cancellation can hit any of the positions.
  Bounds on ids or time are not needed: each request is made once. Symmetry is
  of requests of one command; the run has no liveness. A sixth request of the
  deferred queue is the least with which the order of two waiting behind another
  matters.
* **request_queue_live** (`MCRequestQueueLive.cfg`, of the same module): four requests,
  no symmetry. `EveryPromiseSettles`
  excludes only requests cancelled before they were sent, whose promise the
  code leaves open. `ImplementsService` is the refinement.
* **omnisharp_server**: two callers, five calls. Five suffice for a start, a
  failed restart and two starts over what it left, with one more call between.
  `overlapped` remembers whether calls overlapped: `EveryCallEnds` and the types
  are claimed of all behaviours, the others of calls that follow each other.
* **html_documents**: three updates, two requests. Three updates are one in
  progress, one that replaced its pending entry and one before. `paced` is
  whether each update was sent after the one before was shown.
  **html_documents_seen** is the same model with two updates and shows that
  pace is needed.
* **services**, project contexts: two documents, two keys of two contexts and
  one of the miscellaneous files, three refreshes and a command: two refreshes
  may be stale at a time, and a key can be shared, left and re-entered. Log
  capture: two captures, with two changes of levels or stops for the levels; with
  dumps alone or with a trace, and an old trace on disk or not, for the files. Two
  captures are the least that overlap, and two changes the least that undo each
  other. Blazor: two launches or requests of Dev Kit and four sessions, one more
  than a launch has; the launches are symmetric.
* **roslyn_server**: two solutions and a set of projects, three processes, one
  open by the user, two overlapping restarts. Three processes are one before a
  restart, one after, and one after a crash in between.
* **workspace** (`MCWorkspace.cfg`), build diagnostics: two files, a diagnostic of
  each kind of code, three builds and two openings, all nine settings.
  **build_diagnostics_stale** is that part alone. Assets: two folders, in each
  a library, a console and a web project or one of the two Blazor kinds, files
  that are absent, not JSON, without entries or with the names the code would add,
  and one edit: one edit between any question and its answer is what matters.
  Options: two starts, an edit, values in several scopes and under old names; two
  starts are one that is interrupted and the one after. Debug sessions: two
  launches of each type of configuration, with services that have a library, an
  executable or a WebAssembly project of each kind, in an order that tells the places among
  all from those among the executables, or that do not run. OmniSharp's
  problems: two files of one project, four events, two checks under way; a limit
  of one file, so that two files cross it. Documents: one name, four calls, three
  versions. Server edits: two documents, two changes typed and one command, so that a
  document changes between a request and its edit and a request is superseded from the
  other document. Survey: two windows, one of them closed and opened again.
  Algorithms: every case that the code tells apart, and sequences up to four processes,
  three items or three edits where items can meet.
* **package_install**: two packages of two files. Either two windows meet over the
  debugger, with OmniSharp installed before, or one window is alone and installs both; the
  progress of a window depends on no other. Two closes or kills, failing downloads,
  validations, folders, archives and writes, whose bytes reach the disk whenever they do.
* **features**: three commands, one attach request, two requests to the engine,
  one loss of the Roslyn server and one crash of OmniSharp. The third command is
  the one that meets what two overlapping ones left. Launches: workspaces with
  solutions, projects and scripts in two folders, one file that appears
  meanwhile, hosts that meet the requirements and ones that do not. Activation:
  every kind of platform, installed extension, option and trust that a branch of
  it asks for, and OmniSharp started by itself or by the user as often as its state
  allows. **lsp_engine_other** is the engine alone, with errors of another
  kind.

All bounds are constants with a name (`Max...`), in the guards of the actions
that would go on for ever. The runs do not check for deadlock: each system may
come to rest, when its bounded inputs are used up and in reality when the user
does nothing. That it does not rest too early is what the liveness properties
say.

## 4. Fairness

Only steps the machine takes by itself are fair: an `await` on an operation of
the extension's own (a stat, a spawn, a timer) returns; VS Code applies a change
it accepted; a server that owes an answer, or a rejection, gives one; a debug
session ends. No user action, crash, cancellation, failure or close is fair, and
neither is the "started" event of OmniSharp: its load timer is. In `OmniSharpLaunch`
the searches, the resolvers and the process are fair, a choice of the user's is
not; in `Activation` the steps of `activate()` and of what it started are fair. A start
of OmniSharp that was made ends, in one of the ways of `OmniSharpStarted`, most of which
never fire ServerStart: no fairness chooses among them, and nobody is obliged to start it
again. The parts of
`workspace` have safety properties only. The places
where the code trusts more than that are named in the properties: an
`EveryActivationEnds` may end in a write error that leaves the archive's stream
open, `EveryPromiseSettles` excludes a request cancelled while pending,
`EverySocketCloses` assumes that the server takes note of the stop, and
`InitializationSettles` excludes a server that is never started (`NeverStarted`) and one
that is gone with requests in its queues.

## 5. What the checks show

### Violations

* **html_documents_seen** – the change event of an update resolves the pending
  entry of the path, whichever update it belongs to
  (`lsptoolshost/razor/htmlDocumentManager.ts:55`). A request for update 2 goes
  on while VS Code shows update 1, against the comment at :160-162.
* **build_diagnostics_stale** – `buildStarted` clears the display and not
  `_allBuildDiagnostics` (`lsptoolshost/diagnostics/buildDiagnosticsService.ts:27`):
  a file opened during a build gets the old diagnostics back, and keeps them
  when the new report does not name it.
* **lsp_engine_other** – the retry loop tests the error kept from the attempt
  before (`omnisharp/engines/lspEngine.ts:373`): a request rejected with another
  error is sent for ever.

### Disagreements met while modelling

These appear when a constant or an assumption of a property is changed; the
properties above are stated so that they exclude exactly them.

* *OmniSharp, overlapping starts* – the state is tested before the `await` at
  `omnisharp/server.ts:303` and set after it: two starts launch two processes, where :288
  says that a second one is refused. `OneServer` without `overlapped` shows it, which is
  all that the property says of such calls but the types.
* *OmniSharp, failed start* – a start that fails after it has set `Starting`
  leaves that state; stop does nothing then (:639) and a start is refused (:663
  and :303), so that only a new window helps. `RunningIsOwned` names the state.
* *Project contexts* – the verification of a document that is no longer active
  (`projectContextService.ts:137`) is dropped only by a refresh of a relevant
  document (:148-150): an editor of another kind leaves the timer running.
* *Miscellaneous files* – `NotifiedDocuments` is tested at
  `miscellaneousFileNotifier.ts:42` and added to after the stat at :46. When a
  stat takes longer than the next verified event, the file is warned about
  twice, against the comment at :40: `QuickStat = FALSE` shows it.
* *Build diagnostics* – the display of a closed file stays filtered
  (`buildDiagnosticsService.ts:55`), though :19 says that all diagnostics are
  shown of files without live ones; a NETSDK diagnostic may be listed twice
  (:109, :110); one without a code is listed only when both scopes are "none".
* *Package installation, slow writes* – the streams of the archive's files are
  not waited for (`packageManager/zipInstaller.ts:63`): the Lock file may be
  written before the last bytes, and a window closed then leaves a cut
  file that counts as installed; the next window launches the debugger from it, where
  `coreclrDebug/activate.ts:316` says that it has finished installation.
  `LockedIsWhole` excepts exactly these files (`lost`): without that TLC finds them.
* *Package installation, two windows* – each reads the Lock files once
  (`packageFilterer.ts:34`): a window that is killed while it overwrites files
  another has just locked leaves a package that is locked and not whole, of the files
  whose writes it lost.
* *Package installation, results* – results are kept by id
  (`downloadAndInstallPackages.ts:55`), so of two packages of one id the last
  decides: Windows and macOS on arm64 have two debugger packages, and the debugger may be
  launched with one of them missing. `LaunchMeansInstalled` says a package,
  `OnePackageCorrect` the whole debugger where there is one package. A package that
  `filterOmniSharpPackage` drops has no result (`installRuntimeDependencies.ts:29`),
  which counts as failed. A list with two packages of one id, and a non-empty `Unused`,
  show them.
* *Debugger* – `coreclrDebug/activate.ts:274` launches with the debugger package
  alone, without the `dotnet` command :275 is about.
* *OmniSharp tests* – a second debug command that starts around the `await` at
  `dotnetTest.ts:740` closes a listener that does not listen yet, and that listens
  afterwards; the static of :699 does not know it, and nothing closes it. `ActiveIsOpen` is
  of commands that follow each other; `Overlap = TRUE` shows the others. A debug command of a project that is not an MSBuild project ends with its
  listener open until the next.
* *Log capture, levels* – a capture puts the levels back when it ends whatever
  other capture still runs (`roslynLanguageServer.ts:189-192`), and a change of a
  level or a restart ends the verbosity of a capture under way: the log is then
  quieter than `loggingUtils.ts:498` says. `LevelsSettle` is of the time after.
* *Log capture, observers* – they are made before the `await` of the levels
  (`loggingUtils.ts:505-508`): when the notification is rejected nobody disposes
  them, and they keep every message from then on.
* *Log capture, archive* – nothing listens for an error of the output stream
  (`loggingUtils.ts:324`): the command waits for ever, its levels raised.
* *Log capture, traces* – the trace taken is the latest of the folder
  (`profiling.ts:170`), where :39 says the generated one: when dotnet-trace makes
  none, an older trace of the user is archived and deleted, and of two commands in
  a folder both may take the same.
* *Log capture, dumps* – those taken before a recording that fails stay on disk
  (`collectLogs.ts:425`).
* *Assets* – a configuration for hosted Blazor is missing from the names asked about
  (`shared/assets.ts:908-913`), so it is replaced without a question. An empty
  `tasks.json` throws in the callback of the read, and the check waits for ever; so does
  one whose notification is suppressed. The automatic prompt replaces a `build` task that
  has no group. One folder that fails makes the "Don't Ask Again" of another forgotten
  (:868-883), and a cancelled folder ends the command for those after it.
* *Process picker* – `GetSysNativePathIfNeeded` appends to the path at each call;
  `ConvertTo-Json` of one process is no list; the comparison at `processPicker.ts:350`
  is never zero, and is not symmetric for two processes without command lines, so that
  their order depends on the sort. A host with an empty command line, as `wmic` and `ps`
  give it for a process without arguments, is listed before all others, one whose command
  line is undefined (CIM) after them.
* *OmniSharp launch* – whether a folder has projects and no solution is asked of all
  folders so far (`launcher.ts:160-161`), so that it depends on their order; a file created between the search and the watcher is
  missed (`server.ts:681`, `missed`), and `AutoStartEnds` is of files that the search finds;
  the result of `DownloadAndInstallOmnisharp` is ignored, so that a path is
  launched that is not installed; the requirements are checked with 6.0.0 and
  `dotNetCliPaths`, the host resolved with 6.0.100 and `dotnetPath`.
* *.NET and platform* – of several `Version:` lines of `dotnet --info` the last counts,
  which is the host's; a 32-bit Linux counts as supported though no debugger and no
  OmniSharp for .NET is packaged for it.
* *Options* – `omnisharp.path`, `csharp.omnisharp` and `omnisharp.waitForDebugger` are
  read as old names and never migrated. The migration to `omnisharp.dotnetPath`
  overwrites what is there, as it does without `shouldMove`, and does not await an update
  (`migrateOptions.ts:196`). A migration of several scopes that is interrupted leaves an
  old value of a narrower scope that no longer counts.
* *OmniSharp's own path* – an `omnisharp.path` that is absolute is launched if there is a
  file, whatever it is (`omnisharpManager.ts:42-47`): a dll without the modern .NET is given
  to `cmd` or to mono.
* *Debug sessions* – a session resolved before and started after Dev Kit came up is
  never told the pipe (`configurationProvider.ts:73`, tracker :61-73). The listener of a
  first configuration that never starts stays, and starts its companion with the next
  session of that name, whichever launch it is of (`dotnetConfigurationProvider.ts:170`);
  `CompanionsPaired` counts, and does not say whose session starts which. A selection that
  the user leaves, an executable that is no WebAssembly project and, with Dev Kit, any
  project without a framework of .NET 9 cancel a launch in the browser without a word
  (`configurationProvider.ts:157-176`). The place of a project among all is taken for its
  place among the executables (`dotnetConfigurationProvider.ts:225`, `assets.ts:59-62`):
  with a library before it, a configuration of the type dotnet starts another project than
  its `projectPath` names, or none.
* *Activation* – the promise of OmniSharp is settled by ServerStart alone
  (`omnisharpLanguageServer.ts:349-351`), which a start that ends before its end
  (`server.ts:303-310`, :548-565, :591-594) does not fire: `initializationFinished()` then
  waits for ever, as it does when the server leaves requests in its queues that
  `waitForInitialize` polls (`stdioEngine.ts:295-300`). It may resolve though the server has
  been stopped since. The restart after a change of
  telemetry starts a process with the same options (`roslynLanguageServer.ts:890`); Dev Kit
  that is installed while the server starts, or beside OmniSharp, is not noticed.
* *OmniSharp diagnostics* – the counter of restores is never reset
  (`diagnosticsProvider.ts:22-90`, one advisor for all servers): a server that stops
  during a restore leaves it above zero and nothing is checked any more (`orphans`). The
  debounce keeps the last document only; the analysis that every edit starts, or the check
  of all files, makes up for the one it drops, and no exception is made for it. A restarted server does not know
  unsaved edits until the next one, and a save alone has nothing checked (`behind`). What
  was shown of closed files stays when the limit is crossed. Requests carry no version:
  answers about a document that come out of order, and checks that fail, leave the problems
  of an older text until the next check (`unchecked`), and only documents that an editor
  shows are spoken of.
* *Virtual and generated documents* – going again to a generated document that is open
  gives it a new info: it is no longer updated and the old response is kept
  (`sourceGeneratedDocumentProvider.ts:97-118`; `renavigated`). A virtual document closed
  while it is created gets its contents sent after it was deleted
  (`virtualDocumentTracker.ts:85-101`; `crossed`).
* *Language features* – the items offered in Razor are filtered and then paired with the
  answer by index, so that another item is resolved (`completionProvider.ts:92`); what
  follows an insertion is ignored when its line or column is 0; a class with tests and
  without a range for its name throws, and all lenses of the file are lost; two entries of
  `tokenLegendMap` are off by one; of two changes to one file the last is kept; the title
  of a fix is cut at its first colon. The references exclude exactly these inputs.
* *Auto insert* – an answer that comes in spite of its cancellation, or after more was
  typed, is applied (`onAutoInsert.ts:120-139`); the promise of `applyEdit` is tested and
  not its result (:139), so that a refusal is silent. One source of tokens serves all
  documents: a key in one cancels what another awaits.
* *Server commands* – a complex edit is tried again with the range of the first attempt,
  on whatever the text is by then (`serverCommands.ts:105-127`). A nested action whose path
  has one string is listed without its action and does nothing when chosen
  (`nestedCodeAction.ts:98`). A fix-all that is answered without an edit ends in silence,
  a nested action in an error.
* *Survey* – the window's copy of the shared state may be late: a window can ask after
  another retired the survey. That keys are written one by one is the code's own account
  of VS Code (`copilotChatSurvey.ts:12-13`).
* *Razor completion* – the kind 0, `Text`, is not made 1 (`completionHandler.ts:55`), and a
  range for inserting only is dropped (:141).
* *Blazor, overlapping launches* – a second launch clears the tracked sessions
  of the first (`blazorDebugConfigurationProvider.ts:139`), which then do not end
  together. The listener of a launch whose app never starts stays (:243) and
  starts its browser when the app of the next launch does, as the apps have one
  name. `crossed` excludes both.
* *Blazor, tracking* – it is on until a tracked session ends (:106): a session of
  the user's that starts meanwhile is stopped with the others. A browser that
  starts after the app has ended is not tracked and goes on (`late`).

## 6. Proofs

`tlapm` checks the eight proof modules to the last leaf. Each theorem below is for every
value of the constants that satisfies the assumption named; the runs show the same
property on a small instance. Every inductive invariant was checked by TLC on the
instance of its run before it was proved. A step of a feature or service leaves the
variables of the others alone, so that the invariants of the unions are conjunctions
that are proved one by one.

* **RequestQueueProofs** (`ConcurrencyAssumption`, `CommandAssumption`: any requests,
  commands and concurrency). `TypeCorrect` and `CapacityCorrect`: the invariant is
  `TypeOK /\ CapacityRespected`; the capacity needs the types, and the types (ids are
  below `nextId`) need that what drain sends gets fresh ids. The argument is about
  `drain`, which sends at most as many requests of a queue as `freeSlots` says.
  `NothingLost`: the invariant `Placed` adds that a request is listed once, that it is of
  its queue, and that ids are not shared (`Tidy`); without that a response could take
  another request's place. `OrderCorrect`: what a queue sends is the front of its list,
  and no drain gets to the other queues while the priority queue is not empty.
  `ServiceImplemented` is the refinement of `RequestService`: each step of the queues maps
  to a step or stutter of the service.
* **RoslynServerProofs** (`ServerAssumption`: any finite set of solutions, restarts and
  processes). `WorkspaceTold` and `CrashReported`. That no session is reported twice
  depends on `_hasShownConnectionClose` being true exactly when the present session was
  reported, and on the sessions to come being unreported (`ReportedBeforeCrash`).
* **OmniSharpServerProofs** (`CallAssumption`: any callers and number of calls).
  `OneServerCorrect` and `ProvidersCorrect`. The types are claimed of all behaviours: that
  there is a number left for a new engine takes that each call makes one at most
  (`EnginesLeft`). The rest is claimed while no calls overlap (`Sequential`): then what
  each call is at decides which engine is attached, running and registered (`Alone`).
* **HtmlDocumentsProofs** (`UpdateAssumption`: any updates and requests).
  `ConvergesCorrect`: between updates the last text on its way, being loaded or on
  display is that of the last update (`Latest`). `SeenCorrect`, of paced updates: the text
  of a request under way is shown, given up, on its way with its promise still pending, or
  being loaded, and a promise that was replaced is never resolved (`Shown`).
* **PackageInstallProofs** (`ConstantsAssumption`: any windows, packages, files and number
  of closes). `LockedCorrect`: that a Lock file is written on a whole package needs the
  files handed out so far to be on disk, on their way or lost (`WholeFiles`), which another
  window at the same package keeps so, and what is on its way to have been validated
  (`Downloaded`, `ValidWrites`). Bytes come whenever they do, windows are killed at any
  step, and only files whose last write was lost are excepted.
  `LaunchCorrect` follows from what the result "installed" of an id is known from
  (`Results`), and `OnePackageCorrect` from it where `OneDebuggerPackage`.
* **FeaturesProofs** (`FeatureAssumption`: any finite set of commands, any requests,
  machines and bounds). `FlagsCorrect`: one command at a time is where its flag is set
  (`Commanded`), one test command runs at a time (`OneTest`), and each leaves two stops
  under way at most (`StopsCounted`). `SocketsCorrect`: a listener that does not listen
  yet is known to its command only. `ActivationCorrect` is `ActivationFits`, the part of
  `StartFits` about activation: which kind of server there is is decided once, and what
  follows from it does (`OneKindOfServer`, `Asked`). A start of OmniSharp may end in any of
  its ways and as often as the user makes one; what is resolved was ready, or had been.
* **WorkspaceProofs**, of the builds (`DiagnosticsAssumption`: any files, diagnostics,
  reports, settings and bounds). `TypeCorrect` and `OpenFilesCorrect`:
  `OpenFilesShowBuildErrors` is not inductive, as a report leaves the files it does not
  name as they are. The strengthening adds that between `buildStarted` and the report
  nothing live is displayed (`ClearedByBuild`), and that a file that shows something live
  is one the last report names (`LiveIsReported`). `ClosedFilesCorrect`: while no file was
  opened, the display is empty from the start of a build to its report (`ClosedInv`).
* **WorkspaceProofs**, of parts of `Workspace`: the step of another part leaves the
  variables alone. `EditsCorrect` (any documents, texts and bounds): the changes of a
  document are told of in their order, each later than what the server knows
  (`ToldInOrder`), so that nothing is asked about a version the server has not; and the
  edit of the command is asked for once at a time (`OneAtATime`), so that it is applied
  once. `SessionsCorrect` (`ConfigurationsAssumption`, `EnvironmentsAssumption`: any
  configurations with the fields that are resolved, and the answers of the service, with any
  projects): each launch carries what was resolved of it so far (`ResolvedSoFar`), where the
  assets it was not given are found only of a project that has them (`HasAssets`), one that waits past the
  substitution of variables knows the pipe, is told of it or was resolved early
  (`PipeKnown`), and those that listen for a companion are counted with those started
  (`ListenersFit`). `SurveyCorrect` is the conjunct `SurveyKept` of `UserStateKept`, for
  any windows.
* **WorkspaceProofs**, of OmniSharp (`BoundsAssumption`: any files and projects, any finite
  set of other documents, and bounds that are numbers). `OmniSharpCorrect` is
  `OmniSharpInStep`, of `DiagnosticsInv` and `DocumentsInv`. Neither part of it is
  inductive, because it speaks of states in which nothing is under way. Of the problems:
  of each document that an editor shows, and whose edits reached the server, a check is
  still to come (`Comes`), or the last one under way that covers it finds its text and
  will not be dropped (`LastFinds`); and when each of those under way is overtaken for it,
  what is shown is of its text already (`Settled`). Answers come in any order, and
  the documents that one out of order or a failure leaves behind are excepted
  (`unchecked`); to say which they are takes that a check overtaken for a document is never
  behind one that is not (`OvertakenFirst`), and the ghost `overtaken` of a check is the set
  of the documents that later checks have answered. That a
  closed file stays empty needs that its checks under way are marked (`ClosedMarked`), and
  that no file is kept out while all are checked (`NoneOver`). The lemmas are of one check
  more (`AppendedCheck`) and one less (`OverIs`, `OverKeeps`); `EndsForgetsNone` is the
  step of an answer or failure. Of the documents, by their kind: the last of the requests
  of a virtual document that is not `crossed` or `lagging` carries what the editor shows,
  unless its creation, behind all deletions, is the only one (`LastRequest`); a generated
  document that was not gone to again shows what is kept for its info, which is its alone
  (`ShownIsGiven`, `InfosOfOne`), and what is kept is of open documents (`KeptOfOpen`), so
  that there is no more of it than of documents (`KeptAreFew`); a metadata document is
  opened after its response is kept (`MetadataInv`).
* **ServicesProofs**, of the project contexts (`ContextAssumption`: any finite set of
  documents, any keys and lists). `CountsCorrect`: `updateCaches` keeps its three maps
  together, so that a key in use is counted by its users and has a context (`Caches`; a key
  that a stale choice left a context may have no users), by lemmas on the number of users of a key. `AnnouncedCorrect`: a
  refresh has one query, and while that of the last is open nothing is to be verified
  (`Refreshes`); no file is looked up of a document that was warned about (`Warnings`).
  `ChoiceCorrect` is an action property: no answer changes the context of a key that
  documents use. It was found with this proof that an earlier form of the property said
  less than it was meant to.
* **ServicesProofs**, of the captures and of Blazor (`ServicesAssumption`: any captures
  and changes, any finite set of launches and number of sessions). `CapturesCorrect`: a
  level that is not its channel's is one that a capture has still to put back, or an
  update to come (`Raised`); observers are those of a command that records (`Observed`); a
  dump is its command's own (`OwnDumps`), a trace is made once (`MadeOnce`), and what an
  archive is made of and was not removed meanwhile is in it (`Zipped`). It is proved of
  both instances of LogCapture. `TeardownCorrect`: two launches are alive at once only where
  one was resolved during the other (`Crossed`), so a launch that none crossed is the one
  that is tracked: its running sessions are tracked or to be stopped, and once one has
  ended nothing is tracked any more (`Torn`).

What stays with TLC: every liveness property with its fairness, and ENABLED, which the
prover does not handle (`RequestService` promises no progress, so that its refinement is
proved whole); what a function or a sort computes for inputs of every length
(`AlgorithmsCorrect`, the launch part of `StartFits`, the merge of assets and the sequence
of updates of a migration in `UserStateKept`), which would take an induction over data.

## 7. Plan

Done: the request queues with their abstract service, the OmniSharp and Roslyn
life cycles, the parts that keep documents and diagnostics in step with both
servers, the installation, activation, options, assets, debug configurations, the
commands, the edits of the Roslyn server, log capture, Blazor debugging, the survey, and
the algorithms that keep no state.

What remains, in this order:

1. The rest of parts that are modelled in part: the counts of `dotnetTest.ts`, the
   middlewares of `lspEngine.ts`, the arguments of the servers' processes.
2. The debounced warnings of OmniSharp's observers.

The proof of `OmniSharpInStep` has sharpened it twice. It once excused the documents whose
place another took in the debounce, and the invariant does not need that; it once excused
every document of a check that was overtaken at all, where those matter alone that a later
check has covered. TLC agrees, and it is now stated without either. What is left to prove
without an induction over data is the part of `AssetsKept` and `OptionsSettle`, of
`UserStateKept`, that does not depend on the folds.
