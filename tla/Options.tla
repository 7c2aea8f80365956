------------------------------- MODULE Options -------------------------------
(* The settings (shared/options.ts), their migration to new names when the extension
   starts (shared/migrateOptions.ts), what the server is told of them
   (lsptoolshost/options), and the prompts to reload after a change (shared/observers/
   optionChangeObserver.ts, the two registrations and createOptionStream.ts).

   A name is its section and the rest.  The settings are a function from the pairs of
   a name and a scope that are set.  The migration is a sequence of awaited updates,
   between which the window may be closed and the user may edit.               *)
EXTENDS Naturals, Sequences, FiniteSets

LOCAL INSTANCE SequencesExt
LOCAL INSTANCE Functions

CONSTANTS
    Values,             \* what a user may set
    UserSettings,       \* settings an installation may begin with
    MigratedHere,       \* the options of MigrateOptionNames that are migrated step by step
    Followed,           \* the relevant options that are compared, of those that can change here
    MaxStarts, MaxEdits

VARIABLES
    settings,
    first,              \* the settings before the first migration
    useOmnisharp,       \* the server of this session
    phase,              \* of a start: "closed", "migrating", "running"
    remaining,          \* options still to be migrated
    updates,            \* updates of the current option, still to be awaited
    configuration,      \* getConfiguration() at the begin of the migration
    oldOptions,         \* the values HandleOptionChanges compares with
    pending,            \* a change event that affects the sections listened to
    asked,              \* the values the user was last asked to reload for
    overwritten,        \* names and scopes an update or the user gave a new value
    starts, edits

vars == <<settings, first, useOmnisharp, phase, remaining, updates, configuration, oldOptions,
          pending, asked, overwritten, starts, edits>>

-----------------------------------------------------------------------------
(* Names.                                                                    *)

Dotnet(rest) == <<"dotnet", rest>>
CSharp(rest) == <<"csharp", rest>>
Omnisharp(rest) == <<"omnisharp", rest>>

\* The names each option is read by, the newest first.  A name that has an option to
\* itself is written as that option after its section.
ParameterHints ==
    {"inlayHintsEnableForParameters", "inlayHintsForLiteralParameters", "inlayHintsForObjectCreationParameters",
     "inlayHintsForIndexerParameters", "inlayHintsForOtherParameters",
     "inlayHintsSuppressForParametersThatDifferOnlyBySuffix",
     "inlayHintsSuppressForParametersThatMatchMethodIntent",
     "inlayHintsSuppressForParametersThatMatchArgumentName"}
TypeHints ==
    {"inlayHintsEnableForTypes", "inlayHintsForImplicitVariableTypes", "inlayHintsForLambdaParameterTypes",
     "inlayHintsForImplicitObjectCreation"}

CommonNames(option) ==
    CASE option = "waitForDebugger" -> <<Dotnet("server.waitForDebugger"), Omnisharp("waitForDebugger")>>
      [] option = "serverPath" -> <<Dotnet("server.path"), Omnisharp("path"), CSharp("omnisharp")>>
      [] option = "disableAIFeatures" -> << <<"chat", option>> >>
      [] option = "defaultSolution" -> <<Dotnet(option), Omnisharp("defaultLaunchSolution")>>
      [] option = "runSettingsPath" -> <<Dotnet(option), Omnisharp("testRunSettings")>>
      [] option = "unitTestDebuggingOptions" -> <<Dotnet(option), CSharp(option)>>
      [] option \in {"useOmnisharpServer", "organizeImportsOnFormat"} -> <<Dotnet(option)>>
      [] OTHER -> <<>>

OmnisharpNames(option) ==
    CASE option = "enableImportCompletion" -> <<Dotnet(option), Omnisharp(option)>>
      [] option \in {"showReferencesCodeLens", "showTestsCodeLens"} \cup ParameterHints ->
             <<Dotnet(option), CSharp(option)>>
      [] option \in TypeHints -> <<CSharp(option), CSharp("types." \o option)>>
      [] option \in {"showOmnisharpLogOnError", "useFormatting", "filteredSymbolsCodeLens",
                     "disableCodeActions", "useSemanticHighlighting", "suppressDotnetRestoreNotification",
                     "maxProjectFileCountForDiagnosticAnalysis"} -> <<CSharp(option)>>
      [] option \in {"useModernNet", "monoPath", "loggingLevel", "autoStart", "projectFilesExcludePattern",
                     "projectLoadTimeout", "maxProjectResults", "useEditorFormattingSettings",
                     "enableEditorConfigSupport", "enableDecompilationSupport", "enableAsyncCompletion",
                     "disableMSBuildDiagnosticWarning", "minFindSymbolsFilterLength", "maxFindSymbolsItems",
                     "enableMsBuildLoadProjectsOnDemand", "sdkPath", "sdkVersion", "sdkIncludePrereleases",
                     "dotNetCliPaths", "enableLspDriver", "dotnetPath"} -> <<Omnisharp(option)>>
      [] OTHER -> <<>>

LanguageServerNames(option) ==
    IF option \in {"documentSelector", "extensionsPaths", "preferCSharpExtension", "startTimeout",
                   "crashDumpPath", "analyzerDiagnosticScope", "compilerDiagnosticScope", "componentPaths",
                   "enableXamlTools", "suppressLspErrorToasts", "suppressMiscellaneousFilesToasts",
                   "useServerGC", "reportInformationAsHint", "environmentVariables",
                   "sourceGeneratorExecution", "toolingRuntimePath"}
    THEN <<Dotnet(option)>> ELSE <<>>

NamesOf(option) == CommonNames(option) \o OmnisharpNames(option) \o LanguageServerNames(option)

\* The array migrateOptions, but for the names of options only the server reads.
MigratedOptions ==
    {"defaultSolution", "runSettingsPath", "unitTestDebuggingOptions", "showReferencesCodeLens",
     "showTestsCodeLens", "enableImportCompletion"} \cup ParameterHints \cup TypeHints
MigrateOptionNames(option) == [old |-> NamesOf(option)[2], new |-> NamesOf(option)[1]]

DotnetPath == Dotnet("dotnetPath")
ExistingDotnetPath == <<"dotnetAcquisitionExtension", "existingDotnetPath">>

CommonOptionsThatTriggerReload ==
    {"waitForDebugger", "serverPath", "useOmnisharpServer", "disableAIFeatures"}
OmnisharpOptionsThatTriggerReload ==
    {"dotnetPath", "enableMsBuildLoadProjectsOnDemand", "loggingLevel", "enableEditorConfigSupport",
     "enableDecompilationSupport", "enableImportCompletion", "enableAsyncCompletion", "useModernNet",
     "enableLspDriver", "sdkPath", "sdkVersion", "sdkIncludePrereleases", "analyzeOpenDocumentsOnly",
     "enableRoslynAnalyzers"} \cup ParameterHints \cup TypeHints
LanguageServerOptionsThatTriggerReload ==
    {"documentSelector", "preferCSharpExtension", "componentPaths", "enableXamlTools", "useServerGC",
     "reportInformationAsHint", "environmentVariables", "sourceGeneratorExecution", "crashDumpPath",
     "toolingRuntimePath"}

-----------------------------------------------------------------------------
(* Reading.                                                                  *)

Targets == <<"Global", "Workspace", "WorkspaceFolder">>
Unset == "unset"
Default == "default"

\* The names package.json does not register, of those above.  VS Code gives any other
\* one its default, so that it is never undefined.
Unregistered ==
    {<<"chat", "disableAIFeatures">>, CSharp("disableCodeActions"), Dotnet("documentSelector"),
     Dotnet("toolingRuntimePath"), Omnisharp("waitForDebugger"), Omnisharp("path"), CSharp("omnisharp"),
     Omnisharp("defaultLaunchSolution"), Omnisharp("testRunSettings"), CSharp("unitTestDebuggingOptions"),
     Omnisharp("enableImportCompletion"), CSharp("showReferencesCodeLens"), CSharp("showTestsCodeLens"),
     Omnisharp("enableRoslynAnalyzers"), Omnisharp("analyzeOpenDocumentsOnly")}
        \cup {CSharp(option) : option \in ParameterHints} \cup {CSharp("types." \o option) : option \in TypeHints}

At(s, name, scope) == IF <<name, scope>> \in DOMAIN s THEN s[<<name, scope>>] ELSE Unset

\* configuration.get: the narrowest scope that is set.
Get(s, name) ==
    LET set == SelectSeq(Targets, LAMBDA scope : At(s, name, scope) # Unset) IN
    CASE set # <<>> -> At(s, name, Last(set))
      [] set = <<>> /\ name \notin Unregistered -> Default
      [] OTHER -> Unset
Has(s, name) == Get(s, name) # Unset

\* readOptionFromConfig: an old name counts only when the new one is undefined, and only
\* with a value that is true of a condition.
Falsy == {Unset, "false", ""}
ReadOption(s, option) ==
    LET names == NamesOf(option)
        old == SelectSeq(Tail(names), LAMBDA n : Get(s, n) \notin Falsy)
    IN  CASE Get(s, Head(names)) # Unset -> Get(s, Head(names))
          [] Get(s, Head(names)) = Unset /\ old # <<>> -> Get(s, Head(old))
          [] OTHER -> Default

\* Two options of OmniSharp come from an own name, which no package registers any
\* more, and from the scope of the analysis, whose default is of the server in use.
LegacyIsSet(s, legacy) == Get(s, Omnisharp(legacy)) \notin {Unset, Default}
AnalysisScope(s) ==
    CASE ReadOption(s, "analyzerDiagnosticScope") # Default -> ReadOption(s, "analyzerDiagnosticScope")
      [] ReadOption(s, "useOmnisharpServer") = "true" -> "none"
      [] OTHER -> "openFiles"

Flag(holds) == IF holds THEN "true" ELSE "false"
Value(s, option) ==
    CASE option = "enableRoslynAnalyzers" ->
             Flag(LegacyIsSet(s, option) \/ AnalysisScope(s) # "none")
      [] option = "analyzeOpenDocumentsOnly" ->
             Flag(LegacyIsSet(s, option) \/ AnalysisScope(s) = "openFiles")
      [] option = "loggingLevel" ->
             IF ReadOption(s, option) = "verbose" THEN "debug" ELSE ReadOption(s, option)
      [] OTHER -> ReadOption(s, option)

\* What the server gets for an option of a section [language, name, scoped], {} for null.
ClientName(section) == IF section.language \in {"", "csharp"} THEN {section.name} ELSE {}

\* The settings of VS Code itself that stand for an option that has none.
EquivalentVsCodeConfiguration(name) ==
    IF name = <<"codeStyle", "formatting.newLine.endOfLine">> THEN {"lf"} ELSE {}

ReadConfigurations(s, section) ==
    UNION {LET value == Get(s, name) IN
           IF value # Unset THEN {value} ELSE EquivalentVsCodeConfiguration(name) :
           name \in IF section.scoped THEN {} ELSE ClientName(section)}

-----------------------------------------------------------------------------
(* Updates.                                                                  *)

Update(name, scope, value) == [name |-> name, scope |-> scope, value |-> value]

Updated(s, u) ==
    IF u.value = Unset THEN Restrict(s, DOMAIN s \ {<<u.name, u.scope>>})
    ELSE [p \in DOMAIN s \cup {<<u.name, u.scope>>} |-> IF p = <<u.name, u.scope>> THEN u.value ELSE s[p]]

\* The event of an update, for which createOptionStream listens.
Affects(name) == name[1] \in {"dotnet", "omnisharp", "csharp", "chat"}

\* MoveOptionsValue: the new name is written before the old one is removed, scope by scope.
\* Mutant: the old one is removed first.
MoveRemovesFirst(s, from, to) ==
    FlattenSeq([i \in DOMAIN Targets |->
        LET value == At(s, from, Targets[i]) IN
        IF value = Unset THEN <<>>
        ELSE <<Update(from, Targets[i], Unset), Update(to, Targets[i], value)>>])

MoveOptionsValue(s, from, to) ==
    FlattenSeq([i \in DOMAIN Targets |->
        LET value == At(s, from, Targets[i]) IN
        IF value = Unset THEN <<>>
        ELSE <<Update(to, Targets[i], value), Update(from, Targets[i], Unset)>>])

\* migrateSingleDotnetPathValue: a path that does not exist is removed, as is one where
\* the acquisition extension knows a path for this extension already.
MigrateDotnetPathValue(s, scope) ==
    LET value == At(s, DotnetPath, scope) IN
    CASE value = Unset -> <<>>
      [] value # Unset /\ (value = "missing" \/ At(s, ExistingDotnetPath, scope) # Unset) ->
             <<Update(DotnetPath, scope, Unset)>>
      [] OTHER -> <<Update(ExistingDotnetPath, scope, value), Update(DotnetPath, scope, Unset)>>

MigrateDotnetPathOption(s) ==
    IF Value(s, "useOmnisharpServer") = "true"
    THEN MoveOptionsValue(s, DotnetPath, Omnisharp("dotnetPath"))
    ELSE FlattenSeq([i \in DOMAIN Targets |-> MigrateDotnetPathValue(s, Targets[i])])

\* An option is moved when the new name still has its default (shouldMove), by the
\* configuration read before the first update.
ShouldMove(option) ==
    LET m == MigrateOptionNames(option) IN
    Has(configuration, m.old) /\ Get(configuration, m.new) = Default

-----------------------------------------------------------------------------

\* The options the observer of the server compares.
RelevantOptionsOf(omnisharpServer) ==
    Followed \cap (CommonOptionsThatTriggerReload \cup
        IF omnisharpServer THEN OmnisharpOptionsThatTriggerReload ELSE LanguageServerOptionsThatTriggerReload)
RelevantOptions == RelevantOptionsOf(useOmnisharp)

GetLatestRelevantOptions(s) == [o \in RelevantOptions |-> Value(s, o)]

NoOptions == <<>>

Init ==
    /\ settings \in UserSettings /\ first = settings
    /\ phase = "closed" /\ useOmnisharp = FALSE
    /\ remaining = {} /\ updates = <<>> /\ configuration = NoOptions
    /\ oldOptions = NoOptions /\ asked = NoOptions /\ pending = FALSE
    /\ overwritten = {}
    /\ starts = 0 /\ edits = 0

\* activate of main.ts awaits the migration before anything else.
Activate ==
    /\ phase = "closed" /\ starts < MaxStarts
    /\ phase' = "migrating" /\ starts' = starts + 1
    /\ remaining' = MigratedHere \cup {"dotnetPath"}
    /\ configuration' = settings
    /\ UNCHANGED <<settings, first, useOmnisharp, updates, oldOptions, pending, asked, overwritten, edits>>

\* The next option.  The dotnet path reads a configuration of its own; what inspect says
\* of the one read at the begin, after a change, is VS Code's to decide: the values of then
\* or those of now.
MigrateNext(option) ==
    /\ phase = "migrating" /\ updates = <<>>
    /\ option \in remaining /\ (option = "dotnetPath" => remaining = {option})
    /\ remaining' = remaining \ {option}
    /\ \E inspected \in {configuration, settings} :
           updates' = CASE option = "dotnetPath" -> MigrateDotnetPathOption(settings)
                        [] option # "dotnetPath" /\ ShouldMove(option) ->
                               MoveOptionsValue(inspected, MigrateOptionNames(option).old,
                                                MigrateOptionNames(option).new)
                        [] OTHER -> <<>>
    /\ UNCHANGED <<settings, first, useOmnisharp, phase, configuration, oldOptions, pending, asked,
                   overwritten, starts, edits>>

\* One awaited update of the migration.
MigrateUpdate ==
    /\ phase = "migrating" /\ updates # <<>>
    /\ settings' = Updated(settings, Head(updates))
    /\ updates' = Tail(updates)
    /\ overwritten' = IF Head(updates).value # Unset
                      THEN overwritten \cup {<<Head(updates).name, Head(updates).scope>>} ELSE overwritten
    /\ UNCHANGED <<first, useOmnisharp, phase, remaining, configuration, oldOptions, pending, asked, starts, edits>>

\* The observers are registered; the stream gives them a first value at once.
Register ==
    /\ phase = "migrating" /\ updates = <<>> /\ remaining = {}
    /\ phase' = "running" /\ pending' = FALSE
    /\ useOmnisharp' = (Value(settings, "useOmnisharpServer") = "true")
    /\ oldOptions' = [o \in RelevantOptionsOf(useOmnisharp') |-> Value(settings, o)]
    /\ asked' = oldOptions'
    /\ UNCHANGED <<settings, first, remaining, updates, configuration, overwritten, starts, edits>>

\* The user edits the settings, at any time.
UserSets(name, scope, value) ==
    /\ phase # "closed" /\ edits < MaxEdits
    /\ settings' = Updated(settings, Update(name, scope, value))
    /\ settings' # settings
    /\ pending' = (pending \/ (phase = "running" /\ Affects(name)))
    /\ overwritten' = overwritten \cup {<<name, scope>>}
    /\ edits' = edits + 1
    /\ UNCHANGED <<first, useOmnisharp, phase, remaining, updates, configuration, oldOptions, asked, starts>>

\* Mutant: the options of both servers are left out.
HandleOptionChangesOfServer ==
    /\ phase = "running" /\ pending
    /\ pending' = FALSE
    /\ LET new == GetLatestRelevantOptions(settings) IN
       /\ asked' = IF \E o \in RelevantOptions \ CommonOptionsThatTriggerReload : new[o] # oldOptions[o]
                   THEN new ELSE asked
       /\ oldOptions' = new
    /\ UNCHANGED <<settings, first, useOmnisharp, phase, remaining, updates, configuration, overwritten, starts, edits>>

\* HandleOptionChanges: a change of a relevant value shows a prompt, which offers to
\* reload the window or, with OmniSharp, to restart the server.
HandleOptionChanges ==
    /\ phase = "running" /\ pending
    /\ pending' = FALSE
    /\ LET new == GetLatestRelevantOptions(settings) IN
       /\ asked' = IF \E o \in RelevantOptions : new[o] # oldOptions[o] THEN new ELSE asked
       /\ oldOptions' = new
    /\ UNCHANGED <<settings, first, useOmnisharp, phase, remaining, updates, configuration, overwritten, starts, edits>>

\* The window is closed, which may be in the middle of the migration.
Close ==
    /\ phase # "closed"
    /\ phase' = "closed" /\ remaining' = {} /\ updates' = <<>> /\ pending' = FALSE
    /\ oldOptions' = NoOptions /\ asked' = NoOptions /\ configuration' = NoOptions
    /\ UNCHANGED <<settings, first, useOmnisharp, overwritten, starts, edits>>

UserNames == {NamesOf("disableAIFeatures")[1], NamesOf("runSettingsPath")[1], NamesOf("loggingLevel")[1],
              NamesOf("runSettingsPath")[2], NamesOf("useOmnisharpServer")[1]}

Next ==
    \/ Activate \/ MigrateUpdate \/ Register \/ HandleOptionChanges \/ Close
    \/ \E option \in MigratedHere \cup {"dotnetPath"} : MigrateNext(option)
    \/ \E name \in UserNames, scope \in ToSet(Targets), value \in Values \cup {Unset} : UserSets(name, scope, value)

Spec == Init /\ [][Next]_vars

-----------------------------------------------------------------------------

\* A value set under an old name stays under that name or is under the new one, in its
\* scope, whenever the window is closed, unless it was set anew
\* (migrateOptions.ts:235-258).
MigrationKeeps ==
    \A option \in MigratedHere, i \in DOMAIN Targets :
        LET m == MigrateOptionNames(option) scope == Targets[i] value == At(first, m.old, scope) IN
        (value # Unset /\ <<m.old, scope>> \notin overwritten) =>
            value = At(settings, m.old, scope)
                \/ <<m.new, scope>> \in overwritten

\* After a migration that nobody interrupted or edited, the server is answered with the
\* user's value of every option the user had not set under the new name
\* (migrateOptions.ts:109-132, 222-233 with configurationMiddleware.ts:14-47).
MigratedIsServed ==
    (phase = "running" /\ starts = 1 /\ edits = 0) =>
        \A option \in MigratedHere :
            LET m == MigrateOptionNames(option) IN
            (Has(first, m.old) /\ \A i \in DOMAIN Targets : At(first, m.new, Targets[i]) = Unset) =>
                ReadConfigurations(settings, [language |-> "csharp", name |-> m.new, scoped |-> FALSE])
                    = {Get(first, m.old)}

\* A user is asked for a reload after every change of an option that needs one: with no
\* event under way, the values are those of the last prompt or of the start
\* (optionChangeObserver.ts:25-60, createOptionStream.ts:13-21).
AskedAfterChange ==
    (phase = "running" /\ ~pending) => asked = GetLatestRelevantOptions(settings)

OptionsSettle == MigrationKeeps /\ MigratedIsServed /\ AskedAfterChange
=============================================================================
