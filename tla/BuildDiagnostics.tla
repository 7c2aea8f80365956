---------------------------- MODULE BuildDiagnostics ----------------------------
(***************************************************************************)
(* The diagnostics of a build next to the live ones:                       *)
(* BuildDiagnosticsService (lsptoolshost/diagnostics/                      *)
(* buildDiagnosticsService.ts), called by C# Dev Kit through               *)
(* BuildResultDiagnostics (buildResultReporterService.ts) and by the       *)
(* language server when a C# file is opened.                               *)
(*                                                                         *)
(* A diagnostic is an identity with a code of some kind.  What is displayed *)
(* of a file is a set of pairs <<diagnostic, part>>: the part of           *)
(* filterDiagnosticsFromBuild that lists it, so that a diagnostic listed   *)
(* twice is two pairs.                                                     *)
(***************************************************************************)
EXTENDS Naturals, FiniteSets

CONSTANTS
    Files,
    Diags,          \* the diagnostics a build may report
    CodeOf,         \* the kind of each one's code
    BuildOnly,      \* those with a build-only id
    Reports,        \* what a build may report: file -> diagnostics
    Scopes,         \* the values the two diagnostic scopes may have
    MaxBuilds,      \* bound: builds
    MaxOpens        \* bound: files opened

CodeKinds == {"compiler", "analyzer", "projectSystem", "none"}
AnalysisSettings == {"fullSolution", "openFiles", "none"}

ASSUME DiagnosticsAssumption ==
    /\ CodeOf \in [Diags -> CodeKinds]
    /\ BuildOnly \subseteq Diags
    /\ \A r \in Reports : DOMAIN r \subseteq Files /\ \A f \in DOMAIN r : r[f] \subseteq Diags
    /\ Scopes \subseteq AnalysisSettings
    /\ MaxBuilds \in Nat /\ MaxOpens \in Nat

VARIABLES
    analyzerScope,  \* the settings, read by every filtering
    compilerScope,
    open,           \* the files open in an editor
    openings,       \* <<file, n>>: onDidOpenTextDocument awaits the build-only ids
    opens,          \* files opened so far
    dropped,        \* files whose request for the ids failed while they were open
    build,          \* "none", "building", "awaiting" or "reported"
    builds,         \* builds begun
    awaiting,       \* the report that awaits the build-only ids
    all,            \* _allBuildDiagnostics
    displayed       \* _diagnosticsReportedByBuild

settingVars == <<analyzerScope, compilerScope>>
fileVars == <<open, openings, opens, dropped>>
vars == <<settingVars, fileVars, build, builds, awaiting, all, displayed>>

NoReport == [f \in {} |-> {}]

Init ==
    /\ analyzerScope \in Scopes /\ compilerScope \in Scopes
    /\ open = {} /\ openings = {} /\ opens = 0 /\ dropped = {}
    /\ build = "none"
    /\ builds = 0
    /\ awaiting = NoReport
    /\ all = NoReport
    /\ displayed = [f \in Files |-> {}]

-----------------------------------------------------------------------------
(* filterDiagnosticsFromBuild *)

IsCompiler(d) == CodeOf[d] = "compiler"
IsAnalyzer(d) == CodeOf[d] \in {"analyzer", "projectSystem"}
IsProjectSystem(d) == CodeOf[d] = "projectSystem"

\* No live diagnostics of this scope are shown for the file.
NotLive(scope, isOpen) == scope = "none" \/ (scope = "openFiles" /\ ~isOpen)

Filter(list, ids, isOpen) ==
    IF analyzerScope = "none" /\ compilerScope = "none"
    THEN list \X {"all"}
    ELSE ({d \in list : IsProjectSystem(d)} \X {"projectSystem"})
         \cup ((list \cap ids) \X {"buildOnly"})
         \cup (IF NotLive(analyzerScope, isOpen)
               THEN {d \in list \ ids : IsAnalyzer(d)} \X {"analyzer"} ELSE {})
         \cup (IF NotLive(compilerScope, isOpen)
               THEN {d \in list \ ids : IsCompiler(d)} \X {"compiler"} ELSE {})

-----------------------------------------------------------------------------
(* Builds *)

\* buildStarted: the displayed diagnostics are cleared, _allBuildDiagnostics is
\* not.  Dev Kit runs one build at a time.
\* Mutant: nothing is cleared.
BuildStartedKeeps ==
    /\ build # "awaiting"
    /\ builds < MaxBuilds
    /\ builds' = builds + 1
    /\ build' = "building"
    /\ UNCHANGED <<displayed, settingVars, fileVars, awaiting, all>>

BuildStarted ==
    /\ build # "awaiting"
    /\ builds < MaxBuilds
    /\ builds' = builds + 1
    /\ build' = "building"
    /\ displayed' = [f \in Files |-> {}]
    /\ UNCHANGED <<settingVars, fileVars, awaiting, all>>

\* reportBuildResult, up to the await of the build-only ids.
ReportBuildResult(r) ==
    /\ build = "building"
    /\ build' = "awaiting"
    /\ awaiting' = r
    /\ UNCHANGED <<settingVars, fileVars, builds, all, displayed>>

\* setBuildDiagnostics: the report is kept, and filtered for the files it names
\* by whether they are open now.  There are no ids while the server is down.
\* Mutant: every file is taken to be open.
SetBuildDiagnosticsAllOpen(ids) ==
    /\ build = "awaiting"
    /\ build' = "reported"
    /\ all' = awaiting
    /\ awaiting' = NoReport
    /\ displayed' = [f \in Files |->
         IF f \in DOMAIN all' THEN Filter(all'[f], ids, TRUE) ELSE displayed[f]]
    /\ UNCHANGED <<settingVars, fileVars, builds>>

\* Mutant: the files the report does not name are taken out.
SetBuildDiagnosticsReplaces(ids) ==
    /\ build = "awaiting"
    /\ build' = "reported"
    /\ all' = awaiting
    /\ awaiting' = NoReport
    /\ displayed' = [f \in DOMAIN all' |-> Filter(all'[f], ids, f \in open)]
    /\ UNCHANGED <<settingVars, fileVars, builds>>

SetBuildDiagnostics(ids) ==
    /\ build = "awaiting"
    /\ build' = "reported"
    /\ all' = awaiting
    /\ awaiting' = NoReport
    /\ displayed' = [f \in Files |->
         IF f \in DOMAIN all' THEN Filter(all'[f], ids, f \in open) ELSE displayed[f]]
    /\ UNCHANGED <<settingVars, fileVars, builds>>

\* The server does not answer, and the report is lost.
ReportFails ==
    /\ build = "awaiting"
    /\ build' = "none"
    /\ awaiting' = NoReport
    /\ UNCHANGED <<settingVars, fileVars, builds, all, displayed>>

-----------------------------------------------------------------------------
(* Files *)

\* onDidOpenTextDocument, up to the await of the build-only ids.
Open(f) ==
    /\ f \notin open
    /\ opens < MaxOpens
    /\ opens' = opens + 1
    /\ open' = open \cup {f}
    /\ openings' = openings \cup {<<f, opens'>>}
    /\ UNCHANGED <<dropped, settingVars, build, builds, awaiting, all, displayed>>

\* _onFileOpened: what the last build reported for the file is filtered as for an
\* open file, which it may no longer be.
\* Mutant: the file is left as it is.
OnFileOpenedSkips(o, ids) ==
    /\ o \in openings
    /\ openings' = openings \ {o}
    /\ UNCHANGED <<displayed, open, opens, dropped, settingVars, build, builds, awaiting, all>>

OnFileOpened(o, ids) ==
    /\ o \in openings
    /\ openings' = openings \ {o}
    /\ displayed' = IF o[1] \in DOMAIN all
                    THEN [displayed EXCEPT ![o[1]] = Filter(all[o[1]], ids, TRUE)]
                    ELSE displayed
    /\ UNCHANGED <<open, opens, dropped, settingVars, build, builds, awaiting, all>>

\* The request is cancelled or fails: the file is not filtered.
OpenRequestFails(o) ==
    /\ o \in openings
    /\ openings' = openings \ {o}
    /\ dropped' = dropped \cup {o[1]}
    /\ UNCHANGED <<open, opens, settingVars, build, builds, awaiting, all, displayed>>

\* Nothing listens to it.
Close(f) ==
    /\ f \in open
    /\ open' = open \ {f}
    /\ UNCHANGED <<openings, opens, dropped, settingVars, build, builds, awaiting, all, displayed>>

Next ==
    \/ BuildStarted \/ ReportFails
    \/ \E r \in Reports : ReportBuildResult(r)
    \/ \E ids \in {BuildOnly, {}} :
          \/ SetBuildDiagnostics(ids)
          \/ \E o \in openings : OnFileOpened(o, ids)
    \/ \E o \in openings : OpenRequestFails(o)
    \/ \E f \in Files : Open(f) \/ Close(f)

Spec == Init /\ [][Next]_vars

-----------------------------------------------------------------------------
(***************************************************************************)
(* Properties                                                              *)
(***************************************************************************)

Parts == {"all", "projectSystem", "buildOnly", "analyzer", "compiler"}
IsReport(r) == DOMAIN r \subseteq Files /\ \A f \in DOMAIN r : r[f] \subseteq Diags

\* The type of every variable; a report is awaited only between its call and the
\* answer of the server.
TypeOK ==
    /\ analyzerScope \in AnalysisSettings /\ compilerScope \in AnalysisSettings
    /\ open \subseteq Files /\ dropped \subseteq Files
    /\ openings \subseteq Files \X Nat
    /\ opens \in Nat /\ builds \in Nat
    /\ build \in {"none", "building", "awaiting", "reported"}
    /\ IsReport(awaiting) /\ IsReport(all)
    /\ displayed \in [Files -> SUBSET (Diags \X Parts)]

\* What the live diagnostics of an open file cover is not displayed.
OnlyBuildKnows(f) ==
    \A p \in displayed[f] :
        /\ p[2] = "analyzer" => analyzerScope = "none"
        /\ p[2] = "compiler" => compilerScope = "none"

\* "When live diagnostics are available for a file, these are errors that only
\* build knows about" (buildDiagnosticsService.ts:18): once the handler of its
\* opening has run, an open file shows no diagnostic of the build that live
\* analysis reports too, whichever of the report and the opening came first.
OpenFilesShowBuildErrors ==
    \A f \in open \ dropped : (\A o \in openings : o[1] # f) => OnlyBuildKnows(f)

\* "All the build results sent by the DevKit extension"
\* (buildDiagnosticsService.ts:15): once a build has reported, what is displayed
\* is of its report.
DisplayedIsOfLastReport ==
    build = "reported" =>
        \A f \in Files : \A p \in displayed[f] : f \in DOMAIN all /\ p[1] \in all[f]

\* "When live diagnostics aren't loaded for a file, then these are all of the
\* diagnostics reported by the build" (buildDiagnosticsService.ts:19): while no
\* file was opened, and neither scope is the full solution, every diagnostic with
\* a code is displayed of the last report, for the files it names, and nothing of
\* the reports before.
Coded(ds) == {d \in ds : CodeOf[d] # "none"}
ClosedFilesShowAll ==
    build = "reported" /\ opens = 0 /\ "fullSolution" \notin {analyzerScope, compilerScope} =>
        \A f \in Files : Coded({p[1] : p \in displayed[f]})
                           = IF f \in DOMAIN all THEN Coded(all[f]) ELSE {}
=============================================================================
